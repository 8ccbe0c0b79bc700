------------------------------ MODULE Windsurf ------------------------------
(***************************************************************************)
(* The Windsurf adapter, over exported chat records. Only the turn is      *)
(* checked against the ids seen; its parts are numbered as they come.      *)
(***************************************************************************)
EXTENDS ChatRecord

EventId(raw) == NativeId(raw.rec.id, raw)

(* Every header binds the project anew; the session is learned once.       *)
ParseSessionStart(ctx, raw) ==
  LET bound == [LearnSession(ctx, raw.rec.session) EXCEPT !.project = raw.rec.cwd]
  IN  MkNew(bound, raw, Draft(EventId(raw), NoId, SessionStart(raw.rec.cwd)))

ToolCalls(turn, calls) ==
  DraftsOf(calls, LAMBDA c, i :
    LET id == OrElse(c.id, <<"call", turn, i>>)
    IN  Draft(<<"toolcall", turn, id>>, turn, ToolCall(id, c.name)))

ToolResults(turn, results) ==
  DraftsOf(results, LAMBDA r, i :
    LET id == OrElse(r.id, <<"result", turn, i>>)
    IN  Draft(<<"toolresult", turn, id>>, turn, ToolResult(id, r.ok)))

(* An edit without a path is kept, with the empty path.                    *)
FileEdits(turn, edits) ==
  DraftsOf(edits, LAMBDA e, i : Draft(<<"edit", turn, i>>, turn, FileEdit(e.id, e.path)))

ParseMessage(ctx, raw) ==
  LET rec     == raw.rec
      learned == LearnSession(ctx, rec.session)
      turn    == EventId(raw)
  IN  IF Seen(learned, turn) THEN learned
      ELSE MkEvents(Mark(learned, turn), raw,
             <<Draft(turn, rec.parent, TurnKind(rec))>>
             \o ToolCalls(turn, rec.calls) \o ToolResults(turn, rec.results)
             \o FileEdits(turn, rec.edits))

(* A record of an unknown kind is still a message when it has a role.      *)
Parse(ctx, raw) ==
  CASE IsNoJson(raw.rec) -> StubParse(ctx, raw)
    [] raw.rec.type = "session_start" -> ParseSessionStart(ctx, raw)
    [] raw.rec.type # "session_start" /\ ~IsNoJson(raw.rec) ->
         IF raw.rec.role \in {"user", "assistant"} THEN ParseMessage(ctx, raw)
         ELSE UnknownEvent(ctx, raw)
=============================================================================

------------------------------ MODULE Copilot ------------------------------
(***************************************************************************)
(* The GitHub Copilot adapter, over exported chat records. Every part of a *)
(* message has an id made from the message's own.                          *)
(***************************************************************************)
EXTENDS ChatRecord

EventId(raw) == NativeId(raw.rec.id, raw)

(* The first header binds the project.                                     *)
ParseSessionStart(ctx, raw) ==
  LET learned == LearnSession(ctx, raw.rec.session)
      bound   == IF learned.project = None
                 THEN [learned EXCEPT !.project = raw.rec.cwd] ELSE learned
  IN  MkNew(bound, raw, Draft(EventId(raw), NoId, SessionStart(raw.rec.cwd)))

ParseSessionEnd(ctx, raw) ==
  MkNew(LearnSession(ctx, raw.rec.session), raw, Draft(EventId(raw), NoId, SessionEnd))

ToolCallEvent(msg, call, i) ==
  LET id == OrElse(call.id, <<"call", msg, i>>)
  IN  Draft(<<"call_of", msg, id>>, msg, ToolCall(id, call.name))

ToolResultEvent(msg, result, i) ==
  LET id == OrElse(result.id, <<"result", msg, i>>)
  IN  Draft(<<"result_of", msg, id>>, msg, ToolResult(id, result.ok))

FileEditEvent(msg, edit, i) ==
  Draft(<<"edit", msg, i, edit.path>>, msg, FileEdit(edit.id, edit.path))

(* An edit without a path is dropped; the others keep their index.         *)
ParseMessage(ctx, raw) ==
  LET rec     == raw.rec
      learned == LearnSession(ctx, rec.session)
      msg     == EventId(raw)
      edits   == DraftsOf(rec.edits, LAMBDA e, i : FileEditEvent(msg, e, i))
      parts   == DraftsOf(rec.calls, LAMBDA c, i : ToolCallEvent(msg, c, i))
                 \o DraftsOf(rec.results, LAMBDA r, i : ToolResultEvent(msg, r, i))
                 \o SelectSeq(edits, LAMBDA d : d.kind.path # None)
  IN  IF Seen(learned, msg) THEN learned
      ELSE MkAllNew(learned, raw, <<Draft(msg, rec.parent, TurnKind(rec))>> \o parts)

ParseValue(ctx, raw) ==
  CASE raw.rec.type = "session_start" -> ParseSessionStart(ctx, raw)
    [] raw.rec.type = "session_end"   -> ParseSessionEnd(ctx, raw)
    [] raw.rec.type = None /\ raw.rec.role \in {"user", "assistant"} ->
         ParseMessage(ctx, raw)
    [] OTHER -> UnknownEvent(ctx, raw)

Parse(ctx, raw) ==
  IF IsNoJson(raw.rec) THEN StubParse(ctx, raw) ELSE ParseValue(ctx, raw)
=============================================================================

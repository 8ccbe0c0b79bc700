------------------------------- MODULE VsCode -------------------------------
(***************************************************************************)
(* The VS Code chat adapter: exported chat records, whole session objects, *)
(* and the store of the editor, read as chat records.                      *)
(*                                                                         *)
(* rec is a chat record with one field more, requests: the [text,          *)
(* response] pairs of a session object, whose type is "native". A store is *)
(* a sequence of sessions [id, ts, listed, requests], listed saying that   *)
(* the entry is an object with a list of them; a request is [id, response, *)
(* ts, text, parts] and a part [kind, text, call, tool, path], call NoId   *)
(* or the first of the tool's call id and its id.                          *)
(***************************************************************************)
EXTENDS ChatRecord

RecordEventId(raw) == NativeId(raw.rec.id, raw)

DeriveId(record, kind, index, native) == <<"child", record, kind, index, native>>

-----------------------------------------------------------------------------
(* assemble_response                                                       *)
PartsOf(request, kinds) == SelectSeq(request.parts, LAMBDA p : p.kind \in kinds)

ResponseText(request) ==
  LET md == PartsOf(request, {"markdownContent", None})
  IN  Joined([i \in DOMAIN md |-> md[i].text])

(* A call in preparation and the call itself are two parts and two calls.  *)
ResponseCalls(request) ==
  LET tools == PartsOf(request, {"toolInvocationSerialized", "prepareToolInvocation"})
  IN  [i \in DOMAIN tools |->
         [id |-> OrElse(tools[i].call, <<"tool", i>>), name |-> tools[i].tool]]

(* A reference to a file counts as an edit of it, like a group of edits.   *)
ResponseEdits(request) ==
  LET parts == SelectSeq(PartsOf(request, {"textEditGroup", "codeblockUri", "inlineReference"}),
                         LAMBDA p : p.path # None)
  IN  [i \in DOMAIN parts |-> [id |-> NoId, call |-> NoId, path |-> parts[i].path]]

StoreRecord(session, request) ==
  [type |-> None, id |-> NoId, parent |-> NoId, session |-> session.id, cwd |-> None,
   ts |-> IF request.ts = <<>> THEN session.ts ELSE request.ts, role |-> "user",
   text |-> <<request.text>>, thinking |-> <<>>, calls |-> <<>>, results |-> <<>>,
   edits |-> <<>>, requests |-> <<>>]

UserRecord(session, request) ==
  [StoreRecord(session, request) EXCEPT !.id = <<"user", request.id>>]

AssistantRecord(session, request) ==
  [StoreRecord(session, request) EXCEPT
     !.id     = <<"asst", OrElse(request.response, <<"resp", request.id>>)>>,
     !.parent = <<"user", request.id>>,
     !.role   = "assistant",
     !.text   = ResponseText(request),
     !.calls  = ResponseCalls(request),
     !.edits  = ResponseEdits(request)]

(* A session entry of another shape is kept as one record.                 *)
OddRecord(session) ==
  [type |-> None, id |-> NoId, parent |-> NoId, session |-> session.id, cwd |-> None,
   ts |-> <<>>, role |-> None, text |-> <<>>, thinking |-> <<>>, calls |-> <<>>,
   results |-> <<>>, edits |-> <<>>, requests |-> <<>>]

(* A session without an id gets one from its content, a request one from   *)
(* its session and index.                                                  *)
ExpandSession(session) ==
  LET named    == [session EXCEPT !.id = OrElse(@, <<"vscode", session>>)]
      request(i) == [session.requests[i] EXCEPT !.id = OrElse(@, <<"req", named.id, i>>)]
  IN  IF ~session.listed THEN <<OddRecord(session)>>
      ELSE FlattenSeq([i \in DOMAIN session.requests |->
             <<UserRecord(named, request(i)), AssistantRecord(named, request(i))>>])

ReadVscdb(store) ==
  LET records == FlattenSeq([i \in DOMAIN store |-> ExpandSession(store[i])])
  IN  [i \in DOMAIN records |-> [rec |-> records[i], line |-> i]]

-----------------------------------------------------------------------------
AdoptSession(ctx, rec) == LearnSession(ctx, rec.session)

ApplySessionStart(ctx, rec) == [AdoptSession(ctx, rec) EXCEPT !.project = rec.cwd]

ToolCalls(rec, id) ==
  DraftsOf(rec.calls, LAMBDA c, i :
    LET call == OrElse(c.id, <<"call", id, i>>)
    IN  Draft(DeriveId(id, "toolcall", i, call), id, ToolCall(call, c.name)))

ToolResults(rec, id) ==
  DraftsOf(rec.results, LAMBDA r, i :
    LET call == OrElse(r.id, <<"result", id, i>>)
    IN  Draft(DeriveId(id, "toolresult", i, call), id, ToolResult(call, r.ok)))

FileEdits(rec, id) ==
  DraftsOf(rec.edits, LAMBDA e, i :
    Draft(DeriveId(id, "edit", i, OrElse(e.id, <<e.path>>)), id, FileEdit(e.call, e.path)))

(* Children of a record without a known role are kept without their turn.  *)
ParseMessageRecord(ctx, raw, id) ==
  LET rec      == raw.rec
      turn     == IF rec.role \in {"user", "assistant"}
                  THEN <<Draft(id, rec.parent, TurnKind(rec))>> ELSE <<>>
      children == ToolCalls(rec, id) \o ToolResults(rec, id) \o FileEdits(rec, id)
      adopted  == AdoptSession(ctx, rec)
  IN  IF turn \o children = <<>> THEN UnknownEvent(adopted, raw)
      ELSE MkEvents(adopted, raw, turn \o children)

(* The record's id is marked first: a repeated record teaches nothing.     *)
ParseExportedRecord(ctx, raw) ==
  LET id     == RecordEventId(raw)
      marked == Mark(ctx, id)
  IN  CASE Seen(ctx, id) -> ctx
        [] ~Seen(ctx, id) /\ raw.rec.type = "session_start" ->
             MkEvent(ApplySessionStart(marked, raw.rec), raw,
                     Draft(id, NoId, SessionStart(raw.rec.cwd)))
        [] ~Seen(ctx, id) /\ raw.rec.type = "session_end" ->
             MkEvent(AdoptSession(marked, raw.rec), raw, Draft(id, NoId, SessionEnd))
        [] OTHER -> ParseMessageRecord(marked, raw, id)

(* A session object: two turns a request, the session named by content.    *)
ParseNativeSession(ctx, raw) ==
  LET id      == RecordEventId(raw)
      adopted == LearnSession(AdoptSession(Mark(ctx, id), raw.rec), <<"vscode", id>>)
      user(i) == <<"req", id, i, "user">>
      drafts  == FlattenSeq([i \in DOMAIN raw.rec.requests |->
                   <<Draft(user(i), NoId, UserTurn(raw.rec.requests[i].text)),
                     Draft(<<"req", id, i, "asst">>, user(i),
                           AssistantTurn(raw.rec.requests[i].response, <<>>))>>])
  IN  IF Seen(ctx, id) THEN ctx ELSE MkEvents(adopted, raw, drafts)

Parse(ctx, raw) ==
  CASE IsNoJson(raw.rec) -> StubParse(ctx, raw)
    [] raw.rec.type = "native" -> ParseNativeSession(ctx, raw)
    [] OTHER -> ParseExportedRecord(ctx, raw)
=============================================================================

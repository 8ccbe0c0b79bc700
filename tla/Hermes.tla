------------------------------- MODULE Hermes -------------------------------
(***************************************************************************)
(* The Hermes adapter. read_native turns the rows of the SQLite store into *)
(* chat records, read_state_db gives each its line, parse makes the events.*)
(*                                                                         *)
(* A store is [sessions, messages]: sessions is a sequence of [id, ts] and *)
(* messages one of [id, session, role, text, call, calls, ts], both in the *)
(* order of their ids. call is the call a tool row answers; calls are the  *)
(* calls of an assistant row, [id, name].                                  *)
(***************************************************************************)
EXTENDS ChatRecord

HeaderRecord(session) ==
  [type |-> "session_start", id |-> NoId, parent |-> NoId, session |-> session.id,
   cwd |-> None, ts |-> session.ts, role |-> None, text |-> <<>>, thinking |-> <<>>,
   calls |-> <<>>, results |-> <<>>, edits |-> <<>>]

(* Calls without an id share one, made from the row's.                     *)
RowCalls(row) ==
  [i \in DOMAIN row.calls |->
     [row.calls[i] EXCEPT !.id = OrElse(@, <<"row_call", row.session, row.id>>)]]

(* A tool row is folded into the call it answers, as a success whatever    *)
(* it says; a row that answers no call of its session is dropped.          *)
Answered(rows) ==
  {rows[i].call : i \in {j \in DOMAIN rows : rows[j].role = "tool"}} \ {NoId}

MessageRecord(row, rows) ==
  LET calls    == RowCalls(row)
      answered == SelectSeq(calls, LAMBDA c : c.id \in Answered(rows))
  IN  [type |-> None, id |-> <<"row", row.session, row.id>>, parent |-> NoId,
       session |-> row.session, cwd |-> None, ts |-> row.ts, role |-> row.role,
       text |-> row.text, thinking |-> <<>>, calls |-> calls,
       results |-> [i \in DOMAIN answered |-> [id |-> answered[i].id, ok |-> TRUE]],
       edits |-> <<>>]

SessionRecords(store, session) ==
  LET rows  == SelectSeq(store.messages, LAMBDA r : r.session = session.id)
      turns == SelectSeq(rows, LAMBDA r : r.role # "tool")
  IN  <<HeaderRecord(session)>> \o [i \in DOMAIN turns |-> MessageRecord(turns[i], rows)]

ReadNative(store) ==
  FlattenSeq([i \in DOMAIN store.sessions |-> SessionRecords(store, store.sessions[i])])

ReadStateDb(store) ==
  [i \in DOMAIN ReadNative(store) |-> [rec |-> ReadNative(store)[i], line |-> i]]

-----------------------------------------------------------------------------
(* Every header moves the context to its session.                          *)
ParseSessionStart(ctx, raw) ==
  LET session == raw.rec.session
      moved   == [ctx EXCEPT !.session_id = OrElse(session, @)]
      id      == IF session = NoId THEN ContentId(raw) ELSE <<"start", session>>
  IN  IF Seen(moved, id) THEN moved
      ELSE MkNew([moved EXCEPT !.project = "."], raw, Draft(id, NoId, SessionStart(".")))

(* A call, then the first result of the record that answers it. Their ids  *)
(* are made from the call's alone, so they are global to the context.      *)
CallDrafts(raw, id, i) ==
  LET rec     == raw.rec
      call    == OrElse(rec.calls[i].id, <<"tool", id, i>>)
      results == SelectSeq(rec.results, LAMBDA r : r.id = call)
  IN  <<Draft(<<"call", call>>, id, ToolCall(call, rec.calls[i].name))>>
      \o (IF results = <<>> THEN <<>>
          ELSE <<Draft(<<"result", call>>, id, ToolResult(call, Head(results).ok))>>)

ParseMessage(ctx, raw) ==
  LET rec   == raw.rec
      id    == NativeId(rec.id, raw)
      turn  == Draft(id, NoId, TurnKind(rec))
      calls == FlattenSeq([i \in DOMAIN rec.calls |-> CallDrafts(raw, id, i)])
  IN  CASE Seen(ctx, id) -> ctx
        [] ~Seen(ctx, id) /\ rec.role \in {"user", "assistant"} ->
             MkAllNew(ctx, raw, <<turn>> \o calls)
        [] ~Seen(ctx, id) /\ rec.role \notin {"user", "assistant"} ->
             UnknownEvent(Mark(ctx, id), raw)

Parse(ctx, raw) ==
  CASE IsNoJson(raw.rec) -> StubParse(ctx, raw)
    [] raw.rec.type = "session_start" -> ParseSessionStart(ctx, raw)
    [] OTHER -> IF raw.rec.role # None THEN ParseMessage(ctx, raw)
                ELSE UnknownEvent(ctx, raw)
=============================================================================

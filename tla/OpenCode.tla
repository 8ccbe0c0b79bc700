------------------------------ MODULE OpenCode ------------------------------
(***************************************************************************)
(* The OpenCode adapter. Its parser is Hermes's, line for line; the store  *)
(* is its own.                                                             *)
(*                                                                         *)
(* A store is [sessions, messages, parts], each a sequence in the order of *)
(* its ids: [id, ts], [id, session, role, ts] and [session, message, type, *)
(* text, call, name, status]. A message whose data is no JSON object with  *)
(* a role has role None; a part that does not parse is of type "other".    *)
(***************************************************************************)
EXTENDS ChatRecord

H == INSTANCE Hermes

PartsOf(store, message, type) ==
  SelectSeq(store.parts, LAMBDA p :
    /\ p.session = message.session
    /\ p.message = message.id
    /\ p.type = type)

(* A call still pending or running has no result yet.                      *)
MessageRecord(store, message) ==
  LET texts == PartsOf(store, message, "text")
      tools == PartsOf(store, message, "tool")
      ended == SelectSeq(tools, LAMBDA p : p.status \in {"completed", "error"})
  IN  [type |-> None, id |-> <<"row", message.session, message.id>>, parent |-> NoId,
       session |-> message.session, cwd |-> None, ts |-> message.ts,
       role |-> message.role, text |-> [i \in DOMAIN texts |-> texts[i].text],
       thinking |-> <<>>,
       calls |-> [i \in DOMAIN tools |-> [id |-> tools[i].call, name |-> tools[i].name]],
       results |-> [i \in DOMAIN ended |->
                      [id |-> ended[i].call, ok |-> ended[i].status = "completed"]],
       edits |-> <<>>]

SessionRecords(store, session) ==
  LET messages == SelectSeq(store.messages, LAMBDA m :
                    m.session = session.id /\ m.role # None)
  IN  <<H!HeaderRecord(session)>>
      \o [i \in DOMAIN messages |-> MessageRecord(store, messages[i])]

ReadNative(store) ==
  FlattenSeq([i \in DOMAIN store.sessions |-> SessionRecords(store, store.sessions[i])])

ReadOpencodeDb(store) ==
  [i \in DOMAIN ReadNative(store) |-> [rec |-> ReadNative(store)[i], line |-> i]]

-----------------------------------------------------------------------------
ParseSessionStart(ctx, raw) == H!ParseSessionStart(ctx, raw)

ParseMessage(ctx, raw) == H!ParseMessage(ctx, raw)

Parse(ctx, raw) ==
  CASE IsNoJson(raw.rec) -> StubParse(ctx, raw)
    [] raw.rec.type = "session_start" -> ParseSessionStart(ctx, raw)
    [] OTHER -> IF raw.rec.role # None THEN ParseMessage(ctx, raw)
                ELSE UnknownEvent(ctx, raw)
=============================================================================

---------------------------- MODULE NativeStores ----------------------------
(***************************************************************************)
(* Conversations that a tool keeps in a database, read by the program at   *)
(* any time: sessions grow side by side, calls end later than they began,  *)
(* and every read starts from nothing.                                     *)
(*                                                                         *)
(* A message is [session, role, call]: call is "no" for a message without  *)
(* one, else how far the call is.                                          *)
(***************************************************************************)
EXTENDS AdapterRegistry

CONSTANTS
  Tools,        \* the tools whose stores are read
  Sessions,     \* the sessions of a store, numbered in the order of their ids
  StoreOf(_, _), \* the store a tool keeps of a conversation
  TextAt,       \* what each message says
  MaxMessages   \* bound: messages in all sessions

ASSUME StoreAssumption ==
  /\ Tools \subseteq {"hermes", "opencode", "vscode", "cursor", "zed"}
  /\ Sessions \subseteq Nat /\ MaxMessages \in Nat
  /\ Len(TextAt) >= MaxMessages

VARIABLES
  tool,    \* whose store it is
  said,    \* the conversation so far, all sessions in the order of time
  read,    \* the conversation as it was when last read
  events   \* what that read made of it

vars == <<tool, said, read, events>>

SessionId(n) == <<"session", n>>
CallId(i)    == <<"call", i>>

Init ==
  /\ tool \in Tools
  /\ said = <<>> /\ read = <<>> /\ events = <<>>

(* The user begins; the assistant answers, with a call or without.         *)
Say(message) ==
  /\ Len(said) < MaxMessages
  /\ message.role = "assistant" => \E m \in ToSet(said) : m.session = message.session
  /\ said' = Append(said, message)
  /\ UNCHANGED <<tool, read, events>>

Messages ==
  {[session |-> n, role |-> "user", call |-> "no"] : n \in Sessions} \cup
  {[session |-> n, role |-> "assistant", call |-> c] : n \in Sessions, c \in {"no", "open"}}

Finish(i, outcome) ==
  /\ said[i].call = "open"
  /\ said' = [said EXCEPT ![i].call = outcome]
  /\ UNCHANGED <<tool, read, events>>

(* read_native of the tool's adapter.                                      *)
ReadNative(store) ==
  CASE tool = "hermes"   -> HermesDb!ReadStateDb(store)
    [] tool = "opencode" -> Open!ReadOpencodeDb(store)
    [] tool = "vscode"   -> Code!ReadVscdb(store)
    [] tool = "cursor"   -> Curs!ReadVscdb(store)
    [] tool = "zed"      -> ZedDb!ReadThreadsDb(store)

ParseRecords(raws) ==
  FoldLeft(LAMBDA ctx, raw : Parse(tool, ctx, raw), FreshCtx, raws).events

(* memscribe parse, which asks the adapter how its store is read.          *)
ParseStore ==
  /\ said # <<>>
  /\ read' = said
  /\ events' = ParseRecords(ReadNative(StoreOf(tool, said)))
  /\ UNCHANGED <<tool, said>>

Next ==
  \/ \E message \in Messages : Say(message)
  \/ \E i \in DOMAIN said, outcome \in {"ok", "failed"} : Finish(i, outcome)
  \/ ParseStore

Spec == Init /\ [][Next]_vars

-----------------------------------------------------------------------------
IsTurn(e) == e.kind.tag \in {"user_turn", "assistant_turn"}

TurnsOf(i) == {e \in ToSet(events) : IsTurn(e) /\ TextAt[i] \in ToSet(e.kind.text)}

EventsOfCall(tag, i) ==
  {e \in ToSet(events) : e.kind.tag = tag /\ e.kind.call = CallId(i)}

(* Every message in the store is one turn of its role, stamped with its    *)
(* own session however the sessions are mixed, and every call is one call. *)
(* The session of a VS Code turn is left out: its context keeps the first  *)
(* session of the store.                                                   *)
MessagesAreRead ==
  \A i \in DOMAIN read :
    /\ Cardinality(TurnsOf(i)) = 1
    /\ \A e \in TurnsOf(i) :
         /\ e.kind.tag = (IF read[i].role = "user" THEN "user_turn" ELSE "assistant_turn")
         /\ tool # "vscode" => e.session_id = SessionId(read[i].session)
    /\ read[i].call # "no" => Cardinality(EventsOfCall("tool_call", i)) = 1

(* A call that failed in the store is read as failed, and no other is.     *)
(* Hermes does not say how a call ended and the VS Code reader asks not.   *)
OutcomesAreRead ==
  tool \in {"opencode", "cursor", "zed"} =>
    \A i \in DOMAIN read :
      (\E e \in EventsOfCall("tool_result", i) : ~e.kind.ok) <=> read[i].call = "failed"

(* A read of the store tells the conversation: its messages, its calls and *)
(* how they ended.                                                         *)
ConversationIsRead == MessagesAreRead /\ OutcomesAreRead

(* Within a session turns have the order in which they were said, which is *)
(* how the segmenter reads them, whatever order the rows come in.          *)
TurnsKeepTheirOrder ==
  \A i, j \in DOMAIN read :
    i < j /\ read[i].session = read[j].session =>
      \A a \in TurnsOf(i), b \in TurnsOf(j) : a.seq <= b.seq

(* What a read found, a later read finds under the same id, although the   *)
(* store has grown in the middle: turns, calls, results and edits only     *)
(* come on top.                                                            *)
LaterReadsKeepIds ==
  [][\A e \in ToSet(events) :
       e.kind.tag = "session_start" \/
       \E f \in ToSet(events') : f.event_id = e.event_id /\ f.kind.tag = e.kind.tag]_vars
=============================================================================

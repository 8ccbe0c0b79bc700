---------------------------- MODULE OtlpReceiver ----------------------------
(***************************************************************************)
(* The OTLP receiver: one thread accepts connections, reads one request    *)
(* from each, answers it and hands its records to a channel (serve_into);  *)
(* a ServeHandle stops that thread by a flag and a connection of its own.  *)
(* Peers, the consumer of the channel and the owner of the handle run      *)
(* beside it.                                                              *)
(***************************************************************************)
EXTENDS Naturals, Sequences

CONSTANTS
  Peers,      \* the clients, one connection each
  Poke,       \* the connection signal_and_join makes
  MaxBacklog  \* bound: connections the OS queues for accept

ASSUME ReceiverAssumption == Poke \notin Peers /\ MaxBacklog \in Nat \ {0}

VARIABLES
  loop,      \* the accept loop: "accept" (parked), "accepted" (one taken, flag
             \* not looked at), "reading", "answering", "handing", "ended"
  cur,       \* the connection at hand
  backlog,   \* connections accept has not taken
  peer,      \* what a client sees: "off", "waiting", "answered" or "closed"
  request,   \* what it sends, see Requests
  status,    \* the code it is answered with, 0 for none
  stop,      \* the stop flag
  handle,    \* owner of the ServeHandle: "serving", "flagged", "joining", "done"
  channel,   \* batches sent and not received, by their connection
  received,  \* batches the consumer has
  consumer   \* whether the channel's receiving end exists

vars == <<loop, cur, backlog, peer, request, status, stop, handle, channel,
          received, consumer>>

loopVars == <<loop, cur, backlog>>
peerVars == <<peer, request, status>>
outVars  == <<channel, received, consumer>>

Conns == Peers \cup {Poke}

(* A POST with records, with none (or cut off in its headers), with a body *)
(* or a length that cannot be decoded; any other method; a body over       *)
(* MAX_BODY_BYTES; a connection closed before its request, in its body or  *)
(* unreadable; and one of which the request is not complete so far.        *)
Requests == {"records", "empty", "malformed", "other", "large", "nothing", "broken", "silent"}

TypeOK ==
  /\ loop \in {"accept", "accepted", "reading", "answering", "handing", "ended"}
  /\ cur \in Conns /\ backlog \in Seq(Conns)
  /\ peer \in [Conns -> {"off", "waiting", "answered", "closed"}]
  /\ request \in [Conns -> Requests]
  /\ status \in [Conns -> {0, 200, 400, 405, 413}]
  /\ stop \in BOOLEAN
  /\ handle \in {"serving", "flagged", "joining", "done"}
  /\ channel \in Seq(Peers) /\ received \in Seq(Peers)
  /\ consumer \in BOOLEAN

Init ==
  /\ loop = "accept" /\ cur = Poke /\ backlog = <<>>
  /\ peer = [c \in Conns |-> "off"]
  /\ request = [c \in Conns |-> "nothing"]
  /\ status = [c \in Conns |-> 0]
  /\ stop = FALSE /\ handle = "serving"
  /\ channel = <<>> /\ received = <<>> /\ consumer = TRUE

-----------------------------------------------------------------------------
(* Clients.                                                                *)
Reach(c, r) ==
  /\ loop # "ended" /\ peer[c] = "off" /\ Len(backlog) < MaxBacklog
  /\ backlog' = Append(backlog, c)
  /\ peer' = [peer EXCEPT ![c] = "waiting"]
  /\ request' = [request EXCEPT ![c] = r]
  /\ UNCHANGED <<loop, cur, status>>

Connect(p) == \E r \in Requests : Reach(p, r) /\ UNCHANGED <<stop, handle, outVars>>

(* A silent client sends its request after all, or hangs up.               *)
SpeakUp(p) ==
  /\ peer[p] = "waiting" /\ request[p] = "silent"
  /\ \E r \in Requests \ {"silent"} : request' = [request EXCEPT ![p] = r]
  /\ UNCHANGED <<loopVars, peer, status, stop, handle, outVars>>

-----------------------------------------------------------------------------
(* The accept loop.                                                        *)
Accept ==
  /\ loop = "accept" /\ backlog # <<>>
  /\ loop' = "accepted" /\ cur' = Head(backlog) /\ backlog' = Tail(backlog)
  /\ UNCHANGED <<peerVars, stop, handle, outVars>>

(* Broken variant, for mutation only: the listener outlives its thread, and *)
(* the backlog with it.                                                    *)
EndLoopKeepsListener ==
  /\ loop' = "ended"
  /\ UNCHANGED <<cur, backlog, peerVars, stop, handle, outVars>>

(* The thread returns: the listener and every connection it has not served *)
(* are closed.                                                             *)
EndLoop ==
  /\ loop' = "ended" /\ backlog' = <<>>
  /\ peer' = [c \in Conns |-> IF peer[c] = "waiting" THEN "closed" ELSE peer[c]]
  /\ UNCHANGED <<cur, request, status, stop, handle, outVars>>

(* A failing accept only has the flag looked at.                           *)
AcceptFails == loop = "accept" /\ stop /\ EndLoop

CheckStop ==
  /\ loop = "accepted"
  /\ \/ stop /\ EndLoop
     \/ ~stop /\ loop' = "reading"
        /\ UNCHANGED <<cur, backlog, peerVars, stop, handle, outVars>>

Drop(c) == loop' = "accept" /\ peer' = [peer EXCEPT ![c] = "closed"]

(* read_request: blocks while the client is silent; a connection that      *)
(* breaks off is dropped without an answer.                                *)
ReadRequest ==
  /\ loop = "reading" /\ request[cur] # "silent"
  /\ IF request[cur] = "broken"
     THEN Drop(cur)
     ELSE loop' = "answering" /\ UNCHANGED peer
  /\ UNCHANGED <<cur, backlog, request, status, stop, handle, outVars>>

StatusFor(r) ==
  CASE r \in {"records", "empty"}     -> 200
    [] r \in {"malformed", "nothing"} -> 400
    [] r = "other"                    -> 405
    [] r = "large"                    -> 413

(* The answer is written, and a batch, if there is one, goes on.           *)
Answer ==
  /\ loop = "answering"
  /\ peer' = [peer EXCEPT ![cur] = "answered"]
  /\ status' = [status EXCEPT ![cur] = StatusFor(request[cur])]
  /\ loop' = IF request[cur] = "records" THEN "handing" ELSE "accept"
  /\ UNCHANGED <<cur, backlog, request, stop, handle, outVars>>

(* Broken variant, for mutation only: the records are handed over whether  *)
(* or not the answer could be written.                                     *)
AnswerFailsAnyway ==
  /\ loop = "answering"
  /\ peer' = [peer EXCEPT ![cur] = "closed"]
  /\ loop' = IF request[cur] = "records" THEN "handing" ELSE "accept"
  /\ UNCHANGED <<cur, backlog, request, status, stop, handle, outVars>>

(* write_response fails, and `?` drops the records with the connection.    *)
AnswerFails ==
  /\ loop = "answering" /\ Drop(cur)
  /\ UNCHANGED <<cur, backlog, request, status, stop, handle, outVars>>

(* Broken variant, for mutation only: a batch is thrown away once the flag *)
(* is set.                                                                 *)
HandOverUnlessStopped ==
  /\ loop = "handing" /\ loop' = "accept"
  /\ IF consumer /\ ~stop THEN channel' = Append(channel, cur) ELSE UNCHANGED channel
  /\ stop' = (stop \/ ~consumer)
  /\ UNCHANGED <<cur, backlog, peerVars, handle, received, consumer>>

(* sink.send: without a consumer it fails, which sets the flag.            *)
HandOver ==
  /\ loop = "handing" /\ loop' = "accept"
  /\ IF consumer THEN channel' = Append(channel, cur) ELSE UNCHANGED channel
  /\ stop' = (stop \/ ~consumer)
  /\ UNCHANGED <<cur, backlog, peerVars, handle, received, consumer>>

LoopStep ==
  Accept \/ CheckStop \/ ReadRequest \/ Answer \/ AnswerFails \/ HandOver

-----------------------------------------------------------------------------
(* The consumer of the channel.                                            *)
Receive ==
  /\ consumer /\ channel # <<>>
  /\ received' = Append(received, Head(channel)) /\ channel' = Tail(channel)
  /\ UNCHANGED <<loopVars, peerVars, stop, handle, consumer>>

(* It goes away, and what was in the channel with it.                      *)
ConsumerLeaves ==
  /\ consumer /\ consumer' = FALSE /\ channel' = <<>>
  /\ UNCHANGED <<loopVars, peerVars, stop, handle, received>>

-----------------------------------------------------------------------------
(* signal_and_join, by shutdown or by dropping the handle.                 *)
RaiseFlag ==
  /\ handle = "serving" /\ handle' = "flagged" /\ stop' = TRUE
  /\ UNCHANGED <<loopVars, peerVars, outVars>>

(* Broken variant, for mutation only: nothing wakes the accept call.       *)
JoinWithoutPoke ==
  /\ handle = "flagged" /\ handle' = "joining"
  /\ UNCHANGED <<loopVars, peerVars, stop, outVars>>

(* A connection wakes the parked accept; once the listener is gone it is   *)
(* refused, which does not matter.                                         *)
PokeListener ==
  /\ handle = "flagged" /\ handle' = "joining"
  /\ \/ loop = "ended" /\ UNCHANGED <<loopVars, peerVars>>
     \/ Reach(Poke, "nothing")
  /\ UNCHANGED <<stop, outVars>>

Join ==
  /\ handle = "joining" /\ loop = "ended" /\ handle' = "done"
  /\ UNCHANGED <<loopVars, peerVars, stop, outVars>>

Next ==
  \/ \E p \in Peers : Connect(p) \/ SpeakUp(p)
  \/ LoopStep \/ AcceptFails
  \/ Receive \/ ConsumerLeaves
  \/ RaiseFlag \/ PokeListener \/ Join

Spec == Init /\ [][Next]_vars

(* The thread of the loop and the thread that shuts it down keep running,  *)
(* and a client does not stay silent for ever.                             *)
Fairness ==
  /\ WF_vars(LoopStep) /\ WF_vars(PokeListener \/ Join)
  /\ \A p \in Peers : WF_vars(SpeakUp(p))

FairSpec == Spec /\ Fairness
-----------------------------------------------------------------------------
Batches == received \o channel

(* A client that was told its records are accepted can rely on it: they    *)
(* are with the consumer or on their way, whatever the owner of the handle *)
(* does meanwhile -- as long as there is a consumer (otlp.rs:135-139,      *)
(* 166-172, 244-253).                                                      *)
AcceptedIsDelivered ==
  consumer =>
    \A p \in Peers :
      status[p] = 200 /\ request[p] = "records" =>
        \/ loop = "handing" /\ cur = p
        \/ \E i \in DOMAIN Batches : Batches[i] = p

(* A client to which no 200 could be written may send its records again:   *)
(* none of them has reached the consumer, and no batch does twice          *)
(* (otlp.rs:135-138, 251).                                                 *)
DeliveredWasAccepted ==
  \A i \in DOMAIN Batches :
    /\ status[Batches[i]] = 200
    /\ \A j \in DOMAIN Batches : Batches[i] = Batches[j] => i = j

(* "Always writes a response (so the client never hangs)" (otlp.rs:232):   *)
(* with clients that do not stay silent, none waits for ever -- not behind *)
(* another one, nor when the loop stops with connections in the backlog.   *)
ClientNeverHangs == \A p \in Peers : peer[p] = "waiting" ~> peer[p] # "waiting"

(* "Request shutdown and block until the accept loop has stopped": with    *)
(* such clients it returns, whatever state the loop and the consumer are   *)
(* in when it is called (otlp.rs:201-228).                                 *)
ShutdownReturns == handle = "flagged" ~> handle = "done"
=============================================================================

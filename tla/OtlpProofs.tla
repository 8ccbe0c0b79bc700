----------------------------- MODULE OtlpProofs -----------------------------
(***************************************************************************)
(* Theorems about the OTLP receiver, for any set of clients and any bound  *)
(* on the backlog: a 200 and a delivery mean the same.                     *)
(***************************************************************************)
EXTENDS OtlpReceiver, SequenceTheorems, TLAPS

(* What the loop knows of the connection at hand, and of the answers given.*)
Answers ==
  /\ request[Poke] = "nothing"
  /\ \A c \in Conns : status[c] # 0 => peer[c] = "answered"
  /\ loop = "answering" => request[cur] \notin {"silent", "broken"}
  /\ loop = "handing" => request[cur] = "records" /\ status[cur] = 200

(* A connection waits in the backlog once, or is the one at hand.          *)
Queue ==
  /\ \A i \in DOMAIN backlog : peer[backlog[i]] = "waiting"
  /\ \A i, j \in DOMAIN backlog : backlog[i] = backlog[j] => i = j
  /\ loop \in {"accepted", "reading", "answering"} =>
       peer[cur] = "waiting" /\ \A i \in DOMAIN backlog : backlog[i] # cur

(* A batch that is being handed over is not there yet.                     *)
HandedOnce == loop = "handing" => \A i \in DOMAIN Batches : Batches[i] # cur

TypeInv == TypeOK /\ Answers /\ Queue

DeliveryInv == HandedOnce /\ AcceptedIsDelivered /\ DeliveredWasAccepted

-----------------------------------------------------------------------------
(* The poke is one more connection, which sends nothing.                   *)
LEMMA ReachType ==
  ASSUME TypeInv, NEW c \in Conns, NEW r \in Requests, Reach(c, r),
         c = Poke => r = "nothing"
  PROVE  /\ backlog' \in Seq(Conns)
         /\ peer' \in [Conns -> {"off", "waiting", "answered", "closed"}]
         /\ request' \in [Conns -> Requests]
         /\ request'[Poke] = "nothing"
         /\ Queue'
<1> USE DEF TypeInv, TypeOK, Reach, Conns
<1>1. backlog' = Append(backlog, c) /\ peer' = [peer EXCEPT ![c] = "waiting"]
      /\ request' = [request EXCEPT ![c] = r] /\ peer[c] = "off"
  OBVIOUS
<1>2. request'[Poke] = "nothing"
  BY <1>1 DEF Answers
<1>3. \A i \in DOMAIN backlog : backlog[i] # c /\ backlog[i] \in Conns
  <2> SUFFICES ASSUME NEW i \in DOMAIN backlog PROVE backlog[i] # c /\ backlog[i] \in Conns
    OBVIOUS
  <2>1. peer[backlog[i]] = "waiting"
    BY DEF Queue
  <2>2. backlog[i] \in Conns
    BY ElementOfSeq, LenProperties
  <2> QED
    BY <1>1, <2>1, <2>2
<1>4. Len(backlog') = Len(backlog) + 1 /\ DOMAIN backlog' = 1 .. Len(backlog) + 1
      /\ DOMAIN backlog = 1 .. Len(backlog) /\ Len(backlog) \in Nat
      /\ backlog'[Len(backlog) + 1] = c
      /\ \A i \in 1 .. Len(backlog) : backlog'[i] = backlog[i]
  BY <1>1
<1>5. Queue'
  <2>1. \A i \in DOMAIN backlog' : peer'[backlog'[i]] = "waiting"
    BY <1>1, <1>3, <1>4 DEF Queue
  <2>2. \A i, j \in DOMAIN backlog' : backlog'[i] = backlog'[j] => i = j
    BY <1>3, <1>4 DEF Queue
  <2>3. loop' \in {"accepted", "reading", "answering"} =>
          peer'[cur'] = "waiting" /\ \A i \in DOMAIN backlog' : backlog'[i] # cur'
    BY <1>1, <1>4 DEF Queue
  <2> QED
    BY <2>1, <2>2, <2>3 DEF Queue
<1> QED
  BY <1>1, <1>2, <1>5

(* The connection at hand is no longer in the backlog.                     *)
LEMMA AcceptQueue ==
  ASSUME TypeInv, Accept PROVE cur' \in Conns /\ backlog' \in Seq(Conns) /\ Queue'
<1> USE DEF TypeInv, TypeOK, Accept
<1>1. /\ DOMAIN backlog = 1 .. Len(backlog) /\ Len(backlog) \in Nat \ {0}
      /\ cur' = backlog[1] /\ cur' \in Conns /\ backlog' \in Seq(Conns)
      /\ DOMAIN backlog' = 1 .. Len(backlog) - 1
      /\ \A i \in 1 .. Len(backlog) - 1 : backlog'[i] = backlog[i + 1]
  BY EmptySeq, LenProperties, HeadTailProperties
<1>2. peer' = peer /\ loop' = "accepted"
  BY DEF peerVars
<1>3. /\ \A i \in 1 .. Len(backlog) : peer[backlog[i]] = "waiting"
      /\ \A i, j \in 1 .. Len(backlog) : backlog[i] = backlog[j] => i = j
  BY <1>1 DEF Queue
<1>4. \A i \in DOMAIN backlog' : peer'[backlog'[i]] = "waiting" /\ backlog'[i] # cur'
  <2> SUFFICES ASSUME NEW i \in 1 .. Len(backlog) - 1
               PROVE  peer'[backlog'[i]] = "waiting" /\ backlog'[i] # cur'
    BY <1>1
  <2>1. i + 1 \in 1 .. Len(backlog) /\ 1 \in 1 .. Len(backlog) /\ i + 1 # 1
    BY <1>1
  <2> HIDE DEF TypeInv, TypeOK, Accept
  <2> QED
    BY <1>1, <1>2, <1>3, <2>1
<1>5. \A i, j \in DOMAIN backlog' : backlog'[i] = backlog'[j] => i = j
  BY <1>1 DEF Queue
<1>6. peer'[cur'] = "waiting"
  <2>1. 1 \in 1 .. Len(backlog)
    BY <1>1
  <2> HIDE DEF TypeInv, TypeOK, Accept
  <2> QED
    BY <1>1, <1>2, <1>3, <2>1
<1> QED
  BY <1>1, <1>4, <1>5, <1>6 DEF Queue

(* Every step of the receiver and its surroundings keeps the types, and    *)
(* the backlog with what is known of its connections.                      *)
LEMMA TypeStep == TypeInv /\ [Next]_vars => TypeInv'
<1> SUFFICES ASSUME TypeInv, [Next]_vars PROVE TypeInv'
  OBVIOUS
<1> USE ReceiverAssumption DEF TypeInv, TypeOK, Conns, loopVars, peerVars, outVars
<1>1. ASSUME NEW p \in Peers, Connect(p) PROVE TypeInv'
  <2>1. PICK r \in Requests : Reach(p, r)
    BY <1>1 DEF Connect
  <2>2. /\ backlog' \in Seq(Conns) /\ request' \in [Conns -> Requests]
        /\ peer' \in [Conns -> {"off", "waiting", "answered", "closed"}]
        /\ request'[Poke] = "nothing" /\ Queue'
    BY <2>1, ReachType
  <2>3. Answers'
    BY <1>1, <2>1, <2>2 DEF Answers, Queue, Connect, Reach
  <2> QED
    BY <1>1, <2>1, <2>2, <2>3 DEF Connect, Reach
<1>2. ASSUME NEW p \in Peers, SpeakUp(p) PROVE TypeInv'
  <2>1. Answers'
    BY <1>2 DEF SpeakUp, Answers
  <2>2. Queue'
    BY <1>2 DEF SpeakUp, Queue
  <2> QED
    BY <1>2, <2>1, <2>2 DEF SpeakUp
<1>3. CASE Accept
  BY <1>3, AcceptQueue DEF Accept, Answers
<1>4. ASSUME EndLoop PROVE TypeInv'
  <2>1. backlog' = <<>> /\ backlog' \in Seq(Conns) /\ DOMAIN backlog' = {}
    BY <1>4, EmptySeq DEF EndLoop
  <2>2. Answers' /\ Queue'
    BY <1>4, <2>1 DEF EndLoop, Answers, Queue
  <2> QED
    BY <1>4, <2>1, <2>2 DEF EndLoop
<1>5. CASE CheckStop
  BY <1>4, <1>5 DEF CheckStop, Answers, Queue
<1>6. CASE ReadRequest
  <2>1. Answers' /\ Queue'
    BY <1>6, ElementOfSeq, LenProperties DEF ReadRequest, Drop, Answers, Queue
  <2> QED
    BY <1>6, <2>1 DEF ReadRequest, Drop
<1>7. CASE Answer
  <2>1. StatusFor(request[cur]) \in {200, 400, 405, 413}
        /\ (request[cur] = "records" => StatusFor(request[cur]) = 200)
    BY <1>7 DEF Answer, Answers, Requests, StatusFor
  <2>2. Answers'
    BY <1>7, <2>1 DEF Answer, Answers, Queue
  <2>3. Queue'
    BY <1>7 DEF Answer, Queue
  <2> QED
    BY <1>7, <2>1, <2>2, <2>3 DEF Answer
<1>8. CASE AnswerFails
  <2>1. Answers' /\ Queue'
    BY <1>8 DEF AnswerFails, Drop, Answers, Queue
  <2> QED
    BY <1>8, <2>1 DEF AnswerFails, Drop
<1>9. CASE HandOver
  <2>1. cur \in Peers
    BY <1>9 DEF HandOver, Answers
  <2>2. Answers' /\ Queue'
    BY <1>9 DEF HandOver, Answers, Queue
  <2>3. channel' \in Seq(Peers)
    <3>1. Append(channel, cur) \in Seq(Peers) /\ channel \in Seq(Peers)
      BY <2>1
    <3>2. channel' = Append(channel, cur) \/ channel' = channel
      BY <1>9 DEF HandOver
    <3> HIDE DEF TypeInv, TypeOK, outVars
    <3> QED
      BY <3>1, <3>2, Zenon
  <2> QED
    BY <1>9, <2>2, <2>3 DEF HandOver
<1>10. CASE AcceptFails
  BY <1>4, <1>10 DEF AcceptFails
<1>11. CASE Receive
  <2>1. Head(channel) \in Peers /\ Tail(channel) \in Seq(Peers)
    BY <1>11, HeadTailProperties DEF Receive
  <2>2. Answers' /\ Queue'
    BY <1>11 DEF Receive, Answers, Queue
  <2> QED
    BY <1>11, <2>1, <2>2 DEF Receive
<1>12. CASE ConsumerLeaves
  <2>1. channel' = <<>> /\ <<>> \in Seq(Peers)
    BY <1>12, EmptySeq DEF ConsumerLeaves
  <2>2. Answers' /\ Queue'
    BY <1>12 DEF ConsumerLeaves, Answers, Queue
  <2>3. channel' \in Seq(Peers)
    <3> HIDE DEF TypeInv, TypeOK, outVars
    <3> QED
      BY <2>1, Zenon
  <2>4. TypeOK'
    BY <1>12, <2>3 DEF ConsumerLeaves
  <2> QED
    BY <2>2, <2>4
<1>13. CASE RaiseFlag
  <2>1. Answers' /\ Queue'
    BY <1>13 DEF RaiseFlag, Answers, Queue
  <2> QED
    BY <1>13, <2>1 DEF RaiseFlag
<1>14. CASE PokeListener
  <2>1. CASE loop = "ended" /\ UNCHANGED <<loopVars, peerVars>>
    BY <1>14, <2>1 DEF PokeListener, Answers, Queue
  <2>2. CASE Reach(Poke, "nothing")
    <3>1. /\ backlog' \in Seq(Conns) /\ request' \in [Conns -> Requests]
          /\ peer' \in [Conns -> {"off", "waiting", "answered", "closed"}]
          /\ request'[Poke] = "nothing" /\ Queue'
      BY <2>2, ReachType DEF Requests
    <3>2. Answers'
      BY <1>14, <2>2, <3>1 DEF Answers, Queue, PokeListener, Reach
    <3> QED
      BY <1>14, <2>2, <3>1, <3>2 DEF PokeListener, Reach
  <2> QED
    BY <1>14, <2>1, <2>2 DEF PokeListener
<1>15. CASE Join
  BY <1>15 DEF Join, Answers, Queue
<1>16. CASE UNCHANGED vars
  BY <1>16 DEF vars, Answers, Queue
<1> QED
  BY <1>1, <1>2, <1>3, <1>5, <1>6, <1>7, <1>8, <1>9, <1>10, <1>11, <1>12, <1>14,
     <1>15, <1>16, <1>13 DEF Next, LoopStep

(* The state serve_into starts in.                                         *)
LEMMA InitType == Init => TypeInv
<1>1. <<>> \in Seq(Conns) /\ <<>> \in Seq(Peers)
  BY EmptySeq
<1> SUFFICES ASSUME Init PROVE TypeInv
  OBVIOUS
<1>2. /\ peer \in [Conns -> {"off", "waiting", "answered", "closed"}]
      /\ request \in [Conns -> Requests]
      /\ status \in [Conns -> {0, 200, 400, 405, 413}]
  BY DEF Init, Requests
<1>3. TypeOK
  BY <1>1, <1>2 DEF Init, TypeOK, Conns
<1>4. Answers /\ Queue
  BY DEF Init, Answers, Queue, Conns
<1> QED
  BY <1>3, <1>4 DEF TypeInv

(* Type correctness of the receiver: what is answered is one of the four   *)
(* codes, and only clients' batches are ever handed over (otlp.rs:242-306).*)
THEOREM ReceiverTypeCorrect == Spec => []TypeOK
<1>1. TypeInv => TypeOK
  BY DEF TypeInv
<1> QED
  BY <1>1, InitType, TypeStep, PTL DEF Spec
-----------------------------------------------------------------------------
(* How a step may change what is delivered or on its way.                  *)
LEMMA BatchesStep ==
  ASSUME TypeInv, [Next]_vars
  PROVE  \/ Batches' = Batches /\ (HandOver => ~consumer)
         \/ HandOver /\ consumer /\ Batches' = Append(Batches, cur)
         \/ ~consumer' /\ Batches' = received /\ ~HandOver
<1> received \in Seq(Peers) /\ channel \in Seq(Peers)
  BY DEF TypeInv, TypeOK
<1>1. CASE HandOver /\ consumer
  <2>1. cur \in Peers /\ received' = received /\ channel' = Append(channel, cur)
    BY <1>1 DEF HandOver, TypeInv, TypeOK, Answers, Conns
  <2>2. received \o Append(channel, cur) = Append(received \o channel, cur)
    BY <2>1
  <2> QED
    BY <1>1, <2>1, <2>2, Zenon DEF Batches
<1>2. CASE HandOver /\ ~consumer
  BY <1>2 DEF HandOver, Batches
<1>3. CASE Receive
  <2>1. channel # <<>> /\ received' = Append(received, Head(channel)) /\ channel' = Tail(channel)
    BY <1>3 DEF Receive
  <2>2. Append(received, Head(channel)) \o Tail(channel) = received \o channel
    BY <2>1, HeadTailProperties
  <2> QED
    BY <1>3, <2>1, <2>2 DEF Batches, Receive, HandOver
<1>4. CASE ConsumerLeaves
  BY <1>4, ConcatEmptySeq DEF ConsumerLeaves, Batches, HandOver
<1>5. ASSUME ~HandOver, UNCHANGED <<channel, received>>
      PROVE  Batches' = Batches /\ (HandOver => ~consumer)
  BY <1>5 DEF Batches
<1>6. HandOver \/ Receive \/ ConsumerLeaves \/ UNCHANGED <<channel, received>>
  BY DEF Next, LoopStep, Connect, SpeakUp, Accept, CheckStop, EndLoop, ReadRequest, Answer,
         AnswerFails, AcceptFails, RaiseFlag, PokeListener, Join, vars, outVars
<1> QED
  BY <1>1, <1>2, <1>3, <1>4, <1>5, <1>6

(* An answer stands, and only Answer gives one.                            *)
LEMMA AnswersStand ==
  ASSUME TypeInv, [Next]_vars, NEW p \in Peers
  PROVE  /\ status[p] = 200 => status'[p] = 200 /\ request'[p] = request[p]
         /\ status'[p] = 200 => status[p] = 200 \/ (Answer /\ p = cur)
<1> USE ReceiverAssumption DEF TypeInv, TypeOK, Conns
<1>1. status[p] = 200 => peer[p] = "answered"
  BY DEF Answers
<1>2. CASE Answer
  BY <1>1, <1>2 DEF Answer, Queue
<1>3. ASSUME NEW q \in Peers, Connect(q) \/ SpeakUp(q)
      PROVE  status' = status /\ (status[p] = 200 => request'[p] = request[p])
  BY <1>1, <1>3 DEF Connect, Reach, SpeakUp
<1>4. CASE PokeListener
  BY <1>4 DEF PokeListener, Reach, peerVars
<1>5. \/ Answer \/ PokeListener \/ UNCHANGED <<status, request>>
      \/ \E q \in Peers : Connect(q) \/ SpeakUp(q)
  BY DEF Next, LoopStep, Accept, CheckStop, EndLoop, ReadRequest, HandOver, AnswerFails,
         AcceptFails, Receive, ConsumerLeaves, RaiseFlag, Join, vars, peerVars
<1> QED
  BY <1>2, <1>3, <1>4, <1>5

(* A batch is at hand from its answer until it is handed over.             *)
LEMMA HandingStep ==
  ASSUME [Next]_vars
  PROVE  /\ loop = "handing" /\ ~HandOver => loop' = "handing" /\ cur' = cur
         /\ loop' = "handing" =>
              cur' = cur /\ ~HandOver /\ (loop = "handing" \/ Answer)
         /\ consumer' => consumer
<1> USE DEF loopVars, outVars
<1>1. CASE LoopStep
  BY <1>1 DEF LoopStep, Accept, CheckStop, EndLoop, ReadRequest, Drop, Answer, AnswerFails,
              HandOver
<1>2. CASE AcceptFails
  BY <1>2 DEF AcceptFails, EndLoop, HandOver
<1>3. ASSUME loop' = loop, cur' = cur, consumer' => consumer
      PROVE  /\ loop = "handing" /\ ~HandOver => loop' = "handing" /\ cur' = cur
             /\ loop' = "handing" =>
                  cur' = cur /\ ~HandOver /\ (loop = "handing" \/ Answer)
             /\ consumer' => consumer
  BY <1>3 DEF HandOver
<1>4. ASSUME NEW p \in Peers, Connect(p) \/ SpeakUp(p)
      PROVE  loop' = loop /\ cur' = cur /\ (consumer' => consumer)
  BY <1>4 DEF Connect, SpeakUp, Reach
<1>5. ASSUME Receive \/ ConsumerLeaves \/ RaiseFlag \/ PokeListener \/ Join
      PROVE  loop' = loop /\ cur' = cur /\ (consumer' => consumer)
  BY <1>5 DEF Receive, ConsumerLeaves, RaiseFlag, PokeListener, Reach, Join
<1>6. ASSUME UNCHANGED vars
      PROVE  loop' = loop /\ cur' = cur /\ (consumer' => consumer)
  BY <1>6 DEF vars
<1> QED
  BY <1>1, <1>2, <1>3, <1>4, <1>5, <1>6 DEF Next

(* Every step keeps the books of answers and batches.                      *)
LEMMA DeliveryStep ==
  ASSUME TypeInv, TypeInv', [Next]_vars, DeliveryInv PROVE DeliveryInv'
<1> DEFINE In(p, s) == \E i \in DOMAIN s : s[i] = p
<1>1. /\ received \in Seq(Peers) /\ channel \in Seq(Peers) /\ Batches \in Seq(Peers)
      /\ DOMAIN Batches = 1 .. Len(Batches) /\ Len(Batches) \in Nat
      /\ DOMAIN received = 1 .. Len(received) /\ Len(received) \in 0 .. Len(Batches)
      /\ \A i \in DOMAIN received : received[i] = Batches[i]
  BY ConcatProperties, LenProperties DEF TypeInv, TypeOK, Batches
<1>2. /\ \A i \in DOMAIN Batches : Batches[i] \in Peers /\ status[Batches[i]] = 200
      /\ \A i, j \in DOMAIN Batches : Batches[i] = Batches[j] => i = j
  BY <1>1, ElementOfSeq DEF DeliveryInv, DeliveredWasAccepted
<1>3. HandOver => /\ loop = "handing" /\ cur \in Peers /\ status[cur] = 200
                  /\ \A i \in DOMAIN Batches : Batches[i] # cur
                  /\ DOMAIN Append(Batches, cur) = 1 .. Len(Batches) + 1
                  /\ Append(Batches, cur)[Len(Batches) + 1] = cur
                  /\ \A i \in 1 .. Len(Batches) : Append(Batches, cur)[i] = Batches[i]
  <2> SUFFICES ASSUME HandOver
               PROVE  /\ loop = "handing" /\ cur \in Peers /\ status[cur] = 200
                      /\ \A i \in DOMAIN Batches : Batches[i] # cur
                      /\ DOMAIN Append(Batches, cur) = 1 .. Len(Batches) + 1
                      /\ Append(Batches, cur)[Len(Batches) + 1] = cur
                      /\ \A i \in 1 .. Len(Batches) : Append(Batches, cur)[i] = Batches[i]
    OBVIOUS
  <2>1. loop = "handing" /\ cur \in Peers /\ status[cur] = 200
    BY DEF HandOver, TypeInv, TypeOK, Answers, Conns
  <2>2. \A i \in DOMAIN Batches : Batches[i] # cur
    BY <2>1 DEF DeliveryInv, HandedOnce
  <2> QED
    BY <1>1, <2>1, <2>2
<1>4. DeliveredWasAccepted'
  <2>1. \A i \in DOMAIN Batches' : status'[Batches'[i]] = 200
    <3>1. \A i \in DOMAIN Batches' : Batches'[i] \in Peers /\ status[Batches'[i]] = 200
      <4>1. CASE Batches' = Batches
        BY <1>2, <4>1, Zenon
      <4>2. CASE HandOver /\ Batches' = Append(Batches, cur)
        BY <1>1, <1>2, <1>3, <4>2
      <4>3. CASE Batches' = received
        BY <1>1, <1>2, <4>3
      <4> QED
        BY <4>1, <4>2, <4>3, BatchesStep
    <3> QED
      BY <3>1, AnswersStand
  <2>2. \A i, j \in DOMAIN Batches' : Batches'[i] = Batches'[j] => i = j
    <3>1. CASE Batches' = Batches
      BY <1>2, <3>1, Zenon
    <3>2. CASE HandOver /\ Batches' = Append(Batches, cur)
      BY <1>1, <1>2, <1>3, <3>2
    <3>3. CASE Batches' = received
      BY <1>1, <1>2, <3>3
    <3> QED
      BY <3>1, <3>2, <3>3, BatchesStep
  <2> QED
    BY <2>1, <2>2 DEF DeliveredWasAccepted
<1>5. HandedOnce'
  <2> SUFFICES ASSUME loop' = "handing" PROVE \A i \in DOMAIN Batches' : Batches'[i] # cur
    BY HandingStep DEF HandedOnce
  <2>1. \A i \in DOMAIN Batches : Batches[i] # cur
    <3>1. CASE loop = "handing"
      BY <3>1 DEF DeliveryInv, HandedOnce
    <3>2. CASE Answer
      <4>1. peer[cur] = "waiting"
        BY <3>2 DEF Answer, Queue, TypeInv
      <4>2. cur \in Conns /\ (status[cur] # 0 => peer[cur] = "answered")
        BY DEF TypeInv, TypeOK, Answers
      <4>3. status[cur] # 200
        BY <4>1, <4>2
      <4>4. ASSUME NEW i \in DOMAIN Batches, Batches[i] = cur PROVE FALSE
        <5>1. status[Batches[i]] = 200
          BY <1>2
        <5> QED
          BY <4>3, <4>4, <5>1
      <4> QED
        BY <4>4
    <3> QED
      BY <3>1, <3>2, HandingStep
  <2>2. ~HandOver
    BY HandingStep
  <2>3. CASE Batches' = Batches
    BY <2>1, <2>3, Zenon
  <2>4. CASE Batches' = received
    BY <1>1, <2>1, <2>4
  <2> QED
    BY <2>2, <2>3, <2>4, BatchesStep
<1>6. AcceptedIsDelivered'
  <2> SUFFICES ASSUME consumer', NEW p \in Peers, status'[p] = 200, request'[p] = "records"
               PROVE  (loop' = "handing" /\ cur' = p) \/ In(p, Batches')
    BY DEF AcceptedIsDelivered
  <2>1. consumer
    BY HandingStep
  <2>2. CASE status[p] = 200
    <3>1. (loop = "handing" /\ cur = p) \/ In(p, Batches)
      BY <2>1, <2>2, AnswersStand DEF DeliveryInv, AcceptedIsDelivered
    <3>2. CASE Batches' = Batches /\ ~HandOver
      BY <3>1, <3>2, HandingStep
    <3>3. CASE HandOver /\ Batches' = Append(Batches, cur)
      <4>1. In(p, Batches) => In(p, Batches')
        BY <1>1, <1>3, <3>3
      <4>2. In(cur, Batches')
        <5>1. /\ DOMAIN Batches' = 1 .. Len(Batches) + 1
              /\ Batches'[Len(Batches) + 1] = cur
          BY <1>3, <3>3, Zenon
        <5>2. Len(Batches) + 1 \in DOMAIN Batches'
          BY <1>1, <5>1
        <5> QED
          BY <5>1, <5>2
      <4> QED
        BY <3>1, <4>1, <4>2
    <3> QED
      BY <2>1, <3>2, <3>3, BatchesStep
  <2>3. CASE Answer /\ p = cur
    <3>1. request[cur] = "records"
      BY <2>3 DEF Answer
    <3> QED
      BY <2>3, <3>1 DEF Answer
  <2> QED
    BY <2>2, <2>3, AnswersStand
<1> QED
  BY <1>4, <1>5, <1>6 DEF DeliveryInv

(* A client that was told its records are accepted can rely on it while    *)
(* there is a consumer, for any number of clients and whatever the owner   *)
(* of the handle does (otlp.rs:135-139, 166-172, 244-253).                 *)
THEOREM AcceptedArrives == Spec => []AcceptedIsDelivered
<1>1. Init => DeliveryInv
  BY DEF Init, DeliveryInv, HandedOnce, AcceptedIsDelivered, DeliveredWasAccepted, Batches, Conns
<1>2. TypeInv /\ TypeInv' /\ [Next]_vars /\ DeliveryInv => DeliveryInv'
  BY DeliveryStep
<1>3. DeliveryInv => AcceptedIsDelivered
  BY DEF DeliveryInv
<1> QED
  BY <1>1, <1>2, <1>3, InitType, TypeStep, PTL DEF Spec

(* What arrives was accepted, and arrives once (otlp.rs:135-138, 251).     *)
THEOREM ArrivedWasAccepted == Spec => []DeliveredWasAccepted
<1>1. Init => DeliveryInv
  BY DEF Init, DeliveryInv, HandedOnce, AcceptedIsDelivered, DeliveredWasAccepted, Batches, Conns
<1>2. TypeInv /\ TypeInv' /\ [Next]_vars /\ DeliveryInv => DeliveryInv'
  BY DeliveryStep
<1>3. DeliveryInv => DeliveredWasAccepted
  BY DEF DeliveryInv
<1> QED
  BY <1>1, <1>2, <1>3, InitType, TypeStep, PTL DEF Spec
=============================================================================

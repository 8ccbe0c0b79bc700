---------------------------- MODULE CaptureProofs ----------------------------
(***************************************************************************)
(* Proofs about what Capture makes of the pipeline: for every set of       *)
(* transcripts and shapes of messages, every length, and every gap.        *)
(***************************************************************************)
EXTENDS Capture, PipelineProofs

-----------------------------------------------------------------------------
(* The transcripts.                                                        *)

OtherRecord(f) == [SetRecord(f) EXCEPT !.kind = "other", !.id = <<"other", f, 0>>]

RecordsOf(f) ==
  {SetRecord(f), OtherRecord(f)}
    \cup {RewindRecord(f, n) : n \in 1 .. MaxTurns}
    \cup {MessageRecord(f, n, shape) : n \in 1 .. MaxTurns, shape \in Shapes}

LogOf(f, records) ==
  records \in Seq(RecordsOf(f)) /\ Len(records) >= 1 /\ records[1] = SetRecord(f)

LogInv == DOMAIN log = Files /\ \A f \in Files : LogOf(f, log[f])

(* What tells the records of a transcript apart.                           *)
HasFields(f, rec) ==
  /\ rec.kind \in RecordKinds /\ rec.ts \in Nat
  /\ rec.kind = "set" => rec.id = <<"set", f, 0>>
  /\ rec.kind = "other" => rec.id = <<"other", f, 0>> /\ rec = OtherRecord(f)
  /\ rec.kind = "rewind" =>
       \E n \in 1 .. MaxTurns : rec.id = <<"rewind", f, n>> /\ rec.to = <<"msg", f, n>>
  /\ rec.kind = "message" => \E n \in 1 .. MaxTurns : rec.id = <<"msg", f, n>>
  /\ rec.kind # "message" => rec.call = NoCall /\ rec.result = "none" /\ rec.path = ""

LEMMA FieldsOf ==
  ASSUME NEW f, NEW rec \in RecordsOf(f)
  PROVE  HasFields(f, rec)
<1>1. ASSUME rec = SetRecord(f)
      PROVE  /\ rec.kind = "set" /\ rec.ts \in Nat /\ rec.id = <<"set", f, 0>>
             /\ rec.call = NoCall /\ rec.result = "none" /\ rec.path = ""
  BY <1>1 DEF SetRecord
<1>2. ASSUME rec = OtherRecord(f)
      PROVE  /\ rec.kind = "other" /\ rec.ts \in Nat /\ rec.id = <<"other", f, 0>>
             /\ rec.call = NoCall /\ rec.result = "none" /\ rec.path = ""
  BY <1>2 DEF OtherRecord, SetRecord
<1>3. ASSUME NEW n \in 1 .. MaxTurns, rec = RewindRecord(f, n)
      PROVE  /\ rec.kind = "rewind" /\ rec.ts \in Nat /\ rec.id = <<"rewind", f, n>>
             /\ rec.to = <<"msg", f, n>>
             /\ rec.call = NoCall /\ rec.result = "none" /\ rec.path = ""
  BY <1>3 DEF RewindRecord, SetRecord
<1>4. ASSUME NEW n \in 1 .. MaxTurns, NEW shape \in Shapes, rec = MessageRecord(f, n, shape)
      PROVE  rec.kind = "message" /\ rec.ts \in Nat /\ rec.id = <<"msg", f, n>>
  BY <1>4, CaptureAssumption DEF MessageRecord, SetRecord
<1>5. \/ rec = SetRecord(f) \/ rec = OtherRecord(f)
      \/ \E n \in 1 .. MaxTurns : rec = RewindRecord(f, n)
      \/ \E n \in 1 .. MaxTurns : \E shape \in Shapes : rec = MessageRecord(f, n, shape)
  BY DEF RecordsOf
<1>6. CASE rec = SetRecord(f)
  <2>1. /\ rec.kind = "set" /\ rec.ts \in Nat /\ rec.id = <<"set", f, 0>>
        /\ rec.call = NoCall /\ rec.result = "none" /\ rec.path = ""
    BY <1>1, <1>6
  <2>2. rec.kind \in RecordKinds
    BY <2>1 DEF RecordKinds
  <2> QED BY <2>1, <2>2, ZenonT(20) DEF HasFields
<1>7. CASE rec = OtherRecord(f)
  <2>1. /\ rec.kind = "other" /\ rec.ts \in Nat /\ rec.id = <<"other", f, 0>>
        /\ rec.call = NoCall /\ rec.result = "none" /\ rec.path = ""
    BY <1>2, <1>7
  <2>2. rec.kind \in RecordKinds
    BY <2>1 DEF RecordKinds
  <2> QED BY <1>7, <2>1, <2>2, ZenonT(20) DEF HasFields
<1>8. CASE \E n \in 1 .. MaxTurns : rec = RewindRecord(f, n)
  <2>1. PICK n \in 1 .. MaxTurns :
          /\ rec.kind = "rewind" /\ rec.ts \in Nat /\ rec.id = <<"rewind", f, n>>
          /\ rec.to = <<"msg", f, n>>
          /\ rec.call = NoCall /\ rec.result = "none" /\ rec.path = ""
    BY <1>3, <1>8
  <2>2. rec.kind \in RecordKinds
    BY <2>1 DEF RecordKinds
  <2> QED BY <2>1, <2>2, ZenonT(20) DEF HasFields
<1>9. CASE \E n \in 1 .. MaxTurns : \E shape \in Shapes : rec = MessageRecord(f, n, shape)
  BY <1>4, <1>9 DEF HasFields, RecordKinds
<1> QED BY <1>5, <1>6, <1>7, <1>8, <1>9

LEMMA LogsAreTranscripts == Spec => []LogInv
<1>1. Init => LogInv
  <2> SUFFICES ASSUME Init, NEW f \in Files
               PROVE  DOMAIN log = Files /\ LogOf(f, log[f])
    BY DEF Init, LogInv
  <2>1. log[f] = <<SetRecord(f)>> /\ SetRecord(f) \in RecordsOf(f)
    BY DEF Init, RecordsOf
  <2>2. LogOf(f, <<SetRecord(f)>>)
    <3> DEFINE rec == SetRecord(f)
    <3> DEFINE R == RecordsOf(f)
    <3>1. rec \in R
      BY <2>1
    <3> HIDE DEF rec, R
    <3>2. <<rec>> \in Seq(R) /\ Len(<<rec>>) >= 1 /\ <<rec>>[1] = rec
      BY <3>1
    <3> QED BY <3>2 DEF LogOf, rec, R
  <2> QED BY <2>1, <2>2 DEF Init
<1>2. ASSUME LogInv, log' = log PROVE LogInv'
  BY <1>2 DEF LogInv
<1>3. ASSUME LogInv, NEW f \in Files, NEW rec \in RecordsOf(f), Write(f, rec) PROVE LogInv'
  <2>1. log' = [log EXCEPT ![f] = Append(log[f], rec)] /\ DOMAIN log = Files
    BY <1>3 DEF Write, LogInv
  <2>2. LogOf(f, log[f])
    BY <1>3 DEF LogInv
  <2>3. LogOf(f, Append(log[f], rec))
    <3> DEFINE R == RecordsOf(f)
    <3> DEFINE s == log[f]
    <3>1. s \in Seq(R) /\ rec \in R /\ Len(s) >= 1 /\ s[1] = SetRecord(f)
      BY <1>3, <2>2 DEF LogOf
    <3> HIDE DEF R, s
    <3>2. /\ Append(s, rec) \in Seq(R) /\ Len(Append(s, rec)) = Len(s) + 1 /\ Len(s) \in Nat
          /\ Append(s, rec)[1] = s[1]
      BY <3>1, AppendProperties, LenProperties
    <3> QED BY <3>1, <3>2 DEF LogOf, R, s
  <2>4. ASSUME NEW g \in Files PROVE LogOf(g, log'[g])
    <3>1. CASE g = f
      BY <2>1, <2>3, <3>1
    <3>2. CASE g # f
      BY <1>3, <2>1, <3>2 DEF LogInv
    <3> QED BY <3>1, <3>2
  <2> QED BY <2>1, <2>4 DEF LogInv
<1>4. ASSUME LogInv, Next PROVE LogInv'
  <2>1. ASSUME NEW f \in Files, WriteMessage(f) PROVE LogInv'
    <3>1. PICK n \in 1 .. MaxTurns : \E shape \in Shapes : Write(f, MessageRecord(f, n, shape))
      BY <2>1 DEF WriteMessage
    <3>2. PICK shape \in Shapes : Write(f, MessageRecord(f, n, shape))
      BY <3>1
    <3>3. MessageRecord(f, n, shape) \in RecordsOf(f)
      BY DEF RecordsOf
    <3> QED BY <1>3, <1>4, <3>2, <3>3
  <2>2. ASSUME NEW f \in Files, WriteRewind(f) PROVE LogInv'
    <3>1. PICK n \in 1 .. MaxTurns : Write(f, RewindRecord(f, n))
      BY <2>2 DEF WriteRewind, MessagesOf
    <3>2. RewindRecord(f, n) \in RecordsOf(f)
      BY DEF RecordsOf
    <3> QED BY <1>3, <1>4, <3>1, <3>2
  <2>3. ASSUME NEW f \in Files, WriteOther(f) PROVE LogInv'
    <3>1. Write(f, OtherRecord(f)) /\ OtherRecord(f) \in RecordsOf(f)
      BY <2>3 DEF WriteOther, OtherRecord, RecordsOf
    <3> QED BY <1>3, <1>4, <3>1
  <2>4. ASSUME NEW f \in Files, LiveBatch(f) PROVE LogInv'
    BY <1>2, <1>4, <2>4 DEF LiveBatch
  <2>5. CASE Once
    BY <1>2, <1>4, <2>5 DEF Once
  <2> QED BY <1>4, <2>1, <2>2, <2>3, <2>4, <2>5 DEF Next
<1>5. LogInv /\ UNCHANGED vars => LogInv'
  BY <1>2 DEF vars
<1> QED BY <1>1, <1>4, <1>5, PTL DEF Spec

LEMMA TranscriptsParse ==
  ASSUME NEW f \in Files, NEW records, LogOf(f, records)
  PROVE  /\ AreRecords(RecordsOf(f)) /\ records \in Seq(RecordsOf(f))
         /\ SetsSession(records) /\ records[1].to = <<"session", f>>
<1>1. AreRecords(RecordsOf(f))
  BY FieldsOf DEF AreRecords, HasFields
<1>2. <<"session", f>> # <<"session", 0>>
  BY CaptureAssumption DEF Files
<1>3. /\ SetRecord(f).kind = "set" /\ SetRecord(f).to = <<"session", f>>
      /\ Len(records) >= 1 /\ records[1] = SetRecord(f) /\ records \in Seq(RecordsOf(f))
  BY DEF LogOf, SetRecord
<1> QED BY <1>1, <1>2, <1>3 DEF SetsSession, Unknown
LEMMA InTranscript ==
  ASSUME NEW f \in Files, NEW records, LogOf(f, records)
  PROVE  LET events == ParseRecords(records)
         IN  /\ events \in Seq(EventsOf(RecordsOf(f)))
             /\ \A e \in ToSet(events) :
                  /\ e.rec \in RecordsOf(f) /\ e.rec.ts \in Nat /\ e.seq \in Nat
                  /\ \E p \in 1 .. Len(events) : e = events[p]
<1> DEFINE events == ParseRecords(records)
<1>1. AreRecords(RecordsOf(f)) /\ records \in Seq(RecordsOf(f))
  BY TranscriptsParse
<1>2. PICK start : LaidOut(start, records, RecordsOf(f))
  BY <1>1, EventsAreLaidOut
<1>3. events \in Seq(EventsOf(RecordsOf(f)))
  BY <1>2 DEF LaidOut
<1> HIDE DEF events
<1>4. \A e \in ToSet(events) : \E p \in 1 .. Len(events) : e = events[p]
  BY <1>3 DEF ToSet
<1>5. \A p \in 1 .. Len(events) : events[p] \in EventsOf(RecordsOf(f))
  BY <1>3, LenProperties
<1>6. \A e \in EventsOf(RecordsOf(f)) : /\ e.rec \in RecordsOf(f) /\ e.rec.ts \in Nat /\ e.seq \in Nat
  BY <1>1 DEF EventsOf, AreRecords
<1>7. \A e \in ToSet(events) : e \in EventsOf(RecordsOf(f))
  BY <1>4, <1>5
<1> QED BY <1>3, <1>4, <1>6, <1>7 DEF events

(* The decisions of a transcript are among its turns.                      *)
LEMMA DecisionsTyped ==
  ASSUME NEW f \in Files, NEW records, LogOf(f, records)
  PROVE  LET events == ParseRecords(records)
             decs   == Decisions(events)
             D      == DecisionsOf(events)
         IN  /\ decs \in Seq(D)
             /\ \A d \in D : d.ts \in Nat /\ d.seq \in Nat
             /\ \A i \in 1 .. Len(decs) : decs[i] \in D /\ decs[i] \in ToSet(decs)
             /\ \A d \in ToSet(decs) : d \in D /\ \E i \in 1 .. Len(decs) : d = decs[i]
<1> DEFINE events == ParseRecords(records)
<1> DEFINE decs == Decisions(events)
<1> DEFINE D == DecisionsOf(events)
<1>1. /\ events \in Seq(EventsOf(RecordsOf(f)))
      /\ \A e \in ToSet(events) : e.rec.ts \in Nat /\ e.seq \in Nat
  BY InTranscript
<1> HIDE DEF events
<1>2. \A d \in D : d.ts \in Nat /\ d.seq \in Nat
  <2>1. \A p \in 1 .. Len(events) : events[p] \in ToSet(events)
    BY <1>1 DEF ToSet
  <2>2. \A p \in 1 .. Len(events) : /\ DecisionAt(events, events[p]).ts = events[p].rec.ts
                                    /\ DecisionAt(events, events[p]).seq = events[p].seq
    BY DEF DecisionAt
  <2> QED BY <1>1, <2>1, <2>2 DEF DecisionsOf, DecisionTurns
<1>3. decs \in Seq(D)
  BY <1>1, DecisionsAreTurns
<1> HIDE DEF D, decs
<1>4. \A i \in 1 .. Len(decs) : decs[i] \in D /\ decs[i] \in ToSet(decs)
  BY <1>3 DEF ToSet
<1>5. \A d \in ToSet(decs) : d \in D /\ \E i \in 1 .. Len(decs) : d = decs[i]
  BY <1>3, <1>4 DEF ToSet
<1> QED BY <1>2, <1>3, <1>4, <1>5 DEF D, decs, events

(* At every moment the episodes of every transcript are bound to what      *)
(* governs them, and to nothing else (binder.rs): the table check of the   *)
(* run, for all transcripts.                                               *)
THEOREM BinderHolds == Spec => []BindsTheGoverningDecision
<1>1. LogInv => BindsTheGoverningDecision
  <2> SUFFICES ASSUME LogInv, NEW f \in Files,
                      NEW ep \in Episodes(ParseRecords(log[f]))
               PROVE  LET events == ParseRecords(log[f])
                          edges == {b \in Bind(events) : b.episode = ep}
                          candidates == {d \in ToSet(Decisions(events)) : Governs(f, d, ep)}
                      IN  /\ edges = {} <=> candidates = {}
                          /\ \A b \in edges :
                               /\ b.decision \in candidates
                               /\ b.t_use <= b.t_gen
                               /\ \A d \in candidates :
                                    \/ d.ts < b.decision.ts
                                    \/ d.ts = b.decision.ts /\ d.seq <= b.decision.seq
    BY DEF BindsTheGoverningDecision
  <2> DEFINE events == ParseRecords(log[f])
  <2> DEFINE decs == Decisions(events)
  <2> DEFINE D == DecisionsOf(events)
  <2> DEFINE edges == {b \in Bind(events) : b.episode = ep}
  <2> DEFINE candidates == {d \in ToSet(decs) : Governs(f, d, ep)}
  <2> DEFINE best == Best(decs, ep)
  <2>1. /\ events \in Seq(EventsOf(RecordsOf(f)))
        /\ \A e \in ToSet(events) : e.rec.ts \in Nat /\ e.seq \in Nat
    BY InTranscript DEF LogInv
  <2>2. ep \in ToSet(events)
    BY DEF Episodes
  <2> HIDE DEF events
  <2>3. \A d \in D : d.ts \in Nat /\ d.seq \in Nat
    BY DecisionsTyped DEF LogInv, events
  <2>4. decs \in Seq(D)
    BY DecisionsTyped DEF LogInv, events
  <2>5. \A i \in 1 .. Len(decs) : decs[i] \in D /\ decs[i] \in ToSet(decs)
    BY DecisionsTyped DEF LogInv, events
  <2>6. \A d \in ToSet(decs) : d \in D /\ \E i \in 1 .. Len(decs) : d = decs[i]
    BY DecisionsTyped DEF LogInv, events
  <2> HIDE DEF D, decs
  <2>7. \A d \in D : Governs(f, d, ep) <=> Eligible(d, ep)
    BY <2>1, <2>2, <2>3, GapAssumption DEF Governs, Eligible
  <2>8. IsBestOf(best, decs, ep, Len(decs))
    BY <2>3, <2>4, BestIsBest
  <2> HIDE DEF best
  <2>9. best = {} <=> candidates = {}
    <3>1. candidates = {} <=> \A i \in 1 .. Len(decs) : ~ Eligible(decs[i], ep)
      BY <2>5, <2>6, <2>7
    <3> QED BY <2>8, <3>1 DEF IsBestOf
  <2>10. edges = {} <=> best = {}
    <3>1. ASSUME NEW b \in edges PROVE best # {}
      BY EdgesAre DEF best, decs
    <3>2. ASSUME NEW d \in best PROVE edges # {}
      BY EdgesMade DEF best, decs, events
    <3> QED BY <3>1, <3>2
  <2>11. ASSUME NEW b \in edges
         PROVE  /\ b.decision \in candidates
                /\ b.t_use <= b.t_gen
                /\ \A d \in candidates :
                     \/ d.ts < b.decision.ts
                     \/ d.ts = b.decision.ts /\ d.seq <= b.decision.seq
    <3>1. PICK d \in best : b.decision = d /\ b.t_use = d.ts /\ b.t_gen = ep.rec.ts
      BY EdgesAre DEF best, decs
    <3>2. /\ Eligible(d, ep) /\ d \in D /\ d \in ToSet(decs)
          /\ \A c \in ToSet(decs) : Eligible(c, ep) => ~ Better(c, d)
      BY <2>5, <2>6, <2>8 DEF IsBestOf
    <3>3. d \in candidates
      BY <2>7, <3>2
    <3>4. b.t_use <= b.t_gen
      BY <3>1, <3>2 DEF Eligible
    <3>5. ASSUME NEW c \in candidates
          PROVE  c.ts < d.ts \/ (c.ts = d.ts /\ c.seq <= d.seq)
      <4>1. c \in D /\ ~ Better(c, d)
        BY <2>6, <2>7, <3>2
      <4> QED BY <2>3, <3>2, <4>1 DEF Better
    <3> QED BY <3>1, <3>3, <3>4, <3>5
  <2> HIDE DEF edges, candidates
  <2>12. edges = {} <=> candidates = {}
    BY <2>9, <2>10
  <2> QED BY <2>11, <2>12 DEF edges, candidates, decs, events
<1> QED BY <1>1, LogsAreTranscripts, PTL
-----------------------------------------------------------------------------
(* Which record each event comes from.                                     *)

(* The kinds of the events of a message, one by one.                       *)
Spelled(kinds, rec) ==
  LET called   == rec.call # NoCall
      answered == called /\ rec.result # "none"
      edited   == answered /\ rec.path # ""
  IN  /\ kinds \in Seq(KindNames)
      /\ kinds[1] = "turn"
      /\ called => kinds[2] = "tool_call"
      /\ answered => kinds[3] = "tool_result"
      /\ edited => kinds[4] = "file_edit"
      /\ Len(kinds) = IF edited THEN 4 ELSE IF answered THEN 3 ELSE IF called THEN 2 ELSE 1

LEMMA AppendKind ==
  ASSUME NEW kinds \in Seq(KindNames), NEW kind \in KindNames
  PROVE  LET more == kinds \o <<kind>>
         IN  /\ more \in Seq(KindNames) /\ Len(more) = Len(kinds) + 1
             /\ more[Len(kinds) + 1] = kind
             /\ \A k \in 1 .. Len(kinds) : more[k] = kinds[k]
             /\ kinds \o <<>> = kinds
<1>1. kinds \o <<>> = kinds /\ kinds \o <<kind>> = Append(kinds, kind)
  OBVIOUS
<1> QED BY <1>1, AppendProperties

LEMMA KindsAreSpelled ==
  ASSUME NEW rec, rec.kind = "message"
  PROVE  Spelled(EventKinds(rec), rec)
<1> DEFINE call == IF rec.call = NoCall THEN <<>> ELSE <<"tool_call">>
<1> DEFINE result == IF rec.call = NoCall \/ rec.result = "none" THEN <<>> ELSE <<"tool_result">>
<1> DEFINE edit == IF rec.call = NoCall \/ rec.result = "none" \/ rec.path = ""
                   THEN <<>> ELSE <<"file_edit">>
<1> DEFINE one == <<"turn">>
<1> DEFINE two == one \o call
<1> DEFINE three == two \o result
<1> DEFINE four == three \o edit
<1>1. EventKinds(rec) = four
  BY DEF EventKinds
<1>2. {"turn", "tool_call", "tool_result", "file_edit"} \subseteq KindNames
  BY DEF KindNames
<1>3. one \in Seq(KindNames) /\ Len(one) = 1 /\ one[1] = "turn"
  BY <1>2
<1> HIDE DEF one, two, three, four
<1>4. /\ two \in Seq(KindNames) /\ two[1] = "turn"
      /\ rec.call = NoCall => Len(two) = 1
      /\ rec.call # NoCall => Len(two) = 2 /\ two[2] = "tool_call"
  <2>1. CASE rec.call = NoCall
    BY <1>2, <1>3, <2>1, AppendKind DEF two
  <2>2. CASE rec.call # NoCall
    <3>1. two = one \o <<"tool_call">>
      BY <2>2 DEF two
    <3>2. /\ two \in Seq(KindNames) /\ Len(two) = Len(one) + 1
          /\ two[Len(one) + 1] = "tool_call"
          /\ \A k \in 1 .. Len(one) : two[k] = one[k]
      BY <1>2, <1>3, <3>1, AppendKind
    <3> QED BY <1>3, <2>2, <3>2
  <2> QED BY <2>1, <2>2
<1>5. CASE rec.call = NoCall
  <2>1. three = two /\ four = three
    BY <1>2, <1>4, <1>5, AppendKind DEF three, four
  <2> QED BY <1>1, <1>4, <1>5, <2>1 DEF Spelled
<1>6. CASE rec.call # NoCall /\ rec.result = "none"
  <2>1. three = two /\ four = three
    BY <1>2, <1>4, <1>6, AppendKind DEF three, four
  <2> QED BY <1>1, <1>4, <1>6, <2>1 DEF Spelled
<1>7. CASE rec.call # NoCall /\ rec.result # "none"
  <2>1. /\ three \in Seq(KindNames) /\ Len(three) = 3
        /\ three[1] = "turn" /\ three[2] = "tool_call" /\ three[3] = "tool_result"
    <3>1. three = two \o <<"tool_result">>
      BY <1>7 DEF three
    <3>2. /\ three \in Seq(KindNames) /\ Len(three) = Len(two) + 1
          /\ three[Len(two) + 1] = "tool_result"
          /\ \A k \in 1 .. Len(two) : three[k] = two[k]
      BY <1>2, <1>4, <3>1, AppendKind
    <3> QED BY <1>4, <1>7, <3>2
  <2>2. CASE rec.path = ""
    <3>1. four = three
      <4>1. four = three \o <<>>
        BY <2>2 DEF four
      <4> QED BY <1>2, <2>1, <4>1, AppendKind
    <3> QED BY <1>1, <1>7, <2>1, <2>2, <3>1 DEF Spelled
  <2>3. CASE rec.path # ""
    <3>1. four = three \o <<"file_edit">>
      BY <1>7, <2>3 DEF four
    <3>2. /\ four \in Seq(KindNames) /\ Len(four) = 4 /\ four[4] = "file_edit"
          /\ four[1] = "turn" /\ four[2] = "tool_call" /\ four[3] = "tool_result"
      <4>1. /\ four \in Seq(KindNames) /\ Len(four) = Len(three) + 1
            /\ four[Len(three) + 1] = "file_edit"
            /\ \A k \in 1 .. Len(three) : four[k] = three[k]
        BY <1>2, <2>1, <3>1, AppendKind
      <4> QED BY <2>1, <4>1
    <3> QED BY <1>1, <1>7, <2>3, <3>2 DEF Spelled
  <2> QED BY <2>2, <2>3
<1> QED BY <1>5, <1>6, <1>7

(* What the kind of an event says of its record, and where it stands.      *)
LEMMA KindsTell ==
  ASSUME NEW rec, rec.kind \in RecordKinds,
         rec.kind # "message" => rec.call = NoCall,
         NEW k \in 1 .. Len(EventKinds(rec))
  PROVE  LET kind == EventKinds(rec)[k]
             answered == rec.kind = "message" /\ rec.call # NoCall /\ rec.result # "none"
         IN  /\ kind = "turn" => rec.kind = "message" /\ k = 1
             /\ kind = "rewind" => rec.kind = "rewind" /\ k = 1
             /\ kind = "tool_result" => answered /\ k = 3
             /\ kind = "file_edit" => answered /\ rec.path # ""
             /\ kind \notin CallKinds => k = 1
<1>1. CASE rec.kind = "message"
  <2>1. Spelled(EventKinds(rec), rec)
    BY <1>1, KindsAreSpelled
  <2> HIDE DEF EventKinds
  <2> DEFINE kinds == EventKinds(rec)
  <2> HIDE DEF kinds
  <2>2. /\ kinds[1] = "turn"
        /\ rec.call # NoCall => kinds[2] = "tool_call"
        /\ rec.call # NoCall /\ rec.result # "none" => kinds[3] = "tool_result"
        /\ rec.call # NoCall /\ rec.result # "none" /\ rec.path # "" => kinds[4] = "file_edit"
        /\ \/ Len(kinds) = 4 /\ rec.call # NoCall /\ rec.result # "none" /\ rec.path # ""
           \/ Len(kinds) = 3 /\ rec.call # NoCall /\ rec.result # "none"
           \/ Len(kinds) = 2 /\ rec.call # NoCall
           \/ Len(kinds) = 1
    BY <2>1 DEF Spelled, kinds
  <2>3. k \in 1 .. Len(kinds)
    BY DEF kinds
  <2>4. \/ k = 1
        \/ k = 2 /\ rec.call # NoCall
        \/ k = 3 /\ rec.call # NoCall /\ rec.result # "none"
        \/ k = 4 /\ rec.call # NoCall /\ rec.result # "none" /\ rec.path # ""
    <3>1. /\ Len(kinds) = 4 => k = 1 \/ k = 2 \/ k = 3 \/ k = 4
          /\ Len(kinds) = 3 => k = 1 \/ k = 2 \/ k = 3
          /\ Len(kinds) = 2 => k = 1 \/ k = 2
          /\ Len(kinds) = 1 => k = 1
      <4>1. k \in Int /\ 1 <= k /\ k <= Len(kinds)
        BY <2>3
      <4>2. CASE Len(kinds) = 4
        <5>1. k <= 4
          BY <4>1, <4>2
        <5> QED BY ONLY <4>1, <4>2, <5>1
      <4>3. CASE Len(kinds) = 3
        <5>1. k <= 3
          BY <4>1, <4>3
        <5> QED BY ONLY <4>1, <4>3, <5>1
      <4>4. CASE Len(kinds) = 2
        <5>1. k <= 2
          BY <4>1, <4>4
        <5> QED BY ONLY <4>1, <4>4, <5>1
      <4>5. CASE Len(kinds) = 1
        <5>1. k <= 1
          BY <4>1, <4>5
        <5> QED BY ONLY <4>1, <4>5, <5>1
      <4> QED BY <4>2, <4>3, <4>4, <4>5
    <3> QED BY <2>2, <3>1
  <2>5. \/ k = 1 /\ kinds[k] = "turn"
        \/ kinds[k] = "tool_call"
        \/ k = 3 /\ kinds[k] = "tool_result" /\ rec.call # NoCall /\ rec.result # "none"
        \/ /\ kinds[k] = "file_edit" /\ rec.call # NoCall /\ rec.result # "none"
           /\ rec.path # ""
    BY <2>2, <2>4
  <2> QED BY <1>1, <2>5 DEF CallKinds, kinds
<1>2. CASE rec.kind # "message"
  <2> DEFINE kind == IF rec.kind = "set" THEN "session_start"
                     ELSE IF rec.kind = "rewind" THEN "rewind" ELSE "unknown"
  <2>1. EventKinds(rec) = <<kind>>
    BY <1>2, KindsOfOthers DEF RecordKinds
  <2>2. k = 1 /\ EventKinds(rec)[k] = kind
    BY <2>1
  <2>3. kind \notin CallKinds /\ kind # "turn" /\ kind # "tool_result" /\ kind # "file_edit"
        /\ (kind = "rewind" => rec.kind = "rewind")
    BY <1>2 DEF CallKinds, RecordKinds
  <2> QED BY <2>2, <2>3 DEF CallKinds
<1> QED BY <1>1, <1>2
LEMMA FirstsAt ==
  ASSUME NEW f \in Files, LogOf(f, log[f]), NEW m \in Firsts(f)
  PROVE  /\ IndexOf(f, m) \in 1 .. Len(log[f]) /\ log[f][IndexOf(f, m)] = m
         /\ \A k \in 1 .. IndexOf(f, m) - 1 : log[f][k].id # m.id
         /\ m \in RecordsOf(f)
<1>1. log[f] \in Seq(RecordsOf(f)) /\ DOMAIN log[f] = 1 .. Len(log[f])
  BY DEF LogOf
<1>2. \E i \in DOMAIN log[f] : log[f][i] = m /\ \A k \in 1 .. i - 1 : log[f][k].id # m.id
  BY DEF Firsts
<1>3. /\ IndexOf(f, m) \in DOMAIN log[f] /\ log[f][IndexOf(f, m)] = m
      /\ \A k \in 1 .. IndexOf(f, m) - 1 : log[f][k].id # m.id
  BY <1>2 DEF IndexOf
<1> QED BY <1>1, <1>3, LenProperties

LEMMA IsFirst ==
  ASSUME NEW f \in Files, LogOf(f, log[f]), NEW i \in 1 .. Len(log[f]),
         \A k \in 1 .. i - 1 : log[f][k].id # log[f][i].id
  PROVE  log[f][i] \in Firsts(f) /\ IndexOf(f, log[f][i]) = i
<1>1. log[f] \in Seq(RecordsOf(f)) /\ DOMAIN log[f] = 1 .. Len(log[f]) /\ Len(log[f]) \in Nat
  BY LenProperties DEF LogOf
<1>2. log[f][i] \in Firsts(f)
  BY <1>1 DEF Firsts
<1> DEFINE j == IndexOf(f, log[f][i])
<1>3. /\ j \in 1 .. Len(log[f]) /\ log[f][j] = log[f][i]
      /\ \A k \in 1 .. j - 1 : log[f][k].id # log[f][i].id
  BY <1>2, FirstsAt
<1> HIDE DEF j
<1>4. ~ (i < j)
  <2>1. i < j => i \in 1 .. j - 1
    BY <1>1, <1>3
  <2> QED BY <1>3, <2>1
<1>5. ~ (j < i)
  <2>1. j < i => j \in 1 .. i - 1
    BY <1>1, <1>3
  <2> QED BY <1>3, <2>1
<1>6. i = j
  BY <1>1, <1>3, <1>4, <1>5
<1> QED BY <1>2, <1>6 DEF j

(* The events of record i follow the start[i] before them.                 *)
LaidAt(records, start, i) ==
  LET events == ParseRecords(records)
  IN  \A k \in 1 .. Len(KindsAt(records, i)) :
        /\ start[i] + k \in 1 .. Len(events)
        /\ events[start[i] + k].kind = KindsAt(records, i)[k]
        /\ events[start[i] + k].seq = start[i] + k - 1
        /\ events[start[i] + k].rec = records[i]

LEMMA Starts ==
  ASSUME NEW R, NEW records \in Seq(R), NEW start, LaidOut(start, records, R)
  PROVE  /\ Len(records) \in Nat
         /\ \A i \in 1 .. Len(records) + 1 : start[i] \in Nat
         /\ \A i \in 1 .. Len(records) :
              /\ start[i] \in Nat /\ i + 1 \in 1 .. Len(records) + 1
              /\ Len(KindsAt(records, i)) \in Nat
              /\ start[i] + Len(KindsAt(records, i)) = start[i + 1]
              /\ LaidAt(records, start, i)
<1>1. Len(records) \in Nat
  BY LenProperties
<1>2. start \in [1 .. Len(records) + 1 -> Nat]
  BY DEF LaidOut
<1>3. \A i \in 1 .. Len(records) : i \in 1 .. Len(records) + 1 /\ i + 1 \in 1 .. Len(records) + 1
  BY <1>1
<1>4. \A i \in 1 .. Len(records) : KindsAt(records, i) \in Seq(KindNames)
                                  /\ start[i] + Len(KindsAt(records, i)) = start[i + 1]
  BY DEF LaidOut
<1>5. \A i \in 1 .. Len(records) : Len(KindsAt(records, i)) \in Nat
  BY <1>4, LenProperties
<1>6. \A i \in 1 .. Len(records) : LaidAt(records, start, i)
  BY DEF LaidOut, LaidAt
<1>7. /\ \A i \in 1 .. Len(records) + 1 : start[i] \in Nat
      /\ \A i \in 1 .. Len(records) : start[i] \in Nat
  BY <1>2, <1>3
<1> QED BY <1>1, <1>3, <1>4, <1>5, <1>6, <1>7

LEMMA TriplesDiffer ==
  ASSUME NEW a, NEW b, NEW c, NEW x, NEW y, NEW z, a # x
  PROVE  <<a, b, c>> # <<x, y, z>>
OBVIOUS

(* Event p of the transcript is one of record i.                           *)
ComesFrom(f, start, p, i) ==
  LET events == ParseRecords(log[f])
      rec    == log[f][i]
  IN  /\ KindsAt(log[f], i) = EventKinds(rec)
      /\ p - start[i] \in 1 .. Len(EventKinds(rec))
      /\ events[p].kind = EventKinds(rec)[p - start[i]]
      /\ events[p].seq = p - 1 /\ events[p].rec = rec
      /\ rec.kind # "other" => rec \in Firsts(f) /\ IndexOf(f, rec) = i

LEMMA EventsComeFrom ==
  ASSUME NEW f \in Files, LogOf(f, log[f]),
         NEW start, LaidOut(start, log[f], RecordsOf(f)),
         NEW p \in 1 .. Len(ParseRecords(log[f]))
  PROVE  \E i \in 1 .. Len(log[f]) : ComesFrom(f, start, p, i)
<1> DEFINE events == ParseRecords(log[f])
<1> DEFINE Kinds(i) == KindsAt(log[f], i)
<1>1. PICK i \in 1 .. Len(log[f]) : p - start[i] \in 1 .. Len(Kinds(i))
  BY DEF LaidOut
<1>2. start \in [1 .. Len(log[f]) + 1 -> Nat] /\ Len(log[f]) \in Nat /\ Len(events) \in Nat
  BY LenProperties DEF LaidOut, LogOf
<1> DEFINE k == p - start[i]
<1>3. start[i] \in Nat /\ p \in Nat /\ k \in 1 .. Len(Kinds(i)) /\ start[i] + k = p
  BY <1>1, <1>2
<1>4. /\ events[start[i] + k].kind = Kinds(i)[k]
      /\ events[start[i] + k].seq = start[i] + k - 1
      /\ events[start[i] + k].rec = log[f][i]
  BY <1>3 DEF LaidOut
<1>5. events[p].kind = Kinds(i)[k] /\ events[p].seq = p - 1 /\ events[p].rec = log[f][i]
  BY <1>3, <1>4
<1>6. Kinds(i) # <<>>
  <2>1. Len(<<>>) = 0
    OBVIOUS
  <2> HIDE DEF k, Kinds
  <2> QED BY <1>3, <2>1
<1>7. /\ Kinds(i) = EventKinds(log[f][i])
      /\ log[f][i].id \in IdsUpTo(log[f], i - 1) => log[f][i].kind = "other"
  BY <1>6 DEF KindsAt
<1>8. ASSUME log[f][i].kind # "other"
      PROVE  log[f][i] \in Firsts(f) /\ IndexOf(f, log[f][i]) = i
  <2>1. \A j \in 1 .. i : HasFields(f, log[f][j])
    <3>1. \A j \in 1 .. i : j \in 1 .. Len(log[f])
      BY <1>2
    <3>2. \A j \in 1 .. Len(log[f]) : log[f][j] \in RecordsOf(f)
      BY LenProperties DEF LogOf
    <3> QED BY <3>1, <3>2, FieldsOf
  <2>2. ASSUME NEW j \in 1 .. i - 1 PROVE log[f][j].id # log[f][i].id
    <3>1. j \in 1 .. i /\ i \in 1 .. i
      BY <1>2
    <3>2. CASE log[f][j].kind # "other"
      <4>1. log[f][j].id \in IdsUpTo(log[f], i - 1)
        BY <3>2 DEF IdsUpTo
      <4> QED BY <1>7, <1>8, <4>1
    <3>3. CASE log[f][j].kind = "other"
      <4>1. log[f][j].id = <<"other", f, 0>>
        BY <2>1, <3>1, <3>3 DEF HasFields
      <4>2. log[f][i].id # <<"other", f, 0>>
        <5>1. HasFields(f, log[f][i])
          BY <2>1, <3>1
        <5>2. \E n : log[f][i].id \in {<<"set", f, n>>, <<"rewind", f, n>>, <<"msg", f, n>>}
          BY <1>8, <5>1 DEF HasFields, RecordKinds
        <5> QED BY <5>2, TriplesDiffer
      <4> QED BY <4>1, <4>2
    <3> QED BY <3>2, <3>3
  <2> QED BY <2>2, IsFirst
<1> QED BY <1>3, <1>5, <1>7, <1>8 DEF ComesFrom

LEMMA FirstsHaveEvents ==
  ASSUME NEW f \in Files, LogOf(f, log[f]),
         NEW start, LaidOut(start, log[f], RecordsOf(f)),
         NEW m \in Firsts(f), m.kind # "other", NEW k \in 1 .. Len(EventKinds(m))
  PROVE  /\ start[IndexOf(f, m)] + k \in 1 .. Len(ParseRecords(log[f]))
         /\ ComesFrom(f, start, start[IndexOf(f, m)] + k, IndexOf(f, m))
         /\ start[IndexOf(f, m)] \in Nat
<1> DEFINE i == IndexOf(f, m)
<1> DEFINE p == start[i] + k
<1> DEFINE events == ParseRecords(log[f])
<1>1. /\ i \in 1 .. Len(log[f]) /\ log[f][i] = m /\ Len(log[f]) \in Nat
      /\ \A j \in 1 .. i - 1 : log[f][j].id # m.id
  BY FirstsAt, LenProperties DEF LogOf
<1>9. IndexOf(f, m) = i
  OBVIOUS
<1> HIDE DEF i
<1>2. m.id \notin IdsUpTo(log[f], i - 1)
  BY <1>1 DEF IdsUpTo
<1>3. KindsAt(log[f], i) = EventKinds(m)
  BY <1>1, <1>2 DEF KindsAt
<1>4. start[i] \in Nat
  BY <1>1, Starts DEF LogOf
<1>5. /\ p \in 1 .. Len(events) /\ events[p].kind = EventKinds(m)[k]
      /\ events[p].seq = p - 1 /\ events[p].rec = m
  <2>1. LaidAt(log[f], start, i)
    BY <1>1, Starts DEF LogOf
  <2>2. k \in 1 .. Len(KindsAt(log[f], i))
    BY <1>3
  <2>3. /\ p \in 1 .. Len(events) /\ events[p].kind = KindsAt(log[f], i)[k]
        /\ events[p].seq = p - 1 /\ events[p].rec = log[f][i]
    <3> HIDE DEF events
    <3>1. /\ start[i] + k \in 1 .. Len(events)
          /\ events[start[i] + k].kind = KindsAt(log[f], i)[k]
          /\ events[start[i] + k].seq = start[i] + k - 1
          /\ events[start[i] + k].rec = log[f][i]
      BY <2>1, <2>2 DEF LaidAt, events
    <3>2. p = start[i] + k /\ k \in Int
      OBVIOUS
    <3> HIDE DEF p
    <3> QED BY <1>4, <3>1, <3>2
  <2> QED BY <1>1, <1>3, <2>3
<1>6. p - start[i] = k
  BY <1>4
<1> HIDE DEF p
<1>7. ComesFrom(f, start, p, i)
  BY <1>1, <1>3, <1>5, <1>6, <1>9 DEF ComesFrom
<1> QED BY <1>4, <1>5, <1>7 DEF p, i

(* The events are in the order of their records.                           *)
LEMMA OrderedAlike ==
  ASSUME NEW f \in Files, LogOf(f, log[f]),
         NEW start, LaidOut(start, log[f], RecordsOf(f)),
         NEW i \in 1 .. Len(log[f]), NEW j \in 1 .. Len(log[f]), i < j,
         NEW p \in Int, NEW q \in Int,
         ComesFrom(f, start, p, i), ComesFrom(f, start, q, j)
  PROVE  p < q
<1>1. Len(log[f]) \in Nat
  BY LenProperties DEF LogOf
<1>2. i + 1 \in 1 .. Len(log[f]) + 1 /\ j \in 1 .. Len(log[f]) + 1 /\ i + 1 <= j
  BY <1>1
<1>3. /\ start[i + 1] <= start[j] /\ start[i + 1] \in Nat /\ start[j] \in Nat
      /\ start[i] + Len(KindsAt(log[f], i)) = start[i + 1] /\ start[i] \in Nat
      /\ Len(KindsAt(log[f], i)) \in Nat
  <2>1. /\ i + 1 \in 1 .. Len(log[f]) + 1 /\ start[i] \in Nat
        /\ Len(KindsAt(log[f], i)) \in Nat
        /\ start[i] + Len(KindsAt(log[f], i)) = start[i + 1]
    BY Starts DEF LogOf
  <2>2. start[i + 1] \in Nat /\ start[j] \in Nat
    BY <1>2, Starts DEF LogOf
  <2>3. start[i + 1] <= start[j]
    BY <1>2 DEF LaidOut
  <2> QED BY <2>1, <2>2, <2>3
<1>4. p - start[i] <= Len(KindsAt(log[f], i)) /\ q - start[j] >= 1
  BY <1>3 DEF ComesFrom
<1> QED BY <1>3, <1>4
-----------------------------------------------------------------------------
(* Rewinds.                                                                *)

LEMMA EdgeSource ==
  ASSUME NEW f \in Files, NEW records, LogOf(f, records), NEW b \in Bind(ParseRecords(records))
  PROVE  /\ b.decision \in DecisionsOf(ParseRecords(records))
         /\ b.decision.superseded_by = NoMark
         /\ b.episode \in Episodes(ParseRecords(records))
<1> DEFINE events == ParseRecords(records)
<1> DEFINE decs == Decisions(events)
<1>1. PICK ep \in Episodes(events) : \E d \in Best(decs, ep) : b.episode = ep /\ b.decision = d
  BY EdgesAre
<1>2. PICK d \in Best(decs, ep) : b.episode = ep /\ b.decision = d
  BY <1>1
<1>3. /\ decs \in Seq(DecisionsOf(events))
      /\ \A c \in DecisionsOf(events) : c.ts \in Nat /\ c.seq \in Nat
      /\ \A i \in 1 .. Len(decs) : decs[i] \in DecisionsOf(events)
  BY DecisionsTyped
<1> HIDE DEF events, decs
<1>4. IsBestOf(Best(decs, ep), decs, ep, Len(decs))
  BY <1>3, BestIsBest
<1>5. d \in DecisionsOf(events) /\ Eligible(d, ep)
  BY <1>2, <1>3, <1>4 DEF IsBestOf
<1> QED BY <1>2, <1>5 DEF Eligible, events

LEMMA LastExists ==
  ASSUME NEW N \in Nat, NEW T \in SUBSET (1 .. N), T # {}
  PROVE  \E m \in T : \A k \in T : m >= k
<1> DEFINE Mirror == {N - k : k \in T}
<1>1. Mirror \in SUBSET Nat /\ Mirror # {}
  OBVIOUS
<1>2. PICK least \in Mirror : \A k \in Mirror : least <= k
  <2> HIDE DEF Mirror
  <2> QED BY <1>1, FirstExists
<1>3. PICK m \in T : least = N - m
  OBVIOUS
<1>4. ASSUME NEW k \in T PROVE m >= k
  <2>1. N - k \in Mirror
    OBVIOUS
  <2>2. N - m <= N - k
    BY <1>2, <1>3, <2>1
  <2> QED BY <2>2
<1> QED BY <1>4

(* An event is marked exactly if some rewind covers it.                    *)
LEMMA MarkedByRewind ==
  ASSUME NEW events, Len(events) \in Nat, \A p \in 1 .. Len(events) : events[p].seq \in Nat,
         NEW e
  PROVE  SupersededBy(events, e) = NoMark
           <=> \A p \in 1 .. Len(events) : ~ Rewinds(events, events[p], e)
<1> DEFINE I == {p \in 1 .. Len(events) : Rewinds(events, events[p], e)}
<1>1. SupersededBy(events, e) =
        LET last == IF I # {} THEN Max(I) ELSE 0
        IN  IF last = 0 THEN NoMark ELSE 1 + events[last].seq
  BY DEF SupersededBy, SelectLastInSeq
<1>2. CASE I = {}
  <2>1. SupersededBy(events, e) = NoMark
    BY <1>1, <1>2
  <2> QED BY <1>2, <2>1
<1>3. CASE I # {}
  <2>1. I \in SUBSET (1 .. Len(events))
    OBVIOUS
  <2>2. \E m \in I : \A k \in I : m >= k
    <3> HIDE DEF I
    <3> QED BY <1>3, <2>1, LastExists
  <2>3. Max(I) \in I
    <3> HIDE DEF I
    <3> QED BY <2>2 DEF Max
  <2>4. Max(I) \in 1 .. Len(events) /\ Max(I) # 0
    BY <2>3
  <2> HIDE DEF I
  <2>5. SupersededBy(events, e) = 1 + events[Max(I)].seq
    BY <1>1, <1>3, <2>4
  <2>6. SupersededBy(events, e) # NoMark
    BY <2>4, <2>5 DEF NoMark
  <2> QED BY <2>3, <2>6 DEF I
<1> QED BY <1>2, <1>3

(* What ComesFrom says of the events that matter to a rewind.              *)
LEMMA KindFromRecord ==
  ASSUME NEW f \in Files, LogOf(f, log[f]),
         NEW start, LaidOut(start, log[f], RecordsOf(f)),
         NEW i \in 1 .. Len(log[f]), NEW p \in Int, ComesFrom(f, start, p, i)
  PROVE  LET e   == ParseRecords(log[f])[p]
             rec == log[f][i]
         IN  /\ HasFields(f, rec) /\ start[i] \in Nat
             /\ e.kind = "turn" => rec.kind = "message" /\ p = start[i] + 1
             /\ e.kind = "rewind" => rec.kind = "rewind" /\ p = start[i] + 1
             /\ e.kind = "tool_result" => /\ rec.kind = "message" /\ rec.call # NoCall
                                          /\ rec.result # "none" /\ p = start[i] + 3
             /\ e.kind = "file_edit" => /\ rec.kind = "message" /\ rec.call # NoCall
                                        /\ rec.result # "none" /\ rec.path # ""
             /\ e.kind \notin CallKinds => p = start[i] + 1
<1> DEFINE rec == log[f][i]
<1> DEFINE k == p - start[i]
<1>1. rec \in RecordsOf(f)
  BY LenProperties DEF LogOf
<1>2. HasFields(f, rec)
  BY <1>1, FieldsOf
<1>3. rec.kind \in RecordKinds /\ (rec.kind # "message" => rec.call = NoCall)
  BY <1>2 DEF HasFields
<1>4. start[i] \in Nat
  BY Starts DEF LogOf
<1> HIDE DEF rec, k
<1>5. k \in 1 .. Len(EventKinds(rec)) /\ ParseRecords(log[f])[p].kind = EventKinds(rec)[k]
  BY DEF ComesFrom, rec, k
<1> DEFINE kind == EventKinds(rec)[k]
<1>6. /\ kind = "turn" => rec.kind = "message" /\ k = 1
      /\ kind = "rewind" => rec.kind = "rewind" /\ k = 1
      /\ kind = "tool_result" => /\ rec.kind = "message" /\ rec.call # NoCall
                                 /\ rec.result # "none" /\ k = 3
      /\ kind = "file_edit" => /\ rec.kind = "message" /\ rec.call # NoCall
                               /\ rec.result # "none" /\ rec.path # ""
      /\ kind \notin CallKinds => k = 1
  BY <1>3, <1>5, KindsTell
<1> HIDE DEF kind
<1>7. (k = 1 => p = start[i] + 1) /\ (k = 3 => p = start[i] + 3)
  BY <1>4 DEF k
<1>8. ParseRecords(log[f])[p].kind = kind
  BY <1>5 DEF kind
<1> QED BY <1>2, <1>4, <1>6, <1>7, <1>8 DEF rec
LEMMA CoveredIsMarked ==
  ASSUME NEW f \in Files, LogOf(f, log[f]),
         NEW start, LaidOut(start, log[f], RecordsOf(f)),
         NEW i \in 1 .. Len(log[f]), NEW p \in 1 .. Len(ParseRecords(log[f])),
         ComesFrom(f, start, p, i),
         NEW r \in Firsts(f), NEW t \in Firsts(f),
         r.kind = "rewind", t.id = r.to, IndexOf(f, t) < i, i < IndexOf(f, r)
  PROVE  LET events == ParseRecords(log[f])
         IN  \E q \in 1 .. Len(events) : Rewinds(events, events[q], events[p])
<1> DEFINE events == ParseRecords(log[f])
<1> DEFINE j == IndexOf(f, r)
<1> DEFINE h == IndexOf(f, t)
<1>1. /\ j \in 1 .. Len(log[f]) /\ log[f][j] = r /\ HasFields(f, r)
      /\ h \in 1 .. Len(log[f]) /\ log[f][h] = t /\ HasFields(f, t)
  BY FirstsAt, FieldsOf
<1>2. t.kind # "other"
  <2>1. PICK n : r.to = <<"msg", f, n>>
    BY <1>1 DEF HasFields
  <2>2. t.id # <<"other", f, 0>>
    BY <2>1, TriplesDiffer
  <2> QED BY <1>1, <2>2 DEF HasFields
<1>3. 1 \in 1 .. Len(EventKinds(r)) /\ 1 \in 1 .. Len(EventKinds(t))
  <2>1. \A rec : rec.kind \in RecordKinds => 1 \in 1 .. Len(EventKinds(rec))
    <3>1. \A rec : rec.kind = "message" => Len(EventKinds(rec)) \in Nat /\ Len(EventKinds(rec)) >= 1
      BY KindsOfMessage, LenProperties DEF TurnAndCalls
    <3>2. \A rec : rec.kind \in {"set", "rewind", "other"} => Len(EventKinds(rec)) = 1
      BY KindsOfOthers
    <3>3. ASSUME NEW rec, rec.kind \in RecordKinds PROVE Len(EventKinds(rec)) \in Nat /\ Len(EventKinds(rec)) >= 1
      <4> DEFINE l == Len(EventKinds(rec))
      <4>1. rec.kind = "message" \/ rec.kind \in {"set", "rewind", "other"}
        BY <3>3 DEF RecordKinds
      <4>2. (l \in Nat /\ l >= 1) \/ l = 1
        BY <3>1, <3>2, <4>1
      <4> HIDE DEF l
      <4>3. l \in Nat /\ l >= 1
        BY <4>2
      <4> QED BY <4>3 DEF l
    <3>4. \A l \in Nat : l >= 1 => 1 \in 1 .. l
      OBVIOUS
    <3> QED BY <3>3, <3>4
  <2> QED BY <1>1, <2>1 DEF HasFields
<1> DEFINE q == start[j] + 1
<1> DEFINE u == start[h] + 1
<1>4. /\ q \in 1 .. Len(events) /\ ComesFrom(f, start, q, j)
      /\ u \in 1 .. Len(events) /\ ComesFrom(f, start, u, h)
      /\ start[j] \in Nat /\ start[h] \in Nat
  BY <1>2, <1>3, FirstsHaveEvents
<1>5. u < p /\ p < q
  <2>1. q \in Int /\ u \in Int /\ p \in Int
    BY <1>4
  <2> HIDE DEF q, u, j, h
  <2> QED BY <1>1, <1>4, <2>1, OrderedAlike DEF j, h
<1>6. /\ events[q].kind = EventKinds(r)[1] /\ events[q].rec = r /\ events[q].seq = q - 1
      /\ events[u].kind = EventKinds(t)[1] /\ events[u].rec = t /\ events[u].seq = u - 1
      /\ events[p].seq = p - 1
  <2>1. q - start[j] = 1 /\ u - start[h] = 1
    BY <1>4
  <2> HIDE DEF q, u, events
  <2> QED BY <1>1, <1>4, <2>1 DEF ComesFrom, events
<1>7. events[q].kind = "rewind" /\ events[u].kind \notin CallKinds
  <2>1. EventKinds(r)[1] = "rewind"
    BY KindsOfOthers
  <2>2. EventKinds(t)[1] \in {"turn", "session_start", "rewind", "unknown"}
    <3>1. CASE t.kind = "message"
      BY <3>1, KindsOfMessage DEF TurnAndCalls
    <3>2. CASE t.kind # "message"
      <4>1. t.kind \in {"set", "rewind", "other"}
        BY <1>1, <3>2 DEF HasFields, RecordKinds
      <4>2. EventKinds(t) = <<EventKinds(t)[1]>>
            /\ EventKinds(t)[1] \in {"session_start", "rewind", "unknown"}
        BY <4>1, KindsOfOthers
      <4> QED BY <4>2
    <3> QED BY <3>1, <3>2
  <2> HIDE DEF events, q, u
  <2> QED BY <1>6, <2>1, <2>2 DEF CallKinds
<1>8. events[q].session = events[u].session /\ events[p].session = events[q].session
  BY <1>4, TranscriptsParse, OneSession
<1> HIDE DEF q, u, events, j, h
<1>9. events[u] \in Targets(events, events[q])
  <2>1. EventId(events[u]) = r.to
    BY <1>6, <1>7 DEF EventId, CallKinds
  <2>2. events \in Seq(EventsOf(RecordsOf(f))) /\ events[u] \in ToSet(events)
    BY <1>4, InTranscript DEF events, ToSet
  <2> QED BY <1>6, <1>8, <2>1, <2>2 DEF Targets
<1>10. \E v \in Targets(events, events[q]) :
         /\ \A w \in Targets(events, events[q]) : v.seq <= w.seq
         /\ v.seq < events[p].seq
  <2> DEFINE Seqs == {w.seq : w \in Targets(events, events[q])}
  <2>1. Seqs \in SUBSET Nat
    BY InTranscript DEF Targets, events
  <2>2. events[u].seq \in Seqs
    BY <1>9
  <2> HIDE DEF Seqs
  <2>3. PICK least \in Seqs : \A s \in Seqs : least <= s
    BY <2>1, <2>2, FirstExists
  <2>4. PICK v \in Targets(events, events[q]) : v.seq = least
    BY DEF Seqs
  <2>5. \A w \in Targets(events, events[q]) : v.seq <= w.seq
    BY <2>3, <2>4 DEF Seqs
  <2>6. v.seq \in Nat /\ v.seq <= u - 1
    BY <1>6, <1>9, <2>1, <2>4, <2>5
  <2>7. u \in Int /\ p \in Int
    BY <1>4 DEF events
  <2>8. v.seq < p - 1
    BY <1>5, <2>6, <2>7
  <2> QED BY <1>6, <2>5, <2>8
<1>11. events[p].seq <= events[q].seq
  <2>1. p \in Int /\ q \in Int
    BY <1>4 DEF events
  <2>2. p - 1 <= q - 1
    BY <1>5, <2>1
  <2> QED BY <1>6, <2>2
<1>12. Rewinds(events, events[q], events[p])
  BY <1>7, <1>8, <1>10, <1>11 DEF Rewinds
<1> QED BY <1>4, <1>12 DEF events

LEMMA MarkedIsCovered ==
  ASSUME NEW f \in Files, LogOf(f, log[f]),
         NEW start, LaidOut(start, log[f], RecordsOf(f)),
         NEW i \in 1 .. Len(log[f]), NEW p \in 1 .. Len(ParseRecords(log[f])),
         ComesFrom(f, start, p, i), ParseRecords(log[f])[p].kind = "turn",
         NEW q \in 1 .. Len(ParseRecords(log[f])),
         Rewinds(ParseRecords(log[f]), ParseRecords(log[f])[q], ParseRecords(log[f])[p])
  PROVE  \E r \in Firsts(f), t \in Firsts(f) :
           /\ r.kind = "rewind" /\ t.id = r.to
           /\ IndexOf(f, t) < i /\ i < IndexOf(f, r)
<1> DEFINE events == ParseRecords(log[f])
<1>0. p \in Int /\ q \in Int /\ i \in Int
  OBVIOUS
<1>1. PICK j \in 1 .. Len(log[f]) : ComesFrom(f, start, q, j)
  BY EventsComeFrom
<1> HIDE DEF events
<1>2. /\ events[q].kind = "rewind" /\ events[p].seq <= events[q].seq
      /\ \E v \in Targets(events, events[q]) : v.seq < events[p].seq
  BY DEF Rewinds, events
<1>3. PICK v \in Targets(events, events[q]) : v.seq < events[p].seq
  BY <1>2
<1>4. v \in ToSet(events) /\ EventId(v) = events[q].rec.to
  BY DEF Targets
<1>5. PICK u \in 1 .. Len(events) : v = events[u]
  BY <1>4, InTranscript DEF events
<1>6. PICK h \in 1 .. Len(log[f]) : ComesFrom(f, start, u, h)
  BY <1>5, EventsComeFrom DEF events
<1> DEFINE r == log[f][j]
<1> DEFINE t == log[f][h]
<1> DEFINE m == log[f][i]
<1>7. /\ events[q].rec = r /\ events[q].seq = q - 1
      /\ v.rec = t /\ v.seq = u - 1 /\ events[p].seq = p - 1
      /\ r.kind # "other" => r \in Firsts(f) /\ IndexOf(f, r) = j
      /\ t.kind # "other" => t \in Firsts(f) /\ IndexOf(f, t) = h
  BY <1>1, <1>5, <1>6 DEF ComesFrom, events
<1>8. /\ m.kind = "message" /\ p = start[i] + 1 /\ start[i] \in Nat
      /\ r.kind = "rewind" /\ HasFields(f, r) /\ HasFields(f, t)
      /\ v.kind \notin CallKinds => u = start[h] + 1
  <2>1. u \in Int
    BY <1>5 DEF events
  <2>2. m.kind = "message" /\ p = start[i] + 1 /\ start[i] \in Nat
    BY <1>0, KindFromRecord
  <2>3. r.kind = "rewind" /\ HasFields(f, r)
    BY <1>0, <1>1, <1>2, KindFromRecord DEF events
  <2>4. HasFields(f, t) /\ (v.kind \notin CallKinds => u = start[h] + 1)
    BY <1>5, <1>6, <2>1, KindFromRecord DEF events
  <2> QED BY <2>2, <2>3, <2>4
<1>9. PICK n : r.to = <<"msg", f, n>>
  BY <1>8 DEF HasFields
<1>10. v.kind \notin CallKinds
  <2> SUFFICES ASSUME v.kind \in CallKinds PROVE FALSE
    OBVIOUS
  <2>1. EventId(v) = <<v.kind, v.rec.call>>
    BY DEF EventId, CallKinds
  <2>2. <<v.kind, v.rec.call>> = <<"msg", f, n>>
    BY <1>4, <1>7, <1>9, <2>1
  <2>3. <<v.kind, v.rec.call>>[1] = v.kind /\ <<"msg", f, n>>[1] = "msg"
    OBVIOUS
  <2> QED BY <2>2, <2>3 DEF CallKinds
<1>11. t.id = r.to
  <2>1. EventId(v) = v.rec.id
    BY <1>10 DEF EventId, CallKinds
  <2> QED BY <1>4, <1>7, <2>1
<1>12. t.kind # "other"
  <2>1. t.id # <<"other", f, 0>>
    BY <1>9, <1>11, TriplesDiffer
  <2> QED BY <1>8, <2>1 DEF HasFields
<1> HIDE DEF r, t, m
<1>13. u \in Int /\ h \in Int /\ j \in Int /\ u < p /\ p <= q
  BY <1>0, <1>2, <1>3, <1>5, <1>7 DEF events
<1>14. h < i
  <2>1. ~ (i < h)
    BY <1>0, <1>6, <1>13, OrderedAlike
  <2>2. h # i
    BY <1>8, <1>10, <1>13
  <2> QED BY <1>0, <1>13, <2>1, <2>2
<1>15. i < j
  <2>1. ~ (j < i)
    BY <1>0, <1>1, <1>13, OrderedAlike
  <2>2. j # i
    BY <1>8 DEF r, m
  <2> QED BY <1>0, <1>13, <2>1, <2>2
<1> QED BY <1>7, <1>8, <1>11, <1>12, <1>14, <1>15
(* A turn that is a decision, by its place among the records.              *)
LEMMA DecisionComesFrom ==
  ASSUME NEW f \in Files, LogOf(f, log[f]),
         NEW start, LaidOut(start, log[f], RecordsOf(f)),
         NEW d \in DecisionsOf(ParseRecords(log[f]))
  PROVE  LET events == ParseRecords(log[f])
         IN  \E p \in DecisionTurns(events), i \in 1 .. Len(log[f]) :
               /\ p \in 1 .. Len(events) /\ d = DecisionAt(events, events[p])
               /\ events[p].kind = "turn" /\ ComesFrom(f, start, p, i)
               /\ d.rec = log[f][i] /\ IndexOf(f, d.rec) = i
<1> DEFINE events == ParseRecords(log[f])
<1>1. PICK p \in DecisionTurns(events) : d = DecisionAt(events, events[p])
  BY DEF DecisionsOf
<1>2. p \in 1 .. Len(events) /\ events[p].kind = "turn" /\ d.rec = events[p].rec
  BY <1>1 DEF DecisionTurns, DecisionAt
<1>3. PICK i \in 1 .. Len(log[f]) : ComesFrom(f, start, p, i)
  BY <1>2, EventsComeFrom
<1>4. log[f][i].kind = "message"
  <2>1. p \in Int
    BY <1>2
  <2> QED BY <1>2, <1>3, <2>1, KindFromRecord
<1>5. events[p].rec = log[f][i] /\ IndexOf(f, log[f][i]) = i
  BY <1>3, <1>4 DEF ComesFrom
<1> QED BY <1>1, <1>2, <1>3, <1>5

(* In every transcript at every moment, a message is the source of no edge *)
(* if a rewind covers it, and unmarked if none does (segmenter.rs): the    *)
(* place in the stream of events says what the place in the file does.     *)
THEOREM RewindsHold == Spec => []RewoundGovernsNothing
<1>1. LogInv => RewoundGovernsNothing
  <2> DEFINE Covered(f, m) ==
        \E r \in Firsts(f), t \in Firsts(f) :
          /\ r.kind = "rewind" /\ t.id = r.to
          /\ IndexOf(f, t) < IndexOf(f, m) /\ IndexOf(f, m) < IndexOf(f, r)
  <2> SUFFICES ASSUME LogInv, NEW f \in Files, NEW m \in Firsts(f)
               PROVE  LET events == ParseRecords(log[f])
                      IN  /\ Covered(f, m) => \A b \in Bind(events) : b.decision.rec # m
                          /\ ~ Covered(f, m) => \A d \in ToSet(Decisions(events)) :
                                                  d.rec = m => d.superseded_by = NoMark
    BY DEF RewoundGovernsNothing
  <2> DEFINE events == ParseRecords(log[f])
  <2>1. LogOf(f, log[f])
    BY DEF LogInv
  <2>2. PICK start : LaidOut(start, log[f], RecordsOf(f))
    BY <2>1, TranscriptsParse, EventsAreLaidOut
  <2>3. Len(events) \in Nat /\ \A p \in 1 .. Len(events) : events[p].seq \in Nat
    <3>1. /\ events \in Seq(EventsOf(RecordsOf(f)))
          /\ \A e \in ToSet(events) : e.seq \in Nat
      BY <2>1, InTranscript
    <3> HIDE DEF events
    <3>2. \A p \in 1 .. Len(events) : events[p] \in ToSet(events)
      BY <3>1 DEF ToSet
    <3> QED BY <3>1, <3>2, LenProperties
  <2>4. ASSUME NEW d \in DecisionsOf(events), d.rec = m
        PROVE  d.superseded_by = NoMark <=> ~ Covered(f, m)
    <3>1. PICK p \in DecisionTurns(events), i \in 1 .. Len(log[f]) :
            /\ p \in 1 .. Len(events) /\ d = DecisionAt(events, events[p])
            /\ events[p].kind = "turn" /\ ComesFrom(f, start, p, i)
            /\ d.rec = log[f][i] /\ IndexOf(f, d.rec) = i
      BY <2>1, <2>2, DecisionComesFrom
    <3>2. d.superseded_by = SupersededBy(events, events[p])
      BY <3>1 DEF DecisionAt
    <3>3. Covered(f, m) => \E q \in 1 .. Len(events) : Rewinds(events, events[q], events[p])
      BY <2>1, <2>2, <2>4, <3>1, CoveredIsMarked
    <3>4. (\E q \in 1 .. Len(events) : Rewinds(events, events[q], events[p])) => Covered(f, m)
      BY <2>1, <2>2, <2>4, <3>1, MarkedIsCovered
    <3> HIDE DEF events, Covered
    <3>5. SupersededBy(events, events[p]) = NoMark
            <=> \A q \in 1 .. Len(events) : ~ Rewinds(events, events[q], events[p])
      BY <2>3, MarkedByRewind
    <3> QED BY <3>2, <3>3, <3>4, <3>5
  <2>5. \A b \in Bind(events) : b.decision \in DecisionsOf(events) /\ b.decision.superseded_by = NoMark
    BY <2>1, EdgeSource
  <2>6. \A d \in ToSet(Decisions(events)) : d \in DecisionsOf(events)
    BY <2>1, DecisionsTyped
  <2> HIDE DEF events, Covered
  <2>7. /\ Covered(f, m) => \A b \in Bind(events) : b.decision.rec # m
        /\ ~ Covered(f, m) => \A d \in ToSet(Decisions(events)) :
                                d.rec = m => d.superseded_by = NoMark
    BY <2>4, <2>5, <2>6
  <2> QED BY <2>7 DEF events
<1> QED BY <1>1, LogsAreTranscripts, PTL

-----------------------------------------------------------------------------
(* Calls that failed.                                                      *)

(* A record whose edit succeeded.                                          *)
GoodEdit(f, m) ==
  m.path # "" /\ m.result # "none" /\ m.call # NoCall /\ ~ FailedCall(f, m.call)

LEMMA FailuresSeen ==
  ASSUME NEW f \in Files, LogOf(f, log[f]),
         NEW start, LaidOut(start, log[f], RecordsOf(f)),
         NEW call, call # NoCall, FailedCall(f, call)
  PROVE  CallFailed(ParseRecords(log[f]), call)
<1> DEFINE events == ParseRecords(log[f])
<1>1. PICK w \in Firsts(f) :
        /\ w.call = call /\ w.result = "failed"
        /\ \A o \in Firsts(f) : o.call = call /\ o.result # "none" => IndexOf(f, o) <= IndexOf(f, w)
  BY DEF FailedCall
<1> DEFINE i == IndexOf(f, w)
<1>2. i \in 1 .. Len(log[f]) /\ log[f][i] = w /\ HasFields(f, w)
  BY FirstsAt, FieldsOf
<1>3. w.kind = "message" /\ w.result # "none"
  BY <1>1, <1>2 DEF HasFields
<1>4. 3 \in 1 .. Len(EventKinds(w)) /\ EventKinds(w)[3] = "tool_result"
  <2>1. Spelled(EventKinds(w), w)
    BY <1>3, KindsAreSpelled
  <2>2. w.call # NoCall
    BY <1>1
  <2> DEFINE kinds == EventKinds(w)
  <2>3. kinds[3] = "tool_result" /\ (Len(kinds) = 4 \/ Len(kinds) = 3)
    BY <1>3, <2>1, <2>2 DEF Spelled
  <2> HIDE DEF kinds
  <2>4. 3 \in 1 .. Len(kinds)
    BY <2>3
  <2> QED BY <2>3, <2>4 DEF kinds
<1> DEFINE n == start[i] + 3
<1>5. n \in 1 .. Len(events) /\ ComesFrom(f, start, n, i) /\ start[i] \in Nat
  BY <1>3, <1>4, FirstsHaveEvents
<1>6. events[n].kind = "tool_result" /\ events[n].rec = w
  <2>1. n - start[i] = 3
    BY <1>5
  <2> HIDE DEF n
  <2> QED BY <1>2, <1>4, <1>5, <2>1 DEF ComesFrom
<1>7. ASSUME NEW q \in 1 .. Len(events), IsResultOf(events[q], call) PROVE q <= n
  <2>1. PICK j \in 1 .. Len(log[f]) : ComesFrom(f, start, q, j)
    BY EventsComeFrom
  <2> DEFINE o == log[f][j]
  <2>2. events[q].kind = "tool_result" /\ events[q].rec.call = call /\ q \in Int /\ n \in Int
    BY <1>5, <1>7 DEF IsResultOf
  <2>3. o.kind = "message" /\ o.result # "none" /\ q = start[j] + 3
    BY <2>1, <2>2, KindFromRecord
  <2>4. events[q].rec = o /\ o \in Firsts(f) /\ IndexOf(f, o) = j
    BY <2>1, <2>3 DEF ComesFrom
  <2>5. j <= i
    BY <1>1, <2>2, <2>3, <2>4
  <2> HIDE DEF i, n, o, events
  <2>6. CASE j = i
    BY <2>2, <2>3, <2>6 DEF n
  <2>7. CASE j # i
    <3>1. j < i
      BY <1>2, <2>5, <2>7
    <3>2. q < n
      BY <1>2, <1>5, <2>1, <2>2, <3>1, OrderedAlike
    <3> QED BY <2>2, <3>2
  <2> QED BY <2>6, <2>7
<1>8. DOMAIN events = 1 .. Len(events)
  <2>1. events \in Seq(EventsOf(RecordsOf(f)))
    BY InTranscript
  <2> HIDE DEF events
  <2> QED BY <2>1, LenProperties
<1> HIDE DEF events, n, i
<1>9. IsResultOf(events[n], call)
  BY <1>1, <1>6 DEF IsResultOf
<1>10. CallFailed(events, call)
  BY <1>1, <1>5, <1>6, <1>7, <1>8, <1>9 DEF CallFailed
<1> QED BY <1>10 DEF events

LEMMA EpisodesAreGood ==
  ASSUME NEW f \in Files, LogOf(f, log[f]), NEW e \in Episodes(ParseRecords(log[f]))
  PROVE  e.rec \in Firsts(f) /\ GoodEdit(f, e.rec)
<1> DEFINE events == ParseRecords(log[f])
<1>1. PICK start : LaidOut(start, log[f], RecordsOf(f))
  BY TranscriptsParse, EventsAreLaidOut
<1>2. e \in ToSet(events) /\ e.kind = "file_edit" /\ ~ CallFailed(events, e.rec.call)
  BY DEF Episodes, EditStands
<1>3. PICK p \in 1 .. Len(events) : e = events[p]
  BY <1>2, InTranscript
<1>4. PICK i \in 1 .. Len(log[f]) : ComesFrom(f, start, p, i)
  BY <1>1, <1>3, EventsComeFrom
<1> DEFINE m == log[f][i]
<1>5. m.kind = "message" /\ m.call # NoCall /\ m.result # "none" /\ m.path # ""
  <2>1. p \in Int
    BY <1>3
  <2> QED BY <1>1, <1>2, <1>3, <1>4, <2>1, KindFromRecord
<1>6. e.rec = m /\ m \in Firsts(f)
  BY <1>3, <1>4, <1>5 DEF ComesFrom
<1>7. ~ FailedCall(f, m.call)
  BY <1>1, <1>2, <1>5, <1>6, FailuresSeen
<1> QED BY <1>5, <1>6, <1>7 DEF GoodEdit

(* In every transcript at every moment, an edit whose call ends in failure *)
(* makes no episode, and where no edit succeeds nothing is bound and no    *)
(* decision is lifted over the threshold (segmenter.rs).                   *)
THEOREM FailuresHold == Spec => []FailureLeavesNoTrace
<1>1. LogInv => FailureLeavesNoTrace
  <2> SUFFICES ASSUME LogInv, NEW f \in Files
               PROVE  LET events == ParseRecords(log[f])
                      IN  /\ \A e \in Episodes(events) : GoodEdit(f, e.rec)
                          /\ (\A m \in Firsts(f) : ~ GoodEdit(f, m)) =>
                               /\ Bind(events) = {}
                               /\ \A d \in ToSet(Decisions(events)) :
                                    TierOf(d.rec.text, FALSE) # "None"
    BY DEF FailureLeavesNoTrace, GoodEdit
  <2> DEFINE events == ParseRecords(log[f])
  <2>1. LogOf(f, log[f])
    BY DEF LogInv
  <2>2. \A e \in Episodes(events) : e.rec \in Firsts(f) /\ GoodEdit(f, e.rec)
    BY <2>1, EpisodesAreGood
  <2>3. ASSUME \A m \in Firsts(f) : ~ GoodEdit(f, m)
        PROVE  /\ Bind(events) = {}
               /\ \A d \in ToSet(Decisions(events)) : TierOf(d.rec.text, FALSE) # "None"
    <3>1. Episodes(events) = {}
      BY <2>2, <2>3
    <3>2. Bind(events) = {}
      BY <2>1, <3>1, EdgeSource
    <3>3. ASSUME NEW d \in ToSet(Decisions(events)) PROVE TierOf(d.rec.text, FALSE) # "None"
      <4>1. d \in DecisionsOf(events)
        BY <2>1, DecisionsTyped
      <4> HIDE DEF events
      <4>2. PICK p \in DecisionTurns(events) : d = DecisionAt(events, events[p])
        BY <4>1 DEF DecisionsOf
      <4>3. d.rec = events[p].rec /\ Tier(events, events[p]) # "None"
        BY <4>2 DEF DecisionAt, DecisionTurns
      <4>4. SessionHasEdit(events, events[p].session) = FALSE
        BY <3>1 DEF SessionHasEdit, Episodes
      <4> QED BY <4>3, <4>4 DEF Tier
    <3> QED BY <3>2, <3>3
  <2> QED BY <2>2, <2>3
<1> QED BY <1>1, LogsAreTranscripts, PTL
-----------------------------------------------------------------------------
(* The rows of one-shot runs.                                              *)

Touched(logs, key, F) == \E f \in F : \E n \in RunRecords(logs[f]) : n.pk = key

(* The table after the transcripts 1 .. n: what none of them touched, and  *)
(* of each the nodes that none after it touched.                           *)
AfterFirst(table, logs, n) ==
  {r \in table : ~ Touched(logs, r.pk, 1 .. n)} \cup
  UNION {{r \in RunRecords(logs[f]) : ~ Touched(logs, r.pk, f + 1 .. n)} : f \in 1 .. n}

LEMMA OneMoreEmitted ==
  ASSUME NEW table, NEW logs, NEW n \in Nat \ {0}
  PROVE  AfterFirst(table, logs, n) = EmitAll(AfterFirst(table, logs, n - 1), RunRecords(logs[n]))
<1>1. 1 .. n = (1 .. n - 1) \cup {n} /\ n + 1 .. n = {}
  OBVIOUS
<1>2. \A f \in 1 .. n - 1 : f + 1 .. n = (f + 1 .. n - 1) \cup {n}
  OBVIOUS
<1> DEFINE new == RunRecords(logs[n])
<1> DEFINE Hit(key) == \E m \in new : m.pk = key
<1>3. \A key : Touched(logs, key, 1 .. n) <=> Touched(logs, key, 1 .. n - 1) \/ Hit(key)
  BY <1>1 DEF Touched
<1>4. \A key : \A f \in 1 .. n - 1 :
        Touched(logs, key, f + 1 .. n) <=> Touched(logs, key, f + 1 .. n - 1) \/ Hit(key)
  BY <1>2 DEF Touched
<1>5. \A key : ~ Touched(logs, key, n + 1 .. n)
  BY <1>1 DEF Touched
<1> HIDE DEF Hit
<1>6. UNION {{r \in RunRecords(logs[f]) : ~ Touched(logs, r.pk, f + 1 .. n)} : f \in 1 .. n}
        = new \cup
          UNION {{r \in RunRecords(logs[f]) : ~ Touched(logs, r.pk, f + 1 .. n - 1) /\ ~ Hit(r.pk)} :
                   f \in 1 .. n - 1}
  BY <1>1, <1>4, <1>5
<1>7. EmitAll(AfterFirst(table, logs, n - 1), new)
        = {r \in AfterFirst(table, logs, n - 1) : ~ Hit(r.pk)} \cup new
  BY DEF EmitAll, Hit
<1> HIDE DEF new
<1>8. AfterFirst(table, logs, n)
        = {r \in table : ~ Touched(logs, r.pk, 1 .. n - 1) /\ ~ Hit(r.pk)} \cup new \cup
          UNION {{r \in RunRecords(logs[f]) : ~ Touched(logs, r.pk, f + 1 .. n - 1) /\ ~ Hit(r.pk)} :
                   f \in 1 .. n - 1}
  BY <1>3, <1>6 DEF AfterFirst
<1>9. {r \in AfterFirst(table, logs, n - 1) : ~ Hit(r.pk)}
        = {r \in table : ~ Touched(logs, r.pk, 1 .. n - 1) /\ ~ Hit(r.pk)} \cup
          UNION {{r \in RunRecords(logs[f]) : ~ Touched(logs, r.pk, f + 1 .. n - 1) /\ ~ Hit(r.pk)} :
                   f \in 1 .. n - 1}
  BY DEF AfterFirst
<1>10. AfterFirst(table, logs, n) = EmitAll(AfterFirst(table, logs, n - 1), new)
  BY <1>7, <1>8, <1>9
<1> QED BY <1>10 DEF new

LEMMA AllEmittedIs == AllEmitted = AfterFirst(rows, log, FileCount)
<1> DEFINE N == FileCount
<1> DEFINE old == rows
<1> DEFINE logs == log
<1> DEFINE Eq(f) == f = [n \in 0 .. N |-> IF n = 0 THEN old
                                          ELSE EmitAll(f[n - 1], RunRecords(logs[PathOrder[n]]))]
<1> DEFINE table == CHOOSE h : Eq(h)
<1> DEFINE g == [n \in 0 .. N |-> AfterFirst(old, logs, n)]
<1>1. N \in Nat
  BY CaptureAssumption
<1>2. AllEmitted = table[N]
  BY DEF AllEmitted
<1> HIDE DEF table
<1>3. \A n \in 1 .. N : PathOrder[n] = n
  BY DEF PathOrder, Files
<1> HIDE DEF N, old, logs
<1>4. AfterFirst(old, logs, 0) = old
  BY DEF AfterFirst, Touched
<1>5. \A n \in 1 .. N : n \in Nat \ {0} /\ n - 1 \in 0 .. N /\ n \in 0 .. N
  BY <1>1
<1>6. Eq(g)
  <2>1. \A n \in 1 .. N : g[n] = EmitAll(g[n - 1], RunRecords(logs[PathOrder[n]]))
    BY <1>3, <1>5, OneMoreEmitted
  <2>2. g[0] = old /\ \A n \in 0 .. N : n = 0 \/ n \in 1 .. N
    BY <1>1, <1>4
  <2>3. DOMAIN g = 0 .. N /\ g = [n \in 0 .. N |-> g[n]]
    OBVIOUS
  <2> HIDE DEF g
  <2> QED BY <2>1, <2>2, <2>3
<1>7. Eq(table)
  <2> HIDE DEF Eq, g
  <2> QED BY <1>6 DEF table
<1> DEFINE Good == {n \in 0 .. N : table[n] = g[n]}
<1>8. 0 \in Good
  BY <1>1, <1>4, <1>7
<1>9. ASSUME NEW n \in 1 .. N, n - 1 \in Good PROVE n \in Good
  <2>1. /\ table[n] = EmitAll(table[n - 1], RunRecords(logs[PathOrder[n]]))
        /\ g[n] = EmitAll(g[n - 1], RunRecords(logs[PathOrder[n]]))
    <3>1. n # 0 /\ n \in 0 .. N
      BY <1>1
    <3> HIDE DEF g
    <3> QED BY <1>6, <1>7, <3>1
  <2> HIDE DEF g
  <2> QED BY <1>5, <1>9, <2>1
<1> HIDE DEF Good
<1>10. \A n \in 0 .. N : n \in Good
  BY <1>1, <1>8, <1>9, Upwards
<1>11. table[N] = AfterFirst(old, logs, N)
  BY <1>1, <1>10 DEF Good
<1> QED BY <1>2, <1>11 DEF N, old, logs
LEMMA EmittedTwice ==
  ASSUME NEW table, NEW logs, NEW n \in Nat
  PROVE  AfterFirst(AfterFirst(table, logs, n), logs, n) = AfterFirst(table, logs, n)
<1> DEFINE Left(T) == {r \in T : ~ Touched(logs, r.pk, 1 .. n)}
<1> DEFINE New == UNION {{r \in RunRecords(logs[f]) : ~ Touched(logs, r.pk, f + 1 .. n)} : f \in 1 .. n}
<1>1. \A T : AfterFirst(T, logs, n) = Left(T) \cup New
  BY DEF AfterFirst
<1>2. \A r \in New : Touched(logs, r.pk, 1 .. n)
  BY DEF Touched
<1> HIDE DEF New
<1>3. Left(Left(table) \cup New) = Left(table)
  BY <1>2
<1> HIDE DEF Left
<1> QED BY <1>1, <1>3

(* What a transcript stores of an edit no other transcript takes over.     *)
LEMMA EpisodesStay ==
  ASSUME LogInv, NEW f \in Files, NEW e \in Episodes(ParseRecords(log[f]))
  PROVE  EpisodeNode(e) \in AfterFirst(rows, log, FileCount)
<1>1. FileCount \in Nat /\ Files = 1 .. FileCount
  BY CaptureAssumption DEF Files
<1>2. EpisodeNode(e) \in RunRecords(log[f])
  BY DEF RunRecords, PrepareEvents
<1>3. \A g \in Files : \A x \in Episodes(ParseRecords(log[g])) : x.session = <<"session", g>>
  <2> SUFFICES ASSUME NEW g \in Files, NEW x \in Episodes(ParseRecords(log[g]))
               PROVE  x.session = <<"session", g>>
    OBVIOUS
  <2>1. LogOf(g, log[g])
    BY DEF LogInv
  <2>2. PICK p \in 1 .. Len(ParseRecords(log[g])) : x = ParseRecords(log[g])[p]
    BY <2>1, InTranscript DEF Episodes
  <2> QED BY <2>1, <2>2, TranscriptsParse, OneSession
<1> DEFINE key == EpisodeNode(e).pk
<1>4. key = <<"episode", <<"session", f>>, e.seq, e.rec.path>>
  BY <1>3 DEF EpisodeNode, Node
<1>5. key[1] = "episode" /\ key[2] = <<"session", f>>
  BY <1>4
<1> HIDE DEF key
<1>6. ASSUME NEW g \in Files, g # f, NEW n \in RunRecords(log[g]) PROVE n.pk # key
  <2> DEFINE events == ParseRecords(log[g])
  <2>1. n \in {ConversationNode(x) : x \in Conversations(events)} \cup
              {DecisionNode(d) : d \in ToSet(Decisions(events))} \cup
              {EpisodeNode(x) : x \in Episodes(events)} \cup
              {BindingNode(b) : b \in Bind(events)}
    BY DEF RunRecords, PrepareEvents
  <2>2. CASE n \in {ConversationNode(x) : x \in Conversations(events)}
    <3>1. n.pk[1] = "conversation"
      BY <2>2 DEF ConversationNode, Node
    <3> QED BY <1>5, <3>1
  <2>3. CASE n \in {DecisionNode(d) : d \in ToSet(Decisions(events))}
    <3>1. n.pk[1] = "decision"
      BY <2>3 DEF DecisionNode, Node
    <3> QED BY <1>5, <3>1
  <2>4. CASE n \in {EpisodeNode(x) : x \in Episodes(events)}
    <3>1. PICK x \in Episodes(events) : n = EpisodeNode(x)
      BY <2>4
    <3>2. n.pk = <<"episode", x.session, x.seq, x.rec.path>>
      BY <3>1 DEF EpisodeNode, Node
    <3>3. n.pk[2] = x.session
      BY <3>2
    <3>4. n.pk[2] = <<"session", g>>
      BY <1>3, <3>3
    <3>5. <<"session", g>> # <<"session", f>>
      BY <1>6
    <3> QED BY <1>5, <3>4, <3>5
  <2>5. CASE n \in {BindingNode(b) : b \in Bind(events)}
    <3>1. n.pk[1] = "binding"
      BY <2>5 DEF BindingNode, Node
    <3> QED BY <1>5, <3>1
  <2> QED BY <2>1, <2>2, <2>3, <2>4, <2>5
<1>7. ~ Touched(log, key, f + 1 .. FileCount)
  <2>1. \A g \in f + 1 .. FileCount : g \in Files /\ g # f
    BY <1>1
  <2> QED BY <1>6, <2>1 DEF Touched
<1>8. f \in 1 .. FileCount
  BY <1>1
<1> QED BY <1>2, <1>7, <1>8 DEF AfterFirst, key

LEMMA FailuresReal ==
  ASSUME NEW f \in Files, LogOf(f, log[f]),
         NEW start, LaidOut(start, log[f], RecordsOf(f)),
         NEW call, call # NoCall, CallFailed(ParseRecords(log[f]), call)
  PROVE  FailedCall(f, call)
<1> DEFINE events == ParseRecords(log[f])
<1>1. DOMAIN events = 1 .. Len(events)
  <2>1. events \in Seq(EventsOf(RecordsOf(f)))
    BY InTranscript
  <2> HIDE DEF events
  <2> QED BY <2>1, LenProperties
<1>2. PICK n \in 1 .. Len(events) :
        /\ IsResultOf(events[n], call) /\ events[n].rec.result = "failed"
        /\ \A q \in 1 .. Len(events) : IsResultOf(events[q], call) => q <= n
  <2> HIDE DEF events
  <2> QED BY <1>1 DEF CallFailed, events
<1>3. PICK i \in 1 .. Len(log[f]) : ComesFrom(f, start, n, i)
  BY EventsComeFrom
<1>4. n \in Int /\ events[n].kind = "tool_result" /\ events[n].rec.call = call
  BY <1>2 DEF IsResultOf
<1> DEFINE w == log[f][i]
<1>5. w.kind = "message"
  BY <1>3, <1>4, KindFromRecord
<1>6. events[n].rec = w /\ w \in Firsts(f) /\ IndexOf(f, w) = i
  BY <1>3, <1>5 DEF ComesFrom
<1>7. ASSUME NEW o \in Firsts(f), o.call = call, o.result # "none"
      PROVE  IndexOf(f, o) <= IndexOf(f, w)
  <2> DEFINE j == IndexOf(f, o)
  <2>1. j \in 1 .. Len(log[f]) /\ log[f][j] = o /\ HasFields(f, o)
    BY FirstsAt, FieldsOf
  <2>2. o.kind = "message"
    BY <1>7, <2>1 DEF HasFields
  <2>3. 3 \in 1 .. Len(EventKinds(o)) /\ EventKinds(o)[3] = "tool_result"
    <3>1. Spelled(EventKinds(o), o)
      BY <2>2, KindsAreSpelled
    <3>2. o.call # NoCall
      BY <1>7
    <3> DEFINE kinds == EventKinds(o)
    <3>3. kinds[3] = "tool_result" /\ (Len(kinds) = 4 \/ Len(kinds) = 3)
      BY <1>7, <3>1, <3>2 DEF Spelled
    <3> HIDE DEF kinds
    <3>4. 3 \in 1 .. Len(kinds)
      BY <3>3
    <3> QED BY <3>3, <3>4 DEF kinds
  <2> DEFINE q == start[j] + 3
  <2>4. q \in 1 .. Len(events) /\ ComesFrom(f, start, q, j) /\ start[j] \in Nat
    BY <2>2, <2>3, FirstsHaveEvents
  <2>5. events[q].kind = "tool_result" /\ events[q].rec = o
    <3>1. q - start[j] = 3
      BY <2>4
    <3> HIDE DEF q
    <3> QED BY <2>1, <2>3, <2>4, <3>1 DEF ComesFrom
  <2> HIDE DEF q, j, events, w
  <2>6. q \in Int /\ q <= n
    BY <1>2, <1>7, <2>4, <2>5 DEF IsResultOf
  <2>7. ~ (i < j)
    BY <1>3, <1>4, <2>1, <2>4, <2>6, OrderedAlike
  <2> QED BY <1>6, <2>1, <2>7 DEF j
<1>8. w.call = call /\ w.result = "failed"
  BY <1>2, <1>4, <1>6
<1> HIDE DEF w
<1> QED BY <1>6, <1>7, <1>8 DEF FailedCall

LEMMA EditsMakeEpisodes ==
  ASSUME NEW f \in Files, LogOf(f, log[f]), NEW m \in Firsts(f), GoodEdit(f, m)
  PROVE  \E e \in Episodes(ParseRecords(log[f])) : e.rec = m
<1> DEFINE events == ParseRecords(log[f])
<1>1. PICK start : LaidOut(start, log[f], RecordsOf(f))
  BY TranscriptsParse, EventsAreLaidOut
<1> DEFINE i == IndexOf(f, m)
<1>2. i \in 1 .. Len(log[f]) /\ log[f][i] = m /\ HasFields(f, m)
  BY FirstsAt, FieldsOf
<1>3. m.kind = "message" /\ m.call # NoCall /\ m.result # "none" /\ m.path # ""
  BY <1>2 DEF HasFields, GoodEdit
<1>4. 4 \in 1 .. Len(EventKinds(m)) /\ EventKinds(m)[4] = "file_edit"
  <2>1. Spelled(EventKinds(m), m)
    BY <1>3, KindsAreSpelled
  <2> DEFINE kinds == EventKinds(m)
  <2>2. kinds[4] = "file_edit" /\ Len(kinds) = 4
    BY <1>3, <2>1 DEF Spelled
  <2> HIDE DEF kinds
  <2>3. 4 \in 1 .. Len(kinds)
    BY <2>2
  <2> QED BY <2>2, <2>3 DEF kinds
<1> DEFINE n == start[i] + 4
<1>5. n \in 1 .. Len(events) /\ ComesFrom(f, start, n, i) /\ start[i] \in Nat
  BY <1>1, <1>3, <1>4, FirstsHaveEvents
<1>6. events[n].kind = "file_edit" /\ events[n].rec = m
  <2>1. n - start[i] = 4
    BY <1>5
  <2> HIDE DEF n
  <2> QED BY <1>2, <1>4, <1>5, <2>1 DEF ComesFrom
<1>7. ~ CallFailed(events, m.call)
  BY <1>1, <1>3, FailuresReal DEF GoodEdit
<1>8. events[n] \in ToSet(events)
  <2>1. events \in Seq(EventsOf(RecordsOf(f)))
    BY InTranscript
  <2> HIDE DEF events, n
  <2> QED BY <1>5, <2>1 DEF ToSet, events
<1>9. events[n] \in Episodes(events)
  BY <1>6, <1>7, <1>8 DEF Episodes, EditStands
<1> QED BY <1>6, <1>9

(* Between two runs of `watch --once`.                                     *)
DoneInv == DOMAIN done = Files /\ \A f \in Files : done[f] \in 0 .. Len(log[f])

Settled == mode = "once" /\ (\A f \in Files : done[f] = Len(log[f]))
             => rows = AfterFirst(rows, log, FileCount)

Kept ==
  mode = "once" =>
    \A f \in Files : done[f] = Len(log[f]) =>
      \A e \in Episodes(ParseRecords(log[f])) : EpisodeNode(e) \in rows

RunsInv == DoneInv /\ Settled /\ Kept

LEMMA WritesAreNew ==
  ASSUME LogInv, DoneInv, NEW f \in Files, NEW rec \in RecordsOf(f), Write(f, rec)
  PROVE  /\ DoneInv' /\ done'[f] # Len(log'[f])
         /\ \A g \in Files : g # f => log'[g] = log[g]
         /\ UNCHANGED <<mode, done, rows>>
<1>1. log' = [log EXCEPT ![f] = Append(log[f], rec)] /\ UNCHANGED <<mode, done, rows>>
  BY DEF Write
<1>2. DOMAIN log = Files /\ log[f] \in Seq(RecordsOf(f)) /\ \A g \in Files : Len(log[g]) \in Nat
  BY LenProperties DEF LogInv, LogOf
<1>3. \A g \in Files : log'[g] = IF g = f THEN Append(log[f], rec) ELSE log[g]
  BY <1>1, <1>2
<1>4. Len(log'[f]) = Len(log[f]) + 1
  <2>1. log'[f] = Append(log[f], rec)
    BY <1>3
  <2> QED BY <1>2, <2>1, AppendProperties
<1>5. ASSUME NEW g \in Files PROVE done'[g] \in 0 .. Len(log'[g])
  <2>1. done'[g] \in 0 .. Len(log[g])
    BY <1>1 DEF DoneInv
  <2>2. CASE g = f
    BY <1>2, <1>4, <2>1, <2>2
  <2>3. CASE g # f
    BY <1>3, <2>1, <2>3
  <2> QED BY <2>2, <2>3
<1>6. done'[f] # Len(log'[f])
  <2>1. done[f] \in 0 .. Len(log[f])
    BY DEF DoneInv
  <2> QED BY <1>1, <1>2, <1>4, <2>1
<1>7. DoneInv'
  BY <1>1, <1>5 DEF DoneInv
<1> QED BY <1>1, <1>3, <1>6, <1>7

LEMMA RunsKeep == Spec => [](LogInv /\ RunsInv)
<1>1. Init => RunsInv
  <2> SUFFICES ASSUME Init PROVE RunsInv
    OBVIOUS
  <2>1. \A f \in Files : log[f] = <<SetRecord(f)>> /\ done[f] = 0
    BY DEF Init
  <2>2. ASSUME NEW f \in Files PROVE done[f] # Len(log[f])
    <3> DEFINE first == SetRecord(f)
    <3>1. log[f] = <<first>> /\ done[f] = 0
      BY <2>1
    <3> HIDE DEF first
    <3> QED BY <3>1
  <2>3. DoneInv
    <3>1. \A f \in Files : Len(log[f]) \in Nat
      <4> SUFFICES ASSUME NEW f \in Files PROVE Len(log[f]) \in Nat
        OBVIOUS
      <4> DEFINE first == SetRecord(f)
      <4>1. log[f] = <<first>>
        BY <2>1
      <4> HIDE DEF first
      <4> QED BY <4>1
    <3> QED BY <2>1, <3>1 DEF DoneInv, Init
  <2>4. Kept
    BY <2>2 DEF Kept
  <2>5. Settled
    <3>1. CASE Files = {}
      <4>1. rows = {} /\ 1 .. FileCount = {}
        BY <3>1 DEF Init, Files
      <4> QED BY <4>1 DEF Settled, AfterFirst
    <3>2. CASE Files # {}
      BY <2>2, <3>2 DEF Settled
    <3> QED BY <3>1, <3>2
  <2> QED BY <2>3, <2>4, <2>5 DEF RunsInv
<1>2. ASSUME LogInv, RunsInv, NEW f \in Files, NEW rec \in RecordsOf(f), Write(f, rec)
      PROVE  RunsInv'
  <2>1. /\ DoneInv' /\ done'[f] # Len(log'[f])
        /\ \A g \in Files : g # f => log'[g] = log[g]
        /\ UNCHANGED <<mode, done, rows>>
    BY <1>2, WritesAreNew DEF RunsInv
  <2>2. Settled'
    BY <2>1 DEF Settled
  <2>3. Kept'
    <3> SUFFICES ASSUME mode' = "once", NEW g \in Files, done'[g] = Len(log'[g]),
                        NEW e \in Episodes(ParseRecords(log'[g]))
                 PROVE  EpisodeNode(e) \in rows'
      BY DEF Kept
    <3>1. g # f
      BY <2>1
    <3>2. log'[g] = log[g] /\ done'[g] = done[g] /\ mode = "once" /\ rows' = rows
      BY <2>1, <3>1
    <3>3. e \in Episodes(ParseRecords(log[g])) /\ done[g] = Len(log[g])
      BY <3>2
    <3> QED BY <1>2, <3>2, <3>3 DEF RunsInv, Kept
  <2> QED BY <2>1, <2>2, <2>3 DEF RunsInv
<1>3. ASSUME LogInv, RunsInv, NEW f \in Files, LiveBatch(f) PROVE RunsInv'
  <2>1. mode' # "once" /\ log' = log /\ done' = [done EXCEPT ![f] = Len(log[f])]
    BY <1>3 DEF LiveBatch
  <2>2. \A g \in Files : Len(log[g]) \in Nat
    BY <1>3, LenProperties DEF LogInv, LogOf
  <2>3. DoneInv'
    <3>1. DOMAIN done = Files /\ \A g \in Files : done[g] \in 0 .. Len(log[g])
      BY <1>3 DEF RunsInv, DoneInv
    <3>2. \A g \in Files : done'[g] \in 0 .. Len(log[g])
      BY <2>1, <2>2, <3>1
    <3> QED BY <2>1, <3>1, <3>2 DEF DoneInv
  <2>4. Settled' /\ Kept'
    BY <2>1 DEF Settled, Kept
  <2> QED BY <2>3, <2>4 DEF RunsInv
<1>4. ASSUME LogInv, RunsInv, Once PROVE RunsInv'
  <2>1. /\ rows' = AfterFirst(rows, log, FileCount)
        /\ log' = log /\ done' = [f \in Files |-> Len(log[f])]
    BY <1>4, AllEmittedIs DEF Once
  <2>2. \A g \in Files : Len(log[g]) \in Nat
    BY <1>4, LenProperties DEF LogInv, LogOf
  <2>3. DoneInv'
    BY <2>1, <2>2 DEF DoneInv
  <2>4. Settled'
    <3>1. AfterFirst(AfterFirst(rows, log, FileCount), log, FileCount) = AfterFirst(rows, log, FileCount)
      BY CaptureAssumption, EmittedTwice
    <3>2. AfterFirst(rows', log', FileCount) = rows'
      BY <2>1, <3>1
    <3> QED BY <3>2 DEF Settled
  <2>5. Kept'
    <3>1. \A f \in Files : \A e \in Episodes(ParseRecords(log[f])) : EpisodeNode(e) \in rows'
      BY <1>4, <2>1, EpisodesStay
    <3> QED BY <2>1, <3>1 DEF Kept
  <2> QED BY <2>3, <2>4, <2>5 DEF RunsInv
<1>5. ASSUME LogInv, RunsInv, Next PROVE RunsInv'
  <2>1. ASSUME NEW f \in Files, WriteMessage(f) PROVE RunsInv'
    <3>1. PICK n \in 1 .. MaxTurns, shape \in Shapes : Write(f, MessageRecord(f, n, shape))
      BY <2>1 DEF WriteMessage
    <3>2. MessageRecord(f, n, shape) \in RecordsOf(f)
      BY DEF RecordsOf
    <3> QED BY <1>2, <1>5, <3>1, <3>2
  <2>2. ASSUME NEW f \in Files, WriteRewind(f) PROVE RunsInv'
    <3>1. PICK n \in 1 .. MaxTurns : Write(f, RewindRecord(f, n))
      BY <2>2 DEF WriteRewind, MessagesOf
    <3>2. RewindRecord(f, n) \in RecordsOf(f)
      BY DEF RecordsOf
    <3> QED BY <1>2, <1>5, <3>1, <3>2
  <2>3. ASSUME NEW f \in Files, WriteOther(f) PROVE RunsInv'
    <3>1. Write(f, OtherRecord(f)) /\ OtherRecord(f) \in RecordsOf(f)
      BY <2>3 DEF WriteOther, OtherRecord, RecordsOf
    <3> QED BY <1>2, <1>5, <3>1
  <2> QED BY <1>3, <1>4, <1>5, <2>1, <2>2, <2>3 DEF Next
<1>6. ASSUME RunsInv, UNCHANGED vars PROVE RunsInv'
  BY <1>6 DEF vars, RunsInv, DoneInv, Settled, Kept
<1> QED BY <1>1, <1>5, <1>6, LogsAreTranscripts, PTL DEF Spec

(* One-shot runs keep the row of every successful edit they have processed *)
(* through all later runs over transcripts that grow ("zero loss",         *)
(* main.rs:919-920): keys of different transcripts never meet.             *)
THEOREM EditsAreKept == Spec => []OnceKeepsEveryEdit
<1>1. LogInv /\ RunsInv => OnceKeepsEveryEdit
  <2> SUFFICES ASSUME LogInv, RunsInv, mode = "once", NEW f \in Files, NEW m \in Firsts(f),
                      GoodEdit(f, m), done[f] = Len(log[f])
               PROVE  \E r \in rows : r.tag = "episode" /\ r.src = m.id
    BY DEF OnceKeepsEveryEdit, EveryEditHasItsRow, GoodEdit
  <2>1. LogOf(f, log[f])
    BY DEF LogInv
  <2>2. PICK e \in Episodes(ParseRecords(log[f])) : e.rec = m
    BY <2>1, EditsMakeEpisodes
  <2>3. EpisodeNode(e) \in rows
    BY DEF RunsInv, Kept
  <2>4. EpisodeNode(e).tag = "episode" /\ EpisodeNode(e).src = m.id
    BY <2>2 DEF EpisodeNode, Node
  <2> QED BY <2>3, <2>4
<1> QED BY <1>1, RunsKeep, PTL

(* A run over transcripts that did not change since the run before leaves  *)
(* the table as it is (sqlite.rs:3-5), whatever keys the transcripts share.*)
THEOREM RepeatsHold == Spec => RepeatedRunChangesNothing
<1> DEFINE Same == Once /\ (\A f \in Files : done[f] = Len(log[f])) => rows' = rows
<1>1. LogInv /\ RunsInv /\ [Next]_vars => [Same]_vars
  <2> SUFFICES ASSUME LogInv, RunsInv, Once, \A f \in Files : done[f] = Len(log[f])
               PROVE  rows' = rows
    OBVIOUS
  <2>1. rows' = AfterFirst(rows, log, FileCount) /\ mode = "once"
    BY AllEmittedIs DEF Once
  <2> QED BY <2>1 DEF RunsInv, Settled
<1> QED BY <1>1, RunsKeep, PTL DEF Spec, RepeatedRunChangesNothing
=============================================================================

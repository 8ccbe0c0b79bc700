--------------------------- MODULE PipelineProofs ---------------------------
(***************************************************************************)
(* Facts about the operators of Pipeline, for every sequence of records:   *)
(* what parsing, segmenting and binding return.                            *)
(*                                                                         *)
(* The loops of the code are functions defined by recursion on the number  *)
(* of turns taken. IterationExists gives such a function its equations,    *)
(* Upwards is induction along it; both are stated over sets.               *)
(***************************************************************************)
EXTENDS Pipeline, SequenceTheorems, WellFoundedInduction, TLAPS

(* A set of positions has a first one.                                     *)
LEMMA FirstExists ==
  ASSUME NEW T \in SUBSET Nat, T # {}
  PROVE  \E m \in T : \A k \in T : m <= k
<1> DEFINE R == OpToRel(<, Nat)
<1>1. IsWellFoundedOn(R, Nat)
  BY NatLessThanWellFounded
<1>2. \A x, y \in Nat : <<x, y>> \in R <=> x < y
  BY DEF OpToRel
<1> HIDE DEF R
<1>3. PICK m \in T : \A k \in T : ~ (<<k, m>> \in R)
  BY <1>1, WFMin
<1>4. \A k \in T : ~ (k < m)
  BY <1>2, <1>3
<1>5. \A k \in T : m <= k
  BY <1>4
<1> QED BY <1>5

(* What holds at 0 and at each step up holds everywhere.                   *)
LEMMA Upwards ==
  ASSUME NEW N \in Nat, NEW Good, 0 \in Good,
         \A n \in 1 .. N : n - 1 \in Good => n \in Good
  PROVE  \A n \in 0 .. N : n \in Good
<1> DEFINE Bad == {n \in 0 .. N : n \notin Good}
<1> SUFFICES ASSUME Bad # {} PROVE FALSE
  OBVIOUS
<1>1. Bad \in SUBSET Nat
  OBVIOUS
<1>2. PICK m \in Bad : \A k \in Bad : m <= k
  <2> HIDE DEF Bad
  <2> QED BY <1>1, FirstExists
<1>3. m \in 1 .. N /\ m - 1 \in 0 .. N /\ ~ (m <= m - 1)
  OBVIOUS
<1>4. m - 1 \notin Bad
  BY <1>2, <1>3
<1> QED BY <1>3, <1>4

(* G is a step on S that may depend on its number, f is what N steps of G  *)
(* make of b.                                                              *)
IsStep(G, N, S) == G \in [1 .. N -> [S -> S]]
Iterates(f, b, G, N, S) ==
  f \in [0 .. N -> S] /\ f[0] = b /\ \A n \in 1 .. N : f[n] = G[n][f[n - 1]]

LEMMA IterationExists ==
  ASSUME NEW N \in Nat, NEW S, NEW b \in S, NEW G, IsStep(G, N, S)
  PROVE  \E f : Iterates(f, b, G, N, S)
<1> USE DEF IsStep
<1> DEFINE Good == {m \in 0 .. N : \E f \in [0 .. m -> S] :
                      f[0] = b /\ \A n \in 1 .. m : f[n] = G[n][f[n - 1]]}
<1>1. 0 \in Good
  <2> DEFINE f == [n \in 0 .. 0 |-> b]
  <2>1. f \in [0 .. 0 -> S] /\ f[0] = b /\ 1 .. 0 = {}
    OBVIOUS
  <2> HIDE DEF f
  <2> QED BY <2>1
<1>2. ASSUME NEW m \in 1 .. N, m - 1 \in Good PROVE m \in Good
  <2>1. PICK f \in [0 .. m - 1 -> S] :
          f[0] = b /\ \A n \in 1 .. m - 1 : f[n] = G[n][f[n - 1]]
    BY <1>2
  <2> DEFINE g == [n \in 0 .. m |-> IF n = m THEN G[m][f[m - 1]] ELSE f[n]]
  <2>2. m - 1 \in 0 .. m - 1 /\ f[m - 1] \in S
    BY <2>1
  <2>3. G[m][f[m - 1]] \in S
    BY <2>2
  <2>4. g \in [0 .. m -> S]
    <3>1. \A n \in 0 .. m : n # m => n \in 0 .. m - 1
      OBVIOUS
    <3> QED BY <2>1, <2>3, <3>1
  <2>5. \A n \in 0 .. m - 1 : g[n] = f[n] /\ n # m /\ n \in 0 .. m
    OBVIOUS
  <2>9. g[m] = G[m][f[m - 1]]
    OBVIOUS
  <2>6. \A n \in 1 .. m : g[n] = G[n][g[n - 1]]
    <3> HIDE DEF g
    <3>1. \A n \in 1 .. m : n - 1 \in 0 .. m - 1 /\ (n # m => n \in 1 .. m - 1 /\ n \in 0 .. m - 1)
      OBVIOUS
    <3> QED BY <2>1, <2>5, <2>9, <3>1
  <2> HIDE DEF g
  <2>7. g[0] = b
    BY <2>1, <2>5
  <2> QED BY <2>4, <2>6, <2>7
<1> HIDE DEF Good
<1>3. \A m \in 0 .. N : m \in Good
  BY <1>1, <1>2, Upwards
<1>4. N \in Good
  BY <1>3
<1> QED BY <1>4 DEF Good, Iterates

-----------------------------------------------------------------------------
(* The parser.                                                             *)

RecordKinds == {"set", "rewind", "other", "message"}

KindNames ==
  {"session_start", "rewind", "unknown", "turn", "tool_call", "tool_result", "file_edit"}

SessionsOf(R) == {Unknown} \cup {r.to : r \in R}
EventsOf(R)   == [kind : KindNames, session : SessionsOf(R), seq : Nat, rec : R]
CtxsOf(R)     == [session : SessionsOf(R), next_seq : Nat,
                  seen : SUBSET {r.id : r \in R}, events : Seq(EventsOf(R))]

AreRecords(R) == \A r \in R : r.kind \in RecordKinds /\ r.ts \in Nat

(* The kinds of the events of a record: the turn first, then its calls.    *)
CallKinds == {"tool_call", "tool_result", "file_edit"}

TurnAndCalls(kinds) ==
  /\ kinds \in Seq(KindNames)
  /\ Len(kinds) >= 1 /\ kinds[1] = "turn"
  /\ \A k \in 2 .. Len(kinds) : kinds[k] \in CallKinds

LEMMA OneMoreCall ==
  ASSUME NEW kinds, TurnAndCalls(kinds), NEW more \in Seq(CallKinds)
  PROVE  TurnAndCalls(kinds \o more)
<1> DEFINE all == kinds \o more
<1>1. kinds \in Seq(KindNames) /\ more \in Seq(KindNames)
  <2>1. CallKinds \subseteq KindNames
    BY DEF CallKinds, KindNames
  <2> QED BY <2>1 DEF TurnAndCalls
<1>2. /\ all \in Seq(KindNames) /\ Len(all) = Len(kinds) + Len(more)
      /\ Len(kinds) \in Nat /\ Len(more) \in Nat
      /\ \A k \in 1 .. Len(all) :
           all[k] = IF k <= Len(kinds) THEN kinds[k] ELSE more[k - Len(kinds)]
  BY <1>1, ConcatProperties, LenProperties
<1>3. \A k \in 1 .. Len(more) : more[k] \in CallKinds
  BY LenProperties
<1> HIDE DEF all
<1>4. Len(kinds) >= 1 /\ kinds[1] = "turn" /\ \A k \in 2 .. Len(kinds) : kinds[k] \in CallKinds
  BY DEF TurnAndCalls
<1>5. Len(all) >= 1 /\ all[1] = "turn"
  BY <1>2, <1>4
<1>6. ASSUME NEW k \in 2 .. Len(all) PROVE all[k] \in CallKinds
  <2>1. k \in 1 .. Len(all)
    OBVIOUS
  <2>2. CASE k <= Len(kinds)
    BY <1>2, <1>4, <2>1, <2>2
  <2>3. CASE ~ (k <= Len(kinds))
    <3>1. k - Len(kinds) \in 1 .. Len(more)
      BY <1>2, <2>1, <2>3
    <3> QED BY <1>2, <1>3, <2>1, <2>3, <3>1
  <2> QED BY <2>2, <2>3
<1>7. TurnAndCalls(all)
  BY <1>2, <1>5, <1>6 DEF TurnAndCalls
<1> QED BY <1>7 DEF all

LEMMA KindsOfMessage ==
  ASSUME NEW rec, rec.kind = "message"
  PROVE  TurnAndCalls(EventKinds(rec))
<1> DEFINE call == IF rec.call = NoCall THEN <<>> ELSE <<"tool_call">>
<1> DEFINE result == IF rec.call = NoCall \/ rec.result = "none" THEN <<>> ELSE <<"tool_result">>
<1> DEFINE edit == IF rec.call = NoCall \/ rec.result = "none" \/ rec.path = ""
                   THEN <<>> ELSE <<"file_edit">>
<1>1. EventKinds(rec) = <<"turn">> \o call \o result \o edit
  BY DEF EventKinds
<1>2. call \in Seq(CallKinds) /\ result \in Seq(CallKinds) /\ edit \in Seq(CallKinds)
  <2>1. <<>> \in Seq(CallKinds)
    OBVIOUS
  <2>2. \A kind \in CallKinds : <<kind>> \in Seq(CallKinds)
    OBVIOUS
  <2>3. "tool_call" \in CallKinds /\ "tool_result" \in CallKinds /\ "file_edit" \in CallKinds
    BY DEF CallKinds
  <2> QED BY <2>1, <2>2, <2>3
<1>3. TurnAndCalls(<<"turn">>)
  BY DEF TurnAndCalls, KindNames
<1> HIDE DEF call, result, edit
<1> QED BY <1>1, <1>2, <1>3, OneMoreCall

LEMMA KindsOfOthers ==
  ASSUME NEW rec, rec.kind \in {"set", "rewind", "other"}
  PROVE  EventKinds(rec) =
           <<IF rec.kind = "set" THEN "session_start"
             ELSE IF rec.kind = "rewind" THEN "rewind" ELSE "unknown">>
BY DEF EventKinds

LEMMA KindsAreNames ==
  ASSUME NEW rec, rec.kind \in RecordKinds
  PROVE  EventKinds(rec) \in Seq(KindNames)
<1>1. CASE rec.kind = "message"
  BY <1>1, KindsOfMessage DEF TurnAndCalls
<1>2. CASE rec.kind = "set"
  <2>1. EventKinds(rec) = <<"session_start">>
    BY <1>2, KindsOfOthers
  <2> QED BY <2>1 DEF KindNames
<1>3. CASE rec.kind = "rewind"
  <2>1. EventKinds(rec) = <<"rewind">>
    BY <1>3, KindsOfOthers
  <2> QED BY <2>1 DEF KindNames
<1>4. CASE rec.kind = "other"
  <2>1. EventKinds(rec) = <<"unknown">>
    BY <1>4, KindsOfOthers
  <2> QED BY <2>1 DEF KindNames
<1> QED BY <1>1, <1>2, <1>3, <1>4 DEF RecordKinds

(* The events that one record adds.                                        *)
LEMMA NewEventsType ==
  ASSUME NEW R, AreRecords(R), NEW ctx \in CtxsOf(R), NEW rec \in R
  PROVE  /\ NewKinds(ctx, rec) \in Seq(KindNames)
         /\ NewEvents(ctx, rec) \in Seq(EventsOf(R))
         /\ Len(NewEvents(ctx, rec)) = Len(NewKinds(ctx, rec))
         /\ \A k \in 1 .. Len(NewKinds(ctx, rec)) :
              NewEvents(ctx, rec)[k] =
                [kind |-> NewKinds(ctx, rec)[k], session |-> SessionAfter(ctx, rec),
                 seq |-> ctx.next_seq + k - 1, rec |-> rec]
         /\ SessionAfter(ctx, rec) \in SessionsOf(R)
<1> DEFINE kinds == NewKinds(ctx, rec)
<1> DEFINE session == SessionAfter(ctx, rec)
<1>1. kinds \in Seq(KindNames)
  BY KindsAreNames DEF NewKinds, AreRecords
<1>2. session \in SessionsOf(R) /\ ctx.next_seq \in Nat
  BY DEF SessionAfter, SessionsOf, CtxsOf
<1>3. NewEvents(ctx, rec) =
        [k \in DOMAIN kinds |-> [kind |-> kinds[k], session |-> session,
                                 seq |-> ctx.next_seq + k - 1, rec |-> rec]]
  BY DEF NewEvents
<1> HIDE DEF kinds, session
<1>4. /\ Len(kinds) \in Nat /\ DOMAIN kinds = 1 .. Len(kinds)
      /\ \A k \in 1 .. Len(kinds) : kinds[k] \in KindNames
  BY <1>1, LenProperties
<1> DEFINE event(k) == [kind |-> kinds[k], session |-> session,
                        seq |-> ctx.next_seq + k - 1, rec |-> rec]
<1>5. \A k \in 1 .. Len(kinds) : event(k) \in EventsOf(R)
  BY <1>2, <1>4 DEF EventsOf
<1>6. NewEvents(ctx, rec) = [k \in 1 .. Len(kinds) |-> event(k)]
  BY <1>3, <1>4
<1> HIDE DEF event
<1>7. [k \in 1 .. Len(kinds) |-> event(k)] \in Seq(EventsOf(R))
  BY <1>4, <1>5, IsASeq
<1>8. /\ NewEvents(ctx, rec) \in Seq(EventsOf(R))
      /\ Len(NewEvents(ctx, rec)) = Len(kinds)
      /\ \A k \in 1 .. Len(kinds) : NewEvents(ctx, rec)[k] = event(k)
  BY <1>4, <1>6, <1>7, LenProperties
<1> QED BY <1>1, <1>2, <1>8 DEF kinds, session, event

LEMMA ParseType ==
  ASSUME NEW R, AreRecords(R), NEW ctx \in CtxsOf(R), NEW rec \in R
  PROVE  Parse(ctx, rec) \in CtxsOf(R)
<1>1. /\ NewEvents(ctx, rec) \in Seq(EventsOf(R)) /\ SessionAfter(ctx, rec) \in SessionsOf(R)
      /\ Len(NewKinds(ctx, rec)) \in Nat
  BY NewEventsType, LenProperties
<1>2. /\ ctx.next_seq \in Nat /\ ctx.events \in Seq(EventsOf(R))
      /\ ctx.seen \in SUBSET {r.id : r \in R}
  BY DEF CtxsOf
<1>3. ctx.events \o NewEvents(ctx, rec) \in Seq(EventsOf(R))
  BY <1>1, <1>2, ConcatProperties
<1>4. (IF rec.kind = "other" THEN ctx.seen ELSE ctx.seen \cup {rec.id})
         \in SUBSET {r.id : r \in R}
  BY <1>2
<1> HIDE DEF EventsOf
<1> QED BY <1>1, <1>2, <1>3, <1>4 DEF Parse, CtxsOf

LEMMA FreshType ==
  ASSUME NEW R
  PROVE  FreshCtx \in CtxsOf(R)
BY DEF FreshCtx, CtxsOf, SessionsOf

(* What a context is after n records.                                      *)
ParsesTo(ctx, records, R) ==
  /\ ctx \in [0 .. Len(records) -> CtxsOf(R)]
  /\ ctx[0] = FreshCtx
  /\ \A n \in 1 .. Len(records) : ctx[n] = Parse(ctx[n - 1], records[n])
  /\ ParseRecords(records) = ctx[Len(records)].events

LEMMA ParseUnfolds ==
  ASSUME NEW R, AreRecords(R), NEW records \in Seq(R)
  PROVE  \E ctx : ParsesTo(ctx, records, R)
<1> DEFINE N == Len(records)
<1> DEFINE S == CtxsOf(R)
<1> DEFINE Step(n, c) == Parse(c, records[n])
<1> DEFINE G == [n \in 1 .. N |-> [c \in S |-> Step(n, c)]]
<1> DEFINE Eq(f) == f = [n \in 0 .. N |-> IF n = 0 THEN FreshCtx ELSE Step(n, f[n - 1])]
<1> DEFINE ctx == CHOOSE h : Eq(h)
<1>1. N \in Nat /\ \A n \in 1 .. N : records[n] \in R
  BY LenProperties
<1>2. ParseRecords(records) = ctx[N].events
  BY DEF ParseRecords
<1> HIDE DEF N, ctx
<1>3. FreshCtx \in S /\ \A n \in 1 .. N, c \in S : Step(n, c) \in S
  BY <1>1, FreshType, ParseType
<1> HIDE DEF S, Step
<1>4. /\ IsStep(G, N, S)
      /\ \A n \in 1 .. N : \A c \in S : G[n][c] = Step(n, c)
  BY <1>3 DEF IsStep
<1> HIDE DEF G
<1>5. PICK f : Iterates(f, FreshCtx, G, N, S)
  BY <1>1, <1>3, <1>4, IterationExists
<1>6. f \in [0 .. N -> S] /\ f[0] = FreshCtx /\ \A n \in 1 .. N : f[n] = G[n][f[n - 1]]
  BY <1>5 DEF Iterates
<1>7. Eq(f)
  <2>1. \A n \in 1 .. N : n - 1 \in 0 .. N /\ f[n - 1] \in S
    BY <1>1, <1>6
  <2>2. \A n \in 1 .. N : f[n] = Step(n, f[n - 1])
    BY <1>4, <1>6, <2>1
  <2>3. \A n \in 0 .. N : n = 0 \/ n \in 1 .. N
    BY <1>1
  <2>4. \A n \in 0 .. N : f[n] = IF n = 0 THEN FreshCtx ELSE Step(n, f[n - 1])
    BY <1>6, <2>2, <2>3
  <2> QED BY <1>6, <2>4
<1>8. Eq(ctx)
  <2> HIDE DEF Eq
  <2> QED BY <1>7 DEF ctx
<1>9. /\ DOMAIN ctx = 0 .. N /\ ctx = [n \in 0 .. N |-> ctx[n]]
      /\ ctx[0] = FreshCtx /\ \A n \in 1 .. N : ctx[n] = Step(n, ctx[n - 1])
  <2>1. 0 \in 0 .. N /\ \A n \in 1 .. N : n \in 0 .. N /\ n # 0
    BY <1>1
  <2>2. /\ \A n \in 0 .. N : ctx[n] = IF n = 0 THEN FreshCtx ELSE Step(n, ctx[n - 1])
        /\ DOMAIN ctx = 0 .. N /\ ctx = [n \in 0 .. N |-> ctx[n]]
    BY <1>8
  <2> QED BY <2>1, <2>2
<1>10. \A n \in 0 .. N : ctx[n] \in S
  <2> DEFINE Good == {n \in 0 .. N : ctx[n] \in S}
  <2>1. 0 \in Good
    BY <1>1, <1>3, <1>9
  <2>2. \A n \in 1 .. N : n - 1 \in Good => n \in Good
    <3>1. \A n \in 1 .. N : n \in 0 .. N
      BY <1>1
    <3> QED BY <1>3, <1>9, <3>1
  <2> HIDE DEF Good
  <2>3. \A n \in 0 .. N : n \in Good
    BY <1>1, <2>1, <2>2, Upwards
  <2> QED BY <2>3 DEF Good
<1>11. ctx \in [0 .. N -> S]
  BY <1>9, <1>10
<1> QED BY <1>2, <1>9, <1>11 DEF ParsesTo, N, S, Step

-----------------------------------------------------------------------------
(* What the contexts of a parse have in common with one another.           *)

(* The ids that were given to the first n records.                         *)
IdsUpTo(records, n) ==
  {records[j].id : j \in {k \in 1 .. n : records[k].kind # "other"}}

(* t begins with s.                                                        *)
Begins(s, t) == Len(s) <= Len(t) /\ \A p \in 1 .. Len(s) : t[p] = s[p]

(* How the nth context follows from the one before it.                     *)
Follows(ctx, records, n, R) ==
  LET old   == ctx[n - 1]
      kinds == NewKinds(old, records[n])
  IN  /\ n - 1 \in 0 .. Len(records) /\ n \in 0 .. Len(records)
      /\ old \in CtxsOf(R) /\ records[n] \in R
      /\ Len(old.events) \in Nat /\ old.next_seq \in Nat
      /\ kinds \in Seq(KindNames) /\ Len(kinds) \in Nat
      /\ ctx[n].session = SessionAfter(old, records[n])
      /\ ctx[n].next_seq = old.next_seq + Len(kinds)
      /\ ctx[n].seen = IF records[n].kind = "other" THEN old.seen
                       ELSE old.seen \cup {records[n].id}
      /\ Len(ctx[n].events) = Len(old.events) + Len(kinds)
      /\ Begins(old.events, ctx[n].events)
      /\ \A k \in 1 .. Len(kinds) :
           LET e == ctx[n].events[Len(old.events) + k]
           IN  /\ e.kind = kinds[k] /\ e.session = SessionAfter(old, records[n])
               /\ e.seq = old.next_seq + k - 1 /\ e.rec = records[n]

LEMMA ContextsFollow ==
  ASSUME NEW R, AreRecords(R), NEW records \in Seq(R), NEW ctx, ParsesTo(ctx, records, R),
         NEW n \in 1 .. Len(records)
  PROVE  Follows(ctx, records, n, R)
<1> DEFINE N == Len(records)
<1> DEFINE old == ctx[n - 1]
<1> DEFINE rec == records[n]
<1> DEFINE kinds == NewKinds(old, rec)
<1> DEFINE new == NewEvents(old, rec)
<1>1. N \in Nat /\ n - 1 \in 0 .. N /\ n \in 0 .. N /\ rec \in R
  BY LenProperties
<1>2. old \in CtxsOf(R) /\ ctx[n] = Parse(old, rec)
  BY <1>1 DEF ParsesTo
<1>3. /\ old.events \in Seq(EventsOf(R)) /\ Len(old.events) \in Nat /\ old.next_seq \in Nat
  BY <1>2, LenProperties DEF CtxsOf
<1> HIDE DEF old, rec
<1>4. /\ kinds \in Seq(KindNames) /\ new \in Seq(EventsOf(R)) /\ Len(new) = Len(kinds)
      /\ \A k \in 1 .. Len(kinds) :
           new[k] = [kind |-> kinds[k], session |-> SessionAfter(old, rec),
                     seq |-> old.next_seq + k - 1, rec |-> rec]
      /\ Len(kinds) \in Nat
  BY <1>1, <1>2, NewEventsType, LenProperties
<1>5. /\ ctx[n].session = SessionAfter(old, rec)
      /\ ctx[n].next_seq = old.next_seq + Len(kinds)
      /\ ctx[n].seen = IF rec.kind = "other" THEN old.seen ELSE old.seen \cup {rec.id}
      /\ ctx[n].events = old.events \o new
  BY <1>2 DEF Parse
<1> HIDE DEF kinds, new
<1>6. /\ Len(ctx[n].events) = Len(old.events) + Len(new)
      /\ \A p \in 1 .. Len(old.events) + Len(new) :
           ctx[n].events[p] = IF p <= Len(old.events) THEN old.events[p]
                              ELSE new[p - Len(old.events)]
  <2> DEFINE before == old.events
  <2>1. before \in Seq(EventsOf(R)) /\ ctx[n].events = before \o new
    BY <1>3, <1>5
  <2> HIDE DEF before
  <2>2. /\ Len(before \o new) = Len(before) + Len(new)
        /\ \A p \in 1 .. Len(before) + Len(new) :
             (before \o new)[p] = IF p <= Len(before) THEN before[p] ELSE new[p - Len(before)]
    BY <1>4, <2>1, ConcatProperties
  <2> QED BY <2>1, <2>2 DEF before
<1>7. Begins(old.events, ctx[n].events)
  <2>1. \A p \in 1 .. Len(old.events) : p \in 1 .. Len(old.events) + Len(new) /\ p <= Len(old.events)
    BY <1>3, <1>4
  <2>2. Len(old.events) <= Len(ctx[n].events)
    BY <1>3, <1>4, <1>6
  <2> QED BY <1>6, <2>1, <2>2 DEF Begins
<1>8. ASSUME NEW k \in 1 .. Len(kinds) PROVE ctx[n].events[Len(old.events) + k] = new[k]
  <2> DEFINE p == Len(old.events) + k
  <2>1. /\ p \in 1 .. Len(old.events) + Len(new)
        /\ ~ (p <= Len(old.events)) /\ p - Len(old.events) = k
    BY <1>3, <1>4
  <2> HIDE DEF p
  <2>2. ctx[n].events[p] = new[k]
    BY <1>6, <2>1
  <2> QED BY <2>2 DEF p
<1>9. ASSUME NEW k \in 1 .. Len(kinds)
      PROVE  LET e == ctx[n].events[Len(old.events) + k]
             IN  /\ e.kind = kinds[k] /\ e.session = SessionAfter(old, rec)
                 /\ e.seq = old.next_seq + k - 1 /\ e.rec = rec
  <2> DEFINE e == ctx[n].events[Len(old.events) + k]
  <2>1. e = new[k]
    BY <1>8
  <2>2. new[k] = [kind |-> kinds[k], session |-> SessionAfter(old, rec),
                  seq |-> old.next_seq + k - 1, rec |-> rec]
    BY <1>4
  <2> HIDE DEF e
  <2>3. /\ e.kind = kinds[k] /\ e.session = SessionAfter(old, rec)
        /\ e.seq = old.next_seq + k - 1 /\ e.rec = rec
    BY <2>1, <2>2
  <2> QED BY <2>3 DEF e
<1> QED BY <1>1, <1>2, <1>3, <1>4, <1>5, <1>6, <1>7, <1>9 DEF Follows, old, rec, kinds, new

LEMMA ContextsKnow ==
  ASSUME NEW R, AreRecords(R), NEW records \in Seq(R), NEW ctx, ParsesTo(ctx, records, R)
  PROVE  \A n \in 0 .. Len(records) :
           /\ ctx[n].events \in Seq(EventsOf(R)) /\ Len(ctx[n].events) \in Nat
           /\ ctx[n].next_seq = Len(ctx[n].events)
           /\ ctx[n].seen = IdsUpTo(records, n)
           /\ \A i \in 0 .. n : Begins(ctx[i].events, ctx[n].events)
<1> DEFINE N == Len(records)
<1> DEFINE E(n) == ctx[n].events
<1> DEFINE Good == {n \in 0 .. N : /\ ctx[n].next_seq = Len(E(n))
                                   /\ ctx[n].seen = IdsUpTo(records, n)
                                   /\ \A i \in 0 .. n : Begins(E(i), E(n))}
<1>1. N \in Nat
  BY LenProperties
<1>2. \A n \in 0 .. N : E(n) \in Seq(EventsOf(R)) /\ Len(E(n)) \in Nat
  BY LenProperties DEF ParsesTo, CtxsOf
<1>3. 0 \in Good
  <2>1. ctx[0].next_seq = 0 /\ ctx[0].seen = {} /\ E(0) = <<>>
    BY DEF ParsesTo, FreshCtx
  <2>2. Len(E(0)) = 0 /\ IdsUpTo(records, 0) = {}
    BY <2>1 DEF IdsUpTo
  <2>3. \A i \in 0 .. 0 : Begins(E(i), E(0))
    BY <2>2 DEF Begins
  <2>4. 0 \in 0 .. N
    BY <1>1
  <2> HIDE DEF E, N
  <2> QED BY <2>1, <2>2, <2>3, <2>4
<1>4. ASSUME NEW n \in 1 .. N, n - 1 \in Good PROVE n \in Good
  <2> DEFINE kinds == NewKinds(ctx[n - 1], records[n])
  <2>1. /\ n - 1 \in 0 .. N /\ n \in 0 .. N /\ Len(kinds) \in Nat
        /\ ctx[n].next_seq = ctx[n - 1].next_seq + Len(kinds)
        /\ ctx[n].seen = IF records[n].kind = "other" THEN ctx[n - 1].seen
                         ELSE ctx[n - 1].seen \cup {records[n].id}
        /\ Len(E(n)) = Len(E(n - 1)) + Len(kinds)
        /\ Begins(E(n - 1), E(n))
    <3>1. Follows(ctx, records, n, R)
      BY ContextsFollow
    <3> QED BY <3>1 DEF Follows
  <2> HIDE DEF kinds
  <2>2. /\ ctx[n - 1].next_seq = Len(E(n - 1))
        /\ ctx[n - 1].seen = IdsUpTo(records, n - 1)
        /\ \A i \in 0 .. n - 1 : Begins(E(i), E(n - 1))
    BY <1>4
  <2>3. ctx[n].seen = IdsUpTo(records, n)
    <3>1. 1 .. n = (1 .. n - 1) \cup {n}
      BY <1>1
    <3> QED BY <2>1, <2>2, <3>1 DEF IdsUpTo
  <2>4. ASSUME NEW i \in 0 .. n PROVE Begins(E(i), E(n))
    <3>1. CASE i = n
      BY <1>2, <2>1, <3>1 DEF Begins
    <3>2. CASE i # n
      <4>1. i \in 0 .. n - 1 /\ i \in 0 .. N
        BY <3>2
      <4>2. Begins(E(i), E(n - 1)) /\ Len(E(i)) \in Nat /\ Len(E(n - 1)) \in Nat /\ Len(E(n)) \in Nat
        BY <1>2, <2>1, <2>2, <4>1
      <4> HIDE DEF E
      <4>3. \A p \in 1 .. Len(E(i)) : p \in 1 .. Len(E(n - 1))
        BY <4>2 DEF Begins
      <4> QED BY <2>1, <4>2, <4>3 DEF Begins
    <3> QED BY <3>1, <3>2
  <2> QED BY <2>1, <2>2, <2>3, <2>4
<1> HIDE DEF Good
<1>5. \A n \in 0 .. N : n \in Good
  BY <1>1, <1>3, <1>4, Upwards
<1> QED BY <1>2, <1>5 DEF Good
-----------------------------------------------------------------------------
(* Where the events of each record are in the stream.                      *)

(* The kinds of the events that record i adds.                             *)
KindsAt(records, i) ==
  IF records[i].id \in IdsUpTo(records, i - 1) /\ records[i].kind # "other"
  THEN <<>> ELSE EventKinds(records[i])

(* start[i] events come before those of record i.                          *)
LaidOut(start, records, R) ==
  LET N      == Len(records)
      events == ParseRecords(records)
  IN  /\ start \in [1 .. N + 1 -> Nat]
      /\ \A i, j \in 1 .. N + 1 : i <= j => start[i] <= start[j]
      /\ \A i \in 1 .. N : /\ KindsAt(records, i) \in Seq(KindNames)
                           /\ start[i] + Len(KindsAt(records, i)) = start[i + 1]
      /\ events \in Seq(EventsOf(R))
      /\ \A i \in 1 .. N : \A k \in 1 .. Len(KindsAt(records, i)) :
           /\ start[i] + k \in 1 .. Len(events)
           /\ events[start[i] + k].kind = KindsAt(records, i)[k]
           /\ events[start[i] + k].seq = start[i] + k - 1
           /\ events[start[i] + k].rec = records[i]
      /\ \A p \in 1 .. Len(events) :
           \E i \in 1 .. N : p - start[i] \in 1 .. Len(KindsAt(records, i))

LEMMA EventsAreLaidOut ==
  ASSUME NEW R, AreRecords(R), NEW records \in Seq(R)
  PROVE  \E start : LaidOut(start, records, R)
<1> DEFINE N == Len(records)
<1> DEFINE events == ParseRecords(records)
<1> DEFINE Kinds(i) == KindsAt(records, i)
<1>0. N \in Nat
  BY LenProperties
<1>1. PICK ctx : ParsesTo(ctx, records, R)
  BY ParseUnfolds
<1> DEFINE start == [i \in 1 .. N + 1 |-> Len(ctx[i - 1].events)]
<1>2. \A n \in 0 .. N : /\ ctx[n].events \in Seq(EventsOf(R)) /\ Len(ctx[n].events) \in Nat
                        /\ ctx[n].next_seq = Len(ctx[n].events)
                        /\ ctx[n].seen = IdsUpTo(records, n)
                        /\ \A i \in 0 .. n : Begins(ctx[i].events, ctx[n].events)
  BY <1>1, ContextsKnow
<1>3. ctx[N].events = events /\ events \in Seq(EventsOf(R)) /\ Len(events) \in Nat
  BY <1>0, <1>1, <1>2 DEF ParsesTo
<1>4. ASSUME NEW i \in 1 .. N
      PROVE  /\ Kinds(i) \in Seq(KindNames) /\ Len(Kinds(i)) \in Nat
             /\ Len(ctx[i].events) = Len(ctx[i - 1].events) + Len(Kinds(i))
             /\ \A k \in 1 .. Len(Kinds(i)) :
                  LET e == ctx[i].events[Len(ctx[i - 1].events) + k]
                  IN  /\ e.kind = Kinds(i)[k] /\ e.rec = records[i]
                      /\ e.seq = Len(ctx[i - 1].events) + k - 1
  <2>1. Follows(ctx, records, i, R)
    BY <1>1, ContextsFollow
  <2>2. i - 1 \in 0 .. N
    BY <1>0
  <2>3. NewKinds(ctx[i - 1], records[i]) = Kinds(i)
    BY <1>2, <2>2 DEF NewKinds, KindsAt
  <2>4. ctx[i - 1].next_seq = Len(ctx[i - 1].events)
    BY <1>2, <2>2
  <2>5. /\ Kinds(i) \in Seq(KindNames) /\ Len(Kinds(i)) \in Nat
        /\ Len(ctx[i].events) = Len(ctx[i - 1].events) + Len(Kinds(i))
    BY <2>1, <2>3 DEF Follows
  <2>6. ASSUME NEW k \in 1 .. Len(Kinds(i))
        PROVE  LET e == ctx[i].events[Len(ctx[i - 1].events) + k]
               IN  /\ e.kind = Kinds(i)[k] /\ e.rec = records[i]
                   /\ e.seq = Len(ctx[i - 1].events) + k - 1
    BY <2>1, <2>3, <2>4 DEF Follows
  <2> QED BY <2>5, <2>6
<1> HIDE DEF Kinds, events, N
<1>5. /\ \A i \in 1 .. N + 1 : i - 1 \in 0 .. N
      /\ \A i \in 1 .. N : i \in 1 .. N + 1 /\ i + 1 \in 1 .. N + 1 /\ i + 1 - 1 = i
                           /\ i \in 0 .. N /\ i - 1 \in 0 .. N
  BY <1>0
<1>6. /\ start \in [1 .. N + 1 -> Nat]
      /\ \A i \in 1 .. N + 1 : start[i] = Len(ctx[i - 1].events)
      /\ \A i \in 1 .. N : start[i] = Len(ctx[i - 1].events) /\ start[i + 1] = Len(ctx[i].events)
  BY <1>2, <1>5
<1> HIDE DEF start
<1>7. ASSUME NEW i \in 1 .. N + 1, NEW j \in 1 .. N + 1, i <= j PROVE start[i] <= start[j]
  <2>1. i - 1 \in 0 .. j - 1 /\ j - 1 \in 0 .. N
    BY <1>0, <1>7
  <2> QED BY <1>2, <1>6, <2>1 DEF Begins
<1>8. ASSUME NEW i \in 1 .. N, NEW k \in 1 .. Len(Kinds(i))
      PROVE  /\ start[i] + k \in 1 .. Len(events)
             /\ events[start[i] + k].kind = Kinds(i)[k]
             /\ events[start[i] + k].seq = start[i] + k - 1
             /\ events[start[i] + k].rec = records[i]
  <2> DEFINE p == start[i] + k
  <2>1. p \in 1 .. Len(ctx[i].events) /\ start[i] = Len(ctx[i - 1].events)
    <3>1. /\ start[i] = Len(ctx[i - 1].events) /\ Len(ctx[i - 1].events) \in Nat
          /\ Len(ctx[i].events) = Len(ctx[i - 1].events) + Len(Kinds(i))
          /\ Len(Kinds(i)) \in Nat
      BY <1>2, <1>4, <1>5, <1>6
    <3> QED BY <3>1
  <2>2. /\ ctx[i].events[p].kind = Kinds(i)[k] /\ ctx[i].events[p].rec = records[i]
        /\ ctx[i].events[p].seq = start[i] + k - 1
    BY <1>4, <2>1
  <2> HIDE DEF p
  <2>3. Begins(ctx[i].events, events)
    <3>1. i \in 0 .. N /\ N \in 0 .. N
      BY <1>0
    <3> QED BY <1>2, <1>3, <3>1
  <2>4. p \in 1 .. Len(events) /\ events[p] = ctx[i].events[p]
    <3>1. Len(ctx[i].events) \in Nat
      BY <1>2, <1>5
    <3> QED BY <1>3, <2>1, <2>3, <3>1 DEF Begins
  <2> QED BY <2>2, <2>4 DEF p
<1>9. ASSUME NEW p \in 1 .. Len(events)
      PROVE  \E i \in 1 .. N : p - start[i] \in 1 .. Len(Kinds(i))
  <2> DEFINE Past == {n \in 0 .. N : p <= Len(ctx[n].events)}
  <2>1. Past \in SUBSET Nat /\ N \in Past
    BY <1>0, <1>3
  <2> HIDE DEF Past
  <2>2. PICK i \in Past : \A n \in Past : i <= n
    BY <2>1, FirstExists
  <2>3. i \in 0 .. N /\ p <= Len(ctx[i].events)
    BY <2>2 DEF Past
  <2>4. i # 0
    BY <1>1, <2>3 DEF ParsesTo, FreshCtx
  <2>5. i \in 1 .. N /\ i - 1 \in 0 .. N /\ ~ (i <= i - 1)
    BY <1>0, <2>3, <2>4
  <2>6. ~ (p <= Len(ctx[i - 1].events))
    BY <2>2, <2>5 DEF Past
  <2>7. /\ Len(ctx[i].events) = Len(ctx[i - 1].events) + Len(Kinds(i))
        /\ Len(ctx[i - 1].events) \in Nat /\ Len(Kinds(i)) \in Nat
        /\ start[i] = Len(ctx[i - 1].events)
    BY <1>2, <1>4, <1>6, <2>5
  <2>8. p - start[i] \in 1 .. Len(Kinds(i))
    BY <2>3, <2>6, <2>7
  <2> QED BY <2>5, <2>8
<1>10. \A i \in 1 .. N : Kinds(i) \in Seq(KindNames) /\ start[i] + Len(Kinds(i)) = start[i + 1]
  BY <1>4, <1>6
<1>11. LaidOut(start, records, R)
  BY <1>3, <1>6, <1>7, <1>8, <1>9, <1>10 DEF LaidOut, N, events, Kinds
<1> QED BY <1>11

(* A transcript that names its session first has all its events in it.     *)
SetsSession(records) ==
  Len(records) >= 1 /\ records[1].kind = "set" /\ records[1].to # Unknown

LEMMA OneSession ==
  ASSUME NEW R, AreRecords(R), NEW records \in Seq(R), SetsSession(records)
  PROVE  \A p \in 1 .. Len(ParseRecords(records)) :
           ParseRecords(records)[p].session = records[1].to
<1> DEFINE N == Len(records)
<1> DEFINE session == records[1].to
<1>0. N \in Nat /\ N >= 1
  BY LenProperties DEF SetsSession
<1>1. PICK ctx : ParsesTo(ctx, records, R)
  BY ParseUnfolds
<1> DEFINE In(n) == \A p \in 1 .. Len(ctx[n].events) : ctx[n].events[p].session = session
<1> DEFINE Good == {n \in 0 .. N : (n # 0 => ctx[n].session = session) /\ In(n)}
<1>2. 0 \in Good
  <2>1. ctx[0].events = <<>>
    BY <1>1 DEF ParsesTo, FreshCtx
  <2>2. 1 .. Len(ctx[0].events) = {}
    BY <2>1
  <2> QED BY <1>0, <2>2
<1>3. ASSUME NEW n \in 1 .. N, n - 1 \in Good PROVE n \in Good
  <2> DEFINE old == ctx[n - 1]
  <2> DEFINE kinds == NewKinds(old, records[n])
  <2>1. /\ n \in 0 .. N /\ n - 1 \in 0 .. N
        /\ Len(old.events) \in Nat /\ Len(kinds) \in Nat
        /\ ctx[n].session = SessionAfter(old, records[n])
        /\ Len(ctx[n].events) = Len(old.events) + Len(kinds)
        /\ Begins(old.events, ctx[n].events)
        /\ \A k \in 1 .. Len(kinds) :
             ctx[n].events[Len(old.events) + k].session = SessionAfter(old, records[n])
    <3>1. Follows(ctx, records, n, R)
      BY <1>1, ContextsFollow
    <3>2. \A k \in 1 .. Len(kinds) :
            ctx[n].events[Len(old.events) + k].session = SessionAfter(old, records[n])
      BY <3>1 DEF Follows
    <3>3. /\ n \in 0 .. N /\ n - 1 \in 0 .. N
          /\ Len(old.events) \in Nat /\ Len(kinds) \in Nat
          /\ ctx[n].session = SessionAfter(old, records[n])
          /\ Len(ctx[n].events) = Len(old.events) + Len(kinds)
          /\ Begins(old.events, ctx[n].events)
      BY <3>1 DEF Follows
    <3> QED BY <3>2, <3>3
  <2>2. SessionAfter(old, records[n]) = session
    <3>1. CASE n = 1
      <4>1. old.session = Unknown
        BY <1>1, <3>1 DEF ParsesTo, FreshCtx
      <4> QED BY <3>1, <4>1 DEF SetsSession, SessionAfter
    <3>2. CASE n # 1
      <4>1. old.session = session
        BY <1>3, <3>2
      <4> QED BY <4>1 DEF SetsSession, SessionAfter
    <3> QED BY <3>1, <3>2
  <2>3. \A p \in 1 .. Len(old.events) : old.events[p].session = session
    BY <1>3
  <2> HIDE DEF old, kinds, session
  <2>4. ASSUME NEW p \in 1 .. Len(ctx[n].events) PROVE ctx[n].events[p].session = session
    <3>1. CASE p \in 1 .. Len(old.events)
      BY <2>1, <2>3, <3>1 DEF Begins
    <3>2. CASE p \notin 1 .. Len(old.events)
      <4> DEFINE k == p - Len(old.events)
      <4>1. k \in 1 .. Len(kinds) /\ p = Len(old.events) + k
        BY <2>1, <3>2
      <4> HIDE DEF k
      <4> QED BY <2>1, <2>2, <4>1
    <3> QED BY <3>1, <3>2
  <2> QED BY <2>1, <2>2, <2>4
<1> HIDE DEF Good
<1>4. \A n \in 0 .. N : n \in Good
  BY <1>0, <1>2, <1>3, Upwards
<1>5. N \in Good
  BY <1>0, <1>4
<1> QED BY <1>1, <1>5 DEF Good, ParsesTo
-----------------------------------------------------------------------------
(* The binder.                                                             *)

(* The turns that are decisions.                                           *)
DecisionTurns(events) ==
  {n \in 1 .. Len(events) : events[n].kind = "turn" /\ Tier(events, events[n]) # "None"}

DecisionsOf(events) == {DecisionAt(events, events[n]) : n \in DecisionTurns(events)}

LEMMA DecisionsAreTurns ==
  ASSUME NEW E, NEW events \in Seq(E)
  PROVE  Decisions(events) \in Seq(DecisionsOf(events))
<1> DEFINE N == Len(events)
<1> DEFINE S == Seq(DecisionsOf(events))
<1> DEFINE none == <<>>
<1> DEFINE Step(n, s) == IF events[n].kind = "turn"
                         THEN AddDecision(s, DecisionAt(events, events[n])) ELSE s
<1> DEFINE G == [n \in 1 .. N |-> [s \in S |-> Step(n, s)]]
<1> DEFINE Eq(f) == f = [n \in 0 .. N |-> IF n = 0 THEN none ELSE Step(n, f[n - 1])]
<1> DEFINE found == CHOOSE h : Eq(h)
<1>1. N \in Nat
  BY LenProperties
<1>2. Decisions(events) = found[N]
  BY DEF Decisions
<1> HIDE DEF found
<1>3. none \in S
  OBVIOUS
<1>4. \A n \in 1 .. N, s \in S : Step(n, s) \in S
  <2>1. \A n \in 1 .. N : events[n].kind = "turn" /\ Tier(events, events[n]) # "None"
                            => DecisionAt(events, events[n]) \in DecisionsOf(events)
    BY DEF DecisionsOf, DecisionTurns
  <2>2. \A d \in DecisionsOf(events), s \in S : Append(s, d) \in S
    BY AppendProperties
  <2>3. \A n \in 1 .. N : DecisionAt(events, events[n]).tier = Tier(events, events[n])
    BY DEF DecisionAt
  <2> HIDE DEF S, N
  <2> QED BY <2>1, <2>2, <2>3 DEF AddDecision
<1> HIDE DEF N, S, Step, none
<1>5. /\ IsStep(G, N, S)
      /\ \A n \in 1 .. N : \A s \in S : G[n][s] = Step(n, s)
  BY <1>4 DEF IsStep
<1> HIDE DEF G
<1>6. PICK f : Iterates(f, none, G, N, S)
  BY <1>1, <1>3, <1>5, IterationExists
<1>7. f \in [0 .. N -> S] /\ f[0] = none /\ \A n \in 1 .. N : f[n] = G[n][f[n - 1]]
  BY <1>6 DEF Iterates
<1>8. Eq(f)
  <2>1. \A n \in 1 .. N : n - 1 \in 0 .. N /\ f[n - 1] \in S
    BY <1>1, <1>7
  <2>2. \A n \in 1 .. N : f[n] = Step(n, f[n - 1])
    BY <1>5, <1>7, <2>1
  <2>3. \A n \in 0 .. N : n = 0 \/ n \in 1 .. N
    BY <1>1
  <2>4. \A n \in 0 .. N : f[n] = IF n = 0 THEN none ELSE Step(n, f[n - 1])
    BY <1>7, <2>2, <2>3
  <2> QED BY <1>7, <2>4
<1>9. Eq(found)
  <2> HIDE DEF Eq
  <2> QED BY <1>8 DEF found
<1>10. found[0] = none /\ \A n \in 1 .. N : n \in 0 .. N /\ found[n] = Step(n, found[n - 1])
  <2>1. 0 \in 0 .. N /\ \A n \in 1 .. N : n \in 0 .. N /\ n # 0
    BY <1>1
  <2>2. \A n \in 0 .. N : found[n] = IF n = 0 THEN none ELSE Step(n, found[n - 1])
    BY <1>9
  <2> QED BY <2>1, <2>2
<1> DEFINE Good == {n \in 0 .. N : found[n] \in S}
<1>11. 0 \in Good
  BY <1>1, <1>3, <1>10
<1>12. \A n \in 1 .. N : n - 1 \in Good => n \in Good
  BY <1>4, <1>10
<1> HIDE DEF Good
<1>13. \A n \in 0 .. N : n \in Good
  BY <1>1, <1>11, <1>12, Upwards
<1>14. found[N] \in S
  BY <1>1, <1>13 DEF Good
<1> QED BY <1>2, <1>14 DEF S

(* best is what the loop keeps of the first n decisions.                   *)
IsBestOf(best, decisions, ep, n) ==
  /\ best = {} <=> \A i \in 1 .. n : ~ Eligible(decisions[i], ep)
  /\ \A a, b \in best : a = b
  /\ \A b \in best :
       /\ \E i \in 1 .. n : b = decisions[i]
       /\ Eligible(b, ep)
       /\ \A i \in 1 .. n : Eligible(decisions[i], ep) => ~ Better(decisions[i], b)

LEMMA BestIsBest ==
  ASSUME NEW D, \A d \in D : d.ts \in Nat /\ d.seq \in Nat,
         NEW decisions \in Seq(D), NEW ep
  PROVE  IsBestOf(Best(decisions, ep), decisions, ep, Len(decisions))
<1> DEFINE N == Len(decisions)
<1> DEFINE S == SUBSET D
<1> DEFINE none == {}
<1> DEFINE Step(n, s) == IF /\ Eligible(decisions[n], ep)
                            /\ \A b \in s : Better(decisions[n], b)
                         THEN {decisions[n]} ELSE s
<1> DEFINE G == [n \in 1 .. N |-> [s \in S |-> Step(n, s)]]
<1> DEFINE Eq(f) == f = [n \in 0 .. N |-> IF n = 0 THEN none ELSE Step(n, f[n - 1])]
<1> DEFINE best == CHOOSE h : Eq(h)
<1>1. N \in Nat /\ \A n \in 1 .. N : decisions[n] \in D
  BY LenProperties
<1>2. Best(decisions, ep) = best[N]
  BY DEF Best
<1> HIDE DEF best, N
<1>3. none \in S /\ \A n \in 1 .. N, s \in S : Step(n, s) \in S
  BY <1>1
<1> HIDE DEF S, Step, none
<1>5. /\ IsStep(G, N, S)
      /\ \A n \in 1 .. N : \A s \in S : G[n][s] = Step(n, s)
  BY <1>3 DEF IsStep
<1> HIDE DEF G
<1>6. PICK f : Iterates(f, none, G, N, S)
  BY <1>1, <1>3, <1>5, IterationExists
<1>7. f \in [0 .. N -> S] /\ f[0] = none /\ \A n \in 1 .. N : f[n] = G[n][f[n - 1]]
  BY <1>6 DEF Iterates
<1>8. Eq(f)
  <2>1. \A n \in 1 .. N : n - 1 \in 0 .. N /\ f[n - 1] \in S
    BY <1>1, <1>7
  <2>2. \A n \in 1 .. N : f[n] = Step(n, f[n - 1])
    BY <1>5, <1>7, <2>1
  <2>3. \A n \in 0 .. N : n = 0 \/ n \in 1 .. N
    BY <1>1
  <2>4. \A n \in 0 .. N : f[n] = IF n = 0 THEN none ELSE Step(n, f[n - 1])
    BY <1>7, <2>2, <2>3
  <2> QED BY <1>7, <2>4
<1>9. Eq(best)
  <2> HIDE DEF Eq
  <2> QED BY <1>8 DEF best
<1>10. best[0] = none /\ \A n \in 1 .. N : n \in 0 .. N /\ best[n] = Step(n, best[n - 1])
  <2>1. 0 \in 0 .. N /\ \A n \in 1 .. N : n \in 0 .. N /\ n # 0
    BY <1>1
  <2>2. \A n \in 0 .. N : best[n] = IF n = 0 THEN none ELSE Step(n, best[n - 1])
    BY <1>9
  <2> QED BY <2>1, <2>2
<1> DEFINE Good == {n \in 0 .. N : best[n] \in S /\ IsBestOf(best[n], decisions, ep, n)}
<1>11. 0 \in Good
  <2>1. IsBestOf({}, decisions, ep, 0)
    BY DEF IsBestOf
  <2>2. best[0] = {} /\ best[0] \in S /\ 0 \in 0 .. N
    BY <1>1, <1>3, <1>10 DEF none
  <2> QED BY <2>1, <2>2
<1>12. ASSUME NEW n \in 1 .. N, n - 1 \in Good PROVE n \in Good
  <2> DEFINE old == best[n - 1]
  <2> DEFINE d == decisions[n]
  <2>1. /\ old \in S /\ IsBestOf(old, decisions, ep, n - 1)
        /\ best[n] = Step(n, old) /\ best[n] \in S /\ n \in 0 .. N
    BY <1>3, <1>10, <1>12
  <2>2. /\ 1 .. n = (1 .. n - 1) \cup {n}
        /\ \A i \in 1 .. n : decisions[i] \in D
    BY <1>1
  <2>3. \A b \in old : b \in D
    BY <2>1 DEF S
  <2> HIDE DEF old, d
  <2>4. IsBestOf(best[n], decisions, ep, n)
    <3>1. CASE Eligible(d, ep) /\ \A b \in old : Better(d, b)
      <4>1. best[n] = {d}
        BY <2>1, <3>1 DEF Step, d
      <4>2. ASSUME NEW i \in 1 .. n, Eligible(decisions[i], ep)
            PROVE  ~ Better(decisions[i], d)
        <5>1. d \in D /\ decisions[i] \in D
          BY <2>2 DEF d
        <5>2. CASE i = n
          BY <5>1, <5>2 DEF d, Better
        <5>3. CASE i # n
          <6>1. i \in 1 .. n - 1
            BY <5>3
          <6>2. PICK b \in old : ~ Better(decisions[i], b)
            BY <2>1, <4>2, <6>1 DEF IsBestOf
          <6>3. Better(d, b) /\ b \in D
            BY <2>3, <3>1
          <6> QED BY <5>1, <6>2, <6>3 DEF Better
        <5> QED BY <5>2, <5>3
      <4>3. \E i \in 1 .. n : d = decisions[i]
        BY <2>2 DEF d
      <4> QED BY <3>1, <4>1, <4>2, <4>3 DEF IsBestOf, d
    <3>2. CASE ~ (Eligible(d, ep) /\ \A b \in old : Better(d, b))
      <4>1. best[n] = old
        BY <2>1, <3>2 DEF Step, d
      <4>2. Eligible(d, ep) => old # {}
        BY <3>2
      <4>3. \A b \in old : Eligible(d, ep) => ~ Better(d, b)
        BY <2>1, <3>2 DEF IsBestOf
      <4>4. old = {} <=> \A i \in 1 .. n : ~ Eligible(decisions[i], ep)
        BY <2>1, <2>2, <4>2 DEF IsBestOf, d
      <4>5. ASSUME NEW b \in old
            PROVE  /\ \E i \in 1 .. n : b = decisions[i]
                   /\ Eligible(b, ep)
                   /\ \A i \in 1 .. n : Eligible(decisions[i], ep) => ~ Better(decisions[i], b)
        BY <2>1, <2>2, <4>3 DEF IsBestOf, d
      <4> QED BY <2>1, <4>1, <4>4, <4>5 DEF IsBestOf
    <3> QED BY <3>1, <3>2
  <2> QED BY <2>1, <2>4
<1> HIDE DEF Good
<1>13. \A n \in 0 .. N : n \in Good
  BY <1>1, <1>11, <1>12, Upwards
<1>14. IsBestOf(best[N], decisions, ep, N)
  BY <1>1, <1>13 DEF Good
<1> QED BY <1>2, <1>14 DEF N

(* What the edges are: of each episode, to the best decision for it.       *)
LEMMA BindingsAre ==
  ASSUME NEW decisions, NEW episodes, NEW b \in BindAll(decisions, episodes)
  PROVE  \E ep \in episodes : \E d \in Best(decisions, ep) :
           b.episode = ep /\ b.decision = d /\ b.t_use = d.ts /\ b.t_gen = ep.rec.ts
<1> DEFINE edges == UNION {{Edge(d, ep) : d \in Best(decisions, ep)} : ep \in episodes}
<1>1. PICK a \in edges : /\ b.episode = a.episode /\ b.decision = a.decision
                         /\ b.t_use = a.t_use /\ b.t_gen = a.t_gen
  <2>1. \A a \in edges : \E x, y, z, u, v, w, t :
          a = [from |-> x, to |-> y, t_use |-> z, t_gen |-> u, decision |-> v, episode |-> w,
               correlation |-> t]
    BY DEF Edge
  <2>2. \E a \in edges : \E c : b = [a EXCEPT !.correlation = c]
    BY DEF BindAll, Correlated
  <2> HIDE DEF edges
  <2> QED BY <2>1, <2>2
<1>2. PICK ep \in episodes : \E d \in Best(decisions, ep) : a = Edge(d, ep)
  OBVIOUS
<1>3. PICK d \in Best(decisions, ep) : a = Edge(d, ep)
  BY <1>2
<1> QED BY <1>1, <1>3 DEF Edge

LEMMA BindingsMade ==
  ASSUME NEW decisions, NEW episodes, NEW ep \in episodes, NEW d \in Best(decisions, ep)
  PROVE  \E b \in BindAll(decisions, episodes) : b.episode = ep
<1> DEFINE edges == UNION {{Edge(x, y) : x \in Best(decisions, y)} : y \in episodes}
<1>1. Edge(d, ep) \in edges
  OBVIOUS
<1> HIDE DEF edges
<1>2. \E c : [Edge(d, ep) EXCEPT !.correlation = c] \in Correlated(edges)
  BY <1>1 DEF Correlated
<1>3. BindAll(decisions, episodes) = Correlated(edges)
  BY DEF BindAll, edges
<1>4. \A c : [Edge(d, ep) EXCEPT !.correlation = c].episode = ep
  BY DEF Edge
<1> QED BY <1>2, <1>3, <1>4

(* The same of the edges of one transcript.                                *)
LEMMA EdgesAre ==
  ASSUME NEW events, NEW b \in Bind(events)
  PROVE  \E ep \in Episodes(events) : \E d \in Best(Decisions(events), ep) :
           b.episode = ep /\ b.decision = d /\ b.t_use = d.ts /\ b.t_gen = ep.rec.ts
BY BindingsAre DEF Bind

LEMMA EdgesMade ==
  ASSUME NEW events, NEW ep \in Episodes(events), NEW d \in Best(Decisions(events), ep)
  PROVE  \E b \in Bind(events) : b.episode = ep
BY BindingsMade DEF Bind
=============================================================================

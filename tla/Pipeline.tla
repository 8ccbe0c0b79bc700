------------------------------ MODULE Pipeline ------------------------------
(***************************************************************************)
(* From the records of one transcript to prepared nodes: parse_records     *)
(* with a fresh ParseCtx (over the Gemini adapter, the one whose           *)
(* transcripts rewind), DefaultSegmenter, DefaultBinder, DefaultNodePrep.  *)
(* Everything here is an operator: the pipeline is pure.                   *)
(*                                                                         *)
(* A record is [kind, id, to, ts, human, text, call, result, path]; a text *)
(* is one of Candidacy. An event carries the record it comes from. Node    *)
(* order and redaction are left out.                                       *)
(***************************************************************************)
EXTENDS Candidacy

CONSTANT MaxBindGap  \* MAX_BIND_GAP_SECS

ASSUME GapAssumption == MaxBindGap \in Nat

Unknown == <<"session", 0>>  \* the session id of events before one is learned
NoCall  == "none"
NoMark  == 0          \* superseded_by: None; a marker is named by 1 + its seq

Results == {"none", "ok", "failed"}

FreshCtx == [session |-> Unknown, next_seq |-> 0, seen |-> {}, events |-> <<>>]

(* What the adapter makes of a record it has not seen: one event per kind. *)
EventKinds(rec) ==
  CASE rec.kind = "set"     -> <<"session_start">>
    [] rec.kind = "rewind"  -> <<"rewind">>
    [] rec.kind = "other"   -> <<"unknown">>
    [] rec.kind = "message" ->
         <<"turn">> \o
         (IF rec.call = NoCall THEN <<>> ELSE <<"tool_call">>) \o
         (IF rec.call = NoCall \/ rec.result = "none" THEN <<>> ELSE <<"tool_result">>) \o
         (IF rec.call = NoCall \/ rec.result = "none" \/ rec.path = ""
          THEN <<>> ELSE <<"file_edit">>)

(* An id seen before in this context yields nothing.                       *)
NewKinds(ctx, rec) ==
  IF rec.id \in ctx.seen /\ rec.kind # "other" THEN <<>> ELSE EventKinds(rec)

(* The session id is learned once, even from a repeated record.            *)
SessionAfter(ctx, rec) ==
  IF rec.kind = "set" /\ ctx.session = Unknown THEN rec.to ELSE ctx.session

(* Every event takes the next seq.                                         *)
NewEvents(ctx, rec) ==
  [i \in DOMAIN NewKinds(ctx, rec) |->
     [kind |-> NewKinds(ctx, rec)[i], session |-> SessionAfter(ctx, rec),
      seq |-> ctx.next_seq + i - 1, rec |-> rec]]

Parse(ctx, rec) ==
  [session  |-> SessionAfter(ctx, rec),
   next_seq |-> ctx.next_seq + Len(NewKinds(ctx, rec)),
   seen     |-> IF rec.kind = "other" THEN ctx.seen ELSE ctx.seen \cup {rec.id},
   events   |-> ctx.events \o NewEvents(ctx, rec)]

ParseRecords(records) ==
  LET ctx[n \in 0 .. Len(records)] ==
        IF n = 0 THEN FreshCtx ELSE Parse(ctx[n - 1], records[n])
  IN  ctx[Len(records)].events

-----------------------------------------------------------------------------
(* The segmenter.                                                          *)

(* call_ok: the last result of a call counts.                              *)
IsResultOf(e, call) == e.kind = "tool_result" /\ e.rec.call = call

CallFailed(events, call) ==
  \E n \in DOMAIN events :
    /\ IsResultOf(events[n], call) /\ events[n].rec.result = "failed"
    /\ \A m \in DOMAIN events : IsResultOf(events[m], call) => m <= n

(* Broken variant, for mutation only: the result of the call is ignored.   *)
AnyEdit(events, e) == e.kind = "file_edit"

EditStands(events, e) == e.kind = "file_edit" /\ ~CallFailed(events, e.rec.call)

SessionHasEdit(events, session) ==
  \E e \in ToSet(events) : EditStands(events, e) /\ e.session = session

(* event_id: a record's own id for its turn, a derived one for its calls.  *)
EventId(e) ==
  IF e.kind \in {"tool_call", "tool_result", "file_edit"}
  THEN <<e.kind, e.rec.call>> ELSE e.rec.id

(* Where a rewind goes back to, and whether it covers an event: everything *)
(* after the first event of the target's id, up to the rewind itself.      *)
Targets(events, r) ==
  {t \in ToSet(events) : t.session = r.session /\ EventId(t) = r.rec.to}

(* Broken variant, for mutation only: the target itself is taken away too. *)
RewindsTargetToo(events, r, e) ==
  /\ r.kind = "rewind" /\ e.session = r.session
  /\ \E t \in Targets(events, r) :
       /\ \A u \in Targets(events, r) : t.seq <= u.seq
       /\ t.seq <= e.seq /\ e.seq <= r.seq

Rewinds(events, r, e) ==
  /\ r.kind = "rewind" /\ e.session = r.session
  /\ \E t \in Targets(events, r) :
       /\ \A u \in Targets(events, r) : t.seq <= u.seq
       /\ t.seq < e.seq /\ e.seq <= r.seq

(* The last marker in stream order wins.                                   *)
SupersededBy(events, e) ==
  LET last == SelectLastInSeq(events, LAMBDA r : Rewinds(events, r, e))
  IN  IF last = 0 THEN NoMark ELSE 1 + events[last].seq

(* The tier a turn earns, the edits of its session counted.                *)
Tier(events, e) == TierOf(e.rec.text, SessionHasEdit(events, e.session))

DecisionAt(events, e) ==
  [session |-> e.session, seq |-> e.seq, ts |-> e.rec.ts, rec |-> e.rec,
   tier |-> Tier(events, e), superseded_by |-> SupersededBy(events, e)]

(* A turn of no tier seeds nothing.                                        *)
AddDecision(found, d) == IF d.tier = "None" THEN found ELSE Append(found, d)

Decisions(events) ==
  LET found[n \in 0 .. Len(events)] ==
        IF n = 0 THEN <<>>
        ELSE IF events[n].kind = "turn"
             THEN AddDecision(found[n - 1], DecisionAt(events, events[n]))
             ELSE found[n - 1]
  IN  found[Len(events)]

Conversations(events) ==
  {e \in ToSet(events) : e.kind = "turn" /\ e.rec.human /\ IsMarked(e.rec.text)}

Episodes(events) == {e \in ToSet(events) : EditStands(events, e)}

-----------------------------------------------------------------------------
(* The binder.                                                             *)

Eligible(d, ep) ==
  /\ d.session = ep.session
  /\ d.superseded_by = NoMark
  /\ d.ts <= ep.rec.ts
  /\ ep.rec.ts - d.ts <= MaxBindGap

(* Broken variant, for mutation only: on a tie the first decision stays.   *)
LaterStamp(d, best) == d.ts > best.ts

Better(d, best) == d.ts > best.ts \/ (d.ts = best.ts /\ d.seq > best.seq)

(* The best of the first n decisions: none or one.                         *)
Best(decisions, ep) ==
  LET best[n \in 0 .. Len(decisions)] ==
        IF n = 0 THEN {}
        ELSE IF /\ Eligible(decisions[n], ep)
                /\ \A b \in best[n - 1] : Better(decisions[n], b)
             THEN {decisions[n]}
             ELSE best[n - 1]
  IN  best[Len(decisions)]

(* The table over all bindings of a batch: is it by the decision of b, and *)
(* of the path of b?                                                       *)
Contingency(edges, b) ==
  LET cell(d, p) == Quantify(edges, LAMBDA a :
                      /\ (a.from = b.from) = d
                      /\ (a.episode.rec.path = b.episode.rec.path) = p)
  IN  [n11 |-> cell(TRUE, TRUE), n10 |-> cell(TRUE, FALSE),
       n01 |-> cell(FALSE, TRUE), n00 |-> cell(FALSE, FALSE)]

(* A quotient, 0 where the code avoids the division.                       *)
Ratio(num, den) == IF den = 0 THEN <<0, 1>> ELSE <<num, den>>

(* CorrelationTuple before rounding; phi is over the root of its second    *)
(* part and p, a function of phi, is left out.                             *)
CorrelationOf(t) ==
  LET n == t.n11 + t.n10 + t.n01 + t.n00
  IN  [support    |-> Ratio(t.n11, n),
       confidence |-> Ratio(t.n11, t.n11 + t.n10),
       lift       |-> Ratio(t.n11 * n, (t.n11 + t.n10) * (t.n11 + t.n01)),
       phi        |-> Ratio(t.n11 * t.n00 - t.n10 * t.n01,
                            (t.n11 + t.n10) * (t.n01 + t.n00)
                              * (t.n11 + t.n01) * (t.n10 + t.n00))]

(* attach_correlations: none for a decision with a single binding.         *)
Correlated(edges) ==
  {LET t == Contingency(edges, b)
   IN  [b EXCEPT !.correlation = IF t.n11 + t.n10 < 2 THEN {} ELSE {CorrelationOf(t)}] :
     b \in edges}

(* BindingEdge with its PROV record.                                       *)
Edge(d, ep) ==
  [from |-> <<d.session, d.seq>>, to |-> <<ep.session, ep.seq, ep.rec.path>>,
   t_use |-> d.ts, t_gen |-> ep.rec.ts, decision |-> d, episode |-> ep,
   correlation |-> {}]

BindAll(decisions, episodes) ==
  Correlated(UNION {{Edge(d, ep) : d \in Best(decisions, ep)} : ep \in episodes})

Bind(events) == BindAll(Decisions(events), Episodes(events))

-----------------------------------------------------------------------------
(* Prepared nodes, each with the key SqliteSink stores it under and the id *)
(* of the record it comes from.                                            *)
Node(tag, pk, rec, body) == [tag |-> tag, pk |-> pk, src |-> rec.id, body |-> body]

ConversationNode(e) ==
  Node("conversation", <<"conversation", e.session, e.seq>>, e.rec, e.rec)

DecisionNode(d) == Node("decision", <<"decision", d.seq>>, d.rec, d)

(* Broken variant, for mutation only: episodes are keyed without session.  *)
EpisodeBySpan(e) == Node("episode", <<"episode", e.seq, e.rec.path>>, e.rec, e.rec)

EpisodeNode(e) ==
  Node("episode", <<"episode", e.session, e.seq, e.rec.path>>, e.rec, e.rec)

BindingNode(b) == Node("binding", <<"binding", b.from, b.to>>, b.episode.rec, b)

PrepareEvents(events) ==
  {ConversationNode(e) : e \in Conversations(events)} \cup
  {DecisionNode(d) : d \in ToSet(Decisions(events))} \cup
  {EpisodeNode(e) : e \in Episodes(events)} \cup
  {BindingNode(b) : b \in Bind(events)}

RunRecords(records) == PrepareEvents(ParseRecords(records))
=============================================================================

------------------------------ MODULE Capture ------------------------------
(***************************************************************************)
(* Transcripts that grow, run through the Pipeline into the SQLite sink by *)
(* `memscribe watch --once`, which prepares whole files and may be run     *)
(* again, or by the live daemon, which prepares each batch of new records  *)
(* by itself.                                                              *)
(***************************************************************************)
EXTENDS Pipeline

CONSTANTS
  FileCount,   \* the transcripts are 1 .. FileCount, in path order
  Shapes,      \* what a message can be, its id apart
  MaxRecords,  \* bound: records in all transcripts together
  MaxTurns,    \* bound: distinct message ids in one transcript
  MaxRuns,     \* bound: one-shot runs
  Modes        \* subset of {"once", "live"}

ASSUME CaptureAssumption ==
  /\ FileCount \in Nat /\ MaxRecords \in Nat /\ MaxTurns \in Nat /\ MaxRuns \in Nat
  /\ Modes \subseteq {"once", "live"}
  /\ \A shape \in Shapes : shape.ts \in Nat

VARIABLES
  mode,  \* how the program was started
  log,   \* the records of each transcript
  done,  \* how many of them have been processed
  runs,  \* one-shot runs so far
  rows   \* the nodes table of SqliteSink

Files == 1 .. FileCount

vars == <<mode, log, done, runs, rows>>

(* The first line of a transcript names its session.                       *)
SetRecord(f) ==
  [kind |-> "set", id |-> <<"set", f, 0>>, to |-> <<"session", f>>, ts |-> 0,
   human |-> FALSE, text |-> <<>>, call |-> NoCall, result |-> "none", path |-> ""]

RewindRecord(f, n) ==
  [SetRecord(f) EXCEPT !.kind = "rewind", !.id = <<"rewind", f, n>>, !.to = <<"msg", f, n>>]

MessageRecord(f, n, shape) ==
  [SetRecord(f) EXCEPT
     !.kind = "message", !.id = <<"msg", f, n>>, !.to = <<>>, !.ts = shape.ts,
     !.human = shape.human, !.text = shape.text, !.call = shape.call, !.result = shape.result, !.path = shape.path]

RecordCount == FoldSet(LAMBDA f, n : n + Len(log[f]) - 1, 0, Files)

Init ==
  /\ mode \in Modes
  /\ log = [f \in Files |-> <<SetRecord(f)>>]
  /\ done = [f \in Files |-> 0]
  /\ runs = 0 /\ rows = {}

MessagesOf(f) == {n \in 1 .. MaxTurns : \E i \in DOMAIN log[f] : log[f][i].id = <<"msg", f, n>>}

Write(f, rec) ==
  /\ RecordCount < MaxRecords
  /\ log' = [log EXCEPT ![f] = Append(@, rec)]
  /\ UNCHANGED <<mode, done, runs, rows>>

(* The tool writes a new message, or one again under the id it had.        *)
WriteMessage(f) ==
  \E n \in 1 .. MaxTurns, shape \in Shapes :
    /\ \A m \in 1 .. n - 1 : m \in MessagesOf(f)
    /\ Write(f, MessageRecord(f, n, shape))

(* The user rewinds to an earlier message.                                 *)
WriteRewind(f) == \E n \in MessagesOf(f) : Write(f, RewindRecord(f, n))

(* A line that is no dialogue, such as the tool's own notices.             *)
WriteOther(f) == Write(f, [SetRecord(f) EXCEPT !.kind = "other", !.id = <<"other", f, 0>>])

(* The nodes of one pass are emitted: a row of the same key is replaced.   *)
EmitAll(table, nodes) ==
  {r \in table : \A n \in nodes : n.pk # r.pk} \cup nodes

(* Broken variant, for mutation only: the order of a hash map, another one *)
(* in every process.                                                       *)
HashOrder == [n \in Files |-> IF runs = 0 THEN n ELSE FileCount + 1 - n]

(* cmd_watch sorts the transcripts by path.                                *)
PathOrder == [n \in Files |-> n]

(* The table after one transcript after the other has been emitted.        *)
AllEmitted ==
  LET table[n \in 0 .. FileCount] ==
        IF n = 0 THEN rows ELSE EmitAll(table[n - 1], RunRecords(log[PathOrder[n]]))
  IN  table[FileCount]

(* watch_once: every transcript, whole.                                    *)
Once ==
  /\ mode = "once" /\ runs < MaxRuns
  /\ runs' = runs + 1
  /\ done' = [f \in Files |-> Len(log[f])]
  /\ rows' = AllEmitted
  /\ UNCHANGED <<mode, log>>

(* watch_live: the records a batch holds of f, with a context of their own.*)
LiveBatch(f) ==
  /\ mode = "live" /\ done[f] < Len(log[f])
  /\ done' = [done EXCEPT ![f] = Len(log[f])]
  /\ rows' = EmitAll(rows, RunRecords(SubSeq(log[f], done[f] + 1, Len(log[f]))))
  /\ UNCHANGED <<mode, log, runs>>

Next ==
  \/ \E f \in Files : WriteMessage(f) \/ WriteRewind(f) \/ WriteOther(f) \/ LiveBatch(f)
  \/ Once

Spec == Init /\ [][Next]_vars
-----------------------------------------------------------------------------
(* The records of f that count: of those with one id, the first.           *)
Firsts(f) ==
  {log[f][i] : i \in {j \in DOMAIN log[f] :
                        \A k \in 1 .. j - 1 : log[f][k].id # log[f][j].id}}

IndexOf(f, rec) == CHOOSE i \in DOMAIN log[f] :
                     log[f][i] = rec /\ \A k \in 1 .. i - 1 : log[f][k].id # rec.id

(* The binder's promise (binder.rs:3-8), by a definition of its own: an    *)
(* episode is bound to a decision exactly if one governs it, and then to   *)
(* the one that nothing later in time, or later in the stream at the same  *)
(* time, supplants; so t_use <= t_gen.                                     *)
Governs(f, d, ep) ==
  /\ d.superseded_by = NoMark /\ d.session = ep.session
  /\ ep.rec.ts \in d.ts .. d.ts + MaxBindGap

BindsTheGoverningDecision ==
  \A f \in Files :
    LET events == ParseRecords(log[f])
        decs   == ToSet(Decisions(events))
    IN  \A ep \in Episodes(events) :
          LET edges == {b \in Bind(events) : b.episode = ep}
              candidates == {d \in decs : Governs(f, d, ep)}
          IN  /\ edges = {} <=> candidates = {}
              /\ \A b \in edges : /\ b.decision \in candidates
                                  /\ b.t_use <= b.t_gen
                                  /\ \A d \in candidates :
                                       \/ d.ts < b.decision.ts
                                       \/ d.ts = b.decision.ts /\ d.seq <= b.decision.seq

(* What was rewound away governs nothing (segmenter.rs:309-313): a message *)
(* between a rewind and its target, the target itself excepted, is never   *)
(* the source of an edge -- and one that no rewind covers is never marked. *)
RewoundGovernsNothing ==
  \A f \in Files : \A m \in Firsts(f) :
    LET at == IndexOf(f, m)
        covered == \E r \in Firsts(f), t \in Firsts(f) :
                     /\ r.kind = "rewind" /\ t.id = r.to
                     /\ IndexOf(f, t) < at /\ at < IndexOf(f, r)
        events == ParseRecords(log[f])
    IN  /\ covered => \A b \in Bind(events) : b.decision.rec # m
        /\ ~covered => \A d \in ToSet(Decisions(events)) :
                         d.rec = m => d.superseded_by = NoMark

(* A tool call whose last result is a failure leaves no trace: no episode, *)
(* no edge, and no decision that only an edit in its session would lift    *)
(* over the threshold ("a tool failure -> no spurious episode",            *)
(* segmenter.rs:74-75, 88-98).                                             *)
FailedCall(f, call) ==
  \E m \in Firsts(f) :
    /\ m.call = call /\ m.result = "failed"
    /\ \A o \in Firsts(f) : o.call = call /\ o.result # "none" =>
                              IndexOf(f, o) <= IndexOf(f, m)

FailureLeavesNoTrace ==
  \A f \in Files :
    LET events == ParseRecords(log[f])
        good(m) == m.path # "" /\ m.result # "none" /\ m.call # NoCall /\ ~FailedCall(f, m.call)
    IN  /\ \A e \in Episodes(events) : good(e.rec)
        /\ (\A m \in Firsts(f) : ~good(m)) =>
             /\ Bind(events) = {}
             /\ \A d \in ToSet(Decisions(events)) : TierOf(d.rec.text, FALSE) # "None"

(* Every successful edit of the records processed has its row, which no    *)
(* other transcript, run or batch took over ("zero loss", main.rs:919-920).*)
EveryEditHasItsRow ==
  \A f \in Files : \A m \in Firsts(f) :
    /\ m.path # "" /\ m.result # "none" /\ m.call # NoCall
    /\ done[f] = Len(log[f])
    /\ ~FailedCall(f, m.call)
    => \E r \in rows : r.tag = "episode" /\ r.src = m.id

OnceKeepsEveryEdit == mode = "once" => EveryEditHasItsRow

(* Running it again over transcripts that have not changed changes nothing *)
(* ("re-emitting the same node is an upsert, not a duplicate",             *)
(* sqlite.rs:3-5).                                                         *)
RepeatedRunChangesNothing ==
  [][Once /\ (\A f \in Files : done[f] = Len(log[f])) => rows' = rows]_vars
=============================================================================

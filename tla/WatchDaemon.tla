---------------------------- MODULE WatchDaemon ----------------------------
(***************************************************************************)
(* memscribe watch, live: watch_live around the Tailer. Each batch the     *)
(* tailer returns is turned into nodes (emit_batch), the nodes go to the   *)
(* sink one by one, the sink is flushed, and only then is the next batch   *)
(* polled. A sink error ends the process; Ctrl-C ends it at the next turn  *)
(* of the loop.                                                            *)
(*                                                                         *)
(* One record stands for one node, named by its file and byte offset (its  *)
(* provenance); how records become events and nodes is modelled apart.     *)
(***************************************************************************)
EXTENDS Tailer, SequencesExt

CONSTANTS
  SinkKinds,      \* the sinks a run may be configured with: "stdout" and "file"
                  \* are NdjsonSink, "sqlite" is SqliteSink
  MaxSinkErrors,  \* bound: failing emits and flushes
  MaxStops        \* bound: Ctrl-C signals

ASSUME DaemonAssumption ==
  /\ SinkKinds \subseteq {"stdout", "file", "sqlite"}
  /\ MaxSinkErrors \in Nat /\ MaxStops \in Nat

VARIABLES
  sink,       \* the sink chosen in the configuration
  turn,       \* "off", "tail" (draining, or at the head of the loop), "wait"
              \* (in recv_timeout), "emit"
  from,       \* where in each file the batch's records begin (their offsets
              \* are relative to this: tailer.rs:47)
  pending,    \* set of the nodes of the current batch still to be emitted
  buffer,     \* nodes in the BufWriter of an ndjson sink
  stored,     \* nodes the sink's file, pipe or database holds
  stop,       \* the Ctrl-C flag
  sinkErrors, stops

daemonVars == <<sink, turn, from, pending, buffer, stored, stop, sinkErrors, stops>>
allVars == <<vars, daemonVars>>

DaemonInit ==
  /\ Init
  /\ sink \in SinkKinds
  /\ turn = "off"
  /\ from = [f \in Files |-> 0]
  /\ pending = {} /\ buffer = <<>> /\ stored = <<>>
  /\ stop = FALSE /\ sinkErrors = 0 /\ stops = 0

-----------------------------------------------------------------------------
(* Where the lines of t start, as offsets within t.                        *)
Starts(t) == {s \in 0 .. Len(t) - 1 : s = 0 \/ t[s] = NL}

(* The nodes of the batch's lines of f.                                    *)
NodesOfFile(batch, f) ==
  {[file |-> f, offset |-> from[f] + s] : s \in Starts(batch[f])}

(* Broken variant, for mutation only: only one file of a batch is grouped. *)
NodesOfOneFile(batch) ==
  LET filled == {f \in Files : batch[f] # <<>>}
  IN  IF filled = {} THEN {} ELSE NodesOfFile(batch, Min(filled))

NodesOf(batch) == UNION {NodesOfFile(batch, f) : f \in Files}

(* emit_batch groups the batch by file: files in order, lines in order.    *)
Before(m, n) == m.file < n.file \/ (m.file = n.file /\ m.offset < n.offset)

(* cmd_watch: build_sink, then a LiveTailer over the persistent cursors.   *)
(* NdjsonSink::file creates its file, truncating what an earlier run left. *)
DaemonStart ==
  /\ turn = "off" /\ Startup
  /\ turn' = "tail" /\ stop' = FALSE
  /\ stored' = IF sink = "file" THEN <<>> ELSE stored
  /\ UNCHANGED <<sink, from, pending, buffer, sinkErrors, stops>>

(* The tailer drains while it has control: the records a read adds to the  *)
(* batch begin where the read did.                                         *)
DrainStep ==
  /\ turn = "tail" /\ \E f \in Files : Drain(f)
  /\ from' = [f \in Files |-> IF out'[f] = out[f] THEN from[f] ELSE start]
  /\ UNCHANGED <<sink, turn, pending, buffer, stored, stop, sinkErrors, stops>>

(* The tools and the watcher's side run whatever the loop does.            *)
WorldStep == World /\ UNCHANGED daemonVars

(* The head of the loop: no stop flag, so wait for the next batch. A       *)
(* Ctrl-C from here on is seen only after the wait and what it brings.     *)
WaitForBatch ==
  /\ turn = "tail" /\ pc = "idle" /\ ~stop
  /\ turn' = "wait"
  /\ UNCHANGED <<vars, sink, from, pending, buffer, stored, stop, sinkErrors, stops>>

PollBatch ==
  /\ turn = "wait" /\ Recv
  /\ turn' = "tail"
  /\ UNCHANGED <<sink, from, pending, buffer, stored, stop, sinkErrors, stops>>

(* recv_timeout gives up after a tick.                                     *)
PollTimeout ==
  /\ turn = "wait" /\ chan = <<>>
  /\ turn' = "tail"
  /\ UNCHANGED <<vars, sink, from, pending, buffer, stored, stop, sinkErrors, stops>>

(* The tailer hands over a batch; an empty one goes round the loop again.  *)
TakeBatch ==
  /\ turn = "tail" /\ Return
  /\ pending' = NodesOf(out)
  /\ turn' = IF pending' = {} THEN "tail" ELSE "emit"
  /\ from' = [f \in Files |-> 0]
  /\ UNCHANGED <<sink, buffer, stored, stop, sinkErrors, stops>>

(* INSERT OR REPLACE: the row of the same key, if any, is deleted first.   *)
Upsert(rows, n) ==
  IF \E i \in DOMAIN rows : rows[i] = n
  THEN Append(RemoveAt(rows, CHOOSE i \in DOMAIN rows : rows[i] = n), n)
  ELSE Append(rows, n)

(* Broken variant, for mutation only: the nodes of a batch in any order.   *)
EmitInAnyOrder ==
  /\ turn = "emit"
  /\ \E n \in pending :
       /\ pending' = pending \ {n}
       /\ IF sink = "sqlite"
          THEN stored' = Upsert(stored, n) /\ UNCHANGED buffer
          ELSE buffer' = Append(buffer, n) /\ UNCHANGED stored
  /\ UNCHANGED <<vars, sink, turn, from, stop, sinkErrors, stops>>

(* sink.emit of the next node: an autocommitted row, or a line in the      *)
(* BufWriter.                                                              *)
EmitNode ==
  /\ turn = "emit"
  /\ \E n \in pending :
       /\ \A m \in pending \ {n} : Before(n, m)
       /\ pending' = pending \ {n}
       /\ IF sink = "sqlite"
          THEN stored' = Upsert(stored, n) /\ UNCHANGED buffer
          ELSE buffer' = Append(buffer, n) /\ UNCHANGED stored
  /\ UNCHANGED <<vars, sink, turn, from, stop, sinkErrors, stops>>

WriteOut == stored' = stored \o buffer /\ buffer' = <<>>

(* A full BufWriter writes out early.                                      *)
Spill ==
  /\ turn = "emit" /\ buffer # <<>> /\ pending # {}
  /\ WriteOut
  /\ UNCHANGED <<vars, sink, turn, from, pending, stop, sinkErrors, stops>>

(* sink.flush closes the batch.                                            *)
FlushSink ==
  /\ turn = "emit" /\ pending = {}
  /\ WriteOut
  /\ turn' = "tail"
  /\ UNCHANGED <<vars, sink, from, pending, stop, sinkErrors, stops>>

DaemonEnds ==
  /\ turn' = "off" /\ stop' = FALSE
  /\ pending' = {} /\ from' = [f \in Files |-> 0]

(* An emit or a flush fails and `?` leaves watch_live: dropping the        *)
(* BufWriter writes out what it can.                                       *)
SinkError ==
  /\ turn = "emit" /\ sinkErrors < MaxSinkErrors
  /\ sinkErrors' = sinkErrors + 1
  /\ DaemonEnds /\ Close
  /\ buffer' = <<>>
  /\ \E n \in 0 .. Len(buffer) : stored' = stored \o SubSeq(buffer, 1, n)
  /\ UNCHANGED <<sink, stops>>

CtrlC ==
  /\ turn # "off" /\ stops < MaxStops
  /\ stop' = TRUE /\ stops' = stops + 1
  /\ UNCHANGED <<vars, sink, turn, from, pending, buffer, stored, sinkErrors>>

(* Broken variant, for mutation only: the flag is looked at only when a    *)
(* batch is about to be polled, as LiveTailer::run would (main.rs:948-953).*)
CleanExitOnBatchOnly ==
  /\ turn = "tail" /\ pc = "idle" /\ stop /\ chan # <<>>
  /\ WriteOut
  /\ DaemonEnds /\ Close
  /\ UNCHANGED <<sink, sinkErrors, stops>>

(* The loop sees the flag on any turn, idle ones included, flushes and     *)
(* returns.                                                                *)
CleanExit ==
  /\ turn = "tail" /\ stop
  /\ WriteOut
  /\ DaemonEnds /\ Close
  /\ UNCHANGED <<sink, sinkErrors, stops>>

DaemonCrash ==
  /\ Crash
  /\ DaemonEnds
  /\ buffer' = <<>>
  /\ UNCHANGED <<sink, stored, sinkErrors, stops>>

DaemonLoop ==
  \/ DrainStep
  \/ WaitForBatch \/ PollBatch \/ PollTimeout \/ TakeBatch
  \/ EmitNode \/ FlushSink \/ CleanExit

DaemonNext ==
  \/ DaemonStart \/ DrainStep \/ WorldStep \/ WaitForBatch \/ PollBatch \/ PollTimeout \/ TakeBatch
  \/ EmitNode \/ Spill \/ FlushSink \/ SinkError
  \/ CtrlC \/ CleanExit \/ DaemonCrash

DaemonSpec == DaemonInit /\ [][DaemonNext]_allVars

(* The loop's thread keeps running; nobody has to press Ctrl-C.            *)
DaemonFairSpec == DaemonSpec /\ WF_allVars(DaemonLoop)
-----------------------------------------------------------------------------
(* A transcript that was never truncated or removed.                       *)
Unrotated(f) == gen[f] = 0

Seen == stored \o buffer

(* No node twice and none out of order, per transcript that only grew and  *)
(* while the offset store works, however the daemon crashed, failed or was *)
(* stopped and restarted ("zero dup", main.rs:920).                        *)
StoredInOrderOnce ==
  faults = 0 =>
    \A f \in Files : Unrotated(f) =>
      \A i, j \in DOMAIN Seen :
        i < j /\ Seen[i].file = f /\ Seen[j].file = f => Seen[i].offset < Seen[j].offset

(* Nothing is skipped: whenever no batch is in progress, each line the     *)
(* persisted offset has passed is in the sink ("a restart resumes exactly  *)
(* where it left off (zero loss, zero dup)", main.rs:919-920).             *)
NothingSkipped ==
  (turn = "off" \/ (turn \in {"tail", "wait"} /\ pc = "idle")) =>
    \A f \in Files : Unrotated(f) =>
      \A s \in Starts(SubSeq(content[f], 1, cursor[f])) :
        \E i \in DOMAIN stored : stored[i] = [file |-> f, offset |-> s]

(* ... and it holds unless the process died, a sink or the offset store    *)
(* failed, or the sink is a file, which every start truncates (ndjson.rs:  *)
(* 42).                                                                    *)
NothingSkippedUnlessItFailed ==
  crashes = 0 /\ sinkErrors = 0 /\ faults = 0 /\ sink # "file" => NothingSkipped

(* Ctrl-C is seen on a quiet tree too: the daemon stops (main.rs:948-953). *)
CtrlCStops == stop ~> turn = "off"
=============================================================================

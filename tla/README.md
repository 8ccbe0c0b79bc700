# Memscribe in TLA+

TLA+ modules, TLC models and TLAPS proofs for Memscribe, the Rust workspace that
tails the transcripts of AI coding tools and turns them into typed nodes. File
and line numbers below are those of the crates under `crates/`; `PROJECT.json`
maps every definition to the lines it stands for, and lists runs, mutants,
hazards, findings and theorems.

## 1. The system

    tool writes a line -> file system -> notify / debouncer -> LiveTailer
      -> records -> adapter (ParseCtx) -> events -> segmenter (gate) -> binder
      -> nodeprep -> redactor -> sink (stdout, file, SQLite, MemDB)

`memscribe watch --once` reads whole transcripts and runs this once;
`memscribe watch` drains every transcript from a persisted offset and then
follows appends. Everything from the adapter to nodeprep is a pure function of
the records; what is hard lives at both ends.

| component | state | operations | interacts with | correct means |
|---|---|---|---|---|
| **File tailer** `memscribe-io/tailer.rs`, `cursor_store.rs` | interest set, debouncer channel, an offset per file in SQLite | `poll_existing`, `poll`, `handle_result`, `drain_path`, `poll_new_records`; store `get`/`set` | file system, notify thread, offset store; returns batches to the daemon | every byte of every generation of a file is taken once and in order, only at line ends; an idle tailer has caught up |
| **Directory watch registry** `tailer.rs:135-234` | `watched_dirs`, watches held by the OS | `watch_path`, `ensure_ancestor_watch`, retry in `poll_existing` | directory tree, notify | a registered transcript that is created later is noticed |
| **Record reader** `records.rs`, `tailer.rs:33-49` | none | `read_records_from_bytes`, rebase | tailer, one-shot reader | records do not depend on how the file was cut into polls; provenance points at the right bytes |
| **Watch daemon** `memscribe-cli/main.rs:690-1022` | stop flag, batch in progress | start, poll loop, `emit_batch`, `flush`, Ctrl-C | tailer, pipeline, sink, signal thread | restart is "zero loss, zero dup"; Ctrl-C stops it |
| **Sinks** `memscribe-sink` | `BufWriter`, `nodes` table, vector | `emit`, `flush` | daemon, one-shot | a node is stored once; running again changes nothing |
| **Parse context** `adapter.rs`, `util.rs` | `next_seq`, ids seen, session id, project | `first_seen`, `alloc_seq`, `mk_event` | adapters | idempotent on repeated records; one monotonic `seq` per context |
| **Line-based adapters** Claude Code, Codex, Gemini, Copilot, Windsurf, OpenTelemetry | that context | `parse` | pipeline | every line of text leaves an event; ids are unique and do not depend on batches; the outcome of a call reaches its edits |
| **Store-based adapters** Cursor, Zed, VS Code, Hermes, OpenCode | that context | `read_store`, `parse` | the tools' databases | a conversation is read under its session, in its order, with ids that later reads keep |
| **Segmenter** `segmenter.rs` | none | decisions, conversations, episodes, supersession | gate | failed calls leave nothing; what was rewound away governs nothing |
| **Binder** `binder.rs` | none | `bind`, correlation | segmenter | an edit is bound to the latest decision before it that still stands; `t_use <= t_gen` |
| **NodePrep, redactor** `nodeprep.rs`, `redact.rs` | none | order, substitute | sink | stable order |
| **Gate and text heuristics** `gate.rs`, `prose.rs`, `polarity.rs`, `speechact.rs`, `languageness.rs`, `intent.rs` | rule tables | `evaluate`, `human_prose`, ... | segmenter | the tier of a turn is the one its weights add up to |
| **OTLP receiver** `otlp.rs` | listener, stop flag, channel | `serve_blocking`, `serve_into`, `shutdown`, drop | peers, consumer | every request answered; shutdown returns |
| **Git commit mining** `gitcommit.rs`, `main.rs:239-363` | none | two `git log` passes, `classify_commit`, `git_segmentation` | git, binder | a decision governs the files of its own commit and no others |
| **Governance documents** `governance_doc.rs` | none | `classify_governance_doc` | none yet: nothing in the program calls it | what is in force was accepted, by the status that counts |
| **Discovery, config** `discover.rs`, `config.rs`, `discover()` of each adapter, `main.rs:744-787` | `by_path` of a running watch | home, overrides, walk, claims, inference of the tool | CLI, adapters | one adapter for a file; nothing missed; roots are the scope |
| **Hook** `hook.rs` | none | read one message from stdin | CLI | — |
| **Test kit, fuzzing** | — | golden files, invariants | — | not part of the program |

What is hard here:

* *interleavings*: a tool appends, truncates, removes and re-creates a file
  between any two of the tailer's system calls (stat, open, read); the
  debouncer's thread queues results meanwhile; Ctrl-C arrives anywhere;
* *failure*: the process dies between storing an offset and emitting the nodes;
  an open, a read, a watch, a store call or a sink call fails; the store's
  errors are swallowed;
* *ordering and staleness*: offsets outlive the bytes they were taken from,
  `watched_dirs` outlives the watches, sink files do not outlive a restart but
  offsets do, rows are replaced by keys that other transcripts and other batches
  may share;
* *context*: every batch of the live daemon is parsed as if it were a whole
  transcript;
* *repetition*: tools replay lines, write messages again under their ids, and
  add outcomes late; ids made from content, from native ids or from places have
  to make one event of that;
* *moving sources*: a database is read while its tool writes, a branch moves
  between the two passes over it, a document is edited for years.

## 2. Modules

| module | models | composed of |
|---|---|---|
| `LineFeed` | what a tailer promises: complete lines, once, in order, in the end | — |
| `Tailer` | `LiveTailer`, `poll_new_records`, `SqliteOffsetStore`, the file system and the debouncer around them | instance of `LineFeed` |
| `RecordReader` | splitting bytes into located records, by one reading and by polls | — |
| `WatchDaemon` | `watch_live`, sinks, stop flag, crash and restart | extends `Tailer` |
| `WatchRegistry` | which directories are watched, over a changing tree | — |
| `Candidacy` | the tier of a turn: gate, prose, intent, score (operators only) | — |
| `Turn` | a turn put together by sentences, with and without an edit | extends `Candidacy` |
| `Pipeline` | records to prepared nodes (operators only) | extends `Candidacy` |
| `OtlpReceiver` | `serve_blocking`, `serve_into`, `ServeHandle`, clients and consumer | — |
| `Capture` | growing transcripts, one-shot runs and live batches, SQLite rows | extends `Pipeline` |
| `AdapterCtx` | the parse context and the helpers of all adapters | — |
| `ChatRecord` | the chat record that most adapters share | extends `AdapterCtx` |
| `ClaudeCode`, `Codex`, `Otel`; `Gemini`, `Copilot`, `Windsurf` | one adapter each (operators only) | extend `AdapterCtx`; `ChatRecord` |
| `Cursor`, `Zed`, `VsCode`, `Hermes`, `OpenCode` | one adapter each, with the reading of its store | extend `ChatRecord` |
| `AdapterRegistry` | `adapter_for` | instances of the adapters |
| `Adapters` | a transcript read whole and in live batches | extends `AdapterRegistry` |
| `NativeStores` | a conversation in a tool's database, read at any time | extends `AdapterRegistry` |
| `GitCommit` | classification, segmentation and binding of commits | extends `Pipeline` |
| `GovernanceDoc` | the classifier of records of decisions | — |
| `History` | a branch that moves around `memscribe git`, a document that is edited, a turn that goes on | extends both and `Turn` |
| `Discovery` | which files are read, and by whose adapter | — |
| `DaemonProofs` | theorems about `Tailer`, then about `WatchDaemon` | extends `WatchDaemon` |
| `PipelineProofs` | lemmas about the operators of `Pipeline` | extends `Pipeline` |
| `CaptureProofs`, `HistoryProofs` | theorems about `Capture` and `History` | extend them and `PipelineProofs` |
| `RegistryProofs`, `OtlpProofs`, `RecordReaderProofs` | theorems about `WatchRegistry`, `OtlpReceiver` and `RecordReader` | extend them |
| `MC*` | small sets for TLC | extend the module they are named after |

### LineFeed and Tailer

`Tailer` has one file system (`exists`, `content`, `gen`), one watcher (`dirty`:
paths in the debounce window, `chan`: results queued), and one tailer whose
program counter `pc` stands where `drain_path` can be interleaved with:

| pc | code |
|---|---|
| `down` | no process; `Startup` is `LiveTailer::new`, `watch_path` and `poll_existing` |
| `idle` | the caller has control; `Recv` takes a result (tailer.rs:243-249, 299-329) |
| `drain` | next path of `todo`, in path order (BTreeSet); `Stat` is the metadata check and rotation reset (345-354); `Return` when none is left |
| `open` | `Open`: offset, open, length, clamp, nothing-new return (22-32) |
| `read` | `Read`: seek, read to end, cut at the last newline, `store.set` (33-51) |

Bytes are `x` and a newline. A file removed while it is open is still read
through the old handle (`unlinked`, `held`). `PollError` is a failing open or
read (warned about and not retried), `WatchError` a watcher error, `StoreFault`
any `get` or `set` whose error the store swallows, `Close` drops the tailer
between two polls, `Crash` loses everything but files and offsets at any time. `taken`, `base` and `delivered` are history: what was ever
read, what of that belongs to older generations, what the caller got.

### RecordReader

The loop of `read_records_from_bytes` byte by byte: its locals are variables,
`Begin` their first values, `SplitByte` one turn, `Records` what it returns.
`ReadOnce` gives it a whole file, `Poll` the unread bytes up to the last newline;
`ReturnPoll` rebases the offsets and moves the persisted one (`cursor`). The file
may grow at any time. `AreLines` is the reference, a statement about places of
newlines that fixes bytes and offsets (`OneReadingOnly`). Line numbers are
compared for one loop only: polls count them from 1 again (section 6).

### WatchDaemon

`watch_live` around the tailer: `turn` says where its loop is, `from` where in
each file the records of the batch at hand begin (their offsets are relative to
it, tailer.rs:47), `pending` which nodes `emit_batch` has still to emit, `buffer` what an NDJSON writer holds back,
`stored` what the sink holds. `WaitForBatch` is the head of the loop (the only
place where `stop` is looked at), `PollBatch` and `PollTimeout` the two ways out
of `recv_timeout`, `DrainStep` what the tailer does between, `WorldStep` what
tools, watcher and store do meanwhile, `TakeBatch` its return, `EmitNode`, `Spill` and `FlushSink` the sink. `SinkError`
is `?`; `DaemonCrash` and `DaemonStart` restart with the offsets of the last run
and, for a file sink, an empty file. One record stands for one node, so that
losing and repeating can be told from the file and offset of each node; what the
pipeline makes of records is `Capture`'s subject. `sink` is chosen at start from
`SinkKinds`.

### WatchRegistry

Paths are sequences of components; `EnsureAncestorWatch` climbs to the nearest
existing directory, watches it exactly (parent) or recursively (after a climb),
and does nothing when `watched_dirs` has it. The OS forgets a removed
directory's watch. `Retry` is the loop of `poll_existing`, which ignores errors.

### Candidacy and Turn

`Candidacy` is what decides whether a turn seeds a decision and at which tier:
`Clean` (prose.rs), `Rules` and `Markers` (gate.rs), `IsCommittal` (intent.rs),
`Anchor`, `Epitome` and `Score` (segmenter.rs). A text is a sequence of
sentences, each with its line, whether a full stop ends it, how many words it
has, the rules whose pattern it matches and the other signs that patterns and
word lists find in it; a pattern is thus an input and everything done with it is
in the model. Scores are `f32`, bit for bit: values are integers in units of
2^-29 and `Plus` rounds to nearest even at the unit in the last place. The
operators agree with IEEE single precision on all 1920 sums of the weights.

`Turn` puts a turn together sentence by sentence (on the same line, the next one
or in a new paragraph) in a session whose edit may come before, in between or
never; `History` composes it with the other sources of decisions. The pipeline
below uses the same operators.

### Pipeline and Capture

A record is one line of a Gemini transcript, reduced to what the structure of
the output depends on; the text of a turn is one of `Candidacy`. `Parse` threads the `ParseCtx` (session id, next sequence number,
ids seen); the other operators follow `DefaultSegmenter`, `DefaultBinder` and
`SqliteSink::primary_key` function by function. `Capture` lets the tool write
messages (new ones, and old ones again), rewinds and notices to two transcripts,
and lets `memscribe watch --once` run over all of them or the live daemon take
one batch at a time.

The binder's correlation table counts, for each pair of a decision's identity
and an edited path, the four cells of `attach_correlations`; support, confidence and
lift are kept as fractions.

### Adapters

An adapter is a `Parse(ctx, raw)`: a context and a record with its line number
in, a context with the new events out. A record has the fields the code tells
apart, listed at the head of each module; texts are single words, ids tuples
with one tag per format string of the code, so that two format strings never
make the same id by accident. `AdapterCtx` has the ways an event is added, which
differ from adapter to adapter and decide what a repeated record does:
`MkNew` asks `first_seen` for each event, `MkEvents` does not, `UnknownEvent`
never does. `Adapters` lets a tool write any record and feeds it to two
contexts at once: `whole`, which lives as long as the transcript, and `batch`,
which `Cut` replaces, with lines counted from 1 again, as `emit_batch` does.
What the properties compare events with (`Names`, `Outcomes`, `StatedOf`) reads
the records and not the adapters.

### NativeStores

A conversation is a sequence of messages of several sessions, some with a call
that ends later. `MCNativeStores` lays it out as each of the five tools does
(rows, parts, bubbles and headers, compressed threads), `ParseStore` is
`memscribe parse` (main.rs:216-236, 385-405) over what is there at the moment.

### GitCommit, GovernanceDoc and History

A commit is its type, its marks and clauses with the verdict of the phrase
lists. `ReadMessages` and `ReadFiles` are the two `git log` calls of `cmd_git`;
between them a commit may land or be amended. `GitCommit` hands its decisions
and files to the binder of `Pipeline`, the one of the transcripts.

A document has a status, or none, at each of the four `Positions` the classifier
looks at in turn, and marks for the families and lookalikes it knows. `Record` writes a
status at a position: over the old one, or below it in the status section, as
adr-tools does. `History` has the three sources of decisions side by side: a
behaviour is one of commits, of a document or of a turn.

### Discovery

A path is a sequence of components. What each adapter's `discover` claims, what
the walk finds and what `infer_source` reads off a path are operators; `Targets`
puts them together as `cmd_watch` does, the entry of the walk first. `WatchLive`
fixes the targets of a run, `WatchOnce` reads them at once, `Parse` reads one
file; `read` remembers which adapter read what.

### OtlpReceiver

`loop` stands where the receiver's one thread does: parked in accept, with a
connection of which the flag has still to be looked at (otlp.rs:127-130),
reading it, answering it, handing its batch over. `backlog` is what the OS has
queued for it. A request is one of the outcomes `read_request` and `decode_body`
distinguish, or `silent`: not complete so far, which blocks the thread, for the
code sets no timeout. `AnswerFails` is the `?` after `write_response`; `HandOver`
is the closure of `serve_into`, `RaiseFlag`, `PokeListener` and `Join` are
`signal_and_join`, by `shutdown` or by dropping the handle. When the thread ends
its listener is closed and so is every connection it has not served.

Definitions whose comment begins *Broken variant, for mutation only* are used by
no specification. Each is a plausible bug of the definition it stands before;
with it in place, TLC finds the property named under `mutants` violated.

## 3. Runs

| run | bounds | shows |
|---|---|---|
| `tailer_faults` | one file of at most 3 bytes, one rotation, one crash, one failed read or watch, one failed store call, queue of 2 | byte accounting, line ends, nothing lost in flight, caught up when idle, offsets move forward, stale offsets heal |
| `tailer_two` | two files of at most 2 bytes, no faults | the tailer implements `LineFeed`, liveness included |
| `records` | all texts up to 7 bytes, growing at any turn of the loop, all ways to poll them | the loop returns the lines of its bytes; the polls, the lines of what they consumed |
| `daemon` | two files of at most 2 bytes, stdout, file and SQLite, one crash, one sink error, one Ctrl-C | of a transcript that only grew: nothing twice or out of order, nothing skipped unless something failed; Ctrl-C stops |
| `registry` | four transcripts at three depths, one refused watch, directories removed | a try leaves its transcript observed if any directory above it exists, but for two known gaps; no try costs another transcript its watch |
| `capture` | two transcripts, three records beside the first, five kinds of message, two one-shot runs | binder, supersession, failed calls, row identity, idempotence |
| `capture_live` | one transcript, three edits | **violation**, section 6 |
| `adapters` | nine tools, three lines of ten to seventeen kinds each, batches cut anywhere | ids unique, repeats add nothing, no line of text unheard but Codex's that are no JSON, live covers one reading, outcomes reach their edits |
| `native_stores` | five tools, four messages in two sessions, reads at any time | the conversation is read, in order, and later reads keep the ids |
| `history` | three commits of five kinds at two instants, `--max` of 2, a cap of 2 files; fourteen documents with three edits; turns of two sentences, the second of any sum of weights | files stay with their commit, the last part governs; the last status decides, silence does not govern, synonyms of `accepted` left out; a turn's tier is that of its exact sum, lower only for a sum on a threshold |
| `discovery` | thirteen files of nine tools and two of nobody, two files at a time, six settings, two starts | one adapter for each file, no session missed, scope kept |
| `otlp` | two clients, every kind of request, a consumer that may leave, a shutdown | a 200 and a delivery mean the same; no client hangs; shutdown returns |

Why the bounds are enough. The tailer's cases are: offset before, at and beyond
the end of the file; zero, one and two complete lines, with and without a rest;
a change between any two system calls. Three bytes with one rotation and one of
each fault has them all, and the theorems have no bounds. Two files are needed
for a batch of several files and for one failing beside another. In `capture`,
three records hold a decision, its competitor or a rewind target, and an edit:
message 3 of the shapes is decision and edit at once, so a rewind over a bound
decision takes three records (target, both, rewind). In the turns of
`history`, the second sentence has every combination of rule kinds, choice, mechanism,
verb, ban, question and pronoun; the first is what a pronoun may refer to, a
line that is dropped, or a competing anchor. In `adapters`, three lines
are a call, its outcome and a repeat of either, or a header between two turns,
and two cuts put each in a batch of its own. In `native_stores`, four messages
are two sessions of a question and an answer, in every interleaving. In
`history`, three commits are two that compete for a file and one that pushes
the oldest off `--max`; three edits are a status, a change of mind and a return
to it, at one position or at several. In `discovery`, two files are a transcript
and one that interferes (the chat that hides a blob, the same path twice). In `otlp`, two clients and the poke
are one connection at hand, one in the backlog and one that comes too late.

`CHECK_DEADLOCK FALSE` is set where tools may stop writing and bounds run out:
a quiet daemon is a legal end.

*Fairness.* `Tailer!Fairness`: the debouncer's thread delivers what it has, the
daemon is started, and its thread keeps running; nothing makes a tool write, an
error happen, or a user press Ctrl-C. `DaemonFairSpec` has weak fairness of the
loop's own thread: `main.rs:953-968` never blocks for longer than a tick.
`StaleOffsetHeals` and `CtrlCStops` need no more than this; there is no
assumption that a file stops changing. `OtlpReceiver!Fairness`: the thread of the
loop and the one that shuts it down run, and a client does not stay silent for
ever. The last is an assumption on the clients, not something the code enforces:
without it one silent client holds every other one and the shutdown
(hazard otlp.rs:135). Nobody has to connect, to shut down or to receive.

*Environment assumption.* `PoliteRewrite`: a tool that has truncated or replaced
a transcript does not reach exactly the old offset again before the tailer has
looked (`Tailer!OldOffsets`). Without it the code does lose lines (section 6): with
`PoliteRewrite = FALSE` and one rewrite TLC finds `IdleMeansCaughtUp` violated.

## 4. Proofs

| theorem | states | assumes |
|---|---|---|
| `DaemonProofs!TypeCorrect` | `Spec => []TypeOK` | — |
| `DaemonProofs!NothingIsLost` | `Spec => []NothingLostInFlight` | — |
| `DaemonProofs!OffsetsAreLineEnds` | `Spec => []OffsetAtLineEnd`, store faults included | `PoliteRewrite` |
| `DaemonProofs!OffsetsMoveForward` | `Spec => OffsetMovesForward` | — |
| `DaemonProofs!EveryByteOnce` | `Spec => []TakenExactlyOnce` | `PoliteRewrite` |
| `DaemonProofs!IdleIsCaughtUp` | `Spec => []IdleMeansCaughtUp` | `PoliteRewrite` |
| `DaemonProofs!TailerFeedsLines` | `Spec => Feed!Safety`, the refinement of `LineFeed` | no rotation, crash or store fault |
| `DaemonProofs!DaemonImplementsTailer` | `DaemonSpec => Spec`, the refinement of `Tailer` | — |
| `DaemonProofs!SinkSeesInOrderOnce` | `DaemonSpec => []StoredInOrderOnce` | — |
| `DaemonProofs!SinkMissesNothing` | `DaemonSpec => []NothingSkippedUnlessItFailed` | — |
| `RegistryProofs!TriesAreObserved` | `Spec => TriedIsObserved` | — |
| `RegistryProofs!WatchesStay` | `Spec => StaysObserved` | — |
| `OtlpProofs!ReceiverTypeCorrect` | `Spec => []TypeOK` | — |
| `OtlpProofs!AcceptedArrives` | `Spec => []AcceptedIsDelivered` | — |
| `OtlpProofs!ArrivedWasAccepted` | `Spec => []DeliveredWasAccepted` | — |
| `RecordReaderProofs!SplitHolds` | `Spec => []SplitMatchesReference` | — |
| `RecordReaderProofs!PollsHold` | `Spec => []PollsMatchOneReading` | — |
| `RecordReaderProofs!OneReadingOnly` | the lines of a text are determined by it | — |
| `RecordReaderProofs!ReplayHolds` | a reading of what the polls consumed gives what they returned | — |
| `CaptureProofs!BinderHolds` | `Spec => []BindsTheGoverningDecision` | — |
| `CaptureProofs!RewindsHold` | `Spec => []RewoundGovernsNothing` | — |
| `CaptureProofs!FailuresHold` | `Spec => []FailureLeavesNoTrace` | — |
| `CaptureProofs!EditsAreKept` | `Spec => []OnceKeepsEveryEdit` | — |
| `CaptureProofs!RepeatsHold` | `Spec => RepeatedRunChangesNothing` | — |
| `HistoryProofs!FilesHold` | `Spec => []FilesComeFromTheirCommit` | — |
| `HistoryProofs!LastPartHolds` | `Spec => []LastPartGovernsItsCommit` | — |
| `HistoryProofs!TheLastWordHolds` | `Spec => []LastWordDecides` | — |
| `HistoryProofs!SilenceGovernsLittle` | `Spec => []NothingGovernsUnsaid` | — |
| `Discovery!ScopeHolds` | `Spec => []ScopeIsKept` | — |

Those of the tailer hold for every set of files and every bound, under
`TailerAssumption`: files are numbers, the newline is a byte, bounds are
naturals; those of the daemon besides for every set of sinks. Those of the
registry hold for every tree and set of transcripts under `RegistryAssumption`, a
transcript lies in some directory; those of the receiver for every set of
clients and every backlog under `ReceiverAssumption`, the poke is not a client;
those of the record reader for every set of bytes and every length; those of the
pipeline for any number of transcripts, every set of shapes a message may have,
every length, number of runs and binding gap, under `CaptureAssumption` and
`GapAssumption` (bounds and the gap are naturals, and so is the time of a
message: what does not parse is the epoch);
those of commits for every set of changes, shas, instants and counts and every
cap below the gap between sequence numbers, where the binder reaches at least the
second between a decision and its files (`GitAssumption`); those of documents for
every set of first documents that have no status yet (`HistoryAssumption`);
those of discovery for every catalog, environment and set of settings whose tools
are tools (`DiscoveryAssumption`).

The tailer. `OffsetAtLineEnd` alone is not inductive, for three reasons, each
a conjunct of `LineInv`: an open handle on a removed file exists only while
reading (`HandleOnlyWhenReading`), what such a handle holds reaches beyond the
offset and need not agree with the file there now (`HeldBeyond`), and the type
invariant. `TakenExactlyOnce` needs in addition that a read starts at the stored
offset (`StartInv`, which is where a failing store breaks it, so it is carried
under `faults = 0`) and that nothing of a new file counts as consumed while the
old one is read (`HeldMeansFresh`); together `TakenInv`. `IdleMeansCaughtUp`
follows from `UnreadInv`: whenever a file has an unread complete line, or is
shorter than its offset, it is in the debounce window, in a queued result, in
`todo`, or at hand in a step that will see it. Each step of the program is one
step of the proof; steps that touch none of the variables at stake share
`QuietStep`. The sequence facts (`PieceType`, `SeqEqual` and others) are lemmas
at the head of `DaemonProofs`.

`TailerFeedsLines` rests on `FeedInv`: what was handed over and what is in the
batch is together the text up to the offset, and the offset ends a line. The
hypotheses say what `LineFeed` does not describe: a rotated file starts anew, and
after a crash or a failed store call the offset may be ahead of or behind what
was handed over. Failed reads and lost watcher events are covered.

The daemon. `CtrlInv` ties the loop to the tailer: it waits and emits only
between two calls, and holds nodes only while it emits their batch. With it each
step of the daemon is a step of the tailer or leaves it alone, which is
`DaemonImplementsTailer`; whatever is proved of `Tailer` thus holds of the tailer
inside the daemon. Order in the sink takes three more invariants, per transcript
that has not rotated: a read in progress starts at the stored offset
(`StartInv`), the batch is the text between `from` and the offset (`BatchInv`),
and what the sink has seen lies behind what is pending, that behind the batch at
hand, and all of it behind the offset (`OrderInv`). `Thinned` is the lemma on
SQLite's replacement: what is left keeps its order. Completeness is `CoverInv`:
each line behind the offset is in the sink, pending, or in the batch at hand.

The registry. Both theorems are about steps and rest on `WatchInv`: every watch
the system holds is in `watched_dirs` (`Remembered`), a directory is watched
exactly only for a registered transcript of its own (`ExactForItsOwn`), and one
that is in `watched_dirs` without a watch lost it to a refusal or a removal
(`LossHasACause`). The second is what a climb that watches exactly would break,
the third what a `watched_dirs` without a watch call would. A call of `WatchDir`
changes the watch of one directory at most, and only if it had none
(`WatchTouchesOne`), so no transcript loses its watch to another's try; and of
the directory a try found nearest, `WatchInv` leaves the three cases of
`TriedIsObserved` (`TryCloses`).

The record reader. `LoopInv`: the records found so far are whole lines that
reach `start`, the next offset is `start`, and no newline stands between `start`
and the byte at hand. `PieceInv`: a poll's bytes are those of the file behind the
persisted offset and end with a newline, whatever the file has become since; so
the loop leaves no rest, and the rebased records continue those of earlier polls
(`PolledGrows`, `PolledInv`). `OneReadingOnly` takes the first record at which two
readings would differ: it begins where the same record before it ended, and the
shorter of two lines from one byte ends at a newline that is inside the other.

The pipeline. Its loops are functions defined by recursion on the number of turns
taken (`ctx` in `ParseRecords`, `found` in `Decisions`, `best` in `Best`, `table`
in `AllEmitted`), and TLAPS offers no induction over an operator. `Upwards` is
induction as a statement about a *set* of numbers, from the first one that is
missing (`FirstExists`); `IterationExists` gives a function that takes N steps from
a value its equations. Each loop is then unfolded once (`ParseUnfolds`,
`DecisionsAreTurns`, `BestIsBest`, `AllEmittedIs`), and what follows is about
sequences. The one state invariant it needs is `LogInv`: a transcript begins with
the line that names its session, and each record is one the tool can write.

* `EventsAreLaidOut`: the events of a record stand side by side from a place
  `start` on, which grows with the record, the seq of an event is its place, and a
  record leaves events exactly if it is the first of its id or a notice. `EventsComeFrom` and
  `FirstsHaveEvents` are the two directions between events and `Firsts`,
  `OrderedAlike` says that both are in one order, `OneSession` that all of a
  transcript's events are of one session.
* `BinderHolds`: `IsBestOf`, which no other eligible decision supplants, is what
  the loop over the decisions keeps; that edges carry it through the correlation
  pass is `EdgesAre` and `EdgesMade`.
* `RewindsHold`: a rewind in the stream and its first target correspond to a rewind
  and a target among `Firsts`, both ways (`CoveredIsMarked`, `MarkedIsCovered`);
  the last of several rewinds is irrelevant, there being one or not
  (`MarkedByRewind`).
* `FailuresHold`: the last result in the stream is the last among `Firsts`
  (`FailuresSeen`, and `FailuresReal` for the other direction).
* `EditsAreKept` and `RepeatsHold` rest on `RunsInv`: offsets lie in their
  transcripts; after a run, the table is what another run would leave (`Settled`)
  and holds every episode (`Kept`). A run over a table leaves of each key the row
  that the last transcript with that key has, and of the rest what was there
  (`AfterFirst`), which makes a second run the identity (`EmittedTwice`) whatever
  the transcripts share; that episodes survive is because their key has the
  session of their transcript (`EpisodesStay`).

Commits. `CommitsInv` says three things. No two commits there ever were share a
sha, an amended one included (`PastInv`), so the second pass finds the files of a
message by its sha or finds none. What the first pass read are past commits
(`MessagesInv`), whatever the branch is now. What was mined stays within commits
and has the files that the second pass listed (`MinedInv`). The step that mines
needs that sorting loses and repeats nothing: a finite set with an order has a
last element, by which it can be listed (`LastInOrder`, `SortingExists`), which
is instantiated for files (`FilesSorted`) and for commits of different shas
(`CommitsSorted`). What a run makes of the list is `DecisionsAreMade` and
`EpisodesMade`. By `MinedByCommit` an edge never leaves its commit, since each
commit is a session of its own to the binder; every part is eligible for every
file of its commit, which comes one second later; and of the parts, all of one
instant, the binder's loop keeps the one with the highest sequence number
(`BestIsBest`, `BindingsAre` and, for the other direction, `BindingsMade`).

Documents. `DocInv`: at each position stands the last status recorded there, and
a position where none was recorded has none. That the last word at the strongest
position decides follows for any sequence of edits.

Discovery. `ScopeInv`: the targets of a running watch are what `Targets` made of
the files and settings of its start, whatever appears later.

The receiver. That an answer and a delivery mean the same is inductive only with
what the code takes for granted of connections: each waits in the backlog once or
is at hand, and is unanswered until `Answer` (`Queue`, `Answers`), and a batch at
hand is not delivered yet (`HandedOnce`). `BatchesStep`, `AnswersStand` and
`HandingStep` say what a step can do to the batches, the answers and the batch at
hand; `DeliveryStep` combines them.

Model-checked only:

* liveness (`ImplementsLineFeed` with its fairness, `StaleOffsetHeals`,
  `CtrlCStops`, `ClientNeverHangs`, `ShutdownReturns`), which the provers cannot
  do under fairness;
* `Adapters` and `NativeStores`: eleven adapters are written with folds and
  `SelectSeq`, which the provers cannot expand. What was such a loop in `Pipeline`
  and `GitCommit` is a recursive function or a set there; section 8 says what the
  same would take here;
* `TierFollowsTheSum`, a statement about 1920 sums in single precision, which TLC
  goes through one by one;
* `NoSessionIsMissed`, which says that tools write where the adapters look: it is
  as true as the catalog, and a hypothesis strong enough would be its conclusion;
* `OneAdapterPerFile`, for the same reason: for what the walk finds it is the
  definition of `Targets`, and for what only an adapter finds, databases and
  moved transcripts, it depends on where those lie (section 6).

## 5. Hazards

`PROJECT.json` lists each hazard at its line with the properties that guard it.
Where a property leaves out a case, a note says why: the behaviour is what the
code does (a decision's row key has no session, failed polls are not retried, a
Codex edit's id holds a line number), or is below the model's abstraction (the
pages of a database read as lines).

## 6. Findings

One run is found violated, of a property that quotes the code's own
documentation.

* `capture_live`: a live batch is parsed with a fresh context, so edits of
  different batches get the same episode id and replace each other's rows
  (main.rs:1015, model.rs:377, main.rs:919-920).

Known divergences that the properties exclude, each in so many words:

* a rotation is seen only as a file shorter than the offset; a transcript
  rewritten to at least that length is read from the middle, contrary to
  tailer.rs:341 (`PoliteRewrite`);
* from the second poll on, line numbers count from the start of the piece, not
  of the file, contrary to model.rs:143 (`PollsMatchOneReading`);
* the offset is stored when a batch is read, before its nodes are emitted; a
  crash or a sink error in between skips them, contrary to main.rs:919-920
  (`NothingSkippedUnlessItFailed`);
* a directory watched for its own transcript is not upgraded when another path
  climbs to it, and one whose watch was refused or dropped is never watched
  again, contrary to tailer.rs:136-138, 153-158 and 215-218 (`TriedIsObserved`);
* Codex drops a line that is no JSON (codex.rs:59-65), contrary to its own doc
  (34-37); every adapter takes a line that is not UTF-8 for a blank one
  (util.rs:145-148), contrary to `never drop a record` (README.md:84)
  (`NothingIsLost`);
* the parts of a Windsurf turn are not checked against the ids seen
  (windsurf.rs:227): a call listed twice makes two events of one id
  (`IdsAreUnique`);
* the id of an edit of a Codex patch holds the number of its line (codex.rs:738),
  which restarts with every batch: a repeated line doubles the edit
  (`RepeatsAddNothing`), a live one is not the one a later reading has
  (`LiveCoversOnce`);
* the VS Code reader keeps the first session of a store for all (vscode.rs:848),
  and does not read how a call ended; Hermes takes every answer for a success
  (hermes.rs:281) (`ConversationIsRead`);
* a status at a stronger position outweighs a newer one at a weaker one
  (`LastWordDecides`);
* a record whose status is `implemented`, `published`, `final` or another synonym
  of `accepted` is in force (governance_doc.rs:286-307), contrary to the module's
  doc (26-29 and 107-110) (`LastWordDecides`, `NothingGovernsUnsaid`).

Seen while reading and not given a run.

*Live reading.* The file sink is truncated at each start although the offsets
survive (ndjson.rs:47), which loses what earlier runs emitted; a failing offset
store repeats lines (cursor_store.rs:74), contrary to `no duplicates, no loss`
(cursor_store.rs:2-3); sessions begun after the start of a watch wait for the
next start (main.rs:914-923), and `watch` reads databases as lines
(main.rs:1024-1036). Two paths that differ only in bytes that are not UTF-8
share one offset (tailer.rs:97).

*Segmenter.* The walk back from a pronoun to its antecedent is said never to
cross a paragraph (segmenter.rs:464-465), and tests for a blank line (505); but it
walks over the prose that `ProseFilter::clean` has left, which has no blank lines
(prose.rs:156), so an unfinished line above a blank one becomes part of the
epitome, as `WalksBack` has it. A soft marker is said to seed a decision only with
an edit, a confirmation never (gate.rs:22-25, segmenter.rs:83-85); since scores
replaced `seeds_decision`, which only tests call, both do without one: a
confirmation with a named choice comes to 0.50, a soft `deprecate` with a named
choice and a decisional verb to 0.87, which is the highest tier.

*Pipeline.* A second rewind to the same target is dropped by de-duplication when
its line is identical (gemini.rs:184-187); a message written again with new tool
results is ignored in one context and re-emitted in the next; decisions of
different transcripts share row keys (sqlite.rs:101-103); a sum that lies on a
threshold misses it in seven combinations of weights, a soft `avoid` with a
named choice, a decisional verb and no edit being one (0.85, which is not
Observed); `bindings sort just after the episode` (nodeprep.rs:56) sorts
them last of all.

*Adapters.* A compaction is recorded with the empty range 0..0 (codex.rs:987) and
supersedes nothing; Zed messages of a shape it does not know leave no record,
though no thread content is said to be dropped; `verify --capture` reads a live
session three times, so what it stores need not be what it checked; the stores
are opened with `immutable=1` while their tools write to them
(cursor.rs:313-323).

*Commits and documents.* The sequence numbers of mined decisions hold the index
of the commit in the run (gitcommit.rs:526), so they move with `--max`, although
ids are said to be keyed on the SHA (509-513); of a bundle only the last part is
ever bound.

*Discovery.* `infer_source` looks for tool names anywhere in a path, a user's
name included, so a Claude session of a project called codex is read by Codex's
adapter; with `CODEX_HOME` at a place named after another tool, `watch` asks the
adapter that claims a transcript there and `parse` the path; the project filter is honoured by Claude's adapter only
(main.rs:766-774); the walk over the home directory also finds files no tool
wrote as transcripts (`~/.codex/history.jsonl`); Copilot and Windsurf claim
directories, which cannot be read; when two tables of the configuration set one
override, the order of a `HashMap` decides (config.rs:214-231).

*OTLP.* When the consumer of the channel is gone, the loop does not exit `after
this connection` (otlp.rs:167-168) but waits in accept for one more; a request
without an end keeps the client waiting and not answered (otlp.rs:232).

## 7. Not modelled

Text: what the patterns and word lists of gate, prose, intent and speech acts
find in a sentence is an input of `Candidacy`, and so are polarity and
languageness; redaction and the options of a decision are left out. Of the adapters, token
usage, model names, git refs, the texts of diffs and the order in which
alternative field names are tried. The SQL client, decompression and the page
format of databases; the rows of Hermes whose columns have other types than
expected, which its reader leaves out (hermes.rs:204, 231). Of commit mining, references to records, polarity and the
author; of documents, titles, ids and governed paths. Of the configuration, the
sections on gate, redaction, ingest and sinks. Of the OTLP receiver, the loopback
bind and the decoding of a body. The MemDB sink appends to a vector, the hook
reads one message. `LiveTailer::run` and a disconnected channel, which the
program does not reach. Details per component are in `PROJECT.json`.

## 8. Plan

Done: `LineFeed`, `Tailer` with its theorems, `RecordReader`, `WatchDaemon`,
`WatchRegistry`, `Candidacy`, `Turn`, `Pipeline`, `Capture`, `OtlpReceiver` with its theorems, the
eleven adapters with `Adapters` and `NativeStores`, `GitCommit`,
`GovernanceDoc`, `History`, `Discovery`.

Proved since: `WatchRegistry`, the daemon (refinement, order, completeness), the
refinement of `LineFeed`, documents, the scope of discovery, the record reader, the
pipeline with its one-shot runs (all five properties of the run `capture`), the
commits (both properties).

Next:

1. The adapters: for one at a time, that the ids of one context are unique and
   their numbers consecutive, from an invariant that each id belongs to a record
   that was seen. This needs `MkEvents`, `MkAllNew` and the lists of drafts as
   recursive functions, which `IterationExists` unfolds.

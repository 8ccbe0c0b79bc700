------------------------------- MODULE Tailer -------------------------------
(***************************************************************************)
(* The live transcript tailer of memscribe-io: LiveTailer over the         *)
(* crash-safe poll_new_records core, with its persistent offset store, the *)
(* notify watcher that wakes it and the coding tools that write, rewrite   *)
(* and remove the transcripts under it.                                    *)
(*                                                                         *)
(* A drain of one file is three steps of the code with the file system     *)
(* free to change between any two of them: the rotation check of           *)
(* drain_path (Stat), the open-and-clamp of poll_new_records (Open), and   *)
(* its read up to the last newline together with the store.set that        *)
(* follows it on private data (Read).                                      *)
(***************************************************************************)
EXTENDS Naturals, Sequences

CONSTANTS
  Files,          \* the registered transcripts (interest), as numbers in path order
  Byte,           \* the bytes a transcript is made of
  NL,             \* the newline byte
  MaxLen,         \* bound: bytes in one transcript
  MaxGen,         \* bound: times one transcript is truncated or removed
  MaxCrashes,     \* bound: crashes of the daemon
  MaxErrors,      \* bound: failed opens, reads and watch deliveries
  MaxStoreFaults, \* bound: failed reads and writes of the offset store
  MaxQueue,       \* bound: debounced results waiting in the channel
  PoliteRewrite   \* a rewritten transcript stays shorter than the old offset
                  \* until the tailer has noticed (an assumption on the tools)

ASSUME TailerAssumption ==
  /\ Files \subseteq Nat
  /\ NL \in Byte
  /\ MaxLen \in Nat /\ MaxGen \in Nat /\ MaxCrashes \in Nat
  /\ MaxErrors \in Nat /\ MaxStoreFaults \in Nat /\ MaxQueue \in Nat
  /\ PoliteRewrite \in BOOLEAN

VARIABLES
  exists, content, gen,       \* the file system; gen counts rotations
  dirty, chan,                \* paths the debouncer has pending; rx
  cursor,                     \* the offset store (0 stands for "no entry")
  pc, todo, start, out,       \* LiveTailer: paths left in this call, clamped
                              \* start, records of the batch so far (as bytes)
  unlinked, held,             \* the file being read was removed under the open
                              \* handle, which still holds these bytes
  taken, base,                \* history: bytes ever read; ... before this gen
  delivered,                  \* history: bytes ever returned to the caller
  crashes, errors, faults     \* how much of the bounds above is used

fsVars     == <<exists, content, gen>>
watchVars  == <<dirty, chan>>
drainVars  == <<pc, todo, start, out>>
handleVars == <<unlinked, held>>
boundVars  == <<crashes, errors, faults>>
vars == <<fsVars, watchVars, cursor, drainVars, handleVars, taken, base, delivered,
          boundVars>>

Phases == {"down", "drain", "open", "read", "idle"}

Results == [ok : BOOLEAN, paths : SUBSET Files]

TypeOK ==
  /\ exists  \in [Files -> BOOLEAN]
  /\ content \in [Files -> Seq(Byte)]
  /\ gen     \in [Files -> Nat]
  /\ dirty   \in SUBSET Files
  /\ chan    \in Seq(Results)
  /\ cursor  \in [Files -> Nat]
  /\ pc      \in Phases
  /\ todo    \in SUBSET Files
  /\ start   \in Nat
  /\ unlinked \in BOOLEAN
  /\ held    \in Seq(Byte)
  /\ out       \in [Files -> Seq(Byte)]
  /\ taken     \in [Files -> Seq(Byte)]
  /\ base      \in [Files -> Seq(Byte)]
  /\ delivered \in [Files -> Seq(Byte)]
  /\ crashes \in Nat
  /\ errors  \in Nat
  /\ faults  \in Nat

Init ==
  /\ exists  = [f \in Files |-> FALSE]
  /\ content = [f \in Files |-> <<>>]
  /\ gen     = [f \in Files |-> 0]
  /\ dirty = {} /\ chan = <<>>
  /\ cursor = [f \in Files |-> 0]
  /\ pc = "down" /\ todo = {} /\ start = 0
  /\ unlinked = FALSE /\ held = <<>>
  /\ out       = [f \in Files |-> <<>>]
  /\ taken     = [f \in Files |-> <<>>]
  /\ base      = [f \in Files |-> <<>>]
  /\ delivered = [f \in Files |-> <<>>]
  /\ crashes = 0 /\ errors = 0 /\ faults = 0

-----------------------------------------------------------------------------
(* The coding tools and the watcher.                                       *)

(* The watcher lives in the daemon: it sees a change only while it is up.  *)
Noticed(f) == dirty' = IF pc = "down" THEN dirty ELSE dirty \cup {f}

(* Paths are drained in sorted order: f is the one at hand.                *)
IsNext(f) == f \in todo /\ \A g \in todo : f <= g

Reading(f) == pc = "read" /\ IsNext(f)

(* What read_to_end returns after the seek: what the file opened holds now.*)
BytesFrom(f) ==
  LET bytes == IF unlinked THEN held ELSE content[f]
  IN  SubSeq(bytes, start + 1, Len(bytes))

(* Broken variant, for mutation only: the partial last line is taken too.  *)
TakesPartialLine(buf, n) == n = Len(buf)

(* n is one past the last newline of buf, or 0 if it has none.             *)
IsConsumable(buf, n) ==
  /\ n > 0 => buf[n] = NL
  /\ \A i \in n + 1 .. Len(buf) : buf[i] # NL

(* The offsets that the tailer remembers, or is about to remember, of the  *)
(* bytes that f no longer has, if it has rotated.                          *)
OldOffsets(f) ==
  {cursor[f]} \cup
    IF Reading(f) /\ unlinked
    THEN {start + n : n \in {k \in 1 .. Len(BytesFrom(f)) :
                               IsConsumable(BytesFrom(f), k)}}
    ELSE {}

(* A tool creates f or appends one byte to it: any chunking of its writes  *)
(* is a sequence of such steps, so every partial line is a state.          *)
WriteByte(f, b) ==
  /\ Len(content[f]) < MaxLen
  /\ PoliteRewrite => Len(content[f]) + 1 \notin OldOffsets(f)
  /\ exists'  = [exists EXCEPT ![f] = TRUE]
  /\ content' = [content EXCEPT ![f] = Append(@, b)]
  /\ Noticed(f)
  /\ UNCHANGED <<gen, chan, cursor, drainVars, handleVars, taken, base, delivered,
                 boundVars>>

(* The old bytes of f are gone and a new generation starts.                *)
Discard(f) ==
  /\ exists[f]
  /\ gen[f] < MaxGen
  /\ gen'     = [gen EXCEPT ![f] = @ + 1]
  /\ content' = [content EXCEPT ![f] = <<>>]
  /\ base'    = [base EXCEPT ![f] = taken[f]]
  /\ UNCHANGED <<chan, cursor, drainVars, taken, delivered, boundVars>>

(* Truncation in place (a Modify event).                                   *)
TruncateFile(f) == Discard(f) /\ Noticed(f) /\ UNCHANGED <<exists, handleVars>>

(* Removal: handle_result ignores Remove events. A handle that is open on  *)
(* f keeps the bytes.                                                      *)
RemoveFile(f) ==
  /\ Discard(f)
  /\ exists' = [exists EXCEPT ![f] = FALSE]
  /\ IF Reading(f) /\ ~unlinked
     THEN unlinked' = TRUE /\ held' = content[f]
     ELSE UNCHANGED handleVars
  /\ UNCHANGED dirty

(* The debouncer's window closes: what changed goes down the channel as    *)
(* one result.                                                             *)
Debounce ==
  /\ dirty # {} /\ Len(chan) < MaxQueue
  /\ chan'  = Append(chan, [ok |-> TRUE, paths |-> dirty])
  /\ dirty' = {}
  /\ UNCHANGED <<fsVars, cursor, drainVars, handleVars, taken, base, delivered,
                 boundVars>>

(* The watcher fails and what it had pending is reported as an error.      *)
WatchError ==
  /\ pc # "down" /\ errors < MaxErrors /\ Len(chan) < MaxQueue
  /\ chan'   = Append(chan, [ok |-> FALSE, paths |-> {}])
  /\ dirty'  = {}
  /\ errors' = errors + 1
  /\ UNCHANGED <<fsVars, cursor, drainVars, handleVars, taken, base, delivered,
                 crashes, faults>>

-----------------------------------------------------------------------------
(* LiveTailer.                                                             *)

(* Broken variant, for mutation only: a daemon without poll_existing.      *)
StartupDrainsNothing ==
  /\ pc = "down"
  /\ pc' = "drain" /\ todo' = {}
  /\ UNCHANGED <<fsVars, watchVars, cursor, start, out, handleVars, taken, base,
                 delivered, boundVars>>

(* A (re)started daemon registers every path, then poll_existing drains    *)
(* each of them once; the offsets are those the last run persisted.        *)
Startup ==
  /\ pc = "down"
  /\ pc' = "drain" /\ todo' = Files
  /\ UNCHANGED <<fsVars, watchVars, cursor, start, out, handleVars, taken, base,
                 delivered, boundVars>>

(* poll: the next debounced result, which handle_result turns into the set *)
(* of interested paths to drain; an error yields an empty batch.           *)
Recv ==
  /\ pc = "idle" /\ chan # <<>>
  /\ chan' = Tail(chan)
  /\ IF Head(chan).ok
     THEN pc' = "drain" /\ todo' = Head(chan).paths \cap Files
     ELSE UNCHANGED <<pc, todo>>
  /\ UNCHANGED <<fsVars, dirty, cursor, start, out, handleVars, taken, base,
                 delivered, boundVars>>

NextPath(f) ==
  /\ pc' = "drain" /\ todo' = todo \ {f}
  /\ unlinked' = FALSE /\ held' = <<>>

(* Broken variants, for mutation only: subtraction the wrong way round, a  *)
(* comparison off by one, no rotation check at all.                        *)
ResetToOverhang(f) ==
  IF exists[f] /\ cursor[f] > Len(content[f])
  THEN Len(content[f]) - cursor[f] ELSE cursor[f]

ResetWhenCaughtUp(f) ==
  IF exists[f] /\ cursor[f] >= Len(content[f]) THEN 0 ELSE cursor[f]

NeverReset(f) == cursor[f]

(* drain_path: an offset beyond the end of the file means it was rotated.  *)
RotationReset(f) ==
  IF exists[f] /\ cursor[f] > Len(content[f]) THEN 0 ELSE cursor[f]

StatTo(f, off) ==
  /\ pc = "drain" /\ IsNext(f)
  /\ cursor' = [cursor EXCEPT ![f] = off]
  /\ pc' = "open"
  /\ UNCHANGED <<fsVars, watchVars, todo, start, out, handleVars, taken, base,
                 delivered>>

Stat(f) == StatTo(f, RotationReset(f)) /\ UNCHANGED boundVars

ClampedStart(f) ==
  IF cursor[f] <= Len(content[f]) THEN cursor[f] ELSE Len(content[f])

(* poll_new_records from offset off: a missing file, or one with nothing   *)
(* past the offset, contributes nothing.                                   *)
OpenAt(f, off) ==
  /\ pc = "open" /\ IsNext(f)
  /\ IF ~exists[f] \/ off >= Len(content[f])
     THEN NextPath(f) /\ UNCHANGED start
     ELSE pc' = "read" /\ start' = off /\ UNCHANGED <<todo, handleVars>>
  /\ UNCHANGED <<fsVars, watchVars, cursor, out, taken, base, delivered>>

Open(f) == OpenAt(f, ClampedStart(f)) /\ UNCHANGED boundVars

(* The complete lines join the batch and a partial last line is left for   *)
(* the next poll; advance tells whether the offset moves past them.        *)
ReadLines(f, advance) ==
  /\ Reading(f)
  /\ \E n \in 0 .. Len(BytesFrom(f)) :
       /\ IsConsumable(BytesFrom(f), n)
       /\ out'    = [out EXCEPT ![f] = @ \o SubSeq(BytesFrom(f), 1, n)]
       /\ taken'  = [taken EXCEPT ![f] = @ \o SubSeq(BytesFrom(f), 1, n)]
       /\ cursor' = [cursor EXCEPT ![f] = IF n = 0 \/ ~advance THEN @ ELSE start + n]
       /\ base'   = IF unlinked
                    THEN [base EXCEPT ![f] = @ \o SubSeq(BytesFrom(f), 1, n)]
                    ELSE base
  /\ NextPath(f)
  /\ UNCHANGED <<fsVars, watchVars, start, delivered>>

(* Broken variant, for mutation only: store.set is forgotten.              *)
ReadWithoutSet(f) == ReadLines(f, FALSE) /\ UNCHANGED boundVars

Read(f) == ReadLines(f, TRUE) /\ UNCHANGED boundVars

(* SqliteOffsetStore swallows its errors. A failed get reads as "no entry":*)
(* no rotation is seen, or the file is read from its start. A failed set   *)
(* leaves the old offset.                                                  *)
StoreFault(f) ==
  /\ faults < MaxStoreFaults
  /\ StatTo(f, cursor[f]) \/ OpenAt(f, 0) \/ ReadLines(f, FALSE)
  /\ faults' = faults + 1
  /\ UNCHANGED <<crashes, errors>>

(* An open or a read that fails is a warning; the path is not retried.     *)
PollError(f) ==
  /\ pc \in {"open", "read"} /\ IsNext(f)
  /\ errors < MaxErrors
  /\ errors' = errors + 1
  /\ NextPath(f)
  /\ UNCHANGED <<fsVars, watchVars, cursor, start, out, taken, base, delivered,
                 crashes, faults>>

(* Broken variant, for mutation only: the batch is handed over twice.      *)
ReturnKeepsBatch ==
  /\ pc = "drain" /\ todo = {}
  /\ pc' = "idle"
  /\ delivered' = [f \in Files |-> delivered[f] \o out[f]]
  /\ UNCHANGED <<fsVars, watchVars, cursor, todo, start, out, handleVars, taken,
                 base, boundVars>>

(* Every path is drained: the batch goes back to the caller.               *)
Return ==
  /\ pc = "drain" /\ todo = {}
  /\ pc' = "idle"
  /\ delivered' = [f \in Files |-> delivered[f] \o out[f]]
  /\ out'       = [f \in Files |-> <<>>]
  /\ UNCHANGED <<fsVars, watchVars, cursor, todo, start, handleVars, taken, base,
                 boundVars>>

(* The process is gone: only the files and the offset store survive it.    *)
ProcessEnds ==
  /\ pc' = "down" /\ todo' = {}
  /\ out' = [f \in Files |-> <<>>]
  /\ dirty' = {} /\ chan' = <<>>
  /\ unlinked' = FALSE /\ held' = <<>>
  /\ UNCHANGED <<fsVars, cursor, start, taken, base, delivered>>

(* The loop that owns the tailer returns between two polls and drops it.   *)
Close ==
  /\ pc = "idle"
  /\ ProcessEnds
  /\ UNCHANGED boundVars

Crash ==
  /\ pc # "down" /\ crashes < MaxCrashes
  /\ crashes' = crashes + 1
  /\ ProcessEnds
  /\ UNCHANGED <<errors, faults>>

-----------------------------------------------------------------------------
World ==
  \/ \E f \in Files, b \in Byte : WriteByte(f, b)
  \/ \E f \in Files : TruncateFile(f) \/ RemoveFile(f)
  \/ Debounce
  \/ WatchError

Drain(f) == Stat(f) \/ Open(f) \/ Read(f) \/ PollError(f) \/ StoreFault(f)

Next ==
  \/ World
  \/ Startup \/ Recv \/ Return \/ Close \/ Crash
  \/ \E f \in Files : Drain(f)

(* The debouncer thread and the daemon's loop keep running, and the daemon *)
(* is started at all; nothing makes a tool write.                          *)
Fairness ==
  /\ WF_vars(Debounce)
  /\ WF_vars(Startup)
  /\ WF_vars(Recv \/ Return \/ \E f \in Files : Drain(f))

Spec == Init /\ [][Next]_vars

FairSpec == Spec /\ Fairness
-----------------------------------------------------------------------------
(* How much of the present text of f has been taken: a cursor beyond the   *)
(* end belongs to bytes that are gone.                                     *)
Consumed(f) == IF cursor[f] <= Len(content[f]) THEN cursor[f] ELSE 0

(* Every byte of a transcript is read exactly once, in order, across       *)
(* crashes, restarts, failed reads and noticed rotations, while the offset *)
(* store works: what was ever taken from f is what was taken from its old  *)
(* generations followed by its present text up to the stored offset.       *)
(* poll_new_records, tailer.rs:37-38 "restart mid-line lossless and        *)
(* duplicate-free".                                                        *)
TakenExactlyOnce ==
  faults = 0 =>
    \A f \in Files : taken[f] = base[f] \o SubSeq(content[f], 1, Consumed(f))

(* The stored offset never points into the middle of a line, whatever      *)
(* partial writes, crashes and rotations it has seen, so no half line is   *)
(* ever parsed (tailer.rs:4-6).                                            *)
OffsetAtLineEnd ==
  \A f \in Files : Consumed(f) = 0 \/ content[f][Consumed(f)] = NL

(* Only a crash can lose what was taken: short of one, every byte the      *)
(* offset has moved past is with the caller or in the batch being built.   *)
NothingLostInFlight ==
  crashes = 0 => \A f \in Files : taken[f] = delivered[f] \o out[f]

(* Nothing waits unread: when the loop is idle and no event is pending,    *)
(* every complete line of every transcript has been taken -- after a       *)
(* restart, a late creation and a rotation too ("never loses the new       *)
(* content", tailer.rs:341-342).                                           *)
IdleMeansCaughtUp ==
  (pc = "idle" /\ dirty = {} /\ chan = <<>> /\ errors = 0 /\ faults = 0) =>
    \A f \in Files : \A n \in 1 .. Len(content[f]) :
      content[f][n] = NL => Len(taken[f]) >= Len(base[f]) + n

(* The persisted offset of a transcript goes back only to zero, and only   *)
(* when the file is shorter than it: drain_path's rotation rule.           *)
OffsetMovesForward ==
  [][\A f \in Files :
       faults' = 0 /\ cursor'[f] < cursor[f] => cursor'[f] = 0 /\ cursor[f] > Len(content[f])]_vars

(* A stale offset heals: once a transcript is shorter than its offset, a   *)
(* drain resets it or the file goes away and stays away -- unless the      *)
(* event, the poll or the store call that would do it fails.               *)
StaleOffsetHeals ==
  \A f \in Files :
    cursor[f] > Len(content[f]) ~>
      (cursor[f] <= Len(content[f]) \/ ~exists[f] \/ errors > 0 \/ faults > 0)

(* What the tailer promises its caller, while nothing rotates, crashes or  *)
(* fails.                                                                  *)
Feed == INSTANCE LineFeed WITH text <- content, fed <- delivered

ImplementsLineFeed == Feed!Spec
=============================================================================

--------------------------- MODULE WatchRegistry ---------------------------
(***************************************************************************)
(* Which directories LiveTailer has the OS watch, so that a transcript     *)
(* that is created later is noticed: watch_path, ensure_ancestor_watch and *)
(* the retry in poll_existing, over a directory tree that tools create and *)
(* remove directories of.                                                  *)
(*                                                                         *)
(* A path is the sequence of its components. The OS drops the watch of a   *)
(* directory that is removed, and a recursive watch follows directories    *)
(* created below it (both are the notify crate's, seen from this code).    *)
(***************************************************************************)
EXTENDS Naturals, Sequences, SequencesExt

CONSTANTS
  PathOf,       \* the transcripts, numbered in path order
  MaxFailures,  \* bound: watch calls the OS refuses
  MaxRemovals   \* bound: directories removed

Files == DOMAIN PathOf

(* The directories above a path, its own parent included.                  *)
Above(p) == {SubSeq(p, 1, n) : n \in 1 .. Len(p) - 1}

Dirs == UNION {Above(PathOf[f]) : f \in Files}

ASSUME RegistryAssumption ==
  /\ \A f \in Files : f \in Nat /\ Len(PathOf[f]) > 1
  /\ MaxFailures \in Nat /\ MaxRemovals \in Nat

VARIABLES
  onDisk,       \* directories that exist
  interest,     \* registered transcripts
  watchedDirs,  \* LiveTailer.watched_dirs
  osWatch,      \* what the OS watches: "none", "exact" or "deep" per directory
  todo,         \* paths poll_existing has still to retry
  failures, removals

vars == <<onDisk, interest, watchedDirs, osWatch, todo, failures, removals>>

Init ==
  /\ onDisk \in {D \in SUBSET Dirs : \A d \in D : Above(d) \subseteq D}
  /\ interest = {} /\ watchedDirs = {} /\ todo = {}
  /\ osWatch = [d \in Dirs |-> "none"]
  /\ failures = 0 /\ removals = 0

(* The climb: the deepest directory above the path that exists right now.  *)
IsNearest(d, p) ==
  /\ d \in Above(p) \cap onDisk
  /\ \A e \in Above(p) \cap onDisk : Len(e) <= Len(d)

(* Broken variants, for mutation only: the mode is never raised by the     *)
(* climb; a directory is watched anew by each path that comes to it, the   *)
(* last one's mode replacing the first one's.                              *)
ModeAlwaysExact(d, p) == "exact"

WatchAnew(d, p) ==
  /\ watchedDirs' = watchedDirs \cup {d}
  /\ osWatch' = [osWatch EXCEPT ![d] = IF d = Front(p) THEN "exact" ELSE "deep"]
  /\ UNCHANGED failures

(* The exact parent is watched as such; having climbed means recursively.  *)
ModeFor(d, p) == IF d = Front(p) THEN "exact" ELSE "deep"

(* watched_dirs.insert comes before the watch call, and guards it.         *)
WatchDir(d, p) ==
  /\ watchedDirs' = watchedDirs \cup {d}
  /\ \/ d \in watchedDirs /\ UNCHANGED <<osWatch, failures>>
     \/ /\ d \notin watchedDirs
        /\ osWatch' = [osWatch EXCEPT ![d] = ModeFor(d, p)]
        /\ UNCHANGED failures
     \/ /\ d \notin watchedDirs
        /\ failures < MaxFailures
        /\ failures' = failures + 1
        /\ UNCHANGED osWatch

EnsureAncestorWatch(f) ==
  \/ /\ Above(PathOf[f]) \cap onDisk = {}
     /\ UNCHANGED <<watchedDirs, osWatch, failures>>
  \/ \E d \in onDisk : IsNearest(d, PathOf[f]) /\ WatchDir(d, PathOf[f])

WatchPath(f) ==
  /\ todo = {}
  /\ interest' = interest \cup {f}
  /\ EnsureAncestorWatch(f)
  /\ UNCHANGED <<onDisk, todo, removals>>

PollExisting ==
  /\ todo = {} /\ interest # {}
  /\ todo' = interest
  /\ UNCHANGED <<onDisk, interest, watchedDirs, osWatch, failures, removals>>

(* One turn of poll_existing's first loop; its errors are ignored.         *)
Retry(f) ==
  /\ f \in todo /\ \A g \in todo : f <= g
  /\ EnsureAncestorWatch(f)
  /\ todo' = todo \ {f}
  /\ UNCHANGED <<onDisk, interest, removals>>

MakeDir(d) ==
  /\ d \notin onDisk /\ Above(d) \subseteq onDisk
  /\ onDisk' = onDisk \cup {d}
  /\ UNCHANGED <<interest, watchedDirs, osWatch, todo, failures, removals>>

RemoveDir(d) ==
  /\ d \in onDisk /\ \A e \in onDisk : d \notin Above(e)
  /\ removals < MaxRemovals
  /\ removals' = removals + 1
  /\ onDisk'  = onDisk \ {d}
  /\ osWatch' = [osWatch EXCEPT ![d] = "none"]
  /\ UNCHANGED <<interest, watchedDirs, todo, failures>>

Next ==
  \/ \E f \in Files : WatchPath(f) \/ Retry(f)
  \/ PollExisting
  \/ \E d \in Dirs : MakeDir(d) \/ RemoveDir(d)

Spec == Init /\ [][Next]_vars
-----------------------------------------------------------------------------
(* The creation of f, and of the directories it still lacks, is reported.  *)
Observed(f) ==
  \/ osWatch[Front(PathOf[f])] # "none"
  \/ \E d \in Above(PathOf[f]) : osWatch[d] = "deep"

(* The two gaps. A directory whose watch the OS refused or dropped stays in *)
(* watched_dirs, which bars it from being watched again; and one that is   *)
(* watched for a transcript of its own, exactly, is not widened for        *)
(* another one further down.                                               *)
Lost(d) == d \in watchedDirs /\ osWatch[d] = "none"

KeptForItsOwn(d) ==
  osWatch[d] = "exact" /\ \E g \in interest : Front(PathOf[g]) = d

(* To register a transcript, or to try it again, leaves its creation       *)
(* observed if any directory above it exists: "the eventual creation of    *)
(* the file is observed" (tailer.rs:153-158, with 136-138 and 215-218).    *)
(* Left out are the two gaps, which those comments do not know of: the     *)
(* nearest directory is watched exactly for a transcript of its own, or it *)
(* is in watched_dirs without a watch, which takes a refused watch or a    *)
(* removed directory. In a tree where neither happened there is no excuse. *)
TriedIsObserved ==
  [][\A f \in (interest' \ interest) \cup (todo \ todo') :
       Above(PathOf[f]) \cap onDisk # {} =>
         \/ Observed(f)'
         \/ \E d \in onDisk :
              /\ IsNearest(d, PathOf[f])
              /\ KeptForItsOwn(d)' \/ (Lost(d)' /\ failures' + removals > 0)]_vars

(* Nothing that is done for one transcript costs another its watch, though *)
(* they share directories that are watched in different modes              *)
(* (tailer.rs:188-191): one that is observed ceases to be so only when a   *)
(* directory above it is removed.                                          *)
StaysObserved ==
  [][\A f \in interest :
       Observed(f) => Observed(f)' \/ (onDisk \ onDisk') \cap Above(PathOf[f]) # {}]_vars
=============================================================================

--------------------------- MODULE RegistryProofs ---------------------------
(***************************************************************************)
(* For every set of transcripts, however deep, and any number of refused   *)
(* watches and removed directories: a try leaves its transcript observed,  *)
(* but for the two gaps TriedIsObserved names, and nothing that is done    *)
(* for one transcript costs another its watch.                             *)
(***************************************************************************)
EXTENDS WatchRegistry, TLAPS

TypeOK ==
  /\ watchedDirs \subseteq Dirs
  /\ osWatch \in [Dirs -> {"none", "exact", "deep"}]
  /\ interest \subseteq Files
  /\ todo \subseteq interest
  /\ failures \in Nat /\ removals \in Nat

(* What the OS watches was asked for and is remembered: watched_dirs is    *)
(* inserted into before the watch call, and nothing is taken out of it.    *)
Remembered == \A d \in Dirs : osWatch[d] # "none" => d \in watchedDirs

(* A directory is watched exactly only for a transcript of its own.        *)
ExactForItsOwn == \A d \in Dirs : osWatch[d] = "exact" => KeptForItsOwn(d)

(* A watch that is remembered but not held was refused or dropped.         *)
LossHasACause == (\E d \in Dirs : Lost(d)) => failures + removals > 0

WatchInv == TypeOK /\ Remembered /\ ExactForItsOwn /\ LossHasACause

(* The parent of a transcript is one of the directories above it.          *)
LEMMA ParentIsAbove ==
  ASSUME NEW f \in Files
  PROVE  Front(PathOf[f]) \in Above(PathOf[f])
<1>1. Len(PathOf[f]) > 1
  BY RegistryAssumption DEF RegistryAssumption
<1>2. Len(PathOf[f]) - 1 \in 1 .. Len(PathOf[f]) - 1
  BY <1>1
<1> QED
  BY <1>2 DEF Front, Above

LEMMA AboveAreDirs ==
  ASSUME NEW f \in Files
  PROVE  Above(PathOf[f]) \subseteq Dirs
BY DEF Dirs

(* What one call of watch_dirs.insert and watch makes of directory d: at   *)
(* most the watch of d changes, and only from none to what f needs.        *)
LEMMA WatchTouchesOne ==
  ASSUME WatchInv, NEW f \in Files, NEW d \in Dirs, WatchDir(d, PathOf[f])
  PROVE  /\ watchedDirs' = watchedDirs \cup {d}
         /\ osWatch' \in [Dirs -> {"none", "exact", "deep"}]
         /\ failures' \in Nat /\ failures' >= failures
         /\ \A e \in Dirs : e # d \/ osWatch[d] # "none" => osWatch'[e] = osWatch[e]
         /\ osWatch[d] = "none" =>
              \/ osWatch'[d] = ModeFor(d, PathOf[f])
              \/ osWatch'[d] = "none" /\ (failures' > 0 \/ Lost(d))
<1> USE DEF WatchInv, TypeOK
<1>1. ModeFor(d, PathOf[f]) \in {"exact", "deep"}
  BY DEF ModeFor
<1>2. CASE d \in watchedDirs /\ UNCHANGED <<osWatch, failures>>
  BY <1>2 DEF WatchDir, Lost
<1>3. CASE d \notin watchedDirs /\ UNCHANGED failures
           /\ osWatch' = [osWatch EXCEPT ![d] = ModeFor(d, PathOf[f])]
  <2>1. osWatch[d] = "none"
    BY <1>3 DEF Remembered
  <2> QED
    BY <1>1, <1>3, <2>1 DEF WatchDir
<1>4. CASE d \notin watchedDirs /\ failures' = failures + 1 /\ UNCHANGED osWatch
  BY <1>4 DEF WatchDir
<1> QED
  BY <1>2, <1>3, <1>4 DEF WatchDir

LEMMA SumStaysPositive ==
  ASSUME NEW a \in Nat, NEW b \in Nat, NEW c \in Nat, b >= a, a + c > 0 \/ b > 0
  PROVE  b + c > 0
OBVIOUS

(* Registering f, or trying it again, keeps the invariant.                 *)
LEMMA EnsureKeeps ==
  ASSUME WatchInv, NEW f \in Files, EnsureAncestorWatch(f), removals' = removals,
         f \in interest', interest' \subseteq Files, interest \subseteq interest',
         todo' \subseteq interest'
  PROVE  WatchInv'
<1> USE DEF WatchInv, TypeOK
<1>1. CASE UNCHANGED <<watchedDirs, osWatch, failures>>
  BY <1>1 DEF Remembered, ExactForItsOwn, KeptForItsOwn, LossHasACause, Lost
<1>2. ASSUME NEW d, IsNearest(d, PathOf[f]), WatchDir(d, PathOf[f]) PROVE WatchInv'
  <2>1. d \in Dirs
    BY <1>2, AboveAreDirs DEF IsNearest
  <2>2. /\ watchedDirs' = watchedDirs \cup {d}
        /\ osWatch' \in [Dirs -> {"none", "exact", "deep"}]
        /\ failures' \in Nat /\ failures' >= failures
        /\ \A e \in Dirs : e # d \/ osWatch[d] # "none" => osWatch'[e] = osWatch[e]
        /\ osWatch[d] = "none" =>
             \/ osWatch'[d] = ModeFor(d, PathOf[f])
             \/ osWatch'[d] = "none" /\ (failures' > 0 \/ Lost(d))
    BY <1>2, <2>1, WatchTouchesOne
  <2>3. TypeOK'
    BY <2>1, <2>2
  <2>4. Remembered'
    BY <2>1, <2>2 DEF Remembered
  <2>5. ExactForItsOwn'
    BY <2>1, <2>2 DEF ExactForItsOwn, KeptForItsOwn, ModeFor
  <2>6. ASSUME NEW e \in Dirs, Lost(e)' PROVE failures' + removals' > 0
    <3>0. /\ failures \in Nat /\ failures' \in Nat /\ failures' >= failures
          /\ removals \in Nat /\ removals' = removals
      BY <2>2
    <3>1. CASE Lost(e)
      <4>1. failures + removals > 0
        BY <3>1 DEF LossHasACause
      <4> QED
        BY <3>0, <4>1, SumStaysPositive
    <3>2. CASE e = d /\ osWatch[d] = "none" /\ ~Lost(d)
      <4>1. osWatch'[d] = "none"
        BY <2>6, <3>2 DEF Lost
      <4>2. failures' > 0
        BY <2>2, <3>2, <4>1 DEF ModeFor
      <4> QED
        BY <3>0, <4>2, SumStaysPositive
    <3> QED
      BY <2>2, <2>6, <3>1, <3>2 DEF Lost
  <2> QED
    BY <2>3, <2>4, <2>5, <2>6 DEF LossHasACause
<1> QED
  BY <1>1, <1>2 DEF EnsureAncestorWatch

(* A directory that is removed takes its watch with it, not its memory.    *)
LEMMA RemovalKeeps ==
  ASSUME WatchInv, NEW d \in Dirs, RemoveDir(d)
  PROVE  WatchInv'
<1> USE DEF WatchInv, TypeOK
<1>1. /\ osWatch' = [osWatch EXCEPT ![d] = "none"]
      /\ removals' = removals + 1
      /\ UNCHANGED <<interest, watchedDirs, todo, failures>>
  BY DEF RemoveDir
<1>2. osWatch'[d] = "none" /\ \A e \in Dirs \ {d} : osWatch'[e] = osWatch[e]
  BY <1>1
<1>3. Remembered' /\ ExactForItsOwn'
  BY <1>1, <1>2 DEF Remembered, ExactForItsOwn, KeptForItsOwn
<1>4. failures' + removals' > 0
  BY <1>1
<1> QED
  BY <1>1, <1>3, <1>4 DEF LossHasACause

LEMMA WatchInvInit == Init => WatchInv
BY DEF Init, WatchInv, TypeOK, Remembered, ExactForItsOwn, LossHasACause, Lost

LEMMA WatchInvStep == WatchInv /\ [Next]_vars => WatchInv'
<1> SUFFICES ASSUME WatchInv, [Next]_vars PROVE WatchInv'
  OBVIOUS
<1>1. ASSUME NEW f \in Files, WatchPath(f) PROVE WatchInv'
  BY <1>1, EnsureKeeps DEF WatchPath, WatchInv, TypeOK
<1>2. ASSUME NEW f \in Files, Retry(f) PROVE WatchInv'
  BY <1>2, EnsureKeeps DEF Retry, WatchInv, TypeOK
<1>3. ASSUME PollExisting \/ (\E d \in Dirs : MakeDir(d)) \/ UNCHANGED vars PROVE WatchInv'
  <2>1. /\ UNCHANGED <<interest, watchedDirs, osWatch, failures, removals>>
        /\ todo' \subseteq interest
    BY <1>3 DEF PollExisting, MakeDir, vars, WatchInv, TypeOK
  <2> QED
    BY <2>1 DEF WatchInv, TypeOK, Remembered, ExactForItsOwn, KeptForItsOwn,
                LossHasACause, Lost
<1>4. ASSUME NEW d \in Dirs, RemoveDir(d) PROVE WatchInv'
  BY <1>4, RemovalKeeps
<1> QED
  BY <1>1, <1>2, <1>3, <1>4 DEF Next

(* A try of f: the nearest directory is watched as f needs it, or as a     *)
(* transcript of its own does, or it is lost.                              *)
LEMMA TryCloses ==
  ASSUME WatchInv, WatchInv', NEW f \in Files, removals' = removals,
         NEW d \in onDisk, IsNearest(d, PathOf[f]), WatchDir(d, PathOf[f])
  PROVE  Observed(f)' \/ KeptForItsOwn(d)' \/ (Lost(d)' /\ failures' + removals > 0)
<1>1. d \in Above(PathOf[f]) /\ d \in Dirs
  BY AboveAreDirs DEF IsNearest
<1>2. d \in watchedDirs' /\ osWatch'[d] \in {"none", "exact", "deep"}
  BY <1>1 DEF WatchDir, WatchInv, TypeOK
<1>3. CASE osWatch'[d] = "none"
  BY <1>1, <1>2, <1>3 DEF Lost, WatchInv, LossHasACause
<1>4. CASE osWatch'[d] = "exact"
  BY <1>1, <1>4 DEF WatchInv, ExactForItsOwn
<1>5. CASE osWatch'[d] = "deep"
  BY <1>1, <1>5 DEF Observed
<1> QED
  BY <1>2, <1>3, <1>4, <1>5

(* Registering a transcript, or trying it again, leaves it observed as     *)
(* soon as any directory above it exists, unless the nearest one is        *)
(* watched exactly for a transcript of its own or has lost its watch       *)
(* (ensure_ancestor_watch, tailer.rs:159-193): in any tree, for any set of *)
(* transcripts. No watch is refused or dropped without a cause.            *)
THEOREM TriesAreObserved == Spec => TriedIsObserved
<1> DEFINE Tried == \A f \in (interest' \ interest) \cup (todo \ todo') :
      Above(PathOf[f]) \cap onDisk # {} =>
        \/ Observed(f)'
        \/ \E d \in onDisk :
             /\ IsNearest(d, PathOf[f])
             /\ KeptForItsOwn(d)' \/ (Lost(d)' /\ failures' + removals > 0)
<1>1. WatchInv /\ [Next]_vars => [Tried]_vars
  <2> DEFINE Excused(f) ==
        \E d \in onDisk :
          /\ IsNearest(d, PathOf[f])
          /\ KeptForItsOwn(d)' \/ (Lost(d)' /\ failures' + removals > 0)
  <2> SUFFICES ASSUME WatchInv, WatchInv', Next
               PROVE  \A f \in (interest' \ interest) \cup (todo \ todo') :
                        Above(PathOf[f]) \cap onDisk # {} => Observed(f)' \/ Excused(f)
    BY WatchInvStep
  <2> DEFINE Goal == \A f \in (interest' \ interest) \cup (todo \ todo') :
        Above(PathOf[f]) \cap onDisk # {} => Observed(f)' \/ Excused(f)
  <2>1. ASSUME NEW f \in Files, EnsureAncestorWatch(f), removals' = removals,
               Above(PathOf[f]) \cap onDisk # {}
        PROVE  Observed(f)' \/ Excused(f)
    <3>1. PICK d \in onDisk : IsNearest(d, PathOf[f]) /\ WatchDir(d, PathOf[f])
      BY <2>1 DEF EnsureAncestorWatch
    <3> QED
      BY <2>1, <3>1, TryCloses
  <2> HIDE DEF Excused
  <2>2. ASSUME NEW f \in Files, WatchPath(f) PROVE Goal
    <3>1. EnsureAncestorWatch(f) /\ removals' = removals /\ todo' = todo
          /\ interest' = interest \cup {f}
      BY <2>2 DEF WatchPath
    <3> QED
      BY <2>1, <3>1
  <2>3. ASSUME NEW f \in Files, Retry(f) PROVE Goal
    <3>1. EnsureAncestorWatch(f) /\ removals' = removals /\ todo' = todo \ {f}
          /\ interest' = interest
      BY <2>3 DEF Retry
    <3> QED
      BY <2>1, <3>1
  <2>4. ASSUME PollExisting \/ \E d \in Dirs : MakeDir(d) \/ RemoveDir(d) PROVE Goal
    <3>1. interest' = interest /\ (todo = {} \/ todo' = todo)
      BY <2>4 DEF PollExisting, MakeDir, RemoveDir
    <3> QED
      BY <3>1
  <2> QED
    BY <2>2, <2>3, <2>4 DEF Next
<1> QED
  BY WatchInvInit, WatchInvStep, <1>1, PTL DEF Spec, TriedIsObserved

(* What one transcript has directories watched for is never undone for     *)
(* another: an observed transcript ceases to be so only when a directory   *)
(* above it is removed (tailer.rs:188-191).                                *)
THEOREM WatchesStay == Spec => StaysObserved
<1> DEFINE Stays == \A f \in interest :
      Observed(f) => Observed(f)' \/ (onDisk \ onDisk') \cap Above(PathOf[f]) # {}
<1>1. WatchInv /\ [Next]_vars => [Stays]_vars
  <2> SUFFICES ASSUME WatchInv, Next PROVE Stays
    OBVIOUS
  <2>1. \A f \in Files : Front(PathOf[f]) \in Above(PathOf[f]) /\ Above(PathOf[f]) \subseteq Dirs
    BY ParentIsAbove, AboveAreDirs
  <2>2. interest \subseteq Files
    BY DEF WatchInv, TypeOK
  <2>3. ASSUME \A e \in Dirs : osWatch[e] # "none" => osWatch'[e] = osWatch[e]
        PROVE  Stays
    BY <2>1, <2>2, <2>3 DEF Observed
  <2>4. ASSUME NEW f \in Files, EnsureAncestorWatch(f) PROVE Stays
    <3>1. CASE UNCHANGED osWatch
      BY <2>3, <3>1
    <3>2. ASSUME NEW d, IsNearest(d, PathOf[f]), WatchDir(d, PathOf[f]) PROVE Stays
      <4>1. d \in Dirs
        BY <3>2, AboveAreDirs DEF IsNearest
      <4>2. \A e \in Dirs : e # d \/ osWatch[d] # "none" => osWatch'[e] = osWatch[e]
        BY <3>2, <4>1, WatchTouchesOne
      <4> QED
        BY <2>3, <4>2
    <3> QED
      BY <2>4, <3>1, <3>2 DEF EnsureAncestorWatch
  <2>5. ASSUME NEW d \in Dirs, RemoveDir(d) PROVE Stays
    <3>1. /\ osWatch \in [Dirs -> {"none", "exact", "deep"}]
          /\ osWatch' = [osWatch EXCEPT ![d] = "none"]
          /\ d \in onDisk /\ onDisk' = onDisk \ {d}
      BY <2>5 DEF RemoveDir, WatchInv, TypeOK
    <3>2. \A e \in Dirs \ {d} : osWatch'[e] = osWatch[e]
      BY <3>1
    <3>3. d \in onDisk \ onDisk'
      BY <3>1
    <3>4. ASSUME NEW f \in interest, Observed(f), ~ Observed(f)' PROVE d \in Above(PathOf[f])
      BY <2>1, <2>2, <3>2, <3>4 DEF Observed
    <3> QED
      BY <3>3, <3>4
  <2>6. CASE PollExisting \/ \E d \in Dirs : MakeDir(d)
    BY <2>3, <2>6 DEF PollExisting, MakeDir
  <2> QED
    BY <2>4, <2>5, <2>6 DEF Next, WatchPath, Retry
<1> QED
  BY WatchInvInit, WatchInvStep, <1>1, PTL DEF Spec, StaysObserved
=============================================================================

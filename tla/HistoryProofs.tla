---------------------------- MODULE HistoryProofs ----------------------------
(***************************************************************************)
(* Proofs about where decisions come from: of commits that land and are    *)
(* rewritten while they are mined, for every set of changes, all clocks    *)
(* and any number of them; and of records of decisions that are edited,    *)
(* for every set of first documents without a status, all words and any    *)
(* number of edits.                                                        *)
(***************************************************************************)
EXTENDS History, PipelineProofs, FiniteSetTheorems

(* Sorting.                                                                *)

IsOrderOn(R, S) ==
  /\ \A a, b \in S : a # b => <<a, b>> \in R \/ <<b, a>> \in R
  /\ \A a, b, c \in S : <<a, b>> \in R /\ <<b, c>> \in R => <<a, c>> \in R

(* m comes after all others of T.                                          *)
IsLastOf(m, T, R) == m \in T /\ \A a \in T \ {m} : <<a, m>> \in R

(* A finite set with an order has a last element.                          *)
LEMMA LastInOrder ==
  ASSUME NEW S, IsFiniteSet(S), NEW R, IsOrderOn(R, S), S # {}
  PROVE  \E m : IsLastOf(m, S, R)
<1> DEFINE N == Cardinality(S)
           Good == {n \in 0 .. N : \A T \in SUBSET S :
                      Cardinality(T) = n /\ T # {} => \E m : IsLastOf(m, T, R)}
<1>1. N \in Nat
  BY FS_CardinalityType
<1>2. \A T \in SUBSET S : IsFiniteSet(T)
  BY FS_Subset
<1>3. 0 \in Good
  BY <1>1, <1>2, FS_EmptySet
<1>4. ASSUME NEW n \in 1 .. N, n - 1 \in Good PROVE n \in Good
  <2> SUFFICES ASSUME NEW T \in SUBSET S, Cardinality(T) = n, T # {}
               PROVE  \E m : IsLastOf(m, T, R)
    OBVIOUS
  <2>1. PICK x : x \in T
    OBVIOUS
  <2> DEFINE U == T \ {x}
  <2>2. U \in SUBSET S /\ Cardinality(U) = n - 1
    BY <1>2, <2>1, FS_RemoveElement
  <2>3. CASE U = {}
    <3>1. IsLastOf(x, T, R)
      BY <2>1, <2>3 DEF IsLastOf
    <3> QED BY <3>1
  <2>4. CASE U # {}
    <3>1. PICK m : IsLastOf(m, U, R)
      BY <1>4, <2>2, <2>4
    <3>2. m \in S /\ x \in S /\ m # x /\ m \in T
      BY <2>1, <3>1 DEF IsLastOf
    <3>3. CASE <<x, m>> \in R
      <4>1. IsLastOf(m, T, R)
        BY <3>1, <3>2, <3>3 DEF IsLastOf
      <4> QED BY <4>1
    <3>4. CASE <<m, x>> \in R
      <4>1. ASSUME NEW a \in T \ {x} PROVE <<a, x>> \in R
        <5>1. a = m \/ <<a, m>> \in R
          BY <3>1 DEF IsLastOf
        <5> QED BY <3>2, <3>4, <5>1 DEF IsOrderOn
      <4>2. IsLastOf(x, T, R)
        BY <2>1, <4>1 DEF IsLastOf
      <4> QED BY <4>2
    <3> QED BY <3>2, <3>3, <3>4 DEF IsOrderOn
  <2> QED BY <2>3, <2>4
<1> HIDE DEF Good
<1>5. \A n \in 0 .. N : n \in Good
  BY <1>1, <1>3, <1>4, Upwards
<1>6. N \in Good
  BY <1>1, <1>5
<1> QED BY <1>6 DEF Good

IsSorting(s, T, R, n) ==
  s \in [1 .. n -> T] /\ \A i, j \in 1 .. n : i < j => <<s[i], s[j]>> \in R

(* A finite set can be listed in an order that it has.                     *)
LEMMA SortingExists ==
  ASSUME NEW S, IsFiniteSet(S), NEW R, IsOrderOn(R, S)
  PROVE  \E s : IsSorting(s, S, R, Cardinality(S))
<1> DEFINE N == Cardinality(S)
           Good == {n \in 0 .. N : \A T \in SUBSET S :
                      Cardinality(T) = n => \E s : IsSorting(s, T, R, n)}
<1>1. N \in Nat
  BY FS_CardinalityType
<1>2. \A T \in SUBSET S : IsFiniteSet(T) /\ IsOrderOn(R, T)
  BY FS_Subset DEF IsOrderOn
<1>3. 0 \in Good
  <2>1. ASSUME NEW T PROVE IsSorting([i \in 1 .. 0 |-> i], T, R, 0)
    <3>1. 1 .. 0 = {}
      OBVIOUS
    <3> QED BY <3>1 DEF IsSorting
  <2> QED BY <1>1, <2>1
<1>4. ASSUME NEW n \in 1 .. N, n - 1 \in Good PROVE n \in Good
  <2> SUFFICES ASSUME NEW T \in SUBSET S, Cardinality(T) = n
               PROVE  \E s : IsSorting(s, T, R, n)
    OBVIOUS
  <2>1. T # {}
    BY FS_EmptySet
  <2>2. PICK m : IsLastOf(m, T, R)
    BY <1>2, <2>1, LastInOrder
  <2> DEFINE U == T \ {m}
  <2>3. U \in SUBSET S /\ Cardinality(U) = n - 1
    BY <1>2, <2>2, FS_RemoveElement DEF IsLastOf
  <2>4. PICK u : IsSorting(u, U, R, n - 1)
    BY <1>4, <2>3
  <2> DEFINE s == [i \in 1 .. n |-> IF i = n THEN m ELSE u[i]]
  <2>5. m \in T /\ \A a \in U : a \in T /\ <<a, m>> \in R
    BY <2>2 DEF IsLastOf
  <2>6. /\ \A i \in 1 .. n - 1 : u[i] \in U
        /\ \A i, j \in 1 .. n - 1 : i < j => <<u[i], u[j]>> \in R
    BY <2>4 DEF IsSorting
  <2> HIDE DEF U
  <2>7. \A i \in 1 .. n : i = n \/ i \in 1 .. n - 1
    OBVIOUS
  <2>8. s \in [1 .. n -> T]
    BY <2>5, <2>6, <2>7
  <2>9. ASSUME NEW i \in 1 .. n, NEW j \in 1 .. n, i < j PROVE <<s[i], s[j]>> \in R
    <3>1. i \in 1 .. n - 1 /\ s[i] = u[i]
      BY <2>9
    <3>2. CASE j = n
      BY <2>5, <2>6, <3>1, <3>2
    <3>3. CASE j # n
      <4>1. j \in 1 .. n - 1 /\ s[j] = u[j]
        BY <3>3
      <4> QED BY <2>6, <2>9, <3>1, <4>1
    <3> QED BY <3>2, <3>3
  <2>10. IsSorting(s, T, R, n)
    BY <2>8, <2>9 DEF IsSorting
  <2> QED BY <2>10
<1> HIDE DEF Good
<1>5. \A n \in 0 .. N : n \in Good
  BY <1>1, <1>3, <1>4, Upwards
<1>6. N \in Good
  BY <1>1, <1>5
<1> QED BY <1>6 DEF Good

(* The files of a commit, sorted, are files of the commit.                 *)
LEMMA FilesSorted ==
  ASSUME NEW files \in Seq(Nat)
  PROVE  SortFiles(files) \in Seq(ToSet(files))
<1> DEFINE T == ToSet(files)
<1>0. T \in SUBSET Nat /\ IsFiniteSet(T)
  <2> DEFINE D == 1 .. Len(files)
  <2>1. Len(files) \in Nat /\ files \in [D -> Nat]
    OBVIOUS
  <2>2. IsFiniteSet(D)
    BY <2>1, FS_Interval
  <2>3. T = {files[i] : i \in D}
    BY DEF ToSet
  <2> HIDE DEF D
  <2>4. files \in Surjection(D, T)
    BY <2>1, <2>3 DEF Surjection
  <2> QED BY <2>1, <2>2, <2>3, <2>4, FS_Surjection
<1> HIDE DEF T
<1> DEFINE R == {r \in T \X T : r[1] < r[2]}
           N == Cardinality(T)
<1>1. \A a, b \in T : <<a, b>> \in R <=> a < b
  OBVIOUS
<1> HIDE DEF R
<1>2. IsOrderOn(R, T)
  <2>1. \A a, b \in T : a # b => a < b \/ b < a
    BY <1>0
  <2>2. \A a, b, c \in T : a < b /\ b < c => a < c
    BY <1>0
  <2> QED BY <1>1, <2>1, <2>2 DEF IsOrderOn
<1>3. PICK s : IsSorting(s, T, R, N)
  BY <1>0, <1>2, SortingExists
<1>4. s \in [1 .. N -> T] /\ \A i, j \in 1 .. N : i < j => s[i] < s[j]
  BY <1>1, <1>3 DEF IsSorting
<1>5. SortFiles(files) \in [1 .. N -> T]
  BY <1>4 DEF SortFiles, Sorted, T
<1>6. N \in Nat
  BY <1>0, FS_CardinalityType
<1> HIDE DEF N
<1> QED BY <1>5, <1>6 DEF T

(* Commits that differ in their shas have an order.                        *)
LEMMA CommitsSorted ==
  ASSUME NEW C, IsFiniteSet(C), \A c \in C : c.sha \in Nat /\ c.epoch \in Nat,
         \A a, b \in C : a.sha = b.sha => a = b
  PROVE  SortCommits(C) \in Seq(C)
<1> DEFINE R == {r \in C \X C : OlderFirst(r[1], r[2])}
           N == Cardinality(C)
<1>1. \A a, b \in C : <<a, b>> \in R <=> OlderFirst(a, b)
  OBVIOUS
<1> HIDE DEF R
<1>2. IsOrderOn(R, C)
  <2>1. ASSUME NEW a \in C, NEW b \in C, a # b PROVE OlderFirst(a, b) \/ OlderFirst(b, a)
    <3>1. a.sha # b.sha
      BY <2>1
    <3>2. a.sha < b.sha \/ b.sha < a.sha
      BY <3>1
    <3>3. a.epoch < b.epoch \/ b.epoch < a.epoch \/ a.epoch = b.epoch
      OBVIOUS
    <3> QED BY <3>2, <3>3 DEF OlderFirst
  <2>2. ASSUME NEW a \in C, NEW b \in C, NEW c \in C, OlderFirst(a, b), OlderFirst(b, c)
        PROVE  OlderFirst(a, c)
    BY <2>2 DEF OlderFirst
  <2> QED BY <1>1, <2>1, <2>2 DEF IsOrderOn
<1>3. PICK s : IsSorting(s, C, R, N)
  BY <1>2, SortingExists
<1>4. s \in [1 .. N -> C] /\ \A i, j \in 1 .. N : i < j => OlderFirst(s[i], s[j])
  BY <1>1, <1>3 DEF IsSorting
<1>5. SortCommits(C) \in [1 .. N -> C]
  BY <1>4 DEF SortCommits, Sorted
<1>6. N \in Nat
  BY FS_CardinalityType
<1> HIDE DEF N
<1> QED BY <1>5, <1>6

-----------------------------------------------------------------------------
(* Mining.                                                                 *)

(* The commits of a list that record a decision, and what they record.     *)
Deciding(commits) == {i \in 1 .. Len(commits) : Decides(commits[i])}

MadeBy(c, i) == ToSet(CommitDecisions(c, i))

DecisionsMade(commits) == UNION {MadeBy(commits[i], i) : i \in Deciding(commits)}

(* A commit whose sentences are sequences of clauses.                      *)
IsRead(c) ==
  /\ c.sha \in Nat /\ c.epoch \in Nat
  /\ \E n \in Nat : DOMAIN EpitomeSource(c).clauses = 1 .. n
  /\ \E n \in Nat : DOMAIN c.files = 1 .. n

(* A function on 1 .. n is a sequence of its values.                       *)
LEMMA ListOfValues ==
  ASSUME NEW f, NEW n \in Nat, f = [k \in 1 .. n |-> f[k]]
  PROVE  f \in Seq(ToSet(f)) /\ Len(f) = n
<1>1. f \in [1 .. n -> ToSet(f)]
  BY DEF ToSet
<1> QED BY <1>1

(* The decisions of one commit, part by part.                              *)
LEMMA CommitDecisionsAre ==
  ASSUME NEW c, IsRead(c), NEW i \in Nat \ {0}
  PROVE  /\ CommitDecisions(c, i) \in Seq(MadeBy(c, i))
         /\ \A d \in MadeBy(c, i) :
              /\ d.session = SessionOf(c) /\ d.sha = c.sha /\ d.ts = c.epoch
              /\ d.superseded_by = NoMark
              /\ d.seq \in Nat
<1> DEFINE parts == SplitCoordinated(EpitomeSource(c))
           D == CommitDecisions(c, i)
<1>1. PICK n \in Nat : DOMAIN EpitomeSource(c).clauses = 1 .. n
  BY DEF IsRead
<1>2. \E m \in Nat : DOMAIN parts = 1 .. m
  <2> DEFINE s == EpitomeSource(c)
             whole == [k \in DOMAIN s.clauses |-> s.clauses[k].text]
  <2>1. \/ parts = [k \in DOMAIN s.clauses |-> <<s.clauses[k].text>>]
        \/ parts = <<whole>>
    BY DEF SplitCoordinated
  <2>2. DOMAIN <<whole>> = 1 .. 1
    <3> HIDE DEF whole
    <3> QED OBVIOUS
  <2> HIDE DEF parts, whole
  <2> QED BY <1>1, <2>1, <2>2
<1>3. PICK m \in Nat : DOMAIN parts = 1 .. m
  BY <1>2
<1> DEFINE Part(k) ==
      [session |-> SessionOf(c), seq |-> BaseSeq(i) + k - 1, ts |-> c.epoch,
       sha |-> c.sha, epitome |-> parts[k], tier |-> FactStatus(c),
       superseded_by |-> NoMark]
<1>4. D = [k \in 1 .. m |-> Part(k)]
  BY <1>3 DEF CommitDecisions
<1>5. BaseSeq(i) \in Nat
  <2>1. SeqGap \in Nat /\ i - 1 \in Nat
    BY GitAssumption
  <2> QED BY <2>1 DEF BaseSeq
<1>6. ASSUME NEW k \in 1 .. m
      PROVE  /\ Part(k).session = SessionOf(c) /\ Part(k).sha = c.sha /\ Part(k).ts = c.epoch
             /\ Part(k).superseded_by = NoMark
             /\ Part(k).seq \in Nat
  <2>1. BaseSeq(i) + k - 1 \in Nat
    BY <1>5
  <2> HIDE DEF parts
  <2> QED BY <2>1
<1> HIDE DEF D, Part
<1>7. D \in Seq(ToSet(D))
  <2>1. D = [k \in 1 .. m |-> D[k]]
    BY <1>4
  <2> QED BY <2>1, ListOfValues
<1>8. \A d \in ToSet(D) : \E k \in 1 .. m : d = Part(k)
  BY <1>4 DEF ToSet
<1> QED BY <1>6, <1>7, <1>8 DEF MadeBy, D

(* Each decision of a run is made by one of its commits.                   *)
LEMMA DecisionsAreMade ==
  ASSUME NEW C, NEW commits \in Seq(C), \A c \in C : IsRead(c)
  PROVE  DecisionsOfAll(commits) \in Seq(DecisionsMade(commits))
<1> DEFINE N == Len(commits)
<1> DEFINE S == Seq(DecisionsMade(commits))
<1> DEFINE none == <<>>
<1> DEFINE Step(i, s) == IF Decides(commits[i]) THEN s \o CommitDecisions(commits[i], i) ELSE s
<1> DEFINE G == [n \in 1 .. N |-> [s \in S |-> Step(n, s)]]
<1> DEFINE Eq(f) == f = [i \in 0 .. N |-> IF i = 0 THEN none ELSE Step(i, f[i - 1])]
<1> DEFINE upTo == CHOOSE h : Eq(h)
<1>1. N \in Nat /\ \A i \in 1 .. N : commits[i] \in C /\ i \in Nat \ {0}
  BY LenProperties
<1>2. DecisionsOfAll(commits) = upTo[N]
  BY DEF DecisionsOfAll
<1> HIDE DEF upTo
<1>3. none \in S
  OBVIOUS
<1>4. \A n \in 1 .. N, s \in S : Step(n, s) \in S
  <2>1. ASSUME NEW n \in 1 .. N, Decides(commits[n])
        PROVE  CommitDecisions(commits[n], n) \in S
    <3>1. CommitDecisions(commits[n], n) \in Seq(MadeBy(commits[n], n))
      BY <1>1, CommitDecisionsAre
    <3>2. MadeBy(commits[n], n) \subseteq DecisionsMade(commits)
      BY <2>1 DEF DecisionsMade, Deciding
    <3> HIDE DEF N
    <3> QED BY <3>1, <3>2
  <2>2. \A s, t \in S : s \o t \in S
    OBVIOUS
  <2> HIDE DEF S, N
  <2> QED BY <2>1, <2>2
<1> HIDE DEF N, S, Step, none
<1>5. /\ IsStep(G, N, S)
      /\ \A n \in 1 .. N : \A s \in S : G[n][s] = Step(n, s)
  BY <1>4 DEF IsStep
<1> HIDE DEF G
<1>6. PICK f : Iterates(f, none, G, N, S)
  BY <1>1, <1>3, <1>5, IterationExists
<1>7. f \in [0 .. N -> S] /\ f[0] = none /\ \A n \in 1 .. N : f[n] = G[n][f[n - 1]]
  BY <1>6 DEF Iterates
<1>8. Eq(f)
  <2>1. \A n \in 1 .. N : n - 1 \in 0 .. N /\ f[n - 1] \in S
    BY <1>1, <1>7
  <2>2. \A n \in 1 .. N : f[n] = Step(n, f[n - 1])
    BY <1>5, <1>7, <2>1
  <2>3. \A n \in 0 .. N : n = 0 \/ n \in 1 .. N
    BY <1>1
  <2>4. \A n \in 0 .. N : f[n] = IF n = 0 THEN none ELSE Step(n, f[n - 1])
    BY <1>7, <2>2, <2>3
  <2> QED BY <1>7, <2>4
<1>9. Eq(upTo)
  <2> HIDE DEF Eq
  <2> QED BY <1>8 DEF upTo
<1>10. upTo[0] = none /\ \A n \in 1 .. N : n \in 0 .. N /\ upTo[n] = Step(n, upTo[n - 1])
  <2>1. 0 \in 0 .. N /\ \A n \in 1 .. N : n \in 0 .. N /\ n # 0
    BY <1>1
  <2>2. \A n \in 0 .. N : upTo[n] = IF n = 0 THEN none ELSE Step(n, upTo[n - 1])
    BY <1>9
  <2> QED BY <2>1, <2>2
<1> DEFINE Good == {n \in 0 .. N : upTo[n] \in S}
<1>11. 0 \in Good
  BY <1>1, <1>3, <1>10
<1>12. \A n \in 1 .. N : n - 1 \in Good => n \in Good
  BY <1>4, <1>10
<1> HIDE DEF Good
<1>13. \A n \in 0 .. N : n \in Good
  BY <1>1, <1>11, <1>12, Upwards
<1>14. upTo[N] \in S
  BY <1>1, <1>13 DEF Good
<1> QED BY <1>2, <1>14 DEF S

(* The files of a commit that are listed, up to the cap.                   *)
Cap(c) == IF Len(c.files) < MaxFilesPerCommit THEN Len(c.files) ELSE MaxFilesPerCommit

FilesUpToCap(c) == {c.files[j] : j \in 1 .. Cap(c)}

EpisodesOfAll(commits) ==
  UNION {CommitEpisodes(commits[i], i) : i \in {n \in DOMAIN commits : Decides(commits[n])}}

(* Each episode of a run is a file of one of its commits, up to the cap.   *)
LEMMA EpisodesMade ==
  ASSUME NEW C, NEW commits \in Seq(C)
  PROVE  /\ \A ep \in EpisodesOfAll(commits) : \E i \in Deciding(commits) :
              /\ ep.session = SessionOf(commits[i]) /\ ep.sha = commits[i].sha
              /\ ep.rec.ts = commits[i].epoch + 1
              /\ ep.rec.path \in FilesUpToCap(commits[i])
         /\ \A i \in Deciding(commits) : \A path \in FilesUpToCap(commits[i]) :
              \E ep \in EpisodesOfAll(commits) :
                ep.sha = commits[i].sha /\ ep.rec.path = path
<1>1. Deciding(commits) = {n \in DOMAIN commits : Decides(commits[n])}
  BY DEF Deciding
<1> DEFINE Ep(i, j) ==
      [session |-> SessionOf(commits[i]), seq |-> BaseSeq(i) + j, sha |-> commits[i].sha,
       rec |-> [ts |-> commits[i].epoch + 1, path |-> commits[i].files[j]]]
<1>2. \A i : CommitEpisodes(commits[i], i) = {Ep(i, j) : j \in 1 .. Cap(commits[i])}
  BY DEF CommitEpisodes, Cap
<1>3. \A ep : ep \in EpisodesOfAll(commits) <=>
               \E i \in Deciding(commits) : \E j \in 1 .. Cap(commits[i]) : ep = Ep(i, j)
  <2> HIDE DEF Ep
  <2>1. \A ep : ep \in EpisodesOfAll(commits) <=>
                 \E i \in Deciding(commits) : ep \in CommitEpisodes(commits[i], i)
    BY <1>1, Zenon DEF EpisodesOfAll
  <2>2. \A i, ep : ep \in CommitEpisodes(commits[i], i) <=>
                   \E j \in 1 .. Cap(commits[i]) : ep = Ep(i, j)
    BY <1>2
  <2>3. ASSUME NEW ep, ep \in EpisodesOfAll(commits)
        PROVE  \E i \in Deciding(commits) : \E j \in 1 .. Cap(commits[i]) : ep = Ep(i, j)
    <3>1. PICK i \in Deciding(commits) : ep \in CommitEpisodes(commits[i], i)
      BY <2>1, <2>3
    <3>2. \E j \in 1 .. Cap(commits[i]) : ep = Ep(i, j)
      BY <2>2, <3>1
    <3> QED BY <3>2
  <2>4. ASSUME NEW i \in Deciding(commits), NEW j \in 1 .. Cap(commits[i])
        PROVE  Ep(i, j) \in EpisodesOfAll(commits)
    BY <2>1, <2>2
  <2> QED BY <2>3, <2>4
<1>4. \A i, j : /\ Ep(i, j).session = SessionOf(commits[i]) /\ Ep(i, j).sha = commits[i].sha
               /\ Ep(i, j).rec.ts = commits[i].epoch + 1
               /\ Ep(i, j).rec.path = commits[i].files[j]
  OBVIOUS
<1> HIDE DEF Ep
<1>5. ASSUME NEW ep \in EpisodesOfAll(commits)
      PROVE  \E i \in Deciding(commits) :
              /\ ep.session = SessionOf(commits[i]) /\ ep.sha = commits[i].sha
              /\ ep.rec.ts = commits[i].epoch + 1
              /\ ep.rec.path \in FilesUpToCap(commits[i])
  BY <1>3, <1>4 DEF FilesUpToCap
<1>6. ASSUME NEW i \in Deciding(commits), NEW path \in FilesUpToCap(commits[i])
      PROVE  \E ep \in EpisodesOfAll(commits) :
               ep.sha = commits[i].sha /\ ep.rec.path = path
  <2>1. PICK j \in 1 .. Cap(commits[i]) : path = commits[i].files[j]
    BY DEF FilesUpToCap
  <2>2. Ep(i, j) \in EpisodesOfAll(commits)
    BY <1>3
  <2> QED BY <1>4, <2>1, <2>2
<1> QED BY <1>5, <1>6

(* What is mined of commits that differ in their shas: each edge stays     *)
(* within its commit and leaves its last part, and every decision has the  *)
(* files of its commit.                                                    *)
StaysWithin(mine) ==
  \A e \in mine.edges :
    /\ e.decision.sha = e.episode.sha
    /\ \A d \in mine.decisions : d.sha = e.decision.sha => d.seq <= e.decision.seq

PathsOf(mine, sha) == {e.episode.rec.path : e \in {b \in mine.edges : b.episode.sha = sha}}

(* What a run ties together is of one commit, and all of its files.        *)
LEMMA MinedByCommit ==
  ASSUME NEW C, NEW commits \in Seq(C), \A c \in C : IsRead(c),
         \A a, b \in C : a.sha = b.sha => a = b
  PROVE  LET mine == MineCommitNodes(commits)
         IN  /\ StaysWithin(mine)
             /\ \A d \in mine.decisions : \E c \in C :
                  d.sha = c.sha /\ PathsOf(mine, d.sha) = FilesUpToCap(c)
<1> DEFINE mine == MineCommitNodes(commits)
           decisions == DecisionsOfAll(commits)
           episodes == EpisodesOfAll(commits)
           D == DecisionsMade(commits)
<1>1. /\ mine.decisions = ToSet(decisions)
      /\ mine.edges = BindAll(decisions, episodes)
  BY DEF MineCommitNodes, GitSegmentation, EpisodesOfAll
<1>2. decisions \in Seq(D)
  BY DecisionsAreMade
<1>3. \A i \in Deciding(commits) : commits[i] \in C /\ i \in Nat \ {0}
  BY DEF Deciding
<1>4. \A d \in D : \E i \in Deciding(commits) : d \in MadeBy(commits[i], i)
  BY DEF DecisionsMade
<1> HIDE DEF mine, decisions, episodes, D
<1>5. ASSUME NEW d \in D
      PROVE  \E i \in Deciding(commits) :
               /\ d.session = SessionOf(commits[i]) /\ d.sha = commits[i].sha
               /\ d.ts = commits[i].epoch /\ d.superseded_by = NoMark /\ d.seq \in Nat
  <2>1. PICK i \in Deciding(commits) : d \in MadeBy(commits[i], i)
    BY <1>4
  <2>2. IsRead(commits[i]) /\ i \in Nat \ {0}
    BY <1>3
  <2>3. \A e \in MadeBy(commits[i], i) :
          /\ e.session = SessionOf(commits[i]) /\ e.sha = commits[i].sha
          /\ e.ts = commits[i].epoch /\ e.superseded_by = NoMark /\ e.seq \in Nat
    BY <2>2, CommitDecisionsAre
  <2> QED BY <2>1, <2>3
<1>6. ASSUME NEW ep \in episodes
      PROVE  \E i \in Deciding(commits) :
              /\ ep.session = SessionOf(commits[i]) /\ ep.sha = commits[i].sha
              /\ ep.rec.ts = commits[i].epoch + 1
              /\ ep.rec.path \in FilesUpToCap(commits[i])
  BY EpisodesMade DEF episodes
<1>7. \A d \in D : d.ts \in Nat /\ d.seq \in Nat
  BY <1>3, <1>5 DEF IsRead
<1>8. \A a, b \in C : SessionOf(a) = SessionOf(b) => a = b
  BY DEF SessionOf
<1>9. ASSUME NEW d \in D, NEW ep \in episodes
      PROVE  /\ d.sha = ep.sha <=> d.session = ep.session
             /\ d.sha = ep.sha => Eligible(d, ep)
  <2>1. PICK i \in Deciding(commits) :
          /\ d.session = SessionOf(commits[i]) /\ d.sha = commits[i].sha
          /\ d.ts = commits[i].epoch /\ d.superseded_by = NoMark
    BY <1>5
  <2>2. PICK k \in Deciding(commits) :
          /\ ep.session = SessionOf(commits[k]) /\ ep.sha = commits[k].sha
          /\ ep.rec.ts = commits[k].epoch + 1
    BY <1>6
  <2>3. commits[i] \in C /\ commits[k] \in C /\ commits[i].epoch \in Nat
    BY <1>3 DEF IsRead
  <2>4. d.sha = ep.sha <=> commits[i] = commits[k]
    BY <2>1, <2>2, <2>3
  <2>5. d.session = ep.session <=> commits[i] = commits[k]
    BY <1>8, <2>1, <2>2, <2>3
  <2>6. ASSUME d.sha = ep.sha PROVE Eligible(d, ep)
    <3>1. commits[i] = commits[k]
      BY <2>4, <2>6
    <3>2. d.ts \in Nat /\ ep.rec.ts = d.ts + 1
      BY <2>1, <2>2, <2>3, <3>1
    <3>3. MaxBindGap \in Nat /\ MaxBindGap >= 1
      BY GapAssumption, GitAssumption
    <3>4. d.ts <= ep.rec.ts /\ ep.rec.ts - d.ts <= MaxBindGap
      BY <3>2, <3>3
    <3> QED BY <2>1, <2>5, <3>1, <3>4 DEF Eligible
  <2> QED BY <2>4, <2>5, <2>6
<1>10. \A ep : IsBestOf(Best(decisions, ep), decisions, ep, Len(decisions))
  BY <1>2, <1>7, BestIsBest
<1>11. /\ \A d \in ToSet(decisions) : \E i \in 1 .. Len(decisions) : d = decisions[i]
       /\ \A i \in 1 .. Len(decisions) : decisions[i] \in D /\ decisions[i] \in ToSet(decisions)
  BY <1>2 DEF ToSet
<1>12. ASSUME NEW ep \in episodes, NEW d \in Best(decisions, ep)
       PROVE  /\ d \in D /\ d.sha = ep.sha
              /\ \A a \in ToSet(decisions) : a.sha = d.sha => a.seq <= d.seq
  <2>1. /\ d \in D /\ Eligible(d, ep)
        /\ \A i \in 1 .. Len(decisions) : Eligible(decisions[i], ep) => ~ Better(decisions[i], d)
    BY <1>10, <1>11 DEF IsBestOf
  <2>2. d.sha = ep.sha
    BY <1>9, <2>1 DEF Eligible
  <2>3. ASSUME NEW a \in ToSet(decisions), a.sha = d.sha PROVE a.seq <= d.seq
    <3>1. PICK i \in 1 .. Len(decisions) : a = decisions[i]
      BY <1>11
    <3>2. a \in D /\ Eligible(a, ep)
      BY <1>9, <1>11, <2>2, <2>3, <3>1
    <3>3. ~ Better(a, d)
      BY <2>1, <3>1, <3>2
    <3>4. a.ts = d.ts
      <4>1. PICK i1 \in Deciding(commits) : a.sha = commits[i1].sha /\ a.ts = commits[i1].epoch
        BY <1>5, <3>2
      <4>2. PICK i2 \in Deciding(commits) : d.sha = commits[i2].sha /\ d.ts = commits[i2].epoch
        BY <1>5, <2>1
      <4>3. commits[i1] = commits[i2]
        BY <1>3, <2>3, <4>1, <4>2
      <4> QED BY <4>1, <4>2, <4>3
    <3>5. a.seq \in Nat /\ d.seq \in Nat
      BY <1>7, <2>1, <3>2
    <3> QED BY <3>3, <3>4, <3>5 DEF Better
  <2> QED BY <2>1, <2>2, <2>3
<1>13. ASSUME NEW b \in BindAll(decisions, episodes)
       PROVE  \E ep \in episodes : \E d \in Best(decisions, ep) : b.episode = ep /\ b.decision = d
  BY BindingsAre
<1>14. StaysWithin(mine)
  <2>1. ASSUME NEW e \in mine.edges
        PROVE  /\ e.decision.sha = e.episode.sha
               /\ \A d \in mine.decisions : d.sha = e.decision.sha => d.seq <= e.decision.seq
    BY <1>1, <1>12, <1>13
  <2> QED BY <2>1 DEF StaysWithin
<1>15. ASSUME NEW d \in mine.decisions
       PROVE  \E c \in C : d.sha = c.sha /\ PathsOf(mine, d.sha) = FilesUpToCap(c)
  <2>1. PICK n \in 1 .. Len(decisions) : d = decisions[n]
    BY <1>1, <1>11
  <2>2. d \in D
    BY <1>11, <2>1
  <2>3. PICK i \in Deciding(commits) : d.sha = commits[i].sha
    BY <1>5, <2>2
  <2>4. commits[i] \in C
    BY <1>3
  <2>5. ASSUME NEW e \in mine.edges, e.episode.sha = d.sha
        PROVE  e.episode.rec.path \in FilesUpToCap(commits[i])
    <3>1. PICK ep \in episodes : e.episode = ep
      BY <1>1, <1>13
    <3>2. PICK k \in Deciding(commits) :
            ep.sha = commits[k].sha /\ ep.rec.path \in FilesUpToCap(commits[k])
      BY <1>6
    <3>3. commits[k] = commits[i]
      BY <1>3, <2>3, <2>5, <3>1, <3>2
    <3> QED BY <3>1, <3>2, <3>3
  <2>6. ASSUME NEW path \in FilesUpToCap(commits[i])
        PROVE  \E e \in mine.edges : e.episode.sha = d.sha /\ e.episode.rec.path = path
    <3>1. PICK ep \in episodes : ep.sha = commits[i].sha /\ ep.rec.path = path
      BY EpisodesMade DEF episodes
    <3>2. Eligible(d, ep)
      BY <1>9, <2>2, <2>3, <3>1
    <3>3. Best(decisions, ep) # {}
      BY <1>10, <2>1, <3>2 DEF IsBestOf
    <3>4. PICK b \in BindAll(decisions, episodes) : b.episode = ep
      BY <3>3, BindingsMade
    <3> QED BY <1>1, <2>3, <3>1, <3>4
  <2>7. PathsOf(mine, d.sha) = FilesUpToCap(commits[i])
    BY <2>5, <2>6 DEF PathsOf
  <2> QED BY <2>3, <2>4, <2>7
<1> QED BY <1>14, <1>15 DEF mine

-----------------------------------------------------------------------------
(* Commits while they are mined.                                           *)

Past == ToSet(log) \cup gone

Commits == {Commit(change, sha, epoch) : change \in Changes, sha \in Shas, epoch \in Epochs}

(* A commit keeps its sha for good, what the first pass read are past      *)
(* commits, and so are those of the decisions, each with the files that    *)
(* the second pass listed.                                                 *)
PastInv ==
  /\ log \in Seq(Commits) /\ gone \in SUBSET Commits
  /\ \A a, b \in Past : a.sha = b.sha => a = b

MessagesInv ==
  /\ IsFiniteSet(messages)
  /\ \A m \in messages : \E c \in Past : m = [c EXCEPT !.files = <<>>]

MinedInv ==
  /\ StaysWithin(mined)
  /\ \A d \in mined.decisions : \E c \in Past :
       /\ d.sha = c.sha
       /\ PathsOf(mined, d.sha) = IF c.sha \in listed THEN FirstFiles(c) ELSE {}

CommitsInv == PastInv /\ MessagesInv /\ MinedInv

(* What a commit is.                                                       *)
LEMMA CommitFields ==
  ASSUME NEW c \in Commits
  PROVE  /\ c = [sha |-> c.sha, epoch |-> c.epoch, merge |-> c.merge, subject |-> c.subject,
                 body |-> c.body, files |-> c.files]
         /\ c.sha \in Nat /\ c.epoch \in Nat /\ c.files \in Seq(Nat)
         /\ IsChange(c)
<1>1. PICK change \in Changes, sha \in Shas, epoch \in Epochs : c = Commit(change, sha, epoch)
  BY DEF Commits
<1>2. /\ c.sha = sha /\ c.epoch = epoch /\ c.merge = change.merge
      /\ c.subject = change.subject /\ c.body = change.body /\ c.files = change.files
  BY <1>1 DEF Commit
<1>3. sha \in Nat /\ epoch \in Nat /\ IsChange(change)
  BY HistoryAssumption
<1>4. IsChange(c)
  BY <1>2, <1>3 DEF IsChange
<1> QED BY <1>1, <1>2, <1>3, <1>4 DEF Commit, IsChange

(* The sentence of a commit is one of its sentences.                       *)
LEMMA EpitomeIsSentence ==
  ASSUME NEW c, IsChange(c)
  PROVE  \E n \in Nat : DOMAIN EpitomeSource(c).clauses = 1 .. n
<1> DEFINE I == {i \in 1 .. Len(c.body.lines) : HasPhrase(c.body.lines[i])}
           line == IF I # {} THEN Min(I) ELSE 0
<1>1. FirstDecisionLine(c.body) = line
  BY DEF FirstDecisionLine, SelectInSeq
<1>2. line = 0 \/ line \in I
  <2>1. CASE I # {}
    <3>1. I \in SUBSET Nat
      OBVIOUS
    <3> HIDE DEF I
    <3>2. \E m \in I : \A k \in I : m <= k
      BY <2>1, <3>1, FirstExists
    <3> QED BY <2>1, <3>2 DEF Min
  <2> QED BY <2>1
<1> HIDE DEF line
<1>3. line \in I => IsSentence(c.body.lines[line])
  BY DEF IsChange, ToSet
<1>4. \/ EpitomeSource(c) = c.subject.sentence
      \/ line # 0 /\ EpitomeSource(c) = c.body.lines[line]
  BY <1>1 DEF EpitomeSource
<1>5. IsSentence(EpitomeSource(c))
  BY <1>2, <1>3, <1>4 DEF IsChange
<1>6. EpitomeSource(c).clauses \in Seq(ToSet(EpitomeSource(c).clauses))
  BY <1>5 DEF IsSentence
<1> HIDE DEF I
<1>7. \A s, T : s \in Seq(T) => Len(s) \in Nat /\ DOMAIN s = 1 .. Len(s)
  OBVIOUS
<1> QED BY <1>6, <1>7

(* What git log lists are commits of the log, finitely many.               *)
LEMMA GitLogIs ==
  ASSUME log \in Seq(Commits)
  PROVE  GitLog \subseteq ToSet(log) /\ IsFiniteSet(GitLog)
<1> DEFINE P == {i \in DOMAIN log : ~log[i].merge}
           J == {n \in P : MaxCount = 0 \/ Cardinality({m \in P : m > n}) < MaxCount}
           f == [i \in J |-> log[i]]
<1>1. GitLog = {log[i] : i \in J}
  BY DEF GitLog
<1>2. J \in SUBSET (1 .. Len(log)) /\ IsFiniteSet(1 .. Len(log)) /\ DOMAIN log = 1 .. Len(log)
  <2>1. Len(log) \in Nat /\ DOMAIN log = 1 .. Len(log)
    OBVIOUS
  <2>2. IsFiniteSet(1 .. Len(log))
    BY <2>1, FS_Interval
  <2> QED BY <2>1, <2>2
<1>3. IsFiniteSet(J)
  BY <1>2, FS_Subset
<1> HIDE DEF J
<1>4. f \in Surjection(J, GitLog)
  BY <1>1 DEF Surjection
<1>5. IsFiniteSet(GitLog)
  BY <1>3, <1>4, FS_Surjection
<1>6. GitLog \subseteq ToSet(log)
  BY <1>1, <1>2 DEF ToSet
<1> QED BY <1>5, <1>6

(* The first pass reads past commits.                                      *)
LEMMA FirstPass ==
  ASSUME PastInv, ReadMessages
  PROVE  /\ IsFiniteSet(messages')
         /\ \A m \in messages' : \E c \in Past : m = [c EXCEPT !.files = <<>>]
<1> DEFINE f == [c \in GitLog |-> [c EXCEPT !.files = <<>>]]
<1>1. messages' = {[c EXCEPT !.files = <<>>] : c \in GitLog}
  BY DEF ReadMessages
<1>2. GitLog \subseteq ToSet(log) /\ IsFiniteSet(GitLog)
  BY GitLogIs DEF PastInv
<1>3. f \in Surjection(GitLog, messages')
  BY <1>1 DEF Surjection
<1>4. IsFiniteSet(messages')
  BY <1>2, <1>3, FS_Surjection
<1>5. GitLog \subseteq Past
  BY <1>2 DEF Past
<1> QED BY <1>1, <1>4, <1>5

(* The commits of the second pass, by the past commit that each one is.    *)
FilesListed(c, L) == IF c.sha \in L THEN SortFiles(c.files) ELSE <<>>

LEMMA SecondPass ==
  ASSUME PastInv, MessagesInv, ReadFiles
  PROVE  LET W == WithFiles(GitLog)
         IN  /\ IsFiniteSet(W)
             /\ \A w \in W : \E c \in Past :
                  /\ w.sha = c.sha /\ w.files = FilesListed(c, listed')
                  /\ w.files \in Seq(Nat)
                  /\ IsRead(w)
             /\ \A a, b \in W : a.sha = b.sha => a = b
<1> DEFINE W == WithFiles(GitLog)
           f == [m \in messages |-> [m EXCEPT !.files = FilesOf(m, GitLog)]]
<1>1. W = {[m EXCEPT !.files = FilesOf(m, GitLog)] : m \in messages}
  BY DEF WithFiles
<1>2. IsFiniteSet(W)
  <2>1. f \in Surjection(messages, W)
    BY <1>1 DEF Surjection
  <2> HIDE DEF f, W
  <2> QED BY <2>1, FS_Surjection DEF MessagesInv
<1>3. GitLog \subseteq Past /\ Past \subseteq Commits
  <2>1. ToSet(log) \subseteq Commits
    BY DEF PastInv, ToSet
  <2> QED BY <2>1, GitLogIs DEF PastInv, Past
<1>4. listed' = {c.sha : c \in GitLog}
  BY DEF ReadFiles
<1>5. ASSUME NEW c \in Past, NEW m, m.sha = c.sha
      PROVE  FilesOf(m, GitLog) = FilesListed(c, listed')
  <2> DEFINE of == {r \in GitLog : r.sha = m.sha}
  <2>1. FilesOf(m, GitLog) = IF of = {} THEN <<>> ELSE SortFiles((CHOOSE r \in of : TRUE).files)
    BY DEF FilesOf
  <2>2. \A r \in of : r = c
    BY <1>3, <1>5 DEF PastInv
  <2>3. of = {} <=> c.sha \notin listed'
    BY <1>4, <1>5
  <2>4. of # {} => (CHOOSE r \in of : TRUE) = c
    BY <2>2
  <2> HIDE DEF of
  <2> QED BY <2>1, <2>3, <2>4 DEF FilesListed
<1>6. ASSUME NEW w \in W
      PROVE  \E c \in Past : w = [c EXCEPT !.files = FilesListed(c, listed')]
  <2>1. PICK m \in messages : w = [m EXCEPT !.files = FilesOf(m, GitLog)]
    BY <1>1
  <2>2. PICK c \in Past : m = [c EXCEPT !.files = <<>>]
    BY DEF MessagesInv
  <2>3. c = [sha |-> c.sha, epoch |-> c.epoch, merge |-> c.merge, subject |-> c.subject,
             body |-> c.body, files |-> c.files]
    BY <1>3, CommitFields
  <2>4. m.sha = c.sha
    BY <2>2, <2>3
  <2>5. w = [m EXCEPT !.files = FilesListed(c, listed')]
    BY <1>5, <2>1, <2>4
  <2>6. \A s, t : [[c EXCEPT !.files = s] EXCEPT !.files = t] = [c EXCEPT !.files = t]
    BY <2>3
  <2> QED BY <2>2, <2>5, <2>6
<1> HIDE DEF W
<1>7. ASSUME NEW w \in W
      PROVE  \E c \in Past :
               /\ w = [c EXCEPT !.files = FilesListed(c, listed')]
               /\ w.sha = c.sha /\ w.files = FilesListed(c, listed')
               /\ w.files \in Seq(Nat)
               /\ IsRead(w)
  <2>1. PICK c \in Past : w = [c EXCEPT !.files = FilesListed(c, listed')]
    BY <1>6
  <2>2. /\ c = [sha |-> c.sha, epoch |-> c.epoch, merge |-> c.merge, subject |-> c.subject,
                body |-> c.body, files |-> c.files]
        /\ c.sha \in Nat /\ c.epoch \in Nat /\ c.files \in Seq(Nat)
        /\ IsChange(c)
    BY <1>3, CommitFields
  <2>3. FilesListed(c, listed') \in Seq(Nat)
    <3>1. SortFiles(c.files) \in Seq(ToSet(c.files)) /\ ToSet(c.files) \subseteq Nat
      BY <2>2, FilesSorted DEF ToSet
    <3>2. SortFiles(c.files) \in Seq(Nat) /\ <<>> \in Seq(Nat)
      BY <3>1
    <3> QED BY <3>2 DEF FilesListed
  <2> DEFINE files == FilesListed(c, listed')
  <2> HIDE DEF files
  <2>4. /\ w.sha = c.sha /\ w.epoch = c.epoch /\ w.subject = c.subject /\ w.body = c.body
        /\ w.files = files
    BY <2>1, <2>2 DEF files
  <2>5. IsChange(w)
    BY <2>2, <2>3, <2>4 DEF IsChange, files
  <2>6. \E n \in Nat : DOMAIN w.files = 1 .. n
    <3>1. \A s \in Seq(Nat) : Len(s) \in Nat /\ DOMAIN s = 1 .. Len(s)
      OBVIOUS
    <3> QED BY <2>3, <2>4, <3>1 DEF files
  <2>7. IsRead(w)
    BY <2>2, <2>4, <2>5, <2>6, EpitomeIsSentence DEF IsRead
  <2> QED BY <2>1, <2>3, <2>4, <2>7 DEF files
<1>8. ASSUME NEW a \in W, NEW b \in W, a.sha = b.sha PROVE a = b
  <2>1. PICK c \in Past : a = [c EXCEPT !.files = FilesListed(c, listed')] /\ a.sha = c.sha
    BY <1>7
  <2>2. PICK d \in Past : b = [d EXCEPT !.files = FilesListed(d, listed')] /\ b.sha = d.sha
    BY <1>7
  <2>3. c = d
    BY <1>8, <2>1, <2>2 DEF PastInv
  <2> QED BY <2>1, <2>2, <2>3
<1> QED BY <1>2, <1>7, <1>8 DEF W

(* What the second pass mines.                                             *)
LEMMA SecondPassMines ==
  ASSUME PastInv, MessagesInv, ReadFiles
  PROVE  /\ StaysWithin(mined')
         /\ \A d \in mined'.decisions : \E c \in Past :
              /\ d.sha = c.sha
              /\ PathsOf(mined', d.sha) = IF c.sha \in listed' THEN FirstFiles(c) ELSE {}
<1> DEFINE W == WithFiles(GitLog)
           commits == SortCommits(W)
<1>1. mined' = MineCommitNodes(commits)
  BY DEF ReadFiles
<1>2. /\ IsFiniteSet(W)
      /\ \A w \in W : \E c \in Past :
           /\ w.sha = c.sha /\ w.files = FilesListed(c, listed')
           /\ w.files \in Seq(Nat)
           /\ IsRead(w)
      /\ \A a, b \in W : a.sha = b.sha => a = b
  BY SecondPass
<1> HIDE DEF W
<1>3. \A w \in W : IsRead(w) /\ w.sha \in Nat /\ w.epoch \in Nat
  BY <1>2 DEF IsRead
<1>4. commits \in Seq(W)
  BY <1>2, <1>3, CommitsSorted
<1> HIDE DEF commits
<1>5. /\ StaysWithin(MineCommitNodes(commits))
      /\ \A d \in MineCommitNodes(commits).decisions : \E w \in W :
           d.sha = w.sha /\ PathsOf(MineCommitNodes(commits), d.sha) = FilesUpToCap(w)
  BY <1>2, <1>3, <1>4, MinedByCommit
<1>6. ASSUME NEW d \in mined'.decisions
      PROVE  \E c \in Past :
               /\ d.sha = c.sha
               /\ PathsOf(mined', d.sha) = IF c.sha \in listed' THEN FirstFiles(c) ELSE {}
  <2>1. PICK w \in W : d.sha = w.sha /\ PathsOf(mined', d.sha) = FilesUpToCap(w)
    BY <1>1, <1>5
  <2>2. PICK c \in Past : /\ w.sha = c.sha /\ w.files = FilesListed(c, listed')
                         /\ w.files \in Seq(Nat)
    BY <1>2
  <2>3. CASE c.sha \in listed'
    <3> DEFINE files == SortFiles(c.files)
    <3>1. w.files = files /\ files \in Seq(Nat)
      BY <2>2, <2>3 DEF FilesListed
    <3>2. FirstFiles(c) = {files[j] : j \in {n \in DOMAIN files : n <= MaxFilesPerCommit}}
      BY DEF FirstFiles
    <3> HIDE DEF files
    <3>3. MaxFilesPerCommit \in Nat /\ Len(files) \in Nat /\ DOMAIN files = 1 .. Len(files)
      BY <3>1, GitAssumption
    <3>4. {n \in DOMAIN files : n <= MaxFilesPerCommit} = 1 .. Cap(w)
      BY <3>1, <3>3 DEF Cap
    <3>5. FirstFiles(c) = FilesUpToCap(w)
      BY <3>1, <3>2, <3>4 DEF FilesUpToCap
    <3> QED BY <2>1, <2>2, <2>3, <3>5
  <2>4. CASE c.sha \notin listed'
    <3>1. w.files = <<>>
      BY <2>2, <2>4 DEF FilesListed
    <3>2. Cap(w) = 0
      BY <3>1, GitAssumption DEF Cap
    <3>3. FilesUpToCap(w) = {}
      BY <3>2 DEF FilesUpToCap
    <3> QED BY <2>1, <2>2, <2>4, <3>3
  <2> QED BY <2>3, <2>4
<1> QED BY <1>1, <1>5, <1>6

(* A commit that lands or replaces another adds one to the past.           *)
LEMMA PastGrows ==
  ASSUME PastInv, NEW change \in Changes, NEW sha \in Shas,
         \/ \E epoch \in Epochs : Land(change, sha, epoch)
         \/ Amend(change, sha)
  PROVE  PastInv' /\ Past \subseteq Past'
<1>1. ToSet(log) \subseteq Commits
  BY DEF PastInv, ToSet
<1>2. \E c \in Commits : /\ c.sha = sha /\ Past' = Past \cup {c}
                         /\ log' \in Seq(Commits) /\ gone' \in SUBSET Commits
  <2>1. CASE \E epoch \in Epochs : Land(change, sha, epoch)
    <3>1. PICK epoch \in Epochs : Land(change, sha, epoch)
      BY <2>1
    <3> DEFINE c == Commit(change, sha, epoch)
    <3>2. c \in Commits /\ c.sha = sha
      BY DEF Commits, Commit
    <3>3. log' = Append(log, c) /\ gone' = gone
      BY <3>1 DEF Land
    <3> HIDE DEF c
    <3>4. log' \in Seq(Commits) /\ ToSet(log') = ToSet(log) \cup {c}
      BY <3>2, <3>3 DEF PastInv, ToSet
    <3> QED BY <3>2, <3>3, <3>4 DEF Past, PastInv
  <2>2. CASE Amend(change, sha)
    <3> DEFINE n == Len(log)
               last == log[n]
               c == Commit(change, sha, last.epoch)
    <3>1. /\ log # <<>> /\ log' = Append(Front(log), c)
          /\ gone' = gone \cup {last}
      BY <2>2 DEF Amend, Last
    <3>2. n \in Nat \ {0} /\ last \in Commits
      BY <3>1 DEF PastInv
    <3>3. c \in Commits /\ c.sha = sha
      <4>1. PICK e \in Epochs : last.epoch = e
        <5>1. PICK ch \in Changes, s \in Shas, e \in Epochs : last = Commit(ch, s, e)
          BY <3>2 DEF Commits
        <5> QED BY <5>1 DEF Commit
      <4> HIDE DEF last
      <4> QED BY <4>1 DEF Commits, Commit
    <3>4. Front(log) = SubSeq(log, 1, n - 1)
      BY DEF Front
    <3>5. Front(log) \in Seq(Commits) /\ ToSet(log) = ToSet(Front(log)) \cup {last}
      <4> DEFINE front == SubSeq(log, 1, n - 1)
      <4>1. /\ Len(front) = n - 1
            /\ \A i \in 1 .. n - 1 : front[i] = log[i] /\ log[i] \in Commits
            /\ DOMAIN log = 1 .. n /\ DOMAIN front = 1 .. n - 1
            /\ front \in Seq(Commits)
        <5>1. \A i \in 1 .. n - 1 : log[i] \in Commits
          BY <3>2 DEF PastInv
        <5>2. n - 1 \in Nat /\ DOMAIN log = 1 .. n /\ 1 \in Int /\ n - 1 \in Int
          BY <3>2 DEF PastInv
        <5> HIDE DEF n
        <5>3. /\ front \in Seq(Commits)
              /\ Len(front) = IF 1 <= n - 1 THEN (n - 1) - 1 + 1 ELSE 0
              /\ \A i \in 1 .. (n - 1) - 1 + 1 : front[i] = log[1 + i - 1]
          BY <5>1, <5>2, SubSeqProperties
        <5>4. Len(front) = n - 1
          BY <5>2, <5>3
        <5>5. \A i \in 1 .. n - 1 : front[i] = log[i]
          BY <5>2, <5>3
        <5>6. DOMAIN front = 1 .. n - 1
          BY <5>3, <5>4
        <5> QED BY <5>1, <5>2, <5>3, <5>4, <5>5, <5>6
      <4>2. 1 .. n = (1 .. n - 1) \cup {n}
        BY <3>2
      <4> HIDE DEF front, n
      <4>3. ToSet(log) = ToSet(front) \cup {log[n]}
        BY <4>1, <4>2 DEF ToSet
      <4> QED BY <3>4, <4>1, <4>3 DEF front, n
    <3> HIDE DEF c, last
    <3>6. log' \in Seq(Commits) /\ ToSet(log') = ToSet(Front(log)) \cup {c}
      BY <3>1, <3>3, <3>5 DEF ToSet
    <3> QED BY <3>1, <3>2, <3>3, <3>5, <3>6 DEF Past, PastInv
  <2> QED BY <2>1, <2>2
<1>3. PICK c \in Commits : /\ c.sha = sha /\ Past' = Past \cup {c}
                          /\ log' \in Seq(Commits) /\ gone' \in SUBSET Commits
  BY <1>2
<1>4. \A a \in Past : a.sha # sha
  BY DEF Land, Amend, UnusedShas, Past
<1>5. \A a, b \in Past' : a.sha = b.sha => a = b
  BY <1>3, <1>4 DEF PastInv
<1> QED BY <1>3, <1>5 DEF PastInv

(* Every step of a branch and of the two passes keeps the invariant.       *)
LEMMA CommitsHold == Spec => []CommitsInv
<1>1. Init => CommitsInv
  <2> SUFFICES ASSUME Init PROVE CommitsInv
    OBVIOUS
  <2>1. log = <<>> /\ gone = {} /\ messages = {} /\ mined = Nothing
    BY DEF Init
  <2>2. Past = {}
    BY <2>1 DEF Past, ToSet
  <2>3. mined.decisions = {} /\ mined.edges = {}
    BY <2>1 DEF Nothing
  <2> QED BY <2>1, <2>2, <2>3, FS_EmptySet
           DEF CommitsInv, PastInv, MessagesInv, MinedInv, StaysWithin
<1>2. CommitsInv /\ [Next]_vars => CommitsInv'
  <2> SUFFICES ASSUME CommitsInv, [Next]_vars PROVE CommitsInv'
    OBVIOUS
  <2> USE DEF CommitsInv
  <2>1. ASSUME PastInv', Past \subseteq Past', UNCHANGED <<messages, mined, listed>>
        PROVE  CommitsInv'
    <3>1. MessagesInv'
      BY <2>1 DEF MessagesInv
    <3>2. \A c : FirstFiles(c)' = FirstFiles(c)
      BY DEF FirstFiles
    <3>3. MinedInv'
      <4>1. StaysWithin(mined)' /\ \A sha : PathsOf(mined, sha)' = PathsOf(mined, sha)
        BY <2>1 DEF MinedInv, StaysWithin, PathsOf
      <4> QED BY <2>1, <3>2, <4>1 DEF MinedInv
    <3> QED BY <2>1, <3>1, <3>3
  <2>2. ASSUME UNCHANGED <<log, gone, messages, mined, listed>> PROVE CommitsInv'
    BY <2>2 DEF PastInv, Past, MessagesInv, MinedInv, StaysWithin, PathsOf, FirstFiles
  <2>3. ASSUME NEW change \in Changes, NEW sha \in Shas, NEW epoch \in Epochs,
               Land(change, sha, epoch)
        PROVE  CommitsInv'
    BY <2>1, <2>3, PastGrows DEF Land
  <2>4. ASSUME NEW change \in Changes, NEW sha \in Shas, Amend(change, sha)
        PROVE  CommitsInv'
    BY <2>1, <2>4, PastGrows DEF Amend
  <2>5. CASE ReadMessages
    <3>1. log' = log /\ gone' = gone /\ mined' = Nothing
      BY <2>5 DEF ReadMessages
    <3>2. PastInv' /\ Past' = Past
      BY <3>1 DEF PastInv, Past
    <3>3. MessagesInv'
      BY <2>5, <3>2, FirstPass DEF MessagesInv
    <3>4. mined'.decisions = {} /\ mined'.edges = {}
      BY <3>1 DEF Nothing
    <3>5. MinedInv'
      BY <3>4 DEF MinedInv, StaysWithin
    <3> QED BY <3>2, <3>3, <3>5
  <2>6. CASE ReadFiles
    <3>1. log' = log /\ gone' = gone /\ messages' = messages
      BY <2>6 DEF ReadFiles
    <3>2. PastInv' /\ Past' = Past
      BY <3>1 DEF PastInv, Past
    <3>3. MessagesInv'
      BY <3>1, <3>2 DEF MessagesInv
    <3>4. /\ StaysWithin(mined')
          /\ \A d \in mined'.decisions : \E c \in Past :
               /\ d.sha = c.sha
               /\ PathsOf(mined', d.sha) = IF c.sha \in listed' THEN FirstFiles(c) ELSE {}
      BY <2>6, SecondPassMines
    <3>5. MinedInv'
      BY <3>2, <3>4 DEF MinedInv, StaysWithin, PathsOf, FirstFiles
    <3> QED BY <3>2, <3>3, <3>5
  <2>7. ASSUME NEW at \in ToSet(Positions), NEW word \in Words, Record(at, word)
        PROVE  CommitsInv'
    BY <2>2, <2>7 DEF Record, gitVars
  <2>8. CASE FillIn
    BY <2>2, <2>8 DEF FillIn, gitVars
  <2>9. CASE TalkOn
    BY <2>2, <2>9 DEF TalkOn, gitVars
  <2>10. CASE UNCHANGED vars
    BY <2>2, <2>10 DEF vars, gitVars
  <2> QED BY <2>3, <2>4, <2>5, <2>6, <2>7, <2>8, <2>9, <2>10 DEF Next
<1> QED BY <1>1, <1>2, PTL DEF Spec

(* Whatever lands or is rewritten between the two passes, and after them,  *)
(* a decision is tied to the files of its own commit up to the cap, and to *)
(* none if the second pass did not list that commit.                       *)
THEOREM FilesHold == Spec => []FilesComeFromTheirCommit
<1>1. CommitsInv => FilesComeFromTheirCommit
  <2> SUFFICES ASSUME CommitsInv, NEW d \in mined.decisions
               PROVE  PathsOf(mined, d.sha) =
                        IF d.sha \in listed THEN FirstFiles(CommitOf(d.sha)) ELSE {}
    BY DEF FilesComeFromTheirCommit, PathsOf
  <2>1. PICK c \in Past :
          /\ d.sha = c.sha
          /\ PathsOf(mined, d.sha) = IF c.sha \in listed THEN FirstFiles(c) ELSE {}
    BY DEF CommitsInv, MinedInv
  <2>2. \A b \in Past : b.sha = d.sha <=> b = c
    BY <2>1 DEF CommitsInv, PastInv
  <2>3. CommitOf(d.sha) = c
    BY <2>1, <2>2 DEF CommitOf, Past
  <2> QED BY <2>1, <2>3
<1> QED BY <1>1, CommitsHold, PTL

(* No edge leaves its commit, however close in time another one is, and of *)
(* the parts of a bundle the last one has them all.                        *)
THEOREM LastPartHolds == Spec => []LastPartGovernsItsCommit
<1>1. CommitsInv => LastPartGovernsItsCommit
  BY DEF CommitsInv, MinedInv, StaysWithin, LastPartGovernsItsCommit
<1> QED BY <1>1, CommitsHold, PTL

-----------------------------------------------------------------------------
(* Documents while they are edited.                                        *)

(* A position is the one of its rank.                                      *)
LEMMA RankIs ==
  ASSUME NEW n \in 1 .. 4
  PROVE  Rank(Positions[n]) = n
<1>1. DOMAIN Positions = 1 .. 4
  BY DEF Positions
<1>2. \A i, j \in 1 .. 4 : Positions[i] = Positions[j] => i = j
  BY DEF Positions
<1> QED BY <1>1, <1>2 DEF Rank

(* A position has a rank, and the rank gives it back.                      *)
LEMMA PositionsAre ==
  /\ ToSet(Positions) = {"front", "bullet", "section", "suffix"}
  /\ \A at \in ToSet(Positions) : Rank(at) \in 1 .. 4 /\ Positions[Rank(at)] = at
<1>1. DOMAIN Positions = 1 .. 4
  BY DEF Positions
<1>2. ToSet(Positions) = {"front", "bullet", "section", "suffix"}
  BY DEF Positions, ToSet
<1>3. ASSUME NEW at \in ToSet(Positions)
      PROVE  Rank(at) \in 1 .. 4 /\ Positions[Rank(at)] = at
  <2>1. PICK n \in 1 .. 4 : Positions[n] = at
    BY <1>1 DEF ToSet
  <2> QED BY <2>1, RankIs
<1> QED BY <1>2, <1>3

(* The status that counts, by the position it stands at.                   *)
LEMMA FirstStatusCounts ==
  ASSUME NEW d, NEW n \in 1 .. 4,
         StatusAt(d, Positions[n]) # None,
         \A m \in 1 .. 4 : m < n => StatusAt(d, Positions[m]) = None
  PROVE  Status(d) = StatusAt(d, Positions[n])
<1> DEFINE I == {m \in 1 .. Len(Positions) : StatusAt(d, Positions[m]) # None}
<1>1. Len(Positions) = 4
  BY DEF Positions
<1>2. n \in I /\ \A m \in I : n <= m
  BY <1>1
<1>3. Min(I) \in I /\ \A m \in I : Min(I) <= m
  BY <1>2 DEF Min
<1>4. Min(I) = n
  BY <1>1, <1>2, <1>3
<1>5. Status(d) = IF I = {} THEN None
                  ELSE IF Min(I) = 0 THEN None ELSE StatusAt(d, Positions[Min(I)])
  BY DEF Status, SelectInSeq
<1> HIDE DEF I
<1> QED BY <1>2, <1>4, <1>5

(* Of the positions with a status one is the first.                        *)
LEMMA FirstPosition ==
  ASSUME NEW d, NEW k \in 1 .. 4, StatusAt(d, Positions[k]) # None
  PROVE  \E n \in 1 .. 4 : /\ StatusAt(d, Positions[n]) # None
                           /\ \A m \in 1 .. 4 : m < n => StatusAt(d, Positions[m]) = None
<1> DEFINE Empty(m) == StatusAt(d, Positions[m]) = None
<1>1. ~Empty(k)
  OBVIOUS
<1> HIDE DEF Empty
<1>2. \E n \in 1 .. 4 : ~Empty(n) /\ \A m \in 1 .. 4 : m < n => Empty(m)
  <2>1. CASE ~Empty(1)
    BY <2>1
  <2>2. CASE Empty(1) /\ ~Empty(2)
    BY <2>2
  <2>3. CASE Empty(1) /\ Empty(2) /\ ~Empty(3)
    BY <2>3
  <2>4. CASE Empty(1) /\ Empty(2) /\ Empty(3)
    BY <2>4, <1>1
  <2> QED BY <2>1, <2>2, <2>3, <2>4
<1> QED BY <1>2 DEF Empty

(* The status that counts stands at one of the positions.                  *)
LEMMA StatusStandsSomewhere ==
  ASSUME NEW d, Status(d) # None
  PROVE  \E at \in ToSet(Positions) : StatusAt(d, at) = Status(d)
<1>1. PICK k \in 1 .. 4 : StatusAt(d, Positions[k]) # None
  BY DEF Status, SelectInSeq, Positions
<1>2. PICK n \in 1 .. 4 : /\ StatusAt(d, Positions[n]) # None
                          /\ \A m \in 1 .. 4 : m < n => StatusAt(d, Positions[m]) = None
  BY <1>1, FirstPosition
<1>3. Positions[n] \in ToSet(Positions)
  BY DEF Positions, ToSet
<1> QED BY <1>2, <1>3, FirstStatusCounts

(* A doc with a status at any position has one that counts.                *)
LEMMA AnyStatusCounts ==
  ASSUME NEW d, NEW at \in ToSet(Positions), StatusAt(d, at) # None
  PROVE  Status(d) # None
<1>1. Rank(at) \in 1 .. 4 /\ Positions[Rank(at)] = at
  BY PositionsAre
<1>2. PICK n \in 1 .. 4 : /\ StatusAt(d, Positions[n]) # None
                          /\ \A m \in 1 .. 4 : m < n => StatusAt(d, Positions[m]) = None
  BY <1>1, FirstPosition
<1> QED BY <1>2, FirstStatusCounts

(* What a classification that finds a status says of it.                   *)
LEMMA VerdictOfStatus ==
  ASSUME NEW d, d.rows = <<>>, ~d.kep, Status(d) # None,
         NEW found \in ClassifyGovernanceDoc(d)
  PROVE  found.effective <=> CanonicalizeStatus(Status(d)) = "accepted"
<1>1. PICK of \in {OfStatus(Status(d))} : found = WithBan(d, of)
  BY DEF ClassifyGovernanceDoc
<1>2. of.effective <=> CanonicalizeStatus(Status(d)) = "accepted"
  <2> DEFINE canon == CanonicalizeStatus(Status(d))
  <2>1. of = OfStatus(Status(d))
    BY <1>1
  <2>2. CASE canon = None
    BY <2>1, <2>2 DEF OfStatus, RecallOnly, None
  <2>3. CASE canon # None
    <3>1. of = [class |-> "DecisionRecord", state |-> canon, effective |-> canon = "accepted",
                quality |-> "FullParse", ban |-> FALSE]
      BY <2>1, <2>3 DEF OfStatus
    <3>2. of.effective = (canon = "accepted")
      BY <3>1
    <3> QED BY <3>2
  <2> QED BY <2>2, <2>3
<1>3. WithBan(d, of).effective = of.effective
  BY <1>1 DEF WithBan, OfStatus, RecallOnly
<1> QED BY <1>1, <1>2, <1>3

-----------------------------------------------------------------------------
(* The document and the statuses recorded in it. What stands at a position *)
(* is the last status recorded there, whatever was recorded elsewhere, and *)
(* a position where nothing was recorded has none.                         *)
LastAt(i) == \A j \in DOMAIN edits : edits[j].at = edits[i].at => j <= i

DocInv ==
  /\ kind = "document" => IsDoc(doc)
  /\ kind # "document" => edits = <<>>
  /\ edits \in Seq([at : ToSet(Positions), word : Words])
  /\ \A i \in DOMAIN edits : LastAt(i) => StatusAt(doc, edits[i].at) = edits[i].word
  /\ kind = "document" => \A at \in ToSet(Positions) :
       StatusAt(doc, at) # None => \E i \in DOMAIN edits : edits[i] = [at |-> at, word |-> StatusAt(doc, at)]

(* The status of each position, by where it is in the document.            *)
LEMMA StatusesAre ==
  ASSUME NEW d
  PROVE  /\ StatusAt(d, "front") = FrontStatus(d)
         /\ StatusAt(d, "bullet") = d.bullet
         /\ StatusAt(d, "section") = SectionStatus(d)
         /\ StatusAt(d, "suffix") = d.suffix
BY DEF StatusAt

(* A status that is recorded stands at its position and changes no other.  *)
LEMMA WritingAt ==
  ASSUME IsDoc(doc), NEW at \in ToSet(Positions), NEW word \in Words,
         doc' = WriteAt(at, word)
  PROVE  /\ IsDoc(doc')
         /\ StatusAt(doc', at) = word
         /\ \A other \in ToSet(Positions) \ {at} : StatusAt(doc', other) = StatusAt(doc, other)
<1> USE PositionsAre
<1>1. CASE at = "front"
  <2> DEFINE matter == [keys |-> FrontKeys(doc) \cup {"other"}, status |-> word, ban |-> FALSE]
  <2>1. doc' = [doc EXCEPT !.front = <<matter>>]
    BY <1>1 DEF WriteAt
  <2>2. matter.status = word
    OBVIOUS
  <2> HIDE DEF matter
  <2>3. IsDoc(doc') /\ doc'.front = <<matter>> /\ doc'.bullet = doc.bullet
        /\ doc'.section = doc.section /\ doc'.suffix = doc.suffix
    BY <2>1 DEF IsDoc
  <2>4. FrontStatus(doc') = word
    BY <2>2, <2>3 DEF FrontStatus, HasFrontMatter
  <2> QED BY <1>1, <2>3, <2>4, StatusesAre DEF SectionStatus
<1>2. CASE at = "bullet"
  <2>1. doc' = [doc EXCEPT !.bullet = word]
    BY <1>2 DEF WriteAt
  <2>2. IsDoc(doc') /\ doc'.front = doc.front /\ doc'.bullet = word
        /\ doc'.section = doc.section /\ doc'.suffix = doc.suffix
    BY <2>1 DEF IsDoc
  <2> QED BY <1>2, <2>2, StatusesAre DEF SectionStatus, FrontStatus, HasFrontMatter
<1>3. CASE at = "section"
  <2> DEFINE lines == Append(doc.section, word)
  <2>1. doc' = [doc EXCEPT !.section = lines]
    BY <1>3 DEF WriteAt
  <2>0. lines \in Seq(Words) /\ Last(lines) = word /\ lines # <<>>
    BY DEF IsDoc, Last
  <2> HIDE DEF lines
  <2>2. IsDoc(doc') /\ doc'.front = doc.front /\ doc'.bullet = doc.bullet
        /\ doc'.section = lines /\ doc'.suffix = doc.suffix
    BY <2>0, <2>1 DEF IsDoc
  <2>3. SectionStatus(doc') = word
    BY <2>0, <2>2 DEF SectionStatus
  <2> QED BY <1>3, <2>2, <2>3, StatusesAre DEF FrontStatus, HasFrontMatter
<1>4. CASE at = "suffix"
  <2>1. doc' = [doc EXCEPT !.suffix = word]
    BY <1>4 DEF WriteAt
  <2>2. IsDoc(doc') /\ doc'.front = doc.front /\ doc'.bullet = doc.bullet
        /\ doc'.section = doc.section /\ doc'.suffix = word
    BY <2>1 DEF IsDoc
  <2> QED BY <1>4, <2>2, StatusesAre DEF SectionStatus, FrontStatus, HasFrontMatter
<1> QED BY <1>1, <1>2, <1>3, <1>4

(* One more status is recorded: it is the last at its position, and what   *)
(* was the last elsewhere still is.                                        *)
LEMMA RecordStep ==
  ASSUME DocInv, NEW at \in ToSet(Positions), NEW word \in Words, Record(at, word)
  PROVE  DocInv'
<1> DEFINE e == [at |-> at, word |-> word]
           n == Len(edits)
           E == [at : ToSet(Positions), word : Words]
<1>1. kind = "document" /\ kind' = kind /\ IsDoc(doc) /\ edits \in Seq(E) /\ e \in E
  BY DEF Record, DocInv
<1>1a. \A i \in DOMAIN edits : edits[i].at \in ToSet(Positions)
  <2> SUFFICES ASSUME NEW i \in DOMAIN edits PROVE edits[i].at \in ToSet(Positions)
    OBVIOUS
  <2> HIDE DEF E
  <2>1. edits[i] \in E
    BY <1>1
  <2> QED BY <2>1 DEF E
<1>2. edits' = Append(edits, e) /\ doc' = WriteAt(at, word)
  BY DEF Record
<1>3. /\ edits' \in Seq(E)
      /\ DOMAIN edits' = 1 .. (n + 1) /\ DOMAIN edits = 1 .. n /\ n \in Nat
      /\ edits'[n + 1] = e
      /\ \A i \in 1 .. n : edits'[i] = edits[i]
  BY <1>1, <1>2
<1>4. /\ IsDoc(doc')
      /\ StatusAt(doc', at) = word
      /\ \A other \in ToSet(Positions) \ {at} : StatusAt(doc', other) = StatusAt(doc, other)
  BY <1>1, <1>2, WritingAt
<1>5. e.at = at /\ e.word = word
  OBVIOUS
<1> HIDE DEF e, n
<1>6. ASSUME NEW i \in DOMAIN edits', \A j \in DOMAIN edits' : edits'[j].at = edits'[i].at => j <= i
      PROVE  StatusAt(doc', edits'[i].at) = edits'[i].word
  <2>1. CASE i = n + 1
    BY <2>1, <1>3, <1>4, <1>5
  <2>2. CASE i # n + 1
    <3>1. i \in 1 .. n /\ edits'[i] = edits[i]
      BY <2>2, <1>3
    <3>2. edits[i].at # at
      BY <3>1, <1>3, <1>5, <1>6
    <3>3. edits[i].at \in ToSet(Positions)
      BY <3>1, <1>3, <1>1a
    <3>4. LastAt(i)
      BY <3>1, <1>3, <1>6 DEF LastAt
    <3>5. StatusAt(doc, edits[i].at) = edits[i].word
      BY <3>1, <3>4, <1>3 DEF DocInv
    <3> QED BY <3>1, <3>2, <3>3, <3>5, <1>4
  <2> QED BY <2>1, <2>2
<1>7. ASSUME NEW other \in ToSet(Positions), StatusAt(doc', other) # None
      PROVE  \E i \in DOMAIN edits' : edits'[i] = [at |-> other, word |-> StatusAt(doc', other)]
  <2>1. CASE other = at
    <3>1. edits'[n + 1] = [at |-> other, word |-> StatusAt(doc', other)]
      BY <2>1, <1>3, <1>4 DEF e
    <3> QED BY <3>1, <1>3
  <2>2. CASE other # at
    <3>1. StatusAt(doc', other) = StatusAt(doc, other)
      BY <2>2, <1>4
    <3>2. PICK i \in DOMAIN edits : edits[i] = [at |-> other, word |-> StatusAt(doc, other)]
      BY <3>1, <1>1, <1>7 DEF DocInv
    <3> QED BY <3>1, <3>2, <1>3
  <2> QED BY <2>1, <2>2
<1>8. \A i \in DOMAIN edits' : LastAt(i)' => StatusAt(doc', edits'[i].at) = edits'[i].word
  BY <1>6 DEF LastAt
<1> QED BY <1>1, <1>3, <1>4, <1>7, <1>8 DEF DocInv

-----------------------------------------------------------------------------
(* Nothing but Record writes a status: the rest of what happens keeps the  *)
(* statuses of the document and what was recorded in it.                   *)
LEMMA DocInvStep == DocInv /\ [Next]_vars => DocInv'
<1> SUFFICES ASSUME DocInv, [Next]_vars PROVE DocInv'
  OBVIOUS
<1>1. ASSUME kind' = kind, UNCHANGED docVars PROVE DocInv'
  BY <1>1 DEF docVars, DocInv, LastAt
<1>2. CASE UNCHANGED vars
  BY <1>1, <1>2 DEF vars
<1>3. ASSUME NEW change \in Changes, NEW sha \in Shas, NEW epoch \in Epochs,
             Land(change, sha, epoch)
      PROVE  DocInv'
  BY <1>1, <1>3 DEF Land
<1>4. ASSUME NEW change \in Changes, NEW sha \in Shas, Amend(change, sha)
      PROVE  DocInv'
  BY <1>1, <1>4 DEF Amend
<1>5. CASE ReadMessages
  BY <1>1, <1>5 DEF ReadMessages
<1>6. CASE ReadFiles
  BY <1>1, <1>6 DEF ReadFiles
<1>7. ASSUME NEW at \in ToSet(Positions), NEW word \in Words, Record(at, word)
      PROVE  DocInv'
  BY <1>7, RecordStep
<1>8. CASE FillIn
  <2>1. IsDoc(doc) /\ kind = "document" /\ kind' = kind /\ edits' = edits
        /\ doc' = [doc EXCEPT !.blank = FALSE]
    BY <1>8 DEF FillIn, DocInv
  <2>2. IsDoc(doc') /\ doc'.front = doc.front /\ doc'.bullet = doc.bullet
        /\ doc'.section = doc.section /\ doc'.suffix = doc.suffix
    BY <2>1 DEF IsDoc
  <2>3. \A at \in ToSet(Positions) : StatusAt(doc', at) = StatusAt(doc, at)
    BY <2>2, StatusesAre, PositionsAre DEF SectionStatus, FrontStatus, HasFrontMatter
  <2>4. \A i \in DOMAIN edits : edits[i].at \in ToSet(Positions)
    <3> DEFINE E == [at : ToSet(Positions), word : Words]
    <3> SUFFICES ASSUME NEW i \in DOMAIN edits PROVE edits[i].at \in ToSet(Positions)
      OBVIOUS
    <3>1. edits \in Seq(E)
      BY DEF DocInv
    <3> HIDE DEF E
    <3>2. edits[i] \in E
      BY <3>1
    <3> QED BY <3>2 DEF E
  <2> QED BY <2>1, <2>2, <2>3, <2>4 DEF DocInv, LastAt
<1>9. CASE TalkOn
  BY <1>1, <1>9 DEF TalkOn
<1> QED BY <1>2, <1>3, <1>4, <1>5, <1>6, <1>7, <1>8, <1>9 DEF Next

(* A document begins without a status.                                     *)
LEMMA DocInvStart == Init => DocInv
<1> SUFFICES ASSUME Init PROVE DocInv
  OBVIOUS
<1>1. edits = <<>>
  BY DEF Init
<1>2. kind = "document" => IsDoc(doc) /\ \A at \in ToSet(Positions) : StatusAt(doc, at) = None
  BY HistoryAssumption DEF Init
<1> QED BY <1>1, <1>2 DEF DocInv

(* The status that counts is the last one at the strongest position.       *)
LEMMA PrevailingStatus ==
  ASSUME DocInv, NEW i \in DOMAIN edits, Prevails(i)
  PROVE  Status(doc) = edits[i].word /\ Status(doc) # None
<1> DEFINE at == edits[i].at
           n  == Rank(at)
           E  == [at : ToSet(Positions), word : Words]
<1>0. kind = "document" /\ edits \in Seq(E)
  BY DEF DocInv
<1>1. \A j \in DOMAIN edits : edits[j].at \in ToSet(Positions) /\ edits[j].word \in Words
  <2> SUFFICES ASSUME NEW j \in DOMAIN edits
               PROVE  edits[j].at \in ToSet(Positions) /\ edits[j].word \in Words
    OBVIOUS
  <2> HIDE DEF E
  <2>1. edits[j] \in E
    BY <1>0
  <2> QED BY <2>1 DEF E
<1>2. n \in 1 .. 4 /\ Positions[n] = at
  BY <1>1, PositionsAre
<1>3. \A j \in DOMAIN edits : Rank(edits[j].at) \in 1 .. 4
  BY <1>1, PositionsAre
<1>4. LastAt(i)
  <2> SUFFICES ASSUME NEW j \in DOMAIN edits, edits[j].at = edits[i].at PROVE j <= i
    BY DEF LastAt
  <2>1. ~(Rank(edits[i].at) < Rank(edits[j].at))
    BY <1>3
  <2> QED BY <2>1 DEF Prevails
<1>5. StatusAt(doc, at) = edits[i].word /\ edits[i].word # None
  BY <1>1, <1>4, HistoryAssumption DEF DocInv
<1>6. ASSUME NEW m \in 1 .. 4, m < n, StatusAt(doc, Positions[m]) # None PROVE FALSE
  <2>1. Positions[m] \in ToSet(Positions) /\ Rank(Positions[m]) = m
    BY RankIs DEF Positions, ToSet
  <2>2. PICK j \in DOMAIN edits : edits[j] = [at |-> Positions[m], word |-> StatusAt(doc, Positions[m])]
    BY <2>1, <1>0, <1>6 DEF DocInv
  <2>3. Rank(edits[j].at) = m /\ Rank(edits[i].at) = n
    BY <2>1, <2>2
  <2>4. Rank(edits[i].at) < Rank(edits[j].at) \/ edits[i].at = edits[j].at
    BY DEF Prevails
  <2> QED BY <1>2, <1>6, <2>3, <2>4
<1> HIDE DEF n, at
<1>7. Status(doc) = StatusAt(doc, Positions[n])
  BY <1>2, <1>5, <1>6, FirstStatusCounts
<1> QED BY <1>2, <1>5, <1>7

(* But for its synonyms, only the word accepted is taken for accepted.     *)
LEMMA OnlyAcceptedAccepts ==
  ASSUME NEW w, w \notin Synonyms
  PROVE  CanonicalizeStatus(w) = "accepted" <=> w = "accepted"
<1>1. CASE w = "accepted"
  BY <1>1 DEF CanonicalizeStatus, AcceptedWords, SupersededWords, ProposedWords,
              RejectedWords, DeprecatedWords
<1>2. CASE w # "accepted"
  <2>1. w \notin AcceptedWords
    BY <1>2 DEF Synonyms
  <2> QED
    BY <1>2, <2>1 DEF CanonicalizeStatus, None
<1> QED BY <1>1, <1>2

(* A record that was retired stays retired until it is accepted again at   *)
(* the position that counts: the last word there decides, whatever is      *)
(* written elsewhere, before or after it, unless it is a synonym of        *)
(* accepted.                                                               *)
THEOREM TheLastWordHolds == Spec => []LastWordDecides
<1>1. DocInv => LastWordDecides
  BY PrevailingStatus, VerdictOfStatus, OnlyAcceptedAccepts DEF LastWordDecides
<1> QED BY <1>1, DocInvStart, DocInvStep, PTL DEF Spec

(* A table whose first row is no synonym is in force if that row says      *)
(* accepted.                                                               *)
LEMMA TableSaysAccepted ==
  ASSUME NEW d, d.rows # <<>>, Head(d.rows) \notin Synonyms, InForce(d)
  PROVE  Head(d.rows) = "accepted"
<1>1. PICK found \in ClassifyGovernanceDoc(d) : found.effective
  BY DEF InForce
<1>2. found = ClassifyDecisionsTable(d.rows)
  <2>1. CASE IsTemplateOrPlaceholder(d)
    BY <1>1, <2>1 DEF ClassifyGovernanceDoc
  <2>2. CASE ~IsTemplateOrPlaceholder(d) /\ d.kep
    BY <1>1, <2>2 DEF ClassifyGovernanceDoc, RecallOnly
  <2>3. CASE ~IsTemplateOrPlaceholder(d) /\ ~d.kep
    BY <1>1, <2>3 DEF ClassifyGovernanceDoc
  <2> QED BY <2>1, <2>2, <2>3
<1>3. CanonicalizeStatus(Head(d.rows)) = "accepted"
  BY <1>1, <1>2 DEF ClassifyDecisionsTable, OfStatus, RecallOnly
<1> QED BY <1>3, OnlyAcceptedAccepts

(* Nothing is in force that no edit accepted, except a MADR record that    *)
(* never had a status, and a table whose first row says accepted; only     *)
(* documents that hold a synonym of accepted are left out.                 *)
THEOREM SilenceGovernsLittle == Spec => []NothingGovernsUnsaid
<1>1. DocInv => NothingGovernsUnsaid
  <2>0. doc.rows # <<>> => NothingGovernsUnsaid
    BY TableSaysAccepted DEF NothingGovernsUnsaid
  <2> SUFFICES ASSUME DocInv, kind = "document", InForce(doc), doc.rows = <<>>,
                      \A i \in DOMAIN edits : edits[i].word \notin Synonyms
               PROVE  \/ \E i \in DOMAIN edits : edits[i].word = "accepted"
                      \/ doc.madr /\ edits = <<>>
    BY <2>0 DEF NothingGovernsUnsaid
  <2>1. PICK found \in ClassifyGovernanceDoc(doc) : found.effective
    BY DEF InForce
  <2>2. ~doc.kep
    BY <2>1 DEF ClassifyGovernanceDoc, RecallOnly
  <2>3. CASE Status(doc) # None
    <3>1. CanonicalizeStatus(Status(doc)) = "accepted"
      BY <2>1, <2>2, <2>3, VerdictOfStatus
    <3>2. PICK at \in ToSet(Positions) : StatusAt(doc, at) = Status(doc)
      BY <2>3, StatusStandsSomewhere
    <3>3. PICK i \in DOMAIN edits : edits[i] = [at |-> at, word |-> Status(doc)]
      BY <2>3, <3>2 DEF DocInv
    <3>4. edits[i].word = Status(doc)
      BY <3>3
    <3> QED BY <3>1, <3>4, OnlyAcceptedAccepts
  <2>4. CASE Status(doc) = None
    <3>1. doc.madr
      <4>1. PICK of \in ClassifyNoStatus(doc) : found = WithBan(doc, of)
        BY <2>1, <2>2, <2>4 DEF ClassifyGovernanceDoc
      <4>2. of = RecallOnly("DecisionRecord") => ~found.effective
        BY <4>1 DEF WithBan, RecallOnly
      <4> QED BY <2>1, <4>1, <4>2 DEF ClassifyNoStatus
    <3>2. ASSUME edits # <<>> PROVE FALSE
      <4> DEFINE E == [at : ToSet(Positions), word : Words]
                 n == Len(edits)
      <4>1. edits \in Seq(E)
        BY DEF DocInv
      <4> HIDE DEF E
      <4>2. n \in DOMAIN edits /\ edits[n] \in E /\ \A j \in DOMAIN edits : j <= n
        BY <4>1, <3>2
      <4> HIDE DEF n
      <4>3. edits[n].at \in ToSet(Positions) /\ edits[n].word # None
        BY <4>2, HistoryAssumption DEF E
      <4>4. LastAt(n)
        BY <4>2 DEF LastAt
      <4>5. StatusAt(doc, edits[n].at) # None
        BY <4>2, <4>3, <4>4 DEF DocInv
      <4> QED BY <2>4, <4>3, <4>5, AnyStatusCounts
    <3> QED BY <3>1, <3>2
  <2> QED BY <2>3, <2>4
<1> QED BY <1>1, DocInvStart, DocInvStep, PTL DEF Spec
=============================================================================

------------------------------ MODULE GitCommit ------------------------------
(***************************************************************************)
(* The oracle over commit messages: which commits record a decision, of    *)
(* which tier and in how many parts, and the segmentation they make for    *)
(* the binder.                                                             *)
(*                                                                         *)
(* A commit is [sha, epoch, merge, subject, body, files]. A sentence is    *)
(* [clauses, words, vague, brackets, short]: clauses are what a comma or   *)
(* "and" separates, each [text, phrase, complete] with phrase: one of      *)
(* DECISION_PHRASES, complete: a decision clause of its own. vague: the    *)
(* first word is churn. A subject is [skip, type, bang, scope, reverts,    *)
(* sentence], a body [footer, reverts, lines] with sentences for lines.    *)
(* Files are numbers in the order of their paths. What a part chooses and  *)
(* rejects (polarity) and who committed are left out.                      *)
(***************************************************************************)
EXTENDS Pipeline, FiniteSets

CONSTANTS
  MaxFilesPerCommit, \* MAX_FILES_PER_COMMIT
  SeqGap             \* the seqs set apart for each commit

ASSUME GitAssumption ==
  /\ MaxFilesPerCommit \in Nat /\ SeqGap \in Nat
  /\ MaxFilesPerCommit < SeqGap
  /\ MaxBindGap >= 1  \* the second between the decisions of a commit and its files

HasPhrase(sentence) == \E i \in DOMAIN sentence.clauses : sentence.clauses[i].phrase

IsRevert(c) == c.subject.type = "revert" \/ c.subject.reverts \/ c.body.reverts

ArchTypes == {"feat", "refactor", "perf"}

IsArch(c) == c.subject.type \in ArchTypes

(* A type alone says little: the subject needs a few words, none of churn. *)
ArchIsSubstantive(subject) ==
  /\ subject.sentence.words >= 2
  /\ ~subject.sentence.vague
  /\ subject.scope \/ subject.sentence.words >= 3

Explicit(c) ==
  \/ c.subject.bang \/ c.body.footer
  \/ IsRevert(c)
  \/ HasPhrase(c.subject.sentence)
  \/ \E i \in DOMAIN c.body.lines : HasPhrase(c.body.lines[i])

(* The place of the first line of the body that decides, 0 if none does.   *)
FirstDecisionLine(body) == SelectInSeq(body.lines, HasPhrase)

(* The sentence that stands for the decision.                              *)
EpitomeSource(c) ==
  LET line == FirstDecisionLine(c.body)
  IN  IF \/ HasPhrase(c.subject.sentence) \/ IsArch(c)
         \/ c.subject.bang \/ IsRevert(c) \/ line = 0
      THEN c.subject.sentence ELSE c.body.lines[line]

FactStatus(c) ==
  CASE Explicit(c) -> "Observed"
    [] ~Explicit(c) /\ IsArch(c) /\ ArchIsSubstantive(c.subject) ->
         "DeterministicallyDerived"
    [] OTHER -> "None"

(* classify_commit returns a decision.                                     *)
Decides(c) ==
  /\ c.subject.sentence.clauses # <<>>
  /\ ~c.subject.skip
  /\ FactStatus(c) # "None"
  /\ ~EpitomeSource(c).short

(* A bundle is split only when every part is a decision of its own.        *)
SplitCoordinated(sentence) ==
  IF /\ ~sentence.brackets
     /\ Len(sentence.clauses) >= 2
     /\ \A i \in DOMAIN sentence.clauses : sentence.clauses[i].complete
  THEN [i \in DOMAIN sentence.clauses |-> <<sentence.clauses[i].text>>]
  ELSE <<[i \in DOMAIN sentence.clauses |-> sentence.clauses[i].text]>>

-----------------------------------------------------------------------------
(* Broken variant, for mutation only: one session for the repository.      *)
SessionOfAll(c) == <<"git", "repo">>

(* git_segmentation. The i-th commit has the seqs from SeqGap * (i - 1) on *)
(* and a session of its own, its files come a second after its decisions.  *)
SessionOf(c) == <<"git", c.sha>>

BaseSeq(i) == SeqGap * (i - 1)

CommitDecisions(c, i) ==
  LET parts == SplitCoordinated(EpitomeSource(c))
  IN  [k \in DOMAIN parts |->
        [session |-> SessionOf(c), seq |-> BaseSeq(i) + k - 1, ts |-> c.epoch,
         sha |-> c.sha, epitome |-> parts[k], tier |-> FactStatus(c),
         superseded_by |-> NoMark]]

CommitEpisodes(c, i) ==
  LET count == IF Len(c.files) < MaxFilesPerCommit THEN Len(c.files) ELSE MaxFilesPerCommit
  IN  {[session |-> SessionOf(c), seq |-> BaseSeq(i) + j, sha |-> c.sha,
        rec |-> [ts |-> c.epoch + 1, path |-> c.files[j]]] : j \in 1 .. count}

DecisionsOfAll(commits) ==
  LET upTo[i \in 0 .. Len(commits)] ==
        IF i = 0 THEN <<>>
        ELSE IF Decides(commits[i]) THEN upTo[i - 1] \o CommitDecisions(commits[i], i)
        ELSE upTo[i - 1]
  IN  upTo[Len(commits)]

GitSegmentation(commits) ==
  [decisions |-> DecisionsOfAll(commits),
   episodes  |-> UNION {CommitEpisodes(commits[i], i) :
                          i \in {n \in DOMAIN commits : Decides(commits[n])}}]

(* mine_commit_nodes: the decisions, the episodes and what the binder of   *)
(* the transcripts makes of them.                                          *)
MineCommitNodes(commits) ==
  LET seg == GitSegmentation(commits)
  IN  [decisions |-> ToSet(seg.decisions), episodes |-> seg.episodes,
       edges |-> BindAll(seg.decisions, seg.episodes)]

(* The elements of a set in a strict order of all of them.                 *)
Sorted(set, Before(_, _)) ==
  CHOOSE s \in [1 .. Cardinality(set) -> set] :
    \A i, j \in 1 .. Cardinality(set) : i < j => Before(s[i], s[j])

(* The files of a commit, each once.                                       *)
SortFiles(files) == Sorted(ToSet(files), <)

(* cmd_git sorts the commits by committer epoch, then sha.                 *)
OlderFirst(a, b) == a.epoch < b.epoch \/ (a.epoch = b.epoch /\ a.sha < b.sha)

SortCommits(commits) == Sorted(commits, OlderFirst)
=============================================================================

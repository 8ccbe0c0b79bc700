------------------------------- MODULE History -------------------------------
(***************************************************************************)
(* Where decisions come from, over time: memscribe git mines the commits   *)
(* in two passes while commits go on landing or are rewritten, a record of *)
(* a decision is edited while it is classified, and a turn is talked about *)
(* a decision. A history is one of commits, of a document or of a turn;    *)
(* the three sources share nothing.                                        *)
(***************************************************************************)
EXTENDS GitCommit, GovernanceDoc, Turn

CONSTANTS
  Histories,   \* subset of {"commits", "document", "turn"}
  Changes,     \* what a commit can be: a commit without sha and epoch
  Shas,        \* the shas there are, in their order
  Epochs,      \* the clocks of committers
  MaxCount,    \* --max-count; 0 for no limit
  FirstDocs,   \* documents as they are first written
  Words,       \* the statuses an author records
  MaxEdits     \* bound: edits of the document

IsDoc(d) ==
  /\ d = [name |-> d.name, blank |-> d.blank, front |-> d.front, bullet |-> d.bullet,
          section |-> d.section, suffix |-> d.suffix, rows |-> d.rows, nygard |-> d.nygard,
          madr |-> d.madr, toc |-> d.toc, kep |-> d.kep, marker |-> d.marker]
  /\ d.section \in Seq(Words)

(* What a commit says and touches is a sequence each.                      *)
IsSentence(s) == s.clauses \in Seq(ToSet(s.clauses))

IsChange(c) ==
  /\ c.files \in Seq(Nat)
  /\ IsSentence(c.subject.sentence)
  /\ c.body.lines \in Seq(ToSet(c.body.lines))
  /\ \A s \in ToSet(c.body.lines) : IsSentence(s)

ASSUME HistoryAssumption ==
  /\ Histories \subseteq {"commits", "document", "turn"}
  /\ Shas \subseteq Nat /\ Epochs \subseteq Nat
  /\ MaxCount \in Nat /\ MaxEdits \in Nat
  /\ \A c \in Changes : IsChange(c)
  /\ None \notin Words
  /\ \A d \in FirstDocs : IsDoc(d) /\ \A at \in ToSet(Positions) : StatusAt(d, at) = None

VARIABLES
  kind,      \* which history this is
  log,       \* the commits that git log walks, oldest first
  gone,      \* the commits that were rewritten
  messages,  \* what the first pass read
  listed,    \* the commits that the second pass listed
  mined,     \* what was mined
  phase,     \* of memscribe git: "idle", "files" (between the passes), "done"
  doc,       \* the document
  edits      \* the statuses recorded in it, each [at, word]

gitVars == <<log, gone, messages, listed, mined, phase>>
docVars == <<doc, edits>>
vars == <<kind, gitVars, docVars, turnVars>>

Nothing == [decisions |-> {}, episodes |-> {}, edges |-> {}]

Init ==
  /\ kind \in Histories
  /\ log = <<>> /\ gone = {} /\ messages = {} /\ listed = {}
  /\ mined = Nothing /\ phase = "idle"
  /\ doc \in (IF kind = "document" THEN FirstDocs ELSE {<<>>})
  /\ edits = <<>>
  /\ InitTurn

-----------------------------------------------------------------------------
Commit(change, sha, epoch) ==
  [sha |-> sha, epoch |-> epoch, merge |-> change.merge, subject |-> change.subject,
   body |-> change.body, files |-> change.files]

UnusedShas == Shas \ {c.sha : c \in ToSet(log) \cup gone}

Land(change, sha, epoch) ==
  /\ kind = "commits"
  /\ sha \in UnusedShas
  /\ log' = Append(log, Commit(change, sha, epoch))
  /\ UNCHANGED <<kind, gone, messages, listed, mined, phase, docVars, turnVars>>

(* An amended commit has another sha and may have other files.             *)
Amend(change, sha) ==
  /\ kind = "commits" /\ log # <<>>
  /\ sha \in UnusedShas
  /\ log' = Append(Front(log), Commit(change, sha, Last(log).epoch))
  /\ gone' = gone \cup {Last(log)}
  /\ UNCHANGED <<kind, messages, listed, mined, phase, docVars, turnVars>>

(* git log --no-merges --max-count: the latest commits that are no merges. *)
GitLog ==
  LET plain == {i \in DOMAIN log : ~log[i].merge}
  IN  {log[i] : i \in {n \in plain : \/ MaxCount = 0
                                     \/ Cardinality({m \in plain : m > n}) < MaxCount}}

(* memscribe git is run: the first pass.                                   *)
ReadMessages ==
  /\ kind = "commits" /\ phase # "files"
  /\ messages' = {[c EXCEPT !.files = <<>>] : c \in GitLog}
  /\ phase' = "files"
  /\ listed' = {} /\ mined' = Nothing
  /\ UNCHANGED <<kind, log, gone, docVars, turnVars>>

(* Broken variant, for mutation only: both passes list the same commits.   *)
FilesAtSamePlace(c, read) ==
  LET older == {m \in messages : OlderFirst(m, c)}
      here  == {r \in read : Cardinality({x \in read : OlderFirst(x, r)}) = Cardinality(older)}
  IN  IF here = {} THEN <<>> ELSE SortFiles((CHOOSE r \in here : TRUE).files)

(* The files of the second pass by their sha; a commit it did not list has *)
(* none.                                                                   *)
FilesOf(c, read) ==
  LET of == {r \in read : r.sha = c.sha}
  IN  IF of = {} THEN <<>> ELSE SortFiles((CHOOSE r \in of : TRUE).files)

WithFiles(read) == {[c EXCEPT !.files = FilesOf(c, read)] : c \in messages}

(* The second pass, and everything after it.                               *)
ReadFiles ==
  /\ phase = "files"
  /\ listed' = {c.sha : c \in GitLog}
  /\ mined' = MineCommitNodes(SortCommits(WithFiles(GitLog)))
  /\ phase' = "done"
  /\ UNCHANGED <<kind, log, gone, messages, docVars, turnVars>>

-----------------------------------------------------------------------------
(* An author records a status at one of the positions.                     *)
WriteAt(at, word) ==
  CASE at = "front"   -> [doc EXCEPT !.front =
                           <<[keys |-> FrontKeys(doc) \cup {"other"}, status |-> word,
                              ban |-> FALSE]>>]
    [] at = "bullet"  -> [doc EXCEPT !.bullet = word]
    [] at = "section" -> [doc EXCEPT !.section = Append(@, word)]
    [] at = "suffix"  -> [doc EXCEPT !.suffix = word]

Record(at, word) ==
  /\ kind = "document" /\ Len(edits) < MaxEdits
  /\ doc' = WriteAt(at, word)
  /\ edits' = Append(edits, [at |-> at, word |-> word])
  /\ UNCHANGED <<kind, gitVars, turnVars>>

(* The last placeholder of a template is filled in.                        *)
FillIn ==
  /\ kind = "document" /\ doc.blank
  /\ doc' = [doc EXCEPT !.blank = FALSE]
  /\ UNCHANGED <<kind, gitVars, edits, turnVars>>

(* The turn goes on, or a file is edited in its session.                   *)
TalkOn ==
  /\ kind = "turn"
  /\ Talk
  /\ UNCHANGED <<kind, gitVars, docVars>>

Next ==
  \/ \E change \in Changes, sha \in Shas, epoch \in Epochs : Land(change, sha, epoch)
  \/ \E change \in Changes, sha \in Shas : Amend(change, sha)
  \/ ReadMessages
  \/ ReadFiles
  \/ \E at \in ToSet(Positions), word \in Words : Record(at, word)
  \/ FillIn
  \/ TalkOn

Spec == Init /\ [][Next]_vars

-----------------------------------------------------------------------------
CommitOf(sha) == CHOOSE c \in ToSet(log) \cup gone : c.sha = sha

FirstFiles(c) ==
  LET files == SortFiles(c.files)
  IN  {files[j] : j \in {n \in DOMAIN files : n <= MaxFilesPerCommit}}

(* Whatever landed or was rewritten between the two passes, a decision is  *)
(* tied to the files of its own commit, to all of them up to the cap, and  *)
(* to none if the second pass no longer lists that commit.                 *)
FilesComeFromTheirCommit ==
  \A d \in mined.decisions :
    {e.episode.rec.path : e \in {b \in mined.edges : b.episode.sha = d.sha}} =
      (IF d.sha \in listed THEN FirstFiles(CommitOf(d.sha)) ELSE {})

(* Of commits within the binder's half hour, or of one instant, none takes *)
(* the files of another; of the parts of a bundle the last takes them all. *)
LastPartGovernsItsCommit ==
  \A e \in mined.edges :
    /\ e.decision.sha = e.episode.sha
    /\ \A d \in mined.decisions : d.sha = e.decision.sha => d.seq <= e.decision.seq

(* The last edit at the strongest position that was ever used.             *)
Rank(at) == CHOOSE i \in DOMAIN Positions : Positions[i] = at

Prevails(i) ==
  \A j \in DOMAIN edits :
    \/ Rank(edits[i].at) < Rank(edits[j].at)
    \/ edits[i].at = edits[j].at /\ j <= i

(* The words the code takes for accepted although only "accepted" itself is *)
(* to put a record in force ("implemented", "published" and "final" "are    *)
(* NOT authority-equivalent", governance_doc.rs:26-29 and 107-110). Both    *)
(* properties leave the records out whose force hangs on such a word: there *)
(* the code contradicts that doc.                                           *)
Synonyms == AcceptedWords \ {"accepted"}

(* A record that is recognized is in force exactly when the last status at *)
(* its strongest position says accepted, however it was edited to get      *)
(* there: a record that was retired there stays retired until it is        *)
(* accepted there again. Left out is a last status that is a synonym.      *)
LastWordDecides ==
  \A i \in DOMAIN edits :
    Prevails(i) /\ edits[i].word \notin Synonyms /\ doc.rows = <<>> /\ ~doc.kep =>
      \A found \in ClassifyGovernanceDoc(doc) :
        found.effective <=> edits[i].word = "accepted"

(* Nothing governs that no one accepted: of the documents without any      *)
(* synonym those are in force that say accepted, in an edit or in the      *)
(* first row of a table, and MADR records that never had a status          *)
(* (governance_doc.rs:26-29).                                              *)
NothingGovernsUnsaid ==
  /\ kind = "document" /\ InForce(doc)
  /\ \A i \in DOMAIN edits : edits[i].word \notin Synonyms
  /\ doc.rows # <<>> => Head(doc.rows) \notin Synonyms
  => \/ \E i \in DOMAIN edits : edits[i].word = "accepted"
     \/ doc.madr /\ edits = <<>>
     \/ doc.rows # <<>> /\ Head(doc.rows) = "accepted"
=============================================================================

---------------------------- MODULE GovernanceDoc ----------------------------
(***************************************************************************)
(* The oracle over markdown files: whether a file is a governance document *)
(* and whether what it records is in force.                                *)
(*                                                                         *)
(* A doc is [name, blank, front, bullet, section, suffix, rows, nygard,    *)
(* madr, toc, kep, marker]. name: "record", "numbered" (0001-...),         *)
(* "never" (NEVER_DECISION_FILENAMES) or "template". blank: the text still *)
(* holds a placeholder. front: <<>> or the front matter, [keys, status,    *)
(* ban], keys of "scope", "publishing", "issue", "other". A status is a    *)
(* word or None; section is the lines under "## Status", rows the status   *)
(* cells of the first decisions table. nygard and madr: the headings of    *)
(* that family are there. toc: nothing but links. kep and marker: what the *)
(* caller saw beside the file. Title and id are left out.                  *)
(***************************************************************************)
EXTENDS Naturals, Sequences, SequencesExt

None == "none"

(* Of each class of the vocabulary, the words that a doc may hold here.    *)
ProposedWords == {"proposed", "draft", "discussion", "submitted", "provisional"}
AcceptedWords ==
  {"accepted", "approved", "agreed", "decided", "active", "final", "implemented",
   "done", "published", "released"}
RejectedWords   == {"rejected", "withdrawn", "abandoned", "closed"}
DeprecatedWords == {"deprecated", "obsolete", "historic", "discontinued"}
SupersededWords == {"superseded", "superceded", "replaced"}

(* canonicalize_status; None for a word outside the vocabulary.            *)
CanonicalizeStatus(word) ==
  CASE word \in SupersededWords -> "superseded"
    [] word = "amended"         -> "amended"
    [] word \in ProposedWords   -> "proposed"
    [] word \in AcceptedWords   -> "accepted"
    [] word \in RejectedWords   -> "rejected"
    [] word \in DeprecatedWords -> "deprecated"
    [] OTHER                    -> None

IsTemplateOrPlaceholder(doc) == doc.name = "template" \/ doc.blank

HasFrontMatter(doc) == doc.front # <<>>

FrontKeys(doc) == IF HasFrontMatter(doc) THEN doc.front[1].keys ELSE {}

FrontStatus(doc) == IF HasFrontMatter(doc) THEN doc.front[1].status ELSE None

(* The keys besides status; without any the front matter says nothing.     *)
OnlyScopeOrPublishingKeys(doc) ==
  /\ FrontKeys(doc) # {} /\ FrontStatus(doc) = None
  /\ FrontKeys(doc) \subseteq {"scope", "publishing"}

LooksLikePublishing(doc) ==
  "publishing" \in FrontKeys(doc) \/ OnlyScopeOrPublishingKeys(doc)

LooksLikeIndexOrToc(doc) == doc.toc /\ ~doc.nygard /\ ~doc.madr

(* Broken variant, for mutation only: the first line of the section holds. *)
FirstLineOfSection(doc) == IF doc.section = <<>> THEN None ELSE Head(doc.section)

(* The last line of the section holds: adr-tools appends to it.            *)
SectionStatus(doc) == IF doc.section = <<>> THEN None ELSE Last(doc.section)

LooksLikeNumberedTutorial(doc) ==
  /\ doc.name = "numbered"
  /\ {doc.bullet, SectionStatus(doc), FrontStatus(doc)} = {None}
  /\ ~doc.nygard /\ ~doc.madr

Lookalike(doc) ==
  \/ doc.name = "never"
  \/ LooksLikePublishing(doc)
  \/ "issue" \in FrontKeys(doc)
  \/ LooksLikeIndexOrToc(doc)
  \/ LooksLikeNumberedTutorial(doc)

(* Where a status may stand, the position that counts most first.          *)
Positions == <<"front", "bullet", "section", "suffix">>

StatusAt(doc, at) ==
  CASE at = "front"   -> FrontStatus(doc)
    [] at = "bullet"  -> doc.bullet
    [] at = "section" -> SectionStatus(doc)
    [] at = "suffix"  -> doc.suffix

(* The status that counts: that of the first position that has one.        *)
Status(doc) ==
  LET first == SelectInSeq(Positions, LAMBDA at : StatusAt(doc, at) # None)
  IN  IF first = 0 THEN None ELSE StatusAt(doc, Positions[first])

-----------------------------------------------------------------------------
RecallOnly(class) ==
  [class |-> class, state |-> "unknown", effective |-> FALSE, quality |-> "RecallOnly",
   ban |-> FALSE]

(* A status out of the vocabulary is never guessed.                        *)
OfStatus(word) ==
  LET canon == CanonicalizeStatus(word)
  IN  IF canon = None THEN RecallOnly("DecisionRecord")
      ELSE [class |-> "DecisionRecord", state |-> canon, effective |-> canon = "accepted",
            quality |-> "FullParse", ban |-> FALSE]

ClassifyDecisionsTable(rows) ==
  IF Head(rows) = None THEN RecallOnly("DecisionRecord") ELSE OfStatus(Head(rows))

(* Broken variant, for mutation only: no status means in force.            *)
AcceptedBySilence(doc) == {OfStatus("accepted")}

(* No status anywhere: MADR calls that accepted, Nygard has forgotten it.  *)
ClassifyNoStatus(doc) ==
  IF doc.madr THEN {OfStatus("accepted")}
  ELSE IF doc.nygard \/ doc.marker THEN {RecallOnly("DecisionRecord")} ELSE {}

IsDecisionShaped(doc) ==
  doc.nygard \/ doc.madr \/ (HasFrontMatter(doc) /\ ~OnlyScopeOrPublishingKeys(doc))

WithBan(doc, found) ==
  [found EXCEPT !.ban = IF HasFrontMatter(doc) THEN doc.front[1].ban ELSE FALSE]

(* classify_governance_doc: at most one classification.                    *)
ClassifyGovernanceDoc(doc) ==
  CASE IsTemplateOrPlaceholder(doc) -> {}
    [] ~IsTemplateOrPlaceholder(doc) /\ doc.kep -> {RecallOnly("ProposalInFlight")}
    [] ~IsTemplateOrPlaceholder(doc) /\ ~doc.kep ->
         IF Lookalike(doc) THEN {}
         ELSE IF doc.rows # <<>> THEN {ClassifyDecisionsTable(doc.rows)}
         ELSE IF ~IsDecisionShaped(doc) THEN {}
         ELSE {WithBan(doc, found) : found \in
                 IF Status(doc) = None THEN ClassifyNoStatus(doc)
                 ELSE {OfStatus(Status(doc))}}

InForce(doc) == \E found \in ClassifyGovernanceDoc(doc) : found.effective
=============================================================================

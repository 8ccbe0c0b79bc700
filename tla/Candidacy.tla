----------------------------- MODULE Candidacy -----------------------------
(***************************************************************************)
(* Whether the text of a turn seeds a decision, and at which tier: the     *)
(* projection to prose, the rule table, the sentence a decision is         *)
(* anchored on, its antecedent, and the score in the f32 arithmetic of the *)
(* code.  Everything is an operator.                                       *)
(*                                                                         *)
(* A text is a sequence of sentences [line, stopped, words, rules, signs]: *)
(* the line a sentence is on (a number left out is a blank line), whether  *)
(* a full stop ends it, its words, the rules whose pattern it matches, and *)
(* what else patterns and word lists find in it.                           *)
(***************************************************************************)
EXTENDS Integers, Sequences, SequencesExt, FiniteSetsExt

Of(category, tier, ids) ==
  [i \in DOMAIN ids |-> [id |-> ids[i], category |-> category, tier |-> tier]]

(* default_rules, in table order; every id is short for category.id.       *)
Rules ==
  Of("DecisionVerb", "Strong", <<"use", "decide", "select_prep", "polite_select">>) \o
  Of("Rejection", "Strong", <<"instead_of", "rather_than", "replace_swap",
                              "move_away_from", "do_away_with">>) \o
  Of("Rejection", "Soft", <<"deprecate">>) \o
  Of("Ban", "Strong", <<"negated_use", "no_dependency", "forbid", "stop_using">>) \o
  Of("Ban", "Soft", <<"avoid">>) \o
  Of("Imperative", "Soft", <<"must_always_never">>) \o
  Of("Imperative", "Strong", <<"ensure">>) \o
  Of("Imperative", "Soft", <<"standing_subject">>) \o
  Of("Memory", "Strong", <<"remember", "standing_directive">>) \o
  Of("Confirmation", "Soft", <<"idiom">>) \o
  Of("ActionRequest", "Soft", <<"request_guarded">>) \o
  Of("ActionRequest", "Strong", <<"create_strong", "restructure_strong">>) \o
  Of("ActionRequest", "Soft", <<"restructure_into">>) \o
  Of("ActionRequest", "Strong", <<"value_change", "optimize_strong">>) \o
  Of("ActionRequest", "Soft", <<"bare_imperative">>)

-----------------------------------------------------------------------------
(* human_prose: junk lines and blank lines go, and a text with too few     *)
(* words left is none.                                                     *)
Junk(text, s) == \E t \in ToSet(text) : t.line = s.line /\ "junk" \in t.signs

Clean(text) ==
  LET kept  == SelectSeq(text, LAMBDA s : ~Junk(text, s))
      words == FoldLeft(LAMBDA n, s : n + s.words, 0, kept)
  IN  IF words < 3 THEN <<>> ELSE kept

(* evaluate: each rule that matches, at the first sentence it matches in.  *)
Markers(prose) ==
  LET fired == UNION {s.rules : s \in ToSet(prose)}
      hits  == SelectSeq(Rules, LAMBDA r : r.id \in fired)
  IN  [i \in DOMAIN hits |->
         [rule |-> hits[i],
          at   |-> SelectInSeq(prose, LAMBDA s : hits[i].id \in s.rules)]]

(* is_committal, from its cheapest yes to its last no.                     *)
IsCommittal(s) ==
  \/ "request" \in s.signs
  \/ /\ "asks" \notin s.signs
     /\ "imperative" \in s.signs
  \/ /\ "asks" \notin s.signs
     /\ s.words >= 4
     /\ "subordinate" \in s.signs => s.words >= 8
     /\ "person" \in s.signs \/ s.signs \cap {"third_person", "code_lead", "code", "tagline"} = {}
     /\ s.signs \cap {"describes_code", "doc_intro", "vague", "infinitive"} = {}

EpitomePriority(category) ==
  CASE category = "Ban" -> 0
    [] category \in {"DecisionVerb", "ActionRequest", "Rejection"} -> 1
    [] category = "Memory" -> 2
    [] category = "Imperative" -> 3
    [] category = "Confirmation" -> 4

(* best_committal_offset: the sentence of the marker of the best category  *)
(* among those in committal sentences, the first in rule order; 0: none.   *)
Anchor(prose) ==
  LET markers == SelectSeq(Markers(prose), LAMBDA m : IsCommittal(prose[m.at]))
      rank(i) == EpitomePriority(markers[i].rule.category)
      best    == {i \in DOMAIN markers : \A j \in DOMAIN markers :
                    rank(i) < rank(j) \/ (rank(i) = rank(j) /\ i <= j)}
  IN  IF best = {} THEN 0 ELSE markers[CHOOSE i \in best : TRUE].at

(* Whether the walk back goes on from sentence i: a full stop before a     *)
(* line break ends it, a bare line break does not.  Its test for a blank   *)
(* line finds none in prose.                                               *)
WalksBack(prose, i) ==
  i > 1 /\ (prose[i - 1].line = prose[i].line \/ ~prose[i - 1].stopped)

(* epitome_with_antecedent: the first sentence of the span that ends at at.*)
EpitomeStart(prose, at) ==
  LET starts == {j \in 1 .. at : /\ at - j <= 2
                                 /\ \A i \in j + 1 .. at : WalksBack(prose, i)}
      start  == Min(starts)
  IN  IF \/ "unbound" \notin prose[at].signs
         \/ \E i \in start .. at : "long" \in prose[i].signs
      THEN at ELSE start

Epitome(prose, at) == SubSeq(prose, EpitomeStart(prose, at), at)

-----------------------------------------------------------------------------
(* f32, in units of 2^-29: h hundredths are h * 2^27 / 25 of them, and     *)
(* a sum is rounded to the nearest multiple of its unit in the last place, *)
(* to the even one of two.  No value here is below 2^-5 but 0 and exact    *)
(* differences.                                                            *)
One == 536870912

LastPlace(v) == Min({64} \cup {p \in {2, 4, 8, 16, 32} : v < One \div (32 \div p)})

(* more: the value is a fraction of a unit above v.                        *)
Nearest(v, more) ==
  LET u == LastPlace(v)
      q == v \div u
      r == v % u
      up == 2 * r > u \/ (2 * r = u /\ (more \/ q % 2 = 1))
  IN  IF up THEN (q + 1) * u ELSE q * u

F32 ==
  [h \in 0 .. 100 |-> Nearest(h * 5368709 + (h * 3) \div 25, (h * 3) % 25 # 0)]

Plus(a, b) == IF a + b >= 0 THEN Nearest(a + b, FALSE) ELSE -Nearest(-(a + b), FALSE)

Clamp(v) == IF v < 0 THEN 0 ELSE IF v > One THEN One ELSE v

-----------------------------------------------------------------------------
(* What is said of an epitome: somewhere in it, at its head, at its end.   *)
Says(epitome, sign) == \E s \in ToSet(epitome) : sign \in s.signs
Opens(epitome, sign) == sign \in Head(epitome).signs

HasResolvedChoice(epitome) == Says(epitome, "choice") \/ Says(epitome, "mechanism")

IsDecisionalAct(epitome) ==
  /\ Says(epitome, "decisional_verb")
  /\ "asks" \notin Last(epitome).signs /\ ~Opens(epitome, "opener")
  /\ ~Says(epitome, "directive")

IsQuestion(epitome) ==
  \/ "asks" \in Last(epitome).signs
  \/ Opens(epitome, "question_head") \/ Says(epitome, "embedded_question")

(* A pronoun for a subject, and nothing in the span it could stand for.    *)
Dangles(epitome) == Opens(epitome, "unbound") /\ ~Says(epitome, "referent")

(* Zeroed whatever else speaks for it.                                     *)
NeverADecision(epitome) ==
  \/ Says(epitome, "noise")
  \/ Opens(epitome, "process_head") \/ Says(epitome, "reports")
  \/ Opens(epitome, "agent_head") /\ ~HasResolvedChoice(epitome)
  \/ Dangles(epitome)

StrongestTier(markers) ==
  LET tiers == {m.rule.tier : m \in {n \in ToSet(markers) : n.rule.category # "Confirmation"}}
  IN  IF "Strong" \in tiers THEN "Strong" ELSE IF "Soft" \in tiers THEN "Soft" ELSE "None"

Bonus(category) ==
  CASE category \in {"DecisionVerb", "Rejection"} -> 20
    [] category = "Ban" -> 18
    [] category = "ActionRequest" -> 12
    [] category \in {"Imperative", "Memory"} -> 10
    [] category = "Confirmation" -> 0

(* Broken variant, for mutation only: the bonuses add up.                  *)
SummedBonus(markers) == FoldLeft(LAMBDA n, m : n + Bonus(m.rule.category), 0, markers)

CategoryBonus(markers) == Max({Bonus(m.rule.category) : m \in ToSet(markers)})

When(condition, h) == IF condition THEN <<h>> ELSE <<>>

(* What score_decision_candidacy adds up, in its order, in hundredths.     *)
Terms(epitome, markers, edited) ==
  <<[Strong |-> 60, Soft |-> 35, None |-> 30][StrongestTier(markers)],
    CategoryBonus(markers)>>
  \o When(HasResolvedChoice(epitome), 15)
  \o When(Says(epitome, "mechanism"), 10)
  \o When(IsDecisionalAct(epitome), 12)
  \o <<IF edited THEN 25 ELSE 5>>
  \o When(Says(epitome, "ban"), 10)
  \o When(IsQuestion(epitome), -30)
  \o When(Opens(epitome, "unbound"), -15)

Signed(h) == IF h < 0 THEN -F32[-h] ELSE F32[h]

Score(epitome, markers, edited) ==
  IF NeverADecision(epitome) THEN 0
  ELSE Clamp(FoldLeft(LAMBDA sum, h : Plus(sum, Signed(h)), 0,
                      Terms(epitome, markers, edited)))

TierFor(score) ==
  IF score >= F32[85] THEN "Observed"
  ELSE IF score >= F32[65] THEN "DeterministicallyDerived"
  ELSE IF score >= F32[45] THEN "StatisticallyRanked" ELSE "None"

(* The anchor's subject is a pronoun that stays unexplained.               *)
Unlearnable(prose, at) ==
  "unbound" \in prose[at].signs /\ ~Says(Epitome(prose, at), "referent")

(* The arms of segment for a turn, user's or assistant's: its tier, "None" *)
(* for no decision.                                                        *)
IsMarked(text) == Markers(Clean(text)) # <<>>

TierAt(prose, at, edited) ==
  IF at = 0 \/ Unlearnable(prose, at) THEN "None"
  ELSE TierFor(Score(Epitome(prose, at), Markers(prose), edited))

TierOf(text, edited) ==
  LET prose == Clean(text)
  IN  TierAt(prose, Anchor(prose), edited)
=============================================================================

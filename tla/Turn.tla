-------------------------------- MODULE Turn --------------------------------
(***************************************************************************)
(* One turn as it is put together, sentence by sentence, in a session that *)
(* edits a file at some time or never, and what Candidacy makes of it.     *)
(***************************************************************************)
EXTENDS Candidacy, FiniteSets

CONSTANT Sentences  \* bound: what the first sentence can be, the second, ...

ASSUME TurnAssumption == \A i \in DOMAIN Sentences : IsFiniteSet(Sentences[i])

VARIABLES
  said,   \* what has been said so far
  edited  \* whether an edit of the session stands

turnVars == <<said, edited>>

InitTurn == said = <<>> /\ edited = FALSE

(* A sentence goes on the line of the one before it, if that has ended, on *)
(* the next line, or in a new paragraph.                                   *)
Lines ==
  IF said = <<>> THEN {1}
  ELSE LET last == Last(said)
       IN  {last.line + 1, last.line + 2} \cup (IF last.stopped THEN {last.line} ELSE {})

Say ==
  /\ Len(said) < Len(Sentences)
  /\ \E s \in Sentences[Len(said) + 1], line \in Lines :
       said' = Append(said, [line |-> line, stopped |-> s.stopped, words |-> s.words,
                             rules |-> s.rules, signs |-> s.signs])
  /\ UNCHANGED edited

Edit ==
  /\ ~edited /\ edited' = TRUE
  /\ UNCHANGED said

Talk == Say \/ Edit

-----------------------------------------------------------------------------
(* The same score in hundredths, by the names of what it counts.           *)
ExactScore(epitome, markers) ==
  LET kinds == {m.rule.category : m \in ToSet(markers)}
      tiers == {m.rule.tier : m \in {n \in ToSet(markers) : n.rule.category # "Confirmation"}}
      worth(condition, h) == IF condition THEN h ELSE 0
      sum == (CASE "Strong" \in tiers -> 60 [] tiers = {"Soft"} -> 35 [] tiers = {} -> 30)
             + (CASE kinds \cap {"DecisionVerb", "Rejection"} # {} -> 20
                  [] kinds \cap {"DecisionVerb", "Rejection"} = {} /\ "Ban" \in kinds -> 18
                  [] kinds \subseteq {"ActionRequest", "Imperative", "Memory", "Confirmation"}
                     /\ "ActionRequest" \in kinds -> 12
                  [] kinds \subseteq {"Imperative", "Memory", "Confirmation"}
                     /\ kinds # {"Confirmation"} -> 10
                  [] kinds = {"Confirmation"} -> 0)
             + worth(HasResolvedChoice(epitome), 15) + worth(Says(epitome, "mechanism"), 10)
             + worth(IsDecisionalAct(epitome), 12) + (IF edited THEN 25 ELSE 5)
             + worth(Says(epitome, "ban"), 10)
             - worth(IsQuestion(epitome), 30) - worth(Opens(epitome, "unbound"), 15)
  IN  IF NeverADecision(epitome) \/ sum < 0 THEN 0 ELSE IF sum > 100 THEN 100 ELSE sum

Floor(tier) == CASE tier = "Observed" -> 85
                 [] tier = "DeterministicallyDerived" -> 65
                 [] tier = "StatisticallyRanked" -> 45
                 [] tier = "None" -> 0

(* The tier is the one of the table of weights ("the top tier stays        *)
(* high-precision", segmenter.rs:1010-1013): f32 never lifts a turn above  *)
(* the tier of its exact sum, and costs it one only where the sum lies     *)
(* exactly on a threshold.                                                 *)
TierFollowsTheSum ==
  LET prose == Clean(said)
      at    == Anchor(prose)
  IN  at # 0 /\ ~Unlearnable(prose, at) =>
        LET sum  == ExactScore(Epitome(prose, at), Markers(prose))
            mine == Floor(TierOf(said, edited))
            due  == Max({f \in {0, 45, 65, 85} : f <= sum})
        IN  mine = due \/ (mine < due /\ sum = due)
=============================================================================

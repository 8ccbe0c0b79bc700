------------------------------ MODULE MCHistory ------------------------------
(***************************************************************************)
(* Commits of every tier, bundles, a revert, a merge and housekeeping,     *)
(* documents of every family, and turns whose second sentence comes to     *)
(* every sum of the weights after a first of another kind or none.         *)
(***************************************************************************)
EXTENDS History

Clause(text, phrase) == [text |-> text, phrase |-> phrase, complete |-> TRUE]

Text(clauses) ==
  [clauses |-> clauses, words |-> 4, vague |-> FALSE, brackets |-> FALSE, short |-> FALSE]

Plain == Text(<<[Clause("t", FALSE) EXCEPT !.complete = FALSE]>>)

Bundle == Text(<<Clause("t", TRUE), Clause("u", FALSE)>>)

Subject(type, sentence) ==
  [skip |-> FALSE, type |-> type, bang |-> FALSE, scope |-> FALSE, reverts |-> FALSE,
   sentence |-> sentence]

NoBody == [footer |-> FALSE, reverts |-> FALSE, lines |-> <<>>]

Change(subject, files) ==
  [merge |-> FALSE, subject |-> subject, body |-> NoBody, files |-> files]

MCChanges ==
  {Change(Subject(None, Bundle), <<2, 1, 3>>),
   Change(Subject("feat", [Plain EXCEPT !.words = 2]), <<1>>),
   [Change(Subject("fix", Plain), <<2>>) EXCEPT
      !.body.lines = <<Plain, [Bundle EXCEPT !.brackets = TRUE]>>],
   Change([Subject("feat", Plain) EXCEPT !.scope = TRUE], <<1, 2, 1>>),
   [Change(Subject(None, Plain), <<3>>) EXCEPT !.merge = TRUE, !.body.footer = TRUE]}

MCShas   == 1 .. 3
MCEpochs == 1 .. 2

-----------------------------------------------------------------------------
Doc(name) ==
  [name |-> name, blank |-> FALSE, front |-> <<>>, bullet |-> None, section |-> <<>>,
   suffix |-> None, rows |-> <<>>, nygard |-> FALSE, madr |-> FALSE, toc |-> FALSE,
   kep |-> FALSE, marker |-> FALSE]

FrontMatter(keys, ban) == <<[keys |-> keys, status |-> None, ban |-> ban]>>

MCFirstDocs ==
  {[Doc("numbered") EXCEPT !.madr = TRUE],
   [Doc("numbered") EXCEPT !.madr = TRUE, !.front = FrontMatter({"other"}, TRUE)],
   [Doc("record") EXCEPT !.nygard = TRUE, !.blank = TRUE],
   [Doc("record") EXCEPT !.nygard = TRUE, !.toc = TRUE],
   [Doc("numbered") EXCEPT !.marker = TRUE],
   [Doc("record") EXCEPT !.madr = TRUE, !.front = FrontMatter({"scope"}, FALSE)],
   [Doc("record") EXCEPT !.front = FrontMatter({"other"}, FALSE)],
   [Doc("record") EXCEPT !.nygard = TRUE, !.front = FrontMatter({"issue"}, FALSE)],
   [Doc("record") EXCEPT !.rows = <<"accepted", "superseded">>],
   [Doc("record") EXCEPT !.rows = <<"superseded", "accepted">>],
   [Doc("record") EXCEPT !.toc = TRUE],
   [Doc("never") EXCEPT !.nygard = TRUE],
   [Doc("never") EXCEPT !.kep = TRUE],
   [Doc("template") EXCEPT !.madr = TRUE]}

MCWords == {"accepted", "proposed", "superseded", "implemented", "ratified"}
-----------------------------------------------------------------------------
Sentence(stopped, words, rules, signs) ==
  [stopped |-> stopped, words |-> words, rules |-> rules, signs |-> signs]

Fired ==
  { {"use"}, {"instead_of"}, {"deprecate"}, {"negated_use"}, {"avoid"},
    {"must_always_never"}, {"ensure"}, {"remember"}, {"idiom"}, {"request_guarded"},
    {"create_strong"}, {"use", "avoid"}, {"ensure", "deprecate"}, {"must_always_never", "idiom"} }

(* A named mechanism is a referent.                                        *)
MCWide ==
  { Sentence(TRUE, 5, rules, {"person"} \cup choice \cup verb \cup ban \cup question \cup subject) :
      rules    \in Fired,
      choice   \in { {}, {"choice"}, {"mechanism", "referent"} },
      verb     \in { {}, {"decisional_verb"} },
      ban      \in { {}, {"ban"} },
      question \in { {}, {"embedded_question"} },
      subject  \in { {}, {"unbound"}, {"unbound", "referent"} } }

MCBefore ==
  { Sentence(TRUE, 3, {}, {}),
    Sentence(FALSE, 3, {}, {"referent"}),
    Sentence(FALSE, 4, {"must_always_never"}, {"unbound", "long"}),
    Sentence(TRUE, 4, {"idiom"}, {"asks"}),
    Sentence(TRUE, 9, {"use"}, {"junk"}) }

MCSentences == <<MCBefore, MCWide>>
=============================================================================

----------------------------- MODULE MCCapture -----------------------------
(* Capture with a handful of messages: a decision at three times, one that *)
(* only an edit lifts over the threshold, edits that stand or fail, a call *)
(* reported twice.                                                         *)
EXTENDS Capture

Sentence(rules) ==
  << [line |-> 1, stopped |-> TRUE, words |-> 5, rules |-> rules, signs |-> {"person"}] >>

Decides  == Sentence({"use"})
Confirms == Sentence({"idiom"})

Message(ts, human, text, call, result, path) ==
  [ts |-> ts, human |-> human, text |-> text, call |-> call, result |-> result, path |-> path]

MCShapes ==
  { Message(0, TRUE,  Decides,  NoCall, "none",   ""),
    Message(1, TRUE,  Confirms, NoCall, "none",   ""),
    Message(1, FALSE, Decides,  "c1",   "ok",     "a.rs"),
    Message(1, FALSE, <<>>,     "c1",   "failed", "a.rs"),
    Message(2, FALSE, <<>>,     "c2",   "ok",     "a.rs") }

MCEdits == { m \in MCShapes : m.result = "ok" }
=============================================================================

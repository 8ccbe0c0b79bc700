------------------------------ MODULE LineFeed ------------------------------
(***************************************************************************)
(* What a transcript tailer promises to its caller: the text of every file *)
(* only grows, and what has been fed to the caller is always the text up   *)
(* to the end of some complete line -- nothing skipped, nothing repeated,  *)
(* nothing torn -- and every complete line is fed in the end.              *)
(***************************************************************************)
EXTENDS Naturals, Sequences

CONSTANTS Files,  \* the watched transcripts
          Byte,   \* the bytes a transcript is made of
          NL      \* the newline byte

VARIABLES text,   \* text[f]: what the coding tool has written to f
          fed     \* fed[f]: what the caller has been given of f

feedVars == <<text, fed>>

(* t up to and including its n-th byte ends where a line ends.             *)
LineEnd(t, n) == n > 0 => t[n] = NL

Prefix(t, n) == SubSeq(t, 1, n)

Init ==
  /\ text = [f \in Files |-> <<>>]
  /\ fed  = [f \in Files |-> <<>>]

(* The tool appends one byte to f.                                         *)
Write(f, b) ==
  /\ text' = [text EXCEPT ![f] = Append(@, b)]
  /\ UNCHANGED fed

(* One batch: every file advances to the end of some complete line.        *)
Feed ==
  /\ \E reach \in [Files -> UNION {0 .. Len(text[f]) : f \in Files}] :
       /\ \A f \in Files : /\ Len(fed[f]) <= reach[f]
                           /\ reach[f] <= Len(text[f])
                           /\ LineEnd(text[f], reach[f])
       /\ fed' = [f \in Files |-> Prefix(text[f], reach[f])]
  /\ UNCHANGED text

(* A batch that hands over some unfed line of f.                           *)
FeedMore(f) == Feed /\ Len(fed'[f]) > Len(fed[f])

Next ==
  \/ \E f \in Files, b \in Byte : Write(f, b)
  \/ Feed

Safety == Init /\ [][Next]_feedVars

Spec == Safety /\ \A f \in Files : WF_feedVars(FeedMore(f))
=============================================================================

------------------------------ MODULE MCTailer ------------------------------
(* Tailer on small instances; the cfg files give the bounds. *)
EXTENDS Tailer

CONSTANTS x, nl  \* one byte of text, and the newline

MCByte == {x, nl}
MCOneFile == {1}
MCTwoFiles == 1 .. 2
=============================================================================

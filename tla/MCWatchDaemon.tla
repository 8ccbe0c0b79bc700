--------------------------- MODULE MCWatchDaemon ---------------------------
(* WatchDaemon on small instances; the cfg files give the bounds. *)
EXTENDS WatchDaemon

CONSTANTS x, nl

MCByte == {x, nl}
MCOneFile == {1}
MCTwoFiles == 1 .. 2
=============================================================================

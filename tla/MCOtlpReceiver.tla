--------------------------- MODULE MCOtlpReceiver ---------------------------
(* OtlpReceiver with a few clients; the cfg file gives the bounds. *)
EXTENDS OtlpReceiver

MCPeers == 1 .. 2
MCPoke == 0
=============================================================================

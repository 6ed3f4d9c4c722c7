--------------------------- MODULE MCRtspService ---------------------------
(***************************************************************************)
(* TLC instance of RtspService: two clients.                               *)
(***************************************************************************)
EXTENDS RtspService
=============================================================================

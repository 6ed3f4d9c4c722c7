-------------------------- MODULE MCRtspTransport --------------------------
(***************************************************************************)
(* TLC instance of RtspTransport.                                          *)
(***************************************************************************)
EXTENDS RtspTransport
=============================================================================

--------------------------- MODULE MCRtpTransport ---------------------------
(***************************************************************************)
(* TLC instance of RtpTransport: packets so small that several are within  *)
(* the limit of the queue, and so big that one exceeds the pace.           *)
(***************************************************************************)
EXTENDS RtpTransport

MCSizes == {6, 1400, 1600}
=============================================================================

-------------------------- MODULE MCOrderlyClients --------------------------
(***************************************************************************)
(* TLC instance of OrderlyClients.                                         *)
(***************************************************************************)
EXTENDS OrderlyClients
=============================================================================

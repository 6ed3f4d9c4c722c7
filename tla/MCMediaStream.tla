--------------------------- MODULE MCMediaStream ---------------------------
(***************************************************************************)
(* TLC instance of MediaStream: sessions and addresses are model values.   *)
(***************************************************************************)
EXTENDS MediaStream, TLC

Symmetry == Permutations(Session) \cup Permutations(Address)
=============================================================================

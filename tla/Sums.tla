-------------------------------- MODULE Sums --------------------------------
(***************************************************************************)
(* The sum of a list of numbers, by which the pools of buffers are counted *)
(* (Include/VBuffer.h, Include/VBufferT.h): added up from the front by a   *)
(* recursive function, about which ListLemmas states what the proofs use.  *)
(***************************************************************************)
EXTENDS Integers, Sequences

Total(s) ==
    LET upTo[k \in 0..Len(s)] == IF k = 0 THEN 0 ELSE upTo[k - 1] + s[k]
    IN upTo[Len(s)]
=============================================================================

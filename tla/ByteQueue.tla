----------------------------- MODULE ByteQueue -----------------------------
(***************************************************************************)
(* What a VBuffer (Include/VBuffer.h) promises to whoever puts data in and *)
(* takes data out: bytes leave it in the order they came, each one once,   *)
(* unless all of them are dropped.                                         *)
(***************************************************************************)
EXTENDS Naturals, Sequences

CONSTANT Data   \* the byte strings that are put in

VARIABLES
    queue,  \* the bytes in it
    out     \* what was taken out last

Init == queue = <<>> /\ out = <<>>

Put == \E data \in Data : queue' = queue \o data /\ UNCHANGED out

Take ==
    \E n \in 1..Len(queue) :
        /\ out' = SubSeq(queue, 1, n)
        /\ queue' = SubSeq(queue, n + 1, Len(queue))

Clear == queue' = <<>> /\ UNCHANGED out

Next == Put \/ Take \/ Clear

Spec == Init /\ [][Next]_<<queue, out>>
=============================================================================

----------------------------- MODULE StreamGate -----------------------------
(***************************************************************************)
(* What a MediaStream promises to whoever starts and stops it: a gate that *)
(* NAL units pass as a whole.  Packets leave only while the gate is open,  *)
(* the fragments of one unit leave one after the other and in order, and   *)
(* the gate never closes in the middle of a unit.                          *)
(***************************************************************************)
EXTENDS Naturals

CONSTANT MaxFragments   \* the most RTP packets a NAL unit is split into

VARIABLES
    gate,     \* TRUE between TransportStart and TransportStop
    packet    \* the last packet handed to RTP

Packet == [index : 1..MaxFragments, count : 1..MaxFragments, marker : BOOLEAN]

UnitComplete == packet.index = packet.count

Init ==
    /\ gate = FALSE
    /\ packet = [index |-> 1, count |-> 1, marker |-> FALSE]

\* TransportStart and TransportStop, each at one instant.
Open  == UnitComplete /\ gate' = TRUE  /\ UNCHANGED packet
Close == UnitComplete /\ gate' = FALSE /\ UNCHANGED packet

\* One packet: the first of a unit, or the one that follows the last packet.
Send(p) ==
    /\ gate
    /\ \/ UnitComplete /\ p.index = 1
       \/ ~UnitComplete /\ p.index = packet.index + 1 /\ p.count = packet.count
    /\ p.marker => p.index = p.count
    /\ packet' = p
    /\ UNCHANGED gate

Next == Open \/ Close \/ \E p \in Packet : Send(p)

Spec == Init /\ [][Next]_<<gate, packet>>
=============================================================================

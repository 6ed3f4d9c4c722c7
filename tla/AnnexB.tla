------------------------------- MODULE AnnexB -------------------------------
(***************************************************************************)
(* The scan for start codes that the feeder (RtspService/h264.h 13-61) and *)
(* the packetizer (Rtsp/MediaStreamH264.cpp 78-118) both do, on a sequence *)
(* of bytes.  Offsets count from 0, as in the code.                        *)
(***************************************************************************)
EXTENDS Naturals, Sequences, SequencesExt

Byte == 0..255

Drop(data, n) == SubSeq(data, n + 1, Len(data))

StartsAt(data, offset) == SubSeq(data, offset + 1, offset + 3) = <<0, 0, 1>>

\* (The first loop left out.)
SkipNothing(data) == data

\* The first loop: up to the first start code, or to the last four bytes.
SkipToStart(data) ==
    Drop(data, Min({n \in 0..Len(data) : Len(data) - n <= 4 \/ StartsAt(data, n)}))

\* The search for the end of the unit at the head of data: at the next start
\* code past its header, or where data ends.
NextStarts(data) == {n \in 4..(Len(data) - 3) : StartsAt(data, n)}

Skip(data) == IF NextStarts(data) = {} THEN Len(data) ELSE Min(NextStarts(data))

\* A zero in front of the next start code belongs to that start code.
Size(data) ==
    IF NextStarts(data) = {} THEN Len(data)
    ELSE IF data[Skip(data)] = 0 THEN Skip(data) - 1 ELSE Skip(data)

\* Where the units of data begin, and where what is left of it does.
Cuts(data) ==
    LET from[n \in 0..Len(data)] ==
            <<n>> \o IF Len(data) - n <= 4 THEN <<>> ELSE from[n + Skip(Drop(data, n))]
    IN from[0]

\* What one call of h264_split_nal puts in the list, and what it leaves.
Split(data) ==
    LET d == SkipToStart(data)
        c == Cuts(d)
    IN [nals |-> [k \in 1..(Len(c) - 1) |->
                    LET tail == Drop(d, c[k]) IN SubSeq(tail, 1, Size(tail))],
        rest |-> Drop(d, Last(c))]

\* Of a unit with its start code.
NalHeader(nal) == nal[4]
NalType(nal)   == NalHeader(nal) % 32

-----------------------------------------------------------------------------
(* The reference: the NAL units of a byte stream by the positions of its    *)
(* start codes alone.                                                       *)

\* The unit whose start code is at n: up to the next start code, without a zero
\* that belongs to that.
UnitAt(data, n) ==
    LET next == {m \in (n + 3)..(Len(data) - 3) : StartsAt(data, m)}
        end  == Min(next)
    IN IF next = {} THEN Drop(data, n + 3)
       ELSE SubSeq(data, n + 4, IF end > n + 3 /\ data[end] = 0 THEN end - 1 ELSE end)

Units(data) ==
    FlattenSeq([k \in 1..(Len(data) - 2) |->
                   IF StartsAt(data, k - 1) THEN <<UnitAt(data, k - 1)>> ELSE <<>>])

\* The same with a start code in front of each.
NalsOf(data) ==
    LET units == Units(data) IN [k \in DOMAIN units |-> <<0, 0, 1>> \o units[k]]

\* What of a list is in S.
Only(list, S) == FlattenSeq([k \in DOMAIN list |-> IF list[k] \in S THEN <<list[k]>> ELSE <<>>])
=============================================================================

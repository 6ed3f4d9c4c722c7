---------------------------- MODULE H264Packets ----------------------------
(***************************************************************************)
(* What MediaStreamH264 (Rtsp/MediaStreamH264.cpp 78-203) puts on the wire *)
(* for one frame while the stream runs: a packet of its own for a NAL unit *)
(* that fits, FU-A fragments for one that does not.  MediaStream models    *)
(* the lock and the gate around this.                                      *)
(***************************************************************************)
EXTENDS AnnexB

CONSTANTS
    H264Frames,     \* the frames TransportData may be called with
    H264MaxPayload  \* i_max: m_nMTU less the RTP header, with room for an FU-A header

\* What a coder makes: a start code that is not the end of the frame has a header
\* behind it, whose first bit is 0 and whose type is none that RTP uses itself.
H264WellFormed(data) ==
    \A n \in 0..(Len(data) - 4) :
        StartsAt(data, n) => data[n + 4] < 128 /\ data[n + 4] % 32 \in 1..23

ASSUME H264Assumption ==
    /\ H264MaxPayload \in Nat /\ H264MaxPayload > 2
    /\ \A data \in H264Frames : data \in Seq(Byte) /\ H264WellFormed(data)

VARIABLES
    h264_frame,     \* the argument of TransportData
    p_buffer,       \* what TransportData has not looked at
    nal,            \* the unit being sent: header, payload left, isLast
    h264_i,         \* the fragment to send, and
    h264_i_count,   \* the number of fragments; 0 outside the loop
    h264_busy,      \* TransportData is running
    h264_wire       \* the packets sent for this frame

h264Vars == <<h264_frame, p_buffer, nal, h264_i, h264_i_count, h264_busy, h264_wire>>

NoNal == [header |-> 0, data |-> <<>>, last |-> FALSE]

H264TypeOK ==
    /\ h264_frame \in Seq(Byte) /\ p_buffer \in Seq(Byte)
    /\ nal \in [header : Byte, data : Seq(Byte), last : BOOLEAN]
    /\ h264_i \in Nat /\ h264_i_count \in Nat /\ (h264_i = 0 \/ h264_i < h264_i_count)
    /\ h264_busy \in BOOLEAN
    /\ h264_wire \in Seq([bytes : Seq(Byte), marker : BOOLEAN])

H264Init ==
    /\ h264_frame = <<>> /\ p_buffer = <<>> /\ nal = NoNal
    /\ h264_i = 0 /\ h264_i_count = 0
    /\ h264_busy = FALSE /\ h264_wire = <<>>

H264Write(bytes, marker) ==
    h264_wire' = Append(h264_wire, [bytes |-> bytes, marker |-> marker])

H264TransportData(data) ==
    /\ ~h264_busy
    /\ h264_busy' = TRUE
    /\ h264_frame' = data
    /\ p_buffer' = SkipToStart(data)
    /\ h264_wire' = <<>>
    /\ UNCHANGED <<nal, h264_i, h264_i_count>>

\* Not too short to have a payload, and no parameter set.
Accepted(unit) == Len(unit) >= 5 /\ NalType(unit) \notin {7, 8}

\* count fragments for a unit whose payload has n bytes besides its header.
CountOf(n) == (n + H264MaxPayload - 2 - 1) \div (H264MaxPayload - 2)

IsLast(unit) == Len(unit) >= Len(p_buffer)

\* The next unit is cut off; one that fits is sent, a bigger one is prepared.
TransportH264Nal ==
    /\ h264_busy /\ h264_i_count = 0 /\ Len(p_buffer) > 4
    /\ p_buffer' = Drop(p_buffer, Skip(p_buffer))
    /\ LET unit == SubSeq(p_buffer, 1, Size(p_buffer))
       IN \/ /\ ~Accepted(unit)
             /\ UNCHANGED <<nal, h264_i_count, h264_wire>>
          \/ /\ Accepted(unit) /\ Len(unit) - 3 <= H264MaxPayload
             /\ H264Write(Drop(unit, 3), IsLast(unit))
             /\ UNCHANGED <<nal, h264_i_count>>
          \/ /\ Accepted(unit) /\ Len(unit) - 3 > H264MaxPayload
             /\ nal' = [header |-> NalHeader(unit), data |-> Drop(unit, 4), last |-> IsLast(unit)]
             /\ h264_i_count' = CountOf(Len(unit) - 4)
             /\ UNCHANGED h264_wire
    /\ UNCHANGED <<h264_frame, h264_i, h264_busy>>

\* The FU indicator has the header's NRI and type 28, the FU header its type
\* and the start and end bits.
FuA(header, start, end, payload) ==
    <<32 * ((header \div 32) % 4) + 28,
      (IF start THEN 128 ELSE 0) + (IF end THEN 64 ELSE 0) + (header % 32)>> \o payload

Lesser(a, b) == IF a < b THEN a ELSE b

\* One turn of a loop that moves on by step bytes.
FragmentWith(step) ==
    /\ h264_i_count > 0
    /\ LET n == Lesser(Len(nal.data), H264MaxPayload - 2)
           b == SubSeq(nal.data, 1, n)
       IN H264Write(FuA(nal.header, h264_i = 0, h264_i = h264_i_count - 1, b),
                    nal.last /\ h264_i = h264_i_count - 1)
    /\ IF h264_i + 1 < h264_i_count
       THEN /\ h264_i' = h264_i + 1
            /\ nal' = [nal EXCEPT !.data = Drop(@, Lesser(Len(@), step))]
            /\ UNCHANGED h264_i_count
       ELSE h264_i' = 0 /\ nal' = NoNal /\ h264_i_count' = 0
    /\ UNCHANGED <<h264_frame, p_buffer, h264_busy>>

\* (Two bytes too far on.)
FragmentGap == FragmentWith(H264MaxPayload)

Fragment == FragmentWith(H264MaxPayload - 2)

H264Done == h264_busy /\ h264_i_count = 0 /\ Len(p_buffer) <= 4

H264Return ==
    /\ H264Done
    /\ h264_busy' = FALSE
    /\ h264_frame' = <<>> /\ p_buffer' = <<>> /\ h264_wire' = <<>>
    /\ UNCHANGED <<nal, h264_i, h264_i_count>>

H264Next ==
    \/ \E data \in H264Frames : H264TransportData(data)
    \/ TransportH264Nal \/ Fragment \/ H264Return

H264Spec == H264Init /\ [][H264Next]_h264Vars

-----------------------------------------------------------------------------
(* The reference: what should arrive, and what a receiver puts together.    *)

\* The units with a payload, other than parameter sets.
Payloads == {u \in Seq(Byte) : Len(u) > 1 /\ u[1] % 32 \notin {7, 8}}

Sendable(data) == Only(Units(data), Payloads)

\* A receiver (RFC 6184): a packet of type 28 starts a unit, whose header it
\* restores, or continues the one it has; any other is a unit.
Received(packets) ==
    LET after[n \in 0..Len(packets)] ==
            IF n = 0 THEN <<>>
            ELSE LET p == packets[n].bytes
                     got == after[n - 1]
                 IN IF p[1] % 32 # 28 THEN Append(got, p)
                    ELSE IF p[2] >= 128
                         THEN Append(got, <<(p[1] - 28) + (p[2] % 32)>> \o Drop(p, 2))
                         ELSE IF got = <<>> THEN <<>>
                         ELSE Front(got) \o <<Last(got) \o Drop(p, 2)>>
    IN after[Len(packets)]

(* As TransportData returns, a receiver has every unit of the frame, whole  *)
(* and in order, however the bytes of the frame fall: zeros at the end of a *)
(* unit, units that just fit or just do not, no part of a parameter set.    *)
H264ReceiverHasTheFrame == H264Done => Received(h264_wire) = Sendable(h264_frame)

(* The marker tells the receiver that the frame is complete: it is on no    *)
(* packet but the last, and it is there if the frame's last unit is sent.   *)
H264MarkerEndsTheFrame ==
    H264Done =>
        /\ \A k \in 1..Len(h264_wire) : h264_wire[k].marker => k = Len(h264_wire)
        /\ h264_wire # <<>> /\ Last(Received(h264_wire)) = Last(Units(h264_frame)) =>
               Last(h264_wire).marker

(* No packet is longer than the MTU allows.                                 *)
FitsTheMtu == \A k \in 1..Len(h264_wire) : Len(h264_wire[k].bytes) <= H264MaxPayload

(* All of this, of a frame that a coder made.                               *)
H264FrameArrives ==
    H264TypeOK /\ H264ReceiverHasTheFrame /\ H264MarkerEndsTheFrame /\ FitsTheMtu
=============================================================================

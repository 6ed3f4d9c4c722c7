---------------------------- MODULE Packetizers ----------------------------
(***************************************************************************)
(* TransportData of the streams that do not look for start codes, while    *)
(* the stream runs: MPEG-4 video (Rtsp/MediaStreamMP4V.cpp 389-420), AAC   *)
(* (MediaStreamMP4A.cpp 100-161), AAC in LATM (MediaStreamMP4ALatm.cpp     *)
(* 106-163), AMR (MediaStreamAMR.cpp 71-115) and H.263 (MediaStreamH263.cpp*)
(* 70-141).  Each holds m_tlockRun for all of a frame, so a frame is sent   *)
(* whole or not at all.  The bytes of a frame are not here, only their     *)
(* places 0, 1, ..., size - 1: a packet has a header and the bytes in the  *)
(* places from, ..., to - 1.                                               *)
(***************************************************************************)
EXTENDS Integers, Sequences, SequencesExt

CONSTANTS
    Frames,     \* the frames TransportData may be called with
    MaxPayload  \* m_nMTU less RTP_HEADER_SIZE

Codecs == {"mp4v", "mp4a", "latm", "amr", "h263"}

\* plain: of an AAC frame, that it has no checksum (protection_absent); of an
\* H.263 frame, that its first two bytes are 0.
Frame == [codec : Codecs, size : Nat, plain : BOOLEAN]

\* An AAC frame has data behind its ADTS header (and its checksum) and a length
\* of 13 bits, one of AMR a byte.
WellFormed(f) ==
    /\ f.codec = "mp4a" => f.size \in (IF f.plain THEN 8 ELSE 10)..8191
    /\ f.codec = "amr" => f.size > 0

ASSUME PacketizersAssumption ==
    /\ Frames \subseteq {f \in Frame : WellFormed(f)}
    /\ MaxPayload \in Nat /\ MaxPayload > 12   \* more than ADTS and AU headers

VARIABLES
    frame,      \* the argument of TransportData, if one is being sent
    i, i_count, \* the packet to send, and how many there are
    p_data,     \* the place of the next byte to send,
    i_data,     \* and how many there are from there on
    wire        \* the packets sent for this frame

vars == <<frame, i, i_count, p_data, i_data, wire>>

NoFrame == [codec |-> "none", size |-> 0, plain |-> FALSE]

busy == frame # NoFrame

Init ==
    /\ frame = NoFrame
    /\ i = 0 /\ i_count = 0 /\ p_data = 0 /\ i_data = 0
    /\ wire = <<>>

-----------------------------------------------------------------------------
(* What the five differ in.                                                 *)

\* (Nothing set aside.)
NoneReserved(codec) == 0

\* How much of i_max is set aside for the header of a packet.
Reserved(codec) ==
    CASE codec = "mp4v" -> 0
      [] codec = "mp4a" -> 4
      [] OTHER -> 2

i_max(f) == MaxPayload - Reserved(f.codec)

PacketsFor(n, f) == (n + i_max(f) - 1) \div i_max(f)

\* The bytes in front that are not sent: the ADTS header, H.263's two zeros.
Begin(f) == CASE f.codec = "mp4a" -> 7 [] f.codec = "h263" -> 2 [] OTHER -> 0

\* How many bytes are.  (Of an AAC frame, numBytesToRead: two less for a
\* checksum, though p_data does not step over it.)  The code counts packets from its
\* argument dataSize and fills them by the frame_length in the ADTS header; here they
\* are one number, as a caller must pass them that hands over one whole frame.
Length(f) ==
    IF f.codec = "mp4a" /\ ~f.plain THEN f.size - Begin(f) - 2 ELSE f.size - Begin(f)

\* AAC counts the packets of all of its argument, and not of what it sends.
Counted(f) == IF f.codec = "mp4a" THEN f.size ELSE Length(f)

\* An H.263 frame that does not begin with two zeros is refused.
Refused(f) == f.codec = "h263" /\ (f.size < 2 \/ ~f.plain)

\* (The loop that writes the bytes of 255 ends at 255, not below it.)
LatmLengthShort(n) == [k \in 1..((n - 1) \div 255 + 1) |-> IF k * 255 < n THEN 255
                                                          ELSE n - 255 * (k - 1)]

\* PayloadLengthInfo: as many bytes of 255 as it takes, and the rest.
LatmLength(n) == [k \in 1..(n \div 255 + 1) |-> IF k <= n \div 255 THEN 255 ELSE n % 255]

\* AU-headers-length, and the size in 13 bits.
AuHeader(n) == <<0, 16, (n \div 32) % 256, ((n % 256) * 8) % 256>>

\* CMR, and the type, which is taken from the byte in place (its value is not
\* in the model).
AmrHeader(place) == <<240, place>>

\* The bit P on the first packet.
H263Header(k) == <<IF k = 0 THEN 4 ELSE 0, 0>>

\* The header of packet k, whose part of the frame begins at place.
Header(f, k, place) ==
    CASE f.codec = "mp4v" -> <<>>
      [] f.codec = "mp4a" -> AuHeader(Length(f))
      [] f.codec = "latm" -> IF k = 0 THEN LatmLength(f.size) ELSE <<>>
      [] f.codec = "amr"  -> AmrHeader(place)
      [] f.codec = "h263" -> H263Header(k)

\* AMR leaves out the byte that is in the header.
Skipped(f) == IF f.codec = "amr" THEN 1 ELSE 0

Least(a, b) == IF a < b THEN a ELSE b

-----------------------------------------------------------------------------
\* TransportData as far as the loop, for a frame it does not refuse.
TransportData(f) ==
    /\ ~busy /\ ~Refused(f)
    /\ frame' = f
    /\ i' = 0 /\ i_count' = PacketsFor(Counted(f), f)
    /\ p_data' = Begin(f) /\ i_data' = Length(f)
    /\ wire' = <<>>

\* One turn of the loop.
WriteWith(header, marker, step) ==
    /\ busy /\ i < i_count
    /\ wire' = Append(wire, [header |-> header,
                             from |-> p_data + Skipped(frame),
                             to |-> p_data + Least(i_max(frame), i_data),
                             marker |-> marker])
    /\ i' = i + 1
    /\ p_data' = p_data + step
    /\ i_data' = i_data - step
    /\ UNCHANGED <<frame, i_count>>

\* (The marker on the packet that fills what is left, as in the H.264 stream.)
WriteMarksTheFill ==
    WriteWith(Header(frame, i, p_data), i_data <= i_max(frame), Least(i_max(frame), i_data))

Write ==
    WriteWith(Header(frame, i, p_data), i = i_count - 1, Least(i_max(frame), i_data))

Done == busy /\ i = i_count

Return ==
    /\ Done
    /\ frame' = NoFrame
    /\ i' = 0 /\ i_count' = 0 /\ p_data' = 0 /\ i_data' = 0 /\ wire' = <<>>

Next == (\E f \in Frames : TransportData(f)) \/ Write \/ Return

Spec == Init /\ [][Next]_vars

-----------------------------------------------------------------------------
(* The reference: what a receiver of each payload format makes of the wire. *)

Packets == 1..Len(wire)

\* The packets carry the places from first to last - 1, each once and in order.
Carries(first, last) ==
    /\ wire = <<>> => first = last
    /\ wire # <<>> => wire[1].from = first /\ wire[Len(wire)].to = last
    /\ \A k \in Packets \ {1} : wire[k].from = wire[k - 1].to

\* RFC 3640: the size of the access unit in 13 bits.
AuSize(header) == 32 * header[3] + header[4] \div 8

\* RFC 6416: bytes of 255 up to one that is less.
LatmSays(header) == 255 * (Len(header) - 1) + header[Len(header)]

LatmEnds(header) ==
    /\ \A k \in 1..(Len(header) - 1) : header[k] = 255
    /\ header[Len(header)] < 255

ReceivedAs ==
    CASE frame.codec = "mp4v" -> Carries(0, frame.size)
      [] frame.codec = "mp4a" ->
            /\ Carries(7, frame.size)
            /\ \A k \in Packets : AuSize(wire[k].header) = frame.size - 7
      [] frame.codec = "latm" ->
            /\ Carries(0, frame.size)
            /\ \A k \in Packets \ {1} : wire[k].header = <<>>
            /\ frame.size > 0 =>
                 LatmEnds(wire[1].header) /\ LatmSays(wire[1].header) = frame.size
      [] frame.codec = "amr" ->     \* RFC 4867: the first byte says what it is
            Carries(1, frame.size) /\ wire[1].header = <<240, 0>>
      [] frame.codec = "h263" ->    \* RFC 4629: the bit P stands for two zeros
            /\ Carries(2, frame.size)
            /\ \A k \in Packets : (wire[k].header[1] = 4) <=> (k = 1)

\* What is not claimed: an AAC frame with a checksum is sent with it and
\* without its last two bytes, and each packet of an AMR frame but the first
\* takes a byte of sound for a type (MediaStreamAMR.cpp 98 and 100 say FIXME).
Supported(f) ==
    /\ f.codec = "mp4a" => f.plain
    /\ f.codec = "amr" => f.size <= i_max(f)

(* As TransportData returns, the packets carry each byte of the frame once, *)
(* in order, and the headers say of it what the format wants, wherever the  *)
(* limits of packets and of the bytes of a header fall.                     *)
ReceiverHasTheFrame == Done /\ Supported(frame) => ReceivedAs

(* The marker is on the last packet of a frame and on no other, and behind  *)
(* it there is nothing left to send: the count made before the loop is      *)
(* right, also for AAC, where it is made of another number than is sent.    *)
MarkerEndsTheFrame ==
    /\ \A k \in Packets : wire[k].marker => Done /\ k = Len(wire)
    /\ Done => i_data = 0 /\ (wire # <<>> => wire[Len(wire)].marker)

(* No packet exceeds the MTU, but the first of a frame in LATM of 510 bytes *)
(* or more, whose length does not fit the two bytes set aside for it.  None *)
(* is without a part of the frame, but the last one of an AAC frame whose   *)
(* ADTS header alone makes for one more.                                    *)
PacketSizes ==
    \A k \in Packets :
        LET payload == wire[k].to - wire[k].from
        IN /\ \/ Len(wire[k].header) + payload <= MaxPayload
              \/ frame.codec = "latm" /\ k = 1 /\ frame.size >= 510
           /\ \/ payload > 0
              \/ frame.codec = "amr"   \* a byte in the header
              \/ frame.codec = "mp4a" /\ k > 1 /\ wire[k].marker
=============================================================================

------------------------- MODULE PacketizersProofs -------------------------
(***************************************************************************)
(* Theorems about what becomes of a frame.                                 *)
(*                                                                         *)
(* Packetizers: for frames of any size and any MTU what is sent of a frame *)
(* is all of it, the marker is where it belongs, and packets are within    *)
(* the limit.  H264Packets: for frames of any bytes a receiver gets every  *)
(* unit of the frame back; this rests on lemmas about AnnexB, the split of *)
(* bytes into units.  Feeder, where frames come from: for any file, rate   *)
(* and width of the tick count no frame is sent before its time; for files *)
(* that a coder made none is sent before the stream's Init, and in a frame *)
(* are the units of the file that belong there.                            *)
(***************************************************************************)
EXTENDS H264Packets, Packetizers, Feeder, ListLemmas, TLAPS

\* How many of the bytes to be sent are in the first k packets.
Sent(f, k) == Least(Length(f), k * i_max(f))

\* What packet k is, however many came before it.
Packet(f, k) ==
    [header |-> Header(f, k - 1, Begin(f) + Sent(f, k - 1)),
     from   |-> Begin(f) + Sent(f, k - 1) + Skipped(f),
     to     |-> Begin(f) + Sent(f, k),
     marker |-> k = PacketsFor(Counted(f), f)]

\* The inductive invariant: the state of the loop in terms of i alone.
LoopInv ==
    /\ frame \in Frames \cup {NoFrame}
    /\ i \in Nat /\ i_count \in Nat
    /\ ~busy => wire = <<>> /\ i = 0
    /\ busy => /\ ~Refused(frame)
               /\ i <= i_count /\ i_count = PacketsFor(Counted(frame), frame)
               /\ p_data = Begin(frame) + Sent(frame, i)
               /\ i_data = Length(frame) - Sent(frame, i)
               /\ wire = [k \in 1..i |-> Packet(frame, k)]

-----------------------------------------------------------------------------
(* Numbers.                                                                 *)

(* The quotient that the code rounds up is the least that is enough.        *)
LEMMA RoundedUp ==
    ASSUME NEW n \in Nat, NEW m \in Nat \ {0}
    PROVE  LET c == (n + m - 1) \div m
           IN /\ c \in Nat
              /\ n <= c * m
              /\ n > 0 => c > 0 /\ (c - 1) * m < n
              /\ n = 0 => c = 0
              /\ n > 0 /\ n <= m => c = 1
<1>1. (n + m - 1) \div m \in Nat
  BY SMT
<1>2. n <= ((n + m - 1) \div m) * m
  BY SMT
<1>3. n > 0 => (n + m - 1) \div m > 0
  BY SMT
<1>4. n > 0 => (((n + m - 1) \div m) - 1) * m < n
  BY SMT
<1>5. n = 0 => (n + m - 1) \div m = 0
  BY SMT
<1>6. n > 0 /\ n <= m => (n + m - 1) \div m = 1
  BY SMT
<1> QED BY <1>1, <1>2, <1>3, <1>4, <1>5, <1>6

(* A frame's numbers: room for a byte in each packet, and a length.         *)
LEMMA FrameNumbers ==
    ASSUME NEW f \in Frames, ~Refused(f)
    PROVE  /\ f \in Frame /\ f # NoFrame
           /\ i_max(f) \in Nat /\ i_max(f) > 8
           /\ Begin(f) \in Nat /\ Length(f) \in Nat /\ Counted(f) \in Nat
           /\ Skipped(f) \in {0, 1} /\ Reserved(f.codec) \in {0, 2, 4}
<1>1. f \in Frame /\ WellFormed(f) /\ f # NoFrame
  BY PacketizersAssumption DEF Frame, Codecs, NoFrame
<1> QED BY <1>1, PacketizersAssumption
        DEF Frame, Codecs, WellFormed, Refused, i_max, Reserved, Begin, Length, Counted, Skipped

(* One more packet takes all there is room for.                             *)
LEMMA SentNext ==
    ASSUME NEW f \in Frames, ~Refused(f), NEW k \in Nat
    PROVE  /\ Sent(f, 0) = 0
           /\ Sent(f, k) \in Nat /\ Sent(f, k) <= Length(f)
           /\ Sent(f, k) + Least(i_max(f), Length(f) - Sent(f, k)) = Sent(f, k + 1)
<1> DEFINE m == i_max(f)
           a == k * m
           b == (k + 1) * m
<1>1. m \in Nat /\ Length(f) \in Nat
  BY FrameNumbers
<1>2. 0 * m = 0 /\ a \in Nat /\ b = a + m
  BY <1>1, SMT
<1>3. Sent(f, 0) = 0 /\ Sent(f, k) = Least(Length(f), a) /\ Sent(f, k + 1) = Least(Length(f), b)
  BY <1>1, <1>2 DEF Sent, Least
<1> HIDE DEF a, b
<1>4. Least(Length(f), a) + Least(m, Length(f) - Least(Length(f), a)) = Least(Length(f), b)
  BY <1>1, <1>2 DEF Least
<1> QED BY <1>1, <1>2, <1>3, <1>4 DEF Least

(* As many packets as are counted carry all that is to be sent.             *)
LEMMA SentAll ==
    ASSUME NEW f \in Frames, ~Refused(f)
    PROVE  /\ PacketsFor(Counted(f), f) \in Nat
           /\ Sent(f, PacketsFor(Counted(f), f)) = Length(f)
<1> DEFINE m == i_max(f)
           c == PacketsFor(Counted(f), f)
           p == c * m
<1>1. /\ m \in Nat \ {0} /\ Counted(f) \in Nat /\ Length(f) \in Nat
      /\ Length(f) <= Counted(f)
  BY FrameNumbers DEF Counted, Length, Begin, Frame
<1>2. c \in Nat /\ Counted(f) <= p
  BY <1>1, RoundedUp DEF PacketsFor
<1> HIDE DEF c
<1>3. p \in Nat
  BY <1>1, <1>2
<1>4. Sent(f, c) = Least(Length(f), p)
  BY DEF Sent
<1> HIDE DEF p
<1>5. Least(Length(f), p) = Length(f)
  BY <1>1, <1>2, <1>3 DEF Least
<1> QED BY <1>2, <1>4, <1>5 DEF c

-----------------------------------------------------------------------------
(* The invariant.                                                           *)

(* TransportData is at its loop with nothing sent.                          *)
LEMMA BeginsTheLoop ==
    ASSUME LoopInv, NEW f \in Frames, TransportData(f)
    PROVE  LoopInv'
<1>1. ~Refused(f) /\ frame' = f /\ f # NoFrame /\ busy'
  BY FrameNumbers DEF TransportData, busy
<1>2. Begin(f) \in Nat /\ Length(f) \in Nat /\ Sent(f, 0) = 0
  BY <1>1, FrameNumbers, SentNext
<1>3. i_count' = PacketsFor(Counted(f), f) /\ i_count' \in Nat /\ i' = 0
  BY <1>1, SentAll DEF TransportData
<1>4. p_data' = Begin(f) + Sent(f, 0) /\ i_data' = Length(f) - Sent(f, 0)
  BY <1>2 DEF TransportData
<1>5. wire' = [k \in 1..0 |-> Packet(f, k)]
  BY DEF TransportData
<1> QED BY <1>1, <1>3, <1>4, <1>5 DEF LoopInv

(* A turn of the loop sends the packet of its number.                       *)
LEMMA SendsItsPacket ==
    ASSUME LoopInv, Write
    PROVE  LoopInv'
<1> DEFINE f == frame
           n == Least(i_max(f), i_data)
           packet == [header |-> Header(f, i, p_data), from |-> p_data + Skipped(f),
                      to |-> p_data + n, marker |-> i = i_count - 1]
<1>1. /\ busy /\ f \in Frames /\ ~Refused(f) /\ i \in Nat /\ i_count \in Nat /\ i < i_count
      /\ i_count = PacketsFor(Counted(f), f)
      /\ wire = [k \in 1..i |-> Packet(f, k)]
  BY DEF LoopInv, Write, WriteWith, busy
<1>2. p_data = Begin(f) + Sent(f, i) /\ i_data = Length(f) - Sent(f, i)
  BY <1>1 DEF LoopInv
<1>3. /\ Begin(f) \in Nat /\ Length(f) \in Nat /\ i_max(f) \in Nat
      /\ Sent(f, i) \in Nat /\ Sent(f, i) <= Length(f)
      /\ Sent(f, i) + n = Sent(f, i + 1) /\ n \in Nat
  <2>1. Begin(f) \in Nat /\ Length(f) \in Nat /\ i_max(f) \in Nat
    BY <1>1, FrameNumbers
  <2>2. Sent(f, i) \in Nat /\ Sent(f, i) <= Length(f) /\ Sent(f, i) + n = Sent(f, i + 1)
    BY <1>1, <1>2, SentNext
  <2> QED BY <1>2, <2>1, <2>2 DEF Least
<1>4. packet = Packet(f, i + 1)
  <2>1. i = (i + 1) - 1
    BY <1>1
  <2>2. (i = i_count - 1) <=> (i + 1 = i_count)
    BY <1>1
  <2>3. p_data + n = Begin(f) + Sent(f, i + 1)
    BY <1>2, <1>3
  <2> HIDE DEF n
  <2> QED BY <1>1, <1>2, <2>1, <2>2, <2>3, Zenon DEF Packet
<1>5. /\ frame' = f /\ i' = i + 1 /\ i_count' = i_count
      /\ p_data' = p_data + n /\ i_data' = i_data - n
      /\ wire' = Append(wire, packet)
  BY DEF Write, WriteWith
<1>6. wire' = [k \in 1..(i + 1) |-> Packet(f, k)]
  <2>1. Len(wire) = i /\ \A k \in 1..i : wire[k] = Packet(f, k)
    BY <1>1
  <2>2. wire' = Append(wire, Packet(f, i + 1))
    BY <1>4, <1>5, Zenon
  <2>3. wire' = [k \in 1..(i + 1) |-> IF k = i + 1 THEN Packet(f, i + 1) ELSE wire[k]]
    BY <1>1, <2>1, <2>2
  <2>4. ASSUME NEW k \in 1..(i + 1)
        PROVE  (IF k = i + 1 THEN Packet(f, i + 1) ELSE wire[k]) = Packet(f, k)
    <3>1. CASE k = i + 1
      BY <3>1
    <3>2. CASE k # i + 1
      <4>1. k \in 1..i
        BY <1>1, <3>2
      <4> QED
        BY <2>1, <3>2, <4>1
    <3> QED
      BY <3>1, <3>2
  <2> QED
    BY <2>3, <2>4, Zenon
<1> HIDE DEF n, packet
<1>7. p_data' = Begin(f) + Sent(f, i + 1) /\ i_data' = Length(f) - Sent(f, i + 1)
  BY <1>2, <1>3, <1>5
<1> QED BY <1>1, <1>5, <1>6, <1>7 DEF LoopInv, busy

(* Every state of the loop is given by its counter.                         *)
THEOREM LoopInvariance == Spec => []LoopInv
<1>1. Init => LoopInv
  BY DEF Init, LoopInv, busy
<1>2. LoopInv /\ [Next]_vars => LoopInv'
  <2> SUFFICES ASSUME LoopInv, [Next]_vars PROVE LoopInv'
    OBVIOUS
  <2>1. ASSUME NEW f \in Frames, TransportData(f) PROVE LoopInv'
    BY <2>1, BeginsTheLoop
  <2>2. CASE Write
    BY <2>2, SendsItsPacket
  <2>3. CASE Return
    BY <2>3 DEF Return, LoopInv, busy
  <2>4. CASE UNCHANGED vars
    BY <2>4 DEF vars, LoopInv, busy
  <2> QED BY <2>1, <2>2, <2>3, <2>4 DEF Next
<1> QED BY <1>1, <1>2, PTL DEF Spec

-----------------------------------------------------------------------------
(* What follows.                                                            *)

(* The packet that carries the marker is the last one, and behind it there  *)
(* is nothing left of the frame.                                            *)
THEOREM TheMarkerIsLast == Spec => []MarkerEndsTheFrame
<1>1. LoopInv => MarkerEndsTheFrame
  <2> SUFFICES ASSUME LoopInv PROVE MarkerEndsTheFrame
    OBVIOUS
  <2>1. CASE ~busy
    BY <2>1 DEF LoopInv, MarkerEndsTheFrame, Packets, Done
  <2>2. CASE busy
    <3>1. /\ frame \in Frames /\ ~Refused(frame) /\ i \in Nat /\ i_count \in Nat
          /\ i <= i_count /\ i_count = PacketsFor(Counted(frame), frame)
          /\ wire = [k \in 1..i |-> Packet(frame, k)] /\ Len(wire) = i
      BY <2>2 DEF LoopInv, busy
    <3>2. \A k \in Packets : wire[k].marker <=> k = i_count
      BY <3>1 DEF Packet, Packets
    <3>3. Done => i_data = 0
      BY <3>1, <2>2, SentAll, FrameNumbers DEF Done, LoopInv
    <3> QED BY <2>2, <3>1, <3>2, <3>3 DEF MarkerEndsTheFrame, Packets, Done
  <2> QED BY <2>1, <2>2
<1> QED BY <1>1, LoopInvariance, PTL

(* Before the last packet there is something for each to carry; behind the  *)
(* first only the last one of an AAC frame may find nothing.                *)
LEMMA SomethingToSend ==
    ASSUME NEW f \in Frames, ~Refused(f), NEW k \in Nat, k < PacketsFor(Counted(f), f)
    PROVE  /\ Sent(f, k + 1) - Sent(f, k) \in 0..i_max(f)
           /\ \/ Sent(f, k + 1) - Sent(f, k) > 0
              \/ f.codec = "mp4a" /\ k > 0 /\ k + 1 = PacketsFor(Counted(f), f)
<1> DEFINE m == i_max(f)
           c == PacketsFor(Counted(f), f)
           n == Counted(f)
           a == k * m
           d == (c - 1) * m
<1>1. m \in Nat /\ m > 8 /\ n \in Nat /\ Length(f) \in Nat /\ f \in Frame /\ WellFormed(f)
  BY FrameNumbers, PacketizersAssumption
<1>2. c \in Nat /\ (n > 0 => d < n) /\ (n = 0 => c = 0)
  BY <1>1, RoundedUp DEF PacketsFor
<1>3. IF f.codec = "mp4a" THEN Length(f) > 0 /\ n - Length(f) <= 9 ELSE n = Length(f)
  BY <1>1 DEF Counted, Length, Begin, Frame, WellFormed
<1>4. Sent(f, k) = Least(Length(f), a) /\ Sent(f, k + 1) = Least(Length(f), a + m)
  <2>1. (k + 1) * m = a + m
    BY <1>1
  <2> QED BY <2>1 DEF Sent
<1>5. a \in Nat /\ (k = 0 => a = 0)
  BY <1>1
<1>6. k + 1 < c => a <= d - m
  <2> SUFFICES ASSUME k + 1 < c PROVE a <= d - m
    OBVIOUS
  <2>1. PICK e \in Nat : c = k + 2 + e
    <3>1. c - (k + 2) \in Nat /\ c = k + 2 + (c - (k + 2))
      BY <1>2
    <3> QED BY <3>1
  <2> HIDE DEF c
  <2>2. (c - 1) * m = k * m + m + e * m /\ e * m \in Nat
    BY <1>1, <2>1
  <2> QED BY <1>1, <1>5, <2>2
<1>7. a <= d
  <2>1. PICK e \in Nat : c = k + 1 + e
    <3>1. c - (k + 1) \in Nat /\ c = k + 1 + (c - (k + 1))
      BY <1>2
    <3> QED BY <3>1
  <2> HIDE DEF c
  <2>2. (c - 1) * m = k * m + e * m /\ e * m \in Nat
    BY <1>1, <2>1
  <2> QED BY <1>1, <1>5, <2>2
<1>8. d \in Int
  BY <1>1, <1>2
<1> HIDE DEF a, d, m, n, c
<1>9. n > 0
  BY <1>1, <1>2 DEF c
<1>10. a < Length(f) \/ (f.codec = "mp4a" /\ k > 0 /\ k + 1 = c)
  <2>1. CASE f.codec # "mp4a"
    BY <1>1, <1>2, <1>3, <1>5, <1>7, <1>8, <1>9, <2>1
  <2>2. CASE f.codec = "mp4a" /\ k = 0
    BY <1>1, <1>3, <1>5, <2>2
  <2>3. CASE f.codec = "mp4a" /\ k > 0 /\ k + 1 < c
    BY <1>1, <1>2, <1>3, <1>5, <1>6, <1>8, <1>9, <2>3
  <2> QED BY <1>2, <2>1, <2>2, <2>3 DEF c
<1>11. /\ Least(Length(f), a + m) - Least(Length(f), a) \in 0..m
       /\ a < Length(f) => Least(Length(f), a + m) - Least(Length(f), a) > 0
  BY <1>1, <1>5 DEF Least
<1> QED BY <1>4, <1>10, <1>11 DEF m, c

(* How long the headers are.                                                *)
LEMMA HeaderLength ==
    ASSUME NEW f \in Frames, NEW k \in Nat, NEW place
    PROVE  /\ Len(Header(f, k, place)) \in Nat
           /\ \/ Len(Header(f, k, place)) <= Reserved(f.codec)
              \/ f.codec = "latm" /\ k = 0 /\ f.size >= 510
           /\ f.codec = "amr" => Len(Header(f, k, place)) = 2
<1>1. f \in Frame
  BY PacketizersAssumption
<1>2. CASE f.codec = "latm"
  <2>1. Len(LatmLength(f.size)) = f.size \div 255 + 1
    <3>1. f.size \div 255 + 1 \in Nat
      BY <1>1 DEF Frame
    <3> QED BY <3>1 DEF LatmLength
  <2>2. f.size \div 255 + 1 \in Nat /\ (f.size < 510 => f.size \div 255 + 1 <= 2)
    BY <1>1 DEF Frame
  <2>3. Reserved(f.codec) = 2
    BY <1>2 DEF Reserved
  <2>4. CASE k = 0
    <3>1. Header(f, k, place) = LatmLength(f.size)
      BY <1>2, <2>4 DEF Header
    <3> QED BY <1>1, <1>2, <2>1, <2>2, <2>3, <2>4, <3>1 DEF Frame
  <2>5. CASE k # 0
    <3>1. Header(f, k, place) = <<>>
      BY <1>2, <2>5 DEF Header
    <3> QED BY <1>2, <2>3, <3>1
  <2> QED BY <2>4, <2>5
<1>3. CASE f.codec = "mp4v"
  BY <1>3 DEF Header, Reserved
<1>4. CASE f.codec = "mp4a"
  <2>1. Header(f, k, place) =
            <<0, 16, (Length(f) \div 32) % 256, ((Length(f) % 256) * 8) % 256>>
    BY <1>4 DEF Header, AuHeader
  <2> QED BY <1>4, <2>1 DEF Reserved
<1>5. CASE f.codec = "amr" \/ f.codec = "h263"
  <2>1. Len(Header(f, k, place)) = 2
    BY <1>5 DEF Header, AmrHeader, H263Header
  <2> QED BY <1>5, <2>1 DEF Reserved
<1> QED BY <1>1, <1>2, <1>3, <1>4, <1>5 DEF Frame, Codecs

(* No packet is too long or without a use, except as PacketSizes says.      *)
THEOREM SizesOfPackets == Spec => []PacketSizes
<1>1. LoopInv => PacketSizes
  <2> SUFFICES ASSUME LoopInv, NEW k \in Packets
               PROVE  LET payload == wire[k].to - wire[k].from
                      IN /\ \/ Len(wire[k].header) + payload <= MaxPayload
                            \/ frame.codec = "latm" /\ k = 1 /\ frame.size >= 510
                         /\ \/ payload > 0
                            \/ frame.codec = "amr"
                            \/ frame.codec = "mp4a" /\ k > 1 /\ wire[k].marker
    BY DEF PacketSizes
  <2>1. busy
    BY DEF LoopInv, Packets
  <2> DEFINE f == frame
             j == k - 1
             n == Sent(f, j + 1) - Sent(f, j)
             place == Begin(f) + Sent(f, j)
  <2>2. /\ f \in Frames /\ ~Refused(f) /\ j \in Nat /\ k = j + 1
        /\ j < PacketsFor(Counted(f), f) /\ wire[k] = Packet(f, k)
    BY <2>1 DEF LoopInv, busy, Packets
  <2>3. /\ Begin(f) \in Nat /\ Skipped(f) \in {0, 1}
        /\ Sent(f, j) \in Nat /\ Sent(f, j + 1) \in Nat
    <3>1. j + 1 \in Nat
      BY <2>2
    <3> QED BY <2>2, <3>1, FrameNumbers, SentNext
  <2>4. /\ wire[k].header = Header(f, j, place)
        /\ wire[k].to - wire[k].from = n - Skipped(f)
        /\ wire[k].marker <=> k = PacketsFor(Counted(f), f)
    <3>1. Packet(f, k).to = Begin(f) + Sent(f, j + 1)
      BY <2>2 DEF Packet
    <3>2. Packet(f, k).from = Begin(f) + Sent(f, j) + Skipped(f)
      BY <2>2 DEF Packet
    <3>3. wire[k].to - wire[k].from = n - Skipped(f)
      BY <2>2, <2>3, <3>1, <3>2
    <3>4. Packet(f, k).header = Header(f, j, place)
          /\ Packet(f, k).marker = (k = PacketsFor(Counted(f), f))
      BY DEF Packet
    <3> HIDE DEF n, j
    <3> QED BY <2>2, <3>3, <3>4
  <2>5. n \in 0..i_max(f)
        /\ (n > 0 \/ (f.codec = "mp4a" /\ j > 0 /\ j + 1 = PacketsFor(Counted(f), f)))
    BY <2>2, SomethingToSend
  <2>6. i_max(f) = MaxPayload - Reserved(f.codec) /\ i_max(f) \in Nat /\ Reserved(f.codec) \in Nat
    BY <2>2, FrameNumbers DEF i_max
  <2> HIDE DEF n, place
  <2>7. \/ Len(wire[k].header) + (wire[k].to - wire[k].from) <= MaxPayload
        \/ f.codec = "latm" /\ k = 1 /\ f.size >= 510
    <3>1. /\ Len(Header(f, j, place)) \in Nat
          /\ Len(Header(f, j, place)) <= Reserved(f.codec)
               \/ (f.codec = "latm" /\ j = 0 /\ f.size >= 510)
      BY <2>2, HeaderLength
    <3> QED BY <2>2, <2>3, <2>4, <2>5, <2>6, <3>1, PacketizersAssumption
  <2>8. f.codec # "amr" => Skipped(f) = 0
    BY DEF Skipped
  <2>9. \/ wire[k].to - wire[k].from > 0
        \/ f.codec = "amr"
        \/ f.codec = "mp4a" /\ k > 1 /\ wire[k].marker
    BY <2>2, <2>4, <2>5, <2>8
  <2> QED BY <2>7, <2>9
<1> QED BY <1>1, LoopInvariance, PTL

(* The packets of a frame whose bytes all have their turn carry them all.   *)
LEMMA CarriesThemAll ==
    ASSUME LoopInv, Done, frame.codec = "amr" => i_count = 1
    PROVE  Carries(Begin(frame) + Skipped(frame), Begin(frame) + Length(frame))
             \/ (frame.codec = "amr" /\ wire = <<>>)
<1> DEFINE f == frame
<1>1. /\ f \in Frames /\ ~Refused(f) /\ i \in Nat /\ i = PacketsFor(Counted(f), f)
      /\ i = i_count /\ wire = [k \in 1..i |-> Packet(f, k)] /\ Len(wire) = i
  BY DEF Done, LoopInv, busy
<1>2. Begin(f) \in Nat /\ Length(f) \in Nat /\ Sent(f, 0) = 0 /\ Sent(f, i) = Length(f)
  BY <1>1, FrameNumbers, SentNext, SentAll
<1>3. f.codec # "amr" => Skipped(f) = 0
  BY DEF Skipped
<1>4. \A k \in Packets : /\ wire[k].from = Begin(f) + Sent(f, k - 1) + Skipped(f)
                         /\ wire[k].to = Begin(f) + Sent(f, k)
  BY <1>1 DEF Packets, Packet
<1>5. ASSUME NEW k \in Packets \ {1} PROVE wire[k].from = wire[k - 1].to
  <2>1. i # 1 /\ k \in Packets /\ k - 1 \in Packets
    BY <1>1, <1>5 DEF Packets
  <2>2. Skipped(f) = 0
    BY <1>1, <1>3, <2>1
  <2>3. Sent(f, k - 1) \in Nat
    <3>1. k - 1 \in Nat
      BY <2>1 DEF Packets
    <3> QED BY <1>1, <3>1, SentNext
  <2> QED BY <1>2, <1>4, <2>1, <2>2, <2>3
<1>6. CASE wire # <<>>
  <2>1. 1 \in Packets /\ i \in Packets
    BY <1>1, <1>6 DEF Packets
  <2>2. wire[1].from = Begin(f) + Sent(f, 1 - 1) + Skipped(f)
    BY <1>4, <2>1
  <2>3. wire[Len(wire)].to = Begin(f) + Length(f)
    BY <1>1, <1>2, <1>4, <2>1
  <2>4. wire[1].from = Begin(f) + Skipped(f)
    <3>1. 1 - 1 = 0
      OBVIOUS
    <3>2. Skipped(f) \in {0, 1}
      BY DEF Skipped
    <3> QED BY <1>2, <2>2, <3>1, <3>2
  <2> QED BY <1>5, <1>6, <2>3, <2>4 DEF Carries
<1>7. CASE wire = <<>>
  <2>1. i = 0
    BY <1>1, <1>7
  <2>2. Length(f) = 0
    BY <1>2, <2>1
  <2>3. f.codec # "amr" =>
            Begin(f) + Skipped(f) = Begin(f) + Length(f)
    BY <1>2, <1>3, <2>2
  <2> QED BY <1>5, <1>7, <2>3 DEF Carries
<1> QED BY <1>6, <1>7

(* What is written of a size can be read again.                             *)
LEMMA SizesAreRead ==
    ASSUME NEW n \in Nat
    PROVE  /\ n <= 8191 => 32 * ((n \div 32) % 256) + (((n % 256) * 8) % 256) \div 8 = n
           /\ LatmEnds(LatmLength(n)) /\ LatmSays(LatmLength(n)) = n
<1>1. n <= 8191 => 32 * ((n \div 32) % 256) + (((n % 256) * 8) % 256) \div 8 = n
  BY SMTT(30)
<1> DEFINE q == n \div 255
           h == LatmLength(n)
<1>2. q \in Nat /\ n % 255 \in 0..254 /\ n = 255 * q + (n % 255)
  BY SMT
<1>3. h = [k \in 1..(q + 1) |-> IF k <= q THEN 255 ELSE n % 255]
  BY DEF LatmLength
<1> HIDE DEF q, h
<1>4. Len(h) = q + 1 /\ h[q + 1] = n % 255 /\ \A k \in 1..q : h[k] = 255
  BY <1>2, <1>3
<1>5. LatmEnds(h)
  BY <1>2, <1>4 DEF LatmEnds
<1>6. LatmSays(h) = n
  BY <1>2, <1>4 DEF LatmSays
<1> QED BY <1>1, <1>5, <1>6 DEF h

(* A receiver has every frame that is supported, whatever its size.         *)
THEOREM FramesArrive == Spec => []ReceiverHasTheFrame
<1>1. LoopInv => ReceiverHasTheFrame
  <2> SUFFICES ASSUME LoopInv, Done, Supported(frame) PROVE ReceivedAs
    BY DEF ReceiverHasTheFrame
  <2> DEFINE f == frame
  <2>1. /\ f \in Frames /\ ~Refused(f) /\ i_count = PacketsFor(Counted(f), f)
        /\ wire = [k \in 1..i_count |-> Packet(f, k)] /\ i_count \in Nat
    BY DEF Done, LoopInv, busy
  <2>2. f \in Frame /\ WellFormed(f) /\ Sent(f, 0) = 0
    BY <2>1, PacketizersAssumption, SentNext
  <2>3. \A k \in Packets :
            wire[k].header = Header(f, k - 1, Begin(f) + Sent(f, k - 1))
    BY <2>1 DEF Packets, Packet
  <2>4. f.codec = "amr" => i_count = 1 /\ wire # <<>>
    <3> SUFFICES ASSUME f.codec = "amr" PROVE i_count = 1
      BY <2>1
    <3>1. /\ Counted(f) = f.size /\ f.size \in Nat /\ f.size > 0 /\ f.size <= i_max(f)
          /\ i_max(f) \in Nat \ {0}
      BY <2>1, <2>2, FrameNumbers DEF Supported, Counted, Length, Begin, Frame, WellFormed
    <3> QED BY <2>1, <3>1, RoundedUp DEF PacketsFor
  <2>5. Carries(Begin(f) + Skipped(f), Begin(f) + Length(f))
    BY <2>4, CarriesThemAll
  <2>6. CASE f.codec = "mp4v"
    <3>1. Begin(f) + Skipped(f) = 0 /\ Begin(f) + Length(f) = f.size
      BY <2>2, <2>6 DEF Begin, Skipped, Length, Frame
    <3> QED BY <2>5, <2>6, <3>1 DEF ReceivedAs
  <2>7. CASE f.codec = "mp4a"
    <3>1. /\ Begin(f) + Skipped(f) = 7 /\ Begin(f) + Length(f) = f.size
          /\ Length(f) = f.size - 7 /\ Length(f) \in Nat /\ Length(f) <= 8191
      BY <2>2, <2>7 DEF Begin, Skipped, Length, Frame, WellFormed, Supported
    <3>2. ASSUME NEW k \in Packets PROVE AuSize(wire[k].header) = f.size - 7
      <4>1. wire[k].header =
              <<0, 16, (Length(f) \div 32) % 256, ((Length(f) % 256) * 8) % 256>>
        BY <2>3, <2>7 DEF Header, AuHeader
      <4> QED BY <3>1, <4>1, SizesAreRead DEF AuSize
    <3> QED BY <2>5, <2>7, <3>1, <3>2 DEF ReceivedAs
  <2>8. CASE f.codec = "latm"
    <3>1. Begin(f) + Skipped(f) = 0 /\ Begin(f) + Length(f) = f.size /\ f.size \in Nat
      BY <2>2, <2>8 DEF Begin, Skipped, Length, Frame
    <3>2. ASSUME NEW k \in Packets \ {1} PROVE wire[k].header = <<>>
      <4>1. k - 1 # 0
        BY DEF Packets
      <4> QED BY <2>3, <2>8, <4>1 DEF Header
    <3>3. f.size > 0 => wire[1].header = LatmLength(f.size)
      <4> SUFFICES ASSUME f.size > 0 PROVE wire[1].header = LatmLength(f.size)
        OBVIOUS
      <4>1. i_count > 0
        <5>1. Counted(f) = f.size /\ i_max(f) \in Nat \ {0}
          BY <2>1, <2>2, <2>8, FrameNumbers DEF Counted, Length, Begin, Frame
        <5> QED BY <2>1, <3>1, <5>1, RoundedUp DEF PacketsFor
      <4>2. 1 \in Packets /\ 1 - 1 = 0
        BY <2>1, <4>1 DEF Packets
      <4> QED BY <2>3, <2>8, <4>2 DEF Header
    <3> QED BY <2>5, <2>8, <3>1, <3>2, <3>3, SizesAreRead DEF ReceivedAs
  <2>9. CASE f.codec = "amr"
    <3>1. Begin(f) + Skipped(f) = 1 /\ Begin(f) + Length(f) = f.size /\ Begin(f) = 0
      BY <2>2, <2>9 DEF Begin, Skipped, Length, Frame
    <3>2. 1 \in Packets /\ 1 - 1 = 0
      BY <2>1, <2>4, <2>9 DEF Packets
    <3>3. wire[1].header = <<240, 0>>
      <4>1. Header(f, 1 - 1, Begin(f) + Sent(f, 1 - 1)) = <<240, Begin(f) + Sent(f, 1 - 1)>>
        BY <2>9 DEF Header, AmrHeader
      <4> QED BY <2>2, <2>3, <3>1, <3>2, <4>1
    <3> QED BY <2>5, <2>9, <3>1, <3>3 DEF ReceivedAs
  <2>10. CASE f.codec = "h263"
    <3>1. Begin(f) + Skipped(f) = 2 /\ Begin(f) + Length(f) = f.size
      BY <2>2, <2>10 DEF Begin, Skipped, Length, Frame
    <3>2. ASSUME NEW k \in Packets PROVE (wire[k].header[1] = 4) <=> (k = 1)
      <4>1. wire[k].header = <<IF k - 1 = 0 THEN 4 ELSE 0, 0>>
        BY <2>3, <2>10 DEF Header, H263Header
      <4>2. k - 1 = 0 <=> k = 1
        BY DEF Packets
      <4> QED BY <4>1, <4>2
    <3> QED BY <2>5, <2>10, <3>1, <3>2 DEF ReceivedAs
  <2> QED BY <2>2, <2>6, <2>7, <2>8, <2>9, <2>10 DEF Frame, Codecs
<1> QED BY <1>1, LoopInvariance, PTL

-----------------------------------------------------------------------------
(* H.264: the scan for start codes.                                         *)

(* What is left of a list behind its first n elements.                      *)
LEMMA DropIs ==
    ASSUME NEW S, NEW d \in Seq(S), NEW n \in 0..Len(d)
    PROVE  /\ Drop(d, n) \in Seq(S) /\ Len(Drop(d, n)) = Len(d) - n
           /\ \A k \in 1..(Len(d) - n) : Drop(d, n)[k] = d[n + k]
<1>1. n + 1 \in Int /\ Len(d) \in Int /\ \A k \in (n + 1)..Len(d) : d[k] \in S
  OBVIOUS
<1>2. /\ SubSeq(d, n + 1, Len(d)) \in Seq(S)
      /\ Len(SubSeq(d, n + 1, Len(d))) = IF n + 1 <= Len(d) THEN Len(d) - (n + 1) + 1 ELSE 0
      /\ \A k \in 1..(Len(d) - (n + 1) + 1) : SubSeq(d, n + 1, Len(d))[k] = d[(n + 1) + k - 1]
  BY <1>1, SubSeqProperties
<1>3. Len(d) - (n + 1) + 1 = Len(d) - n /\ \A k \in Nat : (n + 1) + k - 1 = n + k
  OBVIOUS
<1> DEFINE r == SubSeq(d, n + 1, Len(d))
<1>4. Len(r) = Len(d) - n
  BY <1>2
<1>5. ASSUME NEW k \in 1..(Len(d) - n)
      PROVE  r[k] = d[n + k]
  BY <1>2, <1>3
<1> QED
  BY <1>2, <1>4, <1>5 DEF Drop

(* The middle of a list.                                                    *)
LEMMA SubSeqIs ==
    ASSUME NEW S, NEW d \in Seq(S), NEW m \in 0..Len(d), NEW n \in m..Len(d)
    PROVE  /\ SubSeq(d, m + 1, n) \in Seq(S) /\ Len(SubSeq(d, m + 1, n)) = n - m
           /\ \A k \in 1..(n - m) : SubSeq(d, m + 1, n)[k] = d[m + k]
<1>1. m + 1 \in Int /\ n \in Int /\ \A k \in (m + 1)..n : d[k] \in S
  OBVIOUS
<1> DEFINE r == SubSeq(d, m + 1, n)
<1>2. /\ r \in Seq(S)
      /\ Len(r) = IF m + 1 <= n THEN n - (m + 1) + 1 ELSE 0
      /\ \A k \in 1..(n - (m + 1) + 1) : r[k] = d[(m + 1) + k - 1]
  BY <1>1, SubSeqProperties
<1>3. n - (m + 1) + 1 = n - m /\ \A k \in Nat : (m + 1) + k - 1 = m + k
  OBVIOUS
<1> HIDE DEF r
<1>4. Len(r) = n - m
  BY <1>2
<1>5. ASSUME NEW k \in 1..(n - m)
      PROVE  r[k] = d[m + k]
  <2>1. k \in 1..(n - (m + 1) + 1) /\ (m + 1) + k - 1 = m + k
    BY <1>3
  <2>2. r[k] = d[(m + 1) + k - 1]
    BY <1>2, <2>1
  <2> QED
    BY <2>1, <2>2
<1> QED
  BY <1>2, <1>4, <1>5 DEF r

LEMMA DropDrop ==
    ASSUME NEW S, NEW d \in Seq(S), NEW m \in 0..Len(d), NEW n \in 0..(Len(d) - m)
    PROVE  Drop(Drop(d, m), n) = Drop(d, m + n)
<1> DEFINE a == Drop(d, m)
           b == Drop(a, n)
           c == Drop(d, m + n)
<1>1. a \in Seq(S) /\ Len(a) = Len(d) - m /\ \A k \in 1..(Len(d) - m) : a[k] = d[m + k]
  BY DropIs
<1>2. n \in 0..Len(a) /\ m + n \in 0..Len(d) /\ Len(d) \in Nat
  BY <1>1
<1>3. c \in Seq(S) /\ Len(c) = Len(d) - (m + n)
      /\ \A k \in 1..(Len(d) - (m + n)) : c[k] = d[(m + n) + k]
  BY <1>2, DropIs
<1> HIDE DEF a, c
<1>4. b \in Seq(S) /\ Len(b) = Len(a) - n /\ \A k \in 1..(Len(a) - n) : b[k] = a[n + k]
  <2>1. a \in Seq(S) /\ n \in 0..Len(a)
    BY <1>1, <1>2
  <2> QED
    BY <2>1, DropIs
<1> HIDE DEF b
<1>5. Len(b) = Len(c)
  BY <1>1, <1>2, <1>3, <1>4
<1>6. ASSUME NEW k \in 1..Len(b)
      PROVE  b[k] = c[k]
  <2>1. b[k] = a[n + k] /\ a[n + k] = d[m + (n + k)] /\ c[k] = d[(m + n) + k]
    BY <1>1, <1>2, <1>3, <1>4
  <2>2. m + (n + k) = (m + n) + k
    BY <1>2, <1>4
  <2> QED
    BY <2>1, <2>2
<1>7. b = c
  BY <1>3, <1>4, <1>5, <1>6, SeqEqual
<1> QED
  BY <1>7 DEF a, b, c

LEMMA DropNone ==
    ASSUME NEW S, NEW d \in Seq(S)
    PROVE  Drop(d, 0) = d
  BY SubSeqFull DEF Drop

(* A list is its beginning and what is left.                                *)
LEMMA BeginningAndRest ==
    ASSUME NEW S, NEW d \in Seq(S), NEW n \in 0..Len(d)
    PROVE  SubSeq(d, 1, n) \o Drop(d, n) = d
<1>1. SubSeq(d, 1, n) \o SubSeq(d, n + 1, Len(d)) = SubSeq(d, 1, Len(d))
  <2>1. 1 \in 1..(Len(d) + 1) /\ n \in (1 - 1)..Len(d) /\ Len(d) \in n..Len(d)
    OBVIOUS
  <2> QED
    BY <2>1, ConcatAdjacentSubSeq
<1>2. SubSeq(d, 1, Len(d)) = d
  BY SubSeqFull
<1> QED
  BY <1>1, <1>2, Zenon DEF Drop

(* A piece of what is left is a piece of the whole.                         *)
LEMMA SubSeqDrop ==
    ASSUME NEW S, NEW d \in Seq(S), NEW p \in 0..Len(d),
           NEW m \in 0..(Len(d) - p), NEW n \in m..(Len(d) - p)
    PROVE  SubSeq(Drop(d, p), m + 1, n) = SubSeq(d, (p + m) + 1, p + n)
<1> DEFINE e == Drop(d, p)
           a == SubSeq(e, m + 1, n)
           b == SubSeq(d, (p + m) + 1, p + n)
<1>1. e \in Seq(S) /\ Len(e) = Len(d) - p /\ \A k \in 1..(Len(d) - p) : e[k] = d[p + k]
  BY DropIs
<1> HIDE DEF e
<1>2. /\ m \in 0..Len(e) /\ n \in m..Len(e) /\ Len(d) \in Nat
      /\ p + m \in 0..Len(d) /\ p + n \in (p + m)..Len(d)
  BY <1>1
<1>3. a \in Seq(S) /\ Len(a) = n - m /\ \A k \in 1..(n - m) : a[k] = e[m + k]
  BY <1>1, <1>2, SubSeqIs
<1>4. /\ b \in Seq(S) /\ Len(b) = (p + n) - (p + m)
      /\ \A k \in 1..((p + n) - (p + m)) : b[k] = d[(p + m) + k]
  BY <1>2, SubSeqIs
<1> HIDE DEF a, b
<1>5. (p + n) - (p + m) = n - m
  BY <1>2
<1>6. ASSUME NEW k \in 1..(n - m)
      PROVE  a[k] = b[k]
  <2>1. a[k] = e[m + k] /\ e[m + k] = d[p + (m + k)] /\ b[k] = d[(p + m) + k]
    BY <1>1, <1>2, <1>3, <1>4, <1>5
  <2>2. p + (m + k) = (p + m) + k
    BY <1>2
  <2> QED
    BY <2>1, <2>2
<1>7. a = b
  BY <1>3, <1>4, <1>5, <1>6, SeqEqual
<1> QED
  BY <1>7 DEF a, b, e

(* The least of some numbers.                                               *)
LEMMA MinIs ==
    ASSUME NEW S \in SUBSET Nat, S # {}
    PROVE  Min(S) \in S /\ \A n \in S : Min(S) <= n
<1>1. \E m \in S : \A n \in S : m <= n
  BY SmallestExists
<1> QED
  BY <1>1 DEF Min

LEMMA MinOnly ==
    ASSUME NEW S \in SUBSET Nat, NEW m \in S, \A n \in S : m <= n
    PROVE  Min(S) = m
<1>1. Min(S) \in S /\ Min(S) <= m
  BY MinIs
<1>2. m <= Min(S) /\ m \in Nat /\ Min(S) \in Nat
  BY <1>1
<1> QED
  BY <1>1, <1>2

(* Where a start code is.                                                   *)
LEMMA StartIs ==
    ASSUME NEW d \in Seq(Byte), NEW n \in Nat, n + 3 <= Len(d)
    PROVE  StartsAt(d, n) <=> d[n + 1] = 0 /\ d[n + 2] = 0 /\ d[n + 3] = 1
<1> DEFINE a == SubSeq(d, n + 1, n + 3)
<1>1. n \in 0..Len(d) /\ n + 3 \in n..Len(d) /\ (n + 3) - n = 3
  OBVIOUS
<1>2. a \in Seq(Byte) /\ Len(a) = (n + 3) - n /\ \A k \in 1..((n + 3) - n) : a[k] = d[n + k]
  BY <1>1, SubSeqIs
<1>3. StartsAt(d, n) <=> a = <<0, 0, 1>>
  BY DEF StartsAt
<1> HIDE DEF a
<1>4. Len(a) = 3 /\ a[1] = d[n + 1] /\ a[2] = d[n + 2] /\ a[3] = d[n + 3]
  BY <1>1, <1>2
<1>5. CASE a = <<0, 0, 1>>
  BY <1>3, <1>4, <1>5
<1>6. CASE d[n + 1] = 0 /\ d[n + 2] = 0 /\ d[n + 3] = 1
  <2>1. \A k \in 1..3 : a[k] = <<0, 0, 1>>[k]
    BY <1>4, <1>6
  <2>2. <<0, 0, 1>> \in Seq(Byte) /\ Len(<<0, 0, 1>>) = 3
    BY DEF Byte
  <2>3. a = <<0, 0, 1>>
    BY <1>2, <1>4, <2>1, <2>2, SeqEqual
  <2> QED
    BY <1>3, <1>6, <2>3
<1> QED
  BY <1>3, <1>5, <1>6

LEMMA StartOfRest ==
    ASSUME NEW d \in Seq(Byte), NEW p \in 0..Len(d), NEW n \in Nat, p + n + 3 <= Len(d)
    PROVE  StartsAt(Drop(d, p), n) <=> StartsAt(d, p + n)
<1>1. n \in 0..(Len(d) - p) /\ n + 3 \in n..(Len(d) - p)
  OBVIOUS
<1>2. SubSeq(Drop(d, p), n + 1, n + 3) = SubSeq(d, (p + n) + 1, p + (n + 3))
  BY <1>1, SubSeqDrop
<1>3. p + (n + 3) = (p + n) + 3
  OBVIOUS
<1> QED
  BY <1>2, <1>3, Zenon DEF StartsAt

\* Where the start codes behind the one at n are.
NextFrom(data, n) == {m \in (n + 3)..(Len(data) - 3) : StartsAt(data, m)}

\* Where the unit ends whose start code is at n.
EndOf(data, n) ==
    LET end == Min(NextFrom(data, n))
    IN IF NextFrom(data, n) = {} THEN Len(data)
       ELSE IF end > n + 3 /\ data[end] = 0 THEN end - 1 ELSE end

(* A unit ends behind its start code, and not behind the list.              *)
LEMMA UnitAtIs ==
    ASSUME NEW d \in Seq(Byte), NEW n \in Nat, n + 3 <= Len(d)
    PROVE  /\ EndOf(d, n) \in (n + 3)..Len(d)
           /\ UnitAt(d, n) = SubSeq(d, (n + 3) + 1, EndOf(d, n))
           /\ UnitAt(d, n) \in Seq(Byte) /\ Len(UnitAt(d, n)) = EndOf(d, n) - (n + 3)
<1> DEFINE N == NextFrom(d, n)
           m == Min(N)
           e == EndOf(d, n)
<1>1. n + 4 = (n + 3) + 1 /\ Len(d) \in Nat /\ n + 3 \in 0..Len(d)
  OBVIOUS
<1>2. CASE N = {}
  <2>1. e = Len(d) /\ UnitAt(d, n) = Drop(d, n + 3)
    BY <1>2, Zenon DEF EndOf, UnitAt, NextFrom
  <2> QED
    BY <1>1, <2>1, SubSeqIs DEF Drop
<1>3. CASE N # {}
  <2>1. N \in SUBSET Nat
    BY DEF NextFrom
  <2>2. m \in N
    BY <1>3, <2>1, MinIs
  <2>3. m \in (n + 3)..(Len(d) - 3)
    BY <2>2 DEF NextFrom
  <2>4. /\ e = IF m > n + 3 /\ d[m] = 0 THEN m - 1 ELSE m
        /\ UnitAt(d, n) = SubSeq(d, n + 4, e)
    BY <1>3, Zenon DEF EndOf, UnitAt, NextFrom
  <2> HIDE DEF m, e
  <2>5. e \in (n + 3)..Len(d)
    BY <1>1, <2>3, <2>4
  <2> HIDE DEF e
  <2>6. /\ SubSeq(d, (n + 3) + 1, e) \in Seq(Byte)
        /\ Len(SubSeq(d, (n + 3) + 1, e)) = e - (n + 3)
    BY <1>1, <2>5, SubSeqIs
  <2> QED
    BY <1>1, <2>4, <2>5, <2>6 DEF e
<1> QED
  BY <1>2, <1>3

(* The unit of what is left is the unit of the whole.                       *)
LEMMA UnitOfRest ==
    ASSUME NEW d \in Seq(Byte), NEW p \in 0..Len(d), NEW n \in Nat, p + n + 3 <= Len(d)
    PROVE  UnitAt(Drop(d, p), n) = UnitAt(d, p + n)
<1> DEFINE r == Drop(d, p)
           M == NextFrom(r, n)
           N == NextFrom(d, p + n)
<1>1. r \in Seq(Byte) /\ Len(r) = Len(d) - p /\ \A k \in 1..(Len(d) - p) : r[k] = d[p + k]
  BY DropIs
<1>2. Len(d) \in Nat /\ p \in Nat /\ n + 3 <= Len(r) /\ p + n \in Nat
  BY <1>1
<1>3. \A m \in Nat : p + m \in N <=> m \in M
  <2> SUFFICES ASSUME NEW m \in Nat PROVE p + m \in N <=> m \in M
    OBVIOUS
  <2>1. p + m + 3 <= Len(d) => (StartsAt(r, m) <=> StartsAt(d, p + m))
    BY StartOfRest
  <2>2. m \in (n + 3)..(Len(r) - 3) <=> p + m \in ((p + n) + 3)..(Len(d) - 3)
    BY <1>1, <1>2
  <2>3. m \in (n + 3)..(Len(r) - 3) => p + m + 3 <= Len(d)
    BY <1>1, <1>2
  <2> HIDE DEF r
  <2> QED
    BY <2>1, <2>2, <2>3, Zenon DEF NextFrom
<1>4. ASSUME NEW m \in N
      PROVE  m - p \in M /\ m \in Nat /\ m - p \in Nat /\ p + (m - p) = m
  <2>1. m \in ((p + n) + 3)..(Len(d) - 3)
    BY DEF NextFrom
  <2>2. m - p \in Nat /\ p + (m - p) = m /\ m \in Nat
    BY <1>2, <2>1
  <2> HIDE DEF M, N
  <2> QED
    BY <1>3, <2>2
<1>5. M \in SUBSET Nat /\ N \in SUBSET Nat
  BY <1>2 DEF NextFrom
<1>6. EndOf(d, p + n) = p + EndOf(r, n)
  <2>1. CASE M = {}
    <3>1. N = {}
      BY <1>4, <2>1
    <3>2. EndOf(r, n) = Len(r) /\ EndOf(d, p + n) = Len(d)
      BY <2>1, <3>1, Zenon DEF EndOf
    <3> QED
      BY <1>1, <1>2, <3>2
  <2>2. CASE M # {}
    <3> DEFINE m == Min(M)
    <3> HIDE DEF M, N
    <3>1. m \in M /\ \A k \in M : m <= k
      BY <1>5, <2>2, MinIs
    <3>2. m \in Nat /\ p + m \in N
      BY <1>3, <1>5, <3>1
    <3>3. ASSUME NEW k \in N PROVE p + m <= k
      <4>1. k - p \in M /\ k \in Nat
        BY <1>4
      <4>2. m <= k - p
        BY <3>1, <4>1
      <4> HIDE DEF m
      <4> QED
        BY <1>2, <3>2, <4>1, <4>2
    <3>4. Min(N) = p + m
      <4> HIDE DEF m
      <4> QED
        BY <1>5, <3>2, <3>3, MinOnly
    <3>5. m \in (n + 3)..(Len(r) - 3)
      <4> HIDE DEF m
      <4> QED
        BY <3>1 DEF M, NextFrom
    <3>6. r[m] = d[p + m]
      <4> HIDE DEF m, r
      <4> QED
        BY <1>1, <1>2, <3>5
    <3>7. EndOf(r, n) = IF m > n + 3 /\ r[m] = 0 THEN m - 1 ELSE m
      BY <2>2, Zenon DEF EndOf, M
    <3>8. EndOf(d, p + n) = IF p + m > (p + n) + 3 /\ d[p + m] = 0 THEN (p + m) - 1 ELSE p + m
      BY <3>2, <3>4, Zenon DEF EndOf, N
    <3>9. p + m > (p + n) + 3 <=> m > n + 3
      <4> HIDE DEF m
      <4> QED
        BY <1>2, <3>2
    <3> HIDE DEF m, r
    <3> QED
      BY <1>2, <3>2, <3>6, <3>7, <3>8, <3>9
  <2> QED
    BY <2>1, <2>2
<1> DEFINE e == EndOf(r, n)
<1>7. e \in (n + 3)..Len(r) /\ UnitAt(r, n) = SubSeq(r, (n + 3) + 1, e)
  BY <1>1, <1>2, UnitAtIs
<1>8. UnitAt(d, p + n) = SubSeq(d, ((p + n) + 3) + 1, p + e)
  <2>1. (p + n) + 3 <= Len(d)
    BY <1>2
  <2> QED
    BY <1>2, <1>6, <2>1, UnitAtIs
<1> HIDE DEF e
<1>9. n + 3 \in 0..(Len(d) - p) /\ e \in (n + 3)..(Len(d) - p) /\ (p + n) + 3 = p + (n + 3)
  BY <1>1, <1>2, <1>7
<1>10. SubSeq(r, (n + 3) + 1, e) = SubSeq(d, (p + (n + 3)) + 1, p + e)
  BY <1>9, SubSeqDrop
<1> QED
  BY <1>7, <1>8, <1>9, <1>10

\* The unit that starts at a place, if one does.
UnitList(data) ==
    [k \in 1..(Len(data) - 2) |->
        IF StartsAt(data, k - 1) THEN <<UnitAt(data, k - 1)>> ELSE <<>>]

LEMMA UnitListIs ==
    ASSUME NEW d \in Seq(Byte)
    PROVE  /\ UnitList(d) \in Seq(Seq(Seq(Byte)))
           /\ Len(UnitList(d)) = IF Len(d) >= 2 THEN Len(d) - 2 ELSE 0
           /\ Units(d) = FlattenSeq(UnitList(d))
           /\ Units(d) \in Seq(Seq(Byte))
<1>1. ASSUME NEW k \in 1..(Len(d) - 2)
      PROVE  (IF StartsAt(d, k - 1) THEN <<UnitAt(d, k - 1)>> ELSE <<>>) \in Seq(Seq(Byte))
  <2>1. k - 1 \in Nat /\ (k - 1) + 3 <= Len(d)
    OBVIOUS
  <2>2. UnitAt(d, k - 1) \in Seq(Byte)
    BY <2>1, UnitAtIs
  <2> QED
    BY <2>2
<1> DEFINE n == IF Len(d) >= 2 THEN Len(d) - 2 ELSE 0
<1>2. n \in Nat /\ 1..(Len(d) - 2) = 1..n
  OBVIOUS
<1>3. UnitList(d) \in [1..n -> Seq(Seq(Byte))]
  BY <1>1, <1>2, Zenon DEF UnitList
<1> HIDE DEF n
<1>4. UnitList(d) \in Seq(Seq(Seq(Byte))) /\ Len(UnitList(d)) = n
  BY <1>2, <1>3
<1>5. Units(d) = FlattenSeq(UnitList(d))
  BY Zenon DEF Units, UnitList
<1>6. Units(d) \in Seq(Seq(Byte))
  BY <1>4, <1>5, FlattenType
<1> QED
  BY <1>4, <1>5, <1>6 DEF n

(* The units that start in front of p, and those of what is left there.     *)
LEMMA UnitsSplit ==
    ASSUME NEW d \in Seq(Byte), NEW p \in 0..Len(d)
    PROVE  \E q \in 0..Len(UnitList(d)) :
             /\ q <= p /\ (p + 2 <= Len(d) => q = p)
             /\ Units(d) = FlattenSeq(SubSeq(UnitList(d), 1, q)) \o Units(Drop(d, p))
<1> DEFINE l == UnitList(d)
           r == Drop(d, p)
           q == IF p <= Len(l) THEN p ELSE Len(l)
           m == UnitList(r)
<1>1. /\ l \in Seq(Seq(Seq(Byte))) /\ Len(l) = IF Len(d) >= 2 THEN Len(d) - 2 ELSE 0
      /\ Units(d) = FlattenSeq(l)
  BY UnitListIs
<1>2. r \in Seq(Byte) /\ Len(r) = Len(d) - p
  BY DropIs
<1>3. /\ m \in Seq(Seq(Seq(Byte))) /\ Len(m) = IF Len(r) >= 2 THEN Len(r) - 2 ELSE 0
      /\ Units(r) = FlattenSeq(m)
  BY <1>2, UnitListIs
<1>4. q \in 0..Len(l) /\ q <= p /\ (p + 2 <= Len(d) => q = p) /\ Len(d) \in Nat
  BY <1>1
<1>5. Drop(l, q) = m
  <2> DEFINE t == Drop(l, q)
  <2>1. t \in Seq(Seq(Seq(Byte))) /\ Len(t) = Len(l) - q
        /\ \A k \in 1..(Len(l) - q) : t[k] = l[q + k]
    BY <1>1, <1>4, DropIs
  <2>2. Len(t) = Len(m)
    <3>1. Len(t) = Len(l) - q
      BY <2>1
    <3> DEFINE nl == Len(l)
               nr == Len(r)
               nd == Len(d)
    <3>2. /\ nd \in Nat /\ p \in Nat /\ nr \in Nat /\ nl \in Nat /\ p <= nd /\ nr = nd - p
          /\ nl = IF nd >= 2 THEN nd - 2 ELSE 0
      BY <1>1, <1>2
    <3>3. /\ Len(t) = nl - (IF p <= nl THEN p ELSE nl)
          /\ Len(m) = IF nr >= 2 THEN nr - 2 ELSE 0
      BY <1>3, <3>1
    <3> HIDE DEF nl, nr, nd, t, l, m, r
    <3> QED
      BY <3>2, <3>3
  <2>3. ASSUME NEW k \in 1..Len(m)
        PROVE  t[k] = m[k]
    <3>1. /\ q = p /\ k - 1 \in Nat /\ p + (k - 1) + 3 <= Len(d)
          /\ k \in 1..(Len(r) - 2) /\ q + k \in 1..(Len(d) - 2) /\ (q + k) - 1 = p + (k - 1)
      BY <1>1, <1>2, <1>3, <1>4
    <3>2. t[k] = l[q + k]
      BY <2>1, <2>2
    <3>3. m[k] = IF StartsAt(r, k - 1) THEN <<UnitAt(r, k - 1)>> ELSE <<>>
      BY <3>1 DEF UnitList
    <3>4. l[q + k] = IF StartsAt(d, p + (k - 1)) THEN <<UnitAt(d, p + (k - 1))>> ELSE <<>>
      BY <3>1 DEF UnitList
    <3>5. StartsAt(r, k - 1) <=> StartsAt(d, p + (k - 1))
      BY <3>1, StartOfRest
    <3>6. UnitAt(r, k - 1) = UnitAt(d, p + (k - 1))
      BY <3>1, UnitOfRest
    <3> HIDE DEF l, m, r, q, t
    <3> QED
      BY <3>2, <3>3, <3>4, <3>5, <3>6, Zenon
  <2> HIDE DEF t, m, l, q, r
  <2>4. t = m
    BY <1>3, <2>1, <2>2, <2>3, SeqEqual
  <2> QED
    BY <2>4 DEF t
<1> HIDE DEF l, m, r, q
<1>6. SubSeq(l, 1, q) \o Drop(l, q) = l
  BY <1>1, <1>4, BeginningAndRest
<1>7. SubSeq(l, 1, q) \in Seq(Seq(Seq(Byte)))
  <2>1. 0 \in 0..Len(l) /\ q \in 0..Len(l) /\ 0 + 1 = 1
    BY <1>1, <1>4
  <2> QED
    BY <1>1, <2>1, SubSeqIs
<1>8. FlattenSeq(SubSeq(l, 1, q) \o m) = FlattenSeq(SubSeq(l, 1, q)) \o FlattenSeq(m)
  BY <1>3, <1>7, FlattenConcat
<1>9. Units(d) = FlattenSeq(SubSeq(l, 1, q)) \o Units(r)
  BY <1>1, <1>3, <1>5, <1>6, <1>8
<1> QED
  BY <1>4, <1>9 DEF l, r

(* Lists without an element put end to end have none.                       *)
LEMMA FlattenNone ==
    ASSUME NEW S, NEW s \in Seq(Seq(S)), \A k \in 1..Len(s) : s[k] = <<>>
    PROVE  FlattenSeq(s) = <<>>
<1> DEFINE f == [k \in 0..Len(s) |-> <<>>]
<1>1. <<>> \in Seq(S) /\ <<>> \o <<>> = <<>> /\ Len(s) \in Nat
  OBVIOUS
<1>2. f \in [0..Len(s) -> Seq(S)] /\ f[0] = <<>>
  BY <1>1
<1>3. ASSUME NEW k \in 1..Len(s)
      PROVE  f[k] = f[k - 1] \o s[k]
  <2>1. k \in 0..Len(s) /\ k - 1 \in 0..Len(s)
    BY <1>1
  <2>2. f[k] = <<>> /\ f[k - 1] = <<>> /\ s[k] = <<>>
    BY <2>1
  <2> QED
    BY <1>1, <2>2, Zenon
<1>4. f[Len(s)] = <<>>
  BY <1>1
<1> HIDE DEF f
<1>5. PartialFlats(f, s, S)
  BY <1>2, <1>3, Zenon DEF PartialFlats
<1>6. FlattenSeq(s) = f[Len(s)]
  BY <1>5, FlatsFlatten
<1> QED
  BY <1>4, <1>6

(* Where none starts in front of p.                                         *)
LEMMA NoUnitBefore ==
    ASSUME NEW d \in Seq(Byte), NEW p \in 0..Len(d),
           \A n \in 0..(p - 1) : n + 3 <= Len(d) => ~StartsAt(d, n)
    PROVE  Units(d) = Units(Drop(d, p))
<1> DEFINE l == UnitList(d)
           r == Drop(d, p)
<1>1. PICK q \in 0..Len(l) : q <= p /\ Units(d) = FlattenSeq(SubSeq(l, 1, q)) \o Units(r)
  BY UnitsSplit
<1>2. l \in Seq(Seq(Seq(Byte))) /\ Len(l) = IF Len(d) >= 2 THEN Len(d) - 2 ELSE 0
  BY UnitListIs
<1>3. ASSUME NEW k \in 1..q
      PROVE  l[k] = <<>>
  <2>1. k - 1 \in 0..(p - 1) /\ (k - 1) + 3 <= Len(d) /\ k \in 1..(Len(d) - 2)
    BY <1>1, <1>2
  <2>2. ~StartsAt(d, k - 1)
    BY <2>1
  <2> QED
    BY <2>1, <2>2 DEF UnitList
<1>4. r \in Seq(Byte)
  BY DropIs
<1>5. Units(r) \in Seq(Seq(Byte))
  BY <1>4, UnitListIs
<1> DEFINE s == SubSeq(l, 1, q)
<1> HIDE DEF l, r
<1>6. s \in Seq(Seq(Seq(Byte))) /\ Len(s) = q /\ \A k \in 1..q : s[k] = l[k]
  <2>1. 0 \in 0..Len(l) /\ q \in 0..Len(l) /\ 0 + 1 = 1 /\ q - 0 = q /\ \A k \in 1..q : 0 + k = k
    BY <1>2
  <2>2. /\ SubSeq(l, 0 + 1, q) \in Seq(Seq(Seq(Byte))) /\ Len(SubSeq(l, 0 + 1, q)) = q - 0
        /\ \A k \in 1..(q - 0) : SubSeq(l, 0 + 1, q)[k] = l[0 + k]
    BY <1>2, <2>1, SubSeqIs
  <2> QED
    BY <2>1, <2>2
<1> HIDE DEF s
<1>7. FlattenSeq(s) = <<>>
  <2>1. \A k \in 1..Len(s) : s[k] = <<>>
    BY <1>3, <1>6
  <2> QED
    BY <1>6, <2>1, FlattenNone
<1>8. <<>> \o Units(r) = Units(r)
  BY <1>5, ConcatEmptySeq
<1> QED
  BY <1>1, <1>7, <1>8, Zenon DEF s, r

(* Where one starts at once.                                                *)
LEMMA FirstUnit ==
    ASSUME NEW d \in Seq(Byte), Len(d) >= 3, StartsAt(d, 0)
    PROVE  Units(d) = <<UnitAt(d, 0)>> \o Units(Drop(d, 1))
<1> DEFINE l == UnitList(d)
           u == UnitAt(d, 0)
<1>1. 1 \in 0..Len(d) /\ 1 + 2 <= Len(d) /\ 0 + 3 <= Len(d) /\ 1 \in 1..(Len(d) - 2) /\ 1 - 1 = 0
  OBVIOUS
<1>2. Units(d) = FlattenSeq(SubSeq(l, 1, 1)) \o Units(Drop(d, 1))
  BY <1>1, UnitsSplit
<1>3. l \in Seq(Seq(Seq(Byte))) /\ Len(l) = Len(d) - 2
  BY UnitListIs
<1>4. l[1] = <<u>>
  <2>1. l[1] = IF StartsAt(d, 1 - 1) THEN <<UnitAt(d, 1 - 1)>> ELSE <<>>
    BY <1>1, Zenon DEF UnitList
  <2> QED
    BY <1>1, <2>1, Zenon
<1>5. u \in Seq(Byte)
  BY <1>1, UnitAtIs
<1> HIDE DEF l, u
<1>6. SubSeq(l, 1, 1) = <<l[1]>>
  <2>1. /\ SubSeq(l, 0 + 1, 1) \in Seq(Seq(Seq(Byte))) /\ Len(SubSeq(l, 0 + 1, 1)) = 1 - 0
        /\ \A k \in 1..(1 - 0) : SubSeq(l, 0 + 1, 1)[k] = l[0 + k]
    <3>1. 0 \in 0..Len(l) /\ 1 \in 0..Len(l)
      BY <1>3
    <3> QED
      BY <1>3, <3>1, SubSeqIs
  <2> DEFINE s == SubSeq(l, 1, 1)
  <2>2. s \in Seq(Seq(Seq(Byte))) /\ Len(s) = 1 /\ s[1] = l[1]
    BY <2>1
  <2> HIDE DEF s
  <2>3. s = <<s[1]>>
    BY <2>2
  <2> QED
    BY <2>2, <2>3, Zenon DEF s
<1>7. FlattenSeq(<<<<u>>>>) = <<u>>
  <2>1. <<u>> \in Seq(Seq(Byte))
    BY <1>5
  <2> QED
    BY <2>1, FlattenOne
<1> QED
  BY <1>2, <1>4, <1>6, <1>7, Zenon DEF u

(* The search for the next start code finds it, or the end.                 *)
LEMMA SkipIs ==
    ASSUME NEW d \in Seq(Byte), Len(d) >= 4
    PROVE  /\ Skip(d) \in 4..Len(d)
           /\ \A n \in 4..(Skip(d) - 1) : n + 3 <= Len(d) => ~StartsAt(d, n)
           /\ IF NextStarts(d) = {} THEN Skip(d) = Len(d)
              ELSE Skip(d) + 3 <= Len(d) /\ StartsAt(d, Skip(d))
<1> DEFINE N == NextStarts(d)
           s == Skip(d)
<1>1. CASE N = {}
  <2>1. s = Len(d)
    BY <1>1 DEF Skip
  <2>2. ASSUME NEW n \in 4..(s - 1), n + 3 <= Len(d)
        PROVE  ~StartsAt(d, n)
    <3>1. n \in 4..(Len(d) - 3)
      BY <2>1, <2>2
    <3> QED
      BY <1>1, <3>1 DEF NextStarts
  <2> QED
    BY <1>1, <2>1, <2>2
<1>2. CASE N # {}
  <2>1. N \in SUBSET Nat
    BY DEF NextStarts
  <2>2. s = Min(N)
    BY <1>2 DEF Skip
  <2>3. s \in N /\ \A n \in N : s <= n
    BY <1>2, <2>1, <2>2, MinIs
  <2> HIDE DEF s
  <2>4. s \in 4..(Len(d) - 3) /\ StartsAt(d, s)
    BY <2>3 DEF NextStarts
  <2>5. ASSUME NEW n \in 4..(s - 1), n + 3 <= Len(d)
        PROVE  ~StartsAt(d, n)
    <3>1. n \in 4..(Len(d) - 3) /\ ~(s <= n)
      BY <2>4, <2>5
    <3>2. n \notin N
      BY <2>3, <3>1
    <3> QED
      BY <3>1, <3>2 DEF NextStarts
  <2>6. s \in 4..Len(d) /\ s + 3 <= Len(d)
    BY <2>4
  <2> QED
    BY <1>2, <2>4, <2>5, <2>6 DEF s
<1> QED
  BY <1>1, <1>2

(* A unit with a header: the code's cut is the unit, and behind it are the  *)
(* others.                                                                  *)
LEMMA NextUnit ==
    ASSUME NEW d \in Seq(Byte), Len(d) > 4, StartsAt(d, 0), d[4] # 0
    PROVE  /\ Size(d) \in 3..Skip(d)
           /\ UnitAt(d, 0) = SubSeq(d, 4, Size(d))
           /\ Units(d) = <<UnitAt(d, 0)>> \o Units(Drop(d, Skip(d)))
<1> DEFINE s == Skip(d)
           r == Drop(d, 1)
<1>1. /\ s \in 4..Len(d) /\ Len(d) \in Nat
      /\ \A n \in 4..(s - 1) : n + 3 <= Len(d) => ~StartsAt(d, n)
      /\ IF NextStarts(d) = {} THEN s = Len(d) ELSE s + 3 <= Len(d) /\ StartsAt(d, s)
  BY SkipIs
<1>2. d[1] = 0 /\ d[2] = 0 /\ d[3] = 1
  <2>1. StartsAt(d, 0) <=> d[0 + 1] = 0 /\ d[0 + 2] = 0 /\ d[0 + 3] = 1
    BY StartIs
  <2> QED
    BY <2>1
<1>3. ASSUME NEW n \in {1, 2, 3}, n + 3 <= Len(d)
      PROVE  ~StartsAt(d, n)
  <2>1. StartsAt(d, n) <=> d[n + 1] = 0 /\ d[n + 2] = 0 /\ d[n + 3] = 1
    BY <1>3, StartIs
  <2>2. CASE n = 1
    BY <1>2, <2>1, <2>2
  <2>3. CASE n = 2
    BY <1>2, <2>1, <2>3
  <2>4. CASE n = 3
    BY <2>1, <2>4
  <2> QED
    BY <2>2, <2>3, <2>4
<1>4. NextFrom(d, 0) = NextStarts(d)
  <2>1. ASSUME NEW n
        PROVE  n \in 3..(Len(d) - 3) /\ StartsAt(d, n) <=> n \in 4..(Len(d) - 3) /\ StartsAt(d, n)
    <3>1. n = 3 /\ n \in 3..(Len(d) - 3) => ~StartsAt(d, n)
      BY <1>3
    <3>2. n \in 3..(Len(d) - 3) <=> n \in 4..(Len(d) - 3) \/ (n = 3 /\ n \in 3..(Len(d) - 3))
      BY <1>1
    <3> QED
      BY <3>1, <3>2
  <2>2. 0 + 3 = 3
    OBVIOUS
  <2> QED
    BY <2>1, <2>2 DEF NextFrom, NextStarts
<1>5. EndOf(d, 0) = Size(d)
  <2>1. CASE NextStarts(d) = {}
    BY <1>4, <2>1, Zenon DEF EndOf, Size
  <2>2. CASE NextStarts(d) # {}
    <3>1. s = Min(NextFrom(d, 0))
      BY <1>4, <2>2, Zenon DEF Skip
    <3>2. s > 0 + 3
      BY <1>1
    <3>3. EndOf(d, 0) = IF s > 0 + 3 /\ d[s] = 0 THEN s - 1 ELSE s
      BY <1>4, <2>2, <3>1, Zenon DEF EndOf
    <3>4. Size(d) = IF d[s] = 0 THEN s - 1 ELSE s
      BY <2>2, Zenon DEF Size
    <3> HIDE DEF s
    <3> QED
      BY <3>2, <3>3, <3>4
  <2> QED
    BY <2>1, <2>2
<1>6. /\ Size(d) \in 3..Len(d) /\ UnitAt(d, 0) = SubSeq(d, 4, Size(d))
  <2>1. /\ EndOf(d, 0) \in (0 + 3)..Len(d)
        /\ UnitAt(d, 0) = SubSeq(d, (0 + 3) + 1, EndOf(d, 0))
    BY UnitAtIs
  <2>2. 0 + 3 = 3 /\ (0 + 3) + 1 = 4
    OBVIOUS
  <2> QED
    BY <1>5, <2>1, <2>2
<1>7. Size(d) <= s
  <2>1. (Size(d) = Len(d) /\ s = Len(d)) \/ Size(d) = s - 1 \/ Size(d) = s
    BY <1>1 DEF Size
  <2> HIDE DEF s
  <2> QED
    BY <1>1, <2>1
<1>8. Units(d) = <<UnitAt(d, 0)>> \o Units(r)
  <2>1. Len(d) >= 3
    BY <1>1
  <2> QED
    BY <2>1, FirstUnit
<1>9. Units(r) = Units(Drop(d, s))
  <2>1. r \in Seq(Byte) /\ Len(r) = Len(d) - 1
    BY DropIs
  <2>2. s - 1 \in 0..Len(r) /\ s - 1 \in 0..(Len(d) - 1) /\ 1 \in 0..Len(d) /\ 1 + (s - 1) = s
    BY <1>1, <2>1
  <2>3. ASSUME NEW n \in 0..((s - 1) - 1), n + 3 <= Len(r)
        PROVE  ~StartsAt(r, n)
    <3>1. n \in Nat /\ 1 + n \in 1..(s - 1) /\ 1 + n + 3 <= Len(d) /\ (1 + n) + 3 <= Len(d)
      BY <1>1, <2>1, <2>3
    <3>2. StartsAt(r, n) <=> StartsAt(d, 1 + n)
      BY <2>2, <3>1, StartOfRest
    <3>3. 1 + n \in {1, 2, 3} \/ 1 + n \in 4..(s - 1)
      BY <1>1, <3>1
    <3>4. ~StartsAt(d, 1 + n)
      BY <1>1, <1>3, <3>1, <3>3
    <3> QED
      BY <3>2, <3>4
  <2>4. Drop(r, s - 1) = Drop(d, 1 + (s - 1))
    BY <2>2, DropDrop
  <2> HIDE DEF r, s
  <2>5. Units(r) = Units(Drop(r, s - 1))
    BY <2>1, <2>2, <2>3, NoUnitBefore
  <2> QED
    BY <2>2, <2>4, <2>5
<1> QED
  BY <1>1, <1>6, <1>7, <1>8, <1>9

(* The first loop loses no unit.                                            *)
LEMMA ToStart ==
    ASSUME NEW d \in Seq(Byte)
    PROVE  \E m \in 0..Len(d) :
             /\ SkipToStart(d) = Drop(d, m) /\ Units(d) = Units(Drop(d, m))
             /\ Len(Drop(d, m)) <= 4 \/ StartsAt(Drop(d, m), 0)
<1> DEFINE N == {n \in 0..Len(d) : Len(d) - n <= 4 \/ StartsAt(d, n)}
           m == Min(N)
<1>1. N \in SUBSET Nat /\ Len(d) \in N /\ Len(d) \in Nat
  OBVIOUS
<1>2. m \in N /\ \A n \in N : m <= n
  BY <1>1, MinIs
<1>3. SkipToStart(d) = Drop(d, m)
  BY DEF SkipToStart
<1> HIDE DEF m
<1>4. m \in 0..Len(d) /\ (Len(d) - m <= 4 \/ StartsAt(d, m))
  BY <1>2
<1>5. ASSUME NEW n \in 0..(m - 1)
      PROVE  ~StartsAt(d, n)
  <2>1. n \in 0..Len(d) /\ ~(m <= n)
    BY <1>1, <1>4
  <2> QED
    BY <1>2, <2>1
<1>6. Units(d) = Units(Drop(d, m))
  BY <1>4, <1>5, NoUnitBefore
<1>7. Len(Drop(d, m)) = Len(d) - m
  BY <1>4, DropIs
<1>8. Len(d) - m > 4 => StartsAt(Drop(d, m), 0)
  <2> SUFFICES ASSUME Len(d) - m > 4 PROVE StartsAt(Drop(d, m), 0)
    OBVIOUS
  <2>1. StartsAt(d, m) /\ m + 0 + 3 <= Len(d) /\ m + 0 = m
    BY <1>1, <1>4
  <2>2. StartsAt(Drop(d, m), 0) <=> StartsAt(d, m + 0)
    BY <1>4, <2>1, StartOfRest
  <2> QED
    BY <2>1, <2>2
<1>9. Len(Drop(d, m)) <= 4 \/ StartsAt(Drop(d, m), 0)
  BY <1>1, <1>4, <1>7, <1>8
<1> QED
  BY <1>3, <1>4, <1>6, <1>9

(* Few bytes have no unit, or one with little in it.                        *)
LEMMA UnitsOfTwo ==
    ASSUME NEW d \in Seq(Byte), Len(d) <= 2
    PROVE  Units(d) = <<>>
<1>1. UnitList(d) \in Seq(Seq(Seq(Byte))) /\ Len(UnitList(d)) = 0
      /\ Units(d) = FlattenSeq(UnitList(d))
  <2>1. Len(d) \in Nat
    OBVIOUS
  <2> QED
    BY <2>1, UnitListIs
<1>2. UnitList(d) = <<>>
  <2> DEFINE l == UnitList(d)
  <2> HIDE DEF l
  <2> QED
    BY <1>1, EmptySeq DEF l
<1> QED
  BY <1>1, <1>2, FlattenEmpty

LEMMA OneLeft ==
    ASSUME NEW d \in Seq(Byte), Len(d) \in 1..4, ~StartsAt(d, 0) \/ Len(d) < 3
    PROVE  Units(d) = Units(Drop(d, 1))
<1>1. 1 \in 0..Len(d) /\ \A n \in 0..(1 - 1) : n = 0
  OBVIOUS
<1> QED
  BY <1>1, NoUnitBefore

LEMMA UnitsOfThree ==
    ASSUME NEW d \in Seq(Byte), Len(d) <= 3
    PROVE  Units(d) = <<>> \/ \E u \in Seq(Byte) : Units(d) = <<u>> /\ Len(u) = 0
<1>0. Len(d) \in Nat
  OBVIOUS
<1>1. CASE Len(d) <= 2
  BY <1>1, UnitsOfTwo
<1>2. CASE Len(d) = 3
  <2> DEFINE r == Drop(d, 1)
  <2>0. 1 \in 0..Len(d) /\ Len(d) >= 3 /\ Len(d) \in 1..4
    BY <1>2
  <2>1. r \in Seq(Byte) /\ Len(r) = Len(d) - 1
    BY <2>0, DropIs
  <2>2. Units(r) = <<>>
    <3> HIDE DEF r
    <3>1. Len(r) <= 2
      BY <1>2, <2>1
    <3> QED
      BY <2>1, <3>1, UnitsOfTwo
  <2>3. CASE StartsAt(d, 0)
    <3>1. Units(d) = <<UnitAt(d, 0)>> \o Units(r)
      BY <2>0, <2>3, FirstUnit
    <3>2. UnitAt(d, 0) \in Seq(Byte) /\ Len(UnitAt(d, 0)) = 0
      <4>1. 0 + 3 <= Len(d)
        BY <1>2
      <4>2. EndOf(d, 0) \in (0 + 3)..Len(d) /\ UnitAt(d, 0) \in Seq(Byte)
            /\ Len(UnitAt(d, 0)) = EndOf(d, 0) - (0 + 3)
        BY <4>1, UnitAtIs
      <4> QED
        BY <1>2, <4>2
    <3>3. <<UnitAt(d, 0)>> \in Seq(Seq(Byte))
      BY <3>2
    <3>4. <<UnitAt(d, 0)>> \o <<>> = <<UnitAt(d, 0)>>
      BY <3>3, ConcatEmptySeq
    <3> QED
      BY <2>2, <3>1, <3>2, <3>4
  <2>4. CASE ~StartsAt(d, 0)
    <3>1. Units(d) = Units(r)
      BY <2>0, <2>4, OneLeft
    <3> QED
      BY <2>2, <3>1
  <2> QED
    BY <2>3, <2>4
<1>3. Len(d) <= 2 \/ Len(d) = 3
  <2> DEFINE n == Len(d)
  <2>1. n \in Nat /\ n <= 3
    BY <1>0
  <2> HIDE DEF n
  <2>2. n <= 2 \/ n = 3
    BY <2>1
  <2> QED
    BY <2>2 DEF n
<1> QED
  BY <1>1, <1>2, <1>3

LEMMA UnitsOfFour ==
    ASSUME NEW d \in Seq(Byte), Len(d) <= 4
    PROVE  Units(d) = <<>> \/ \E u \in Seq(Byte) : Units(d) = <<u>> /\ Len(u) <= 1
<1>0. Len(d) \in Nat
  OBVIOUS
<1>1. CASE Len(d) <= 3
  BY <1>1, UnitsOfThree
<1>2. CASE Len(d) = 4
  <2> DEFINE r == Drop(d, 1)
  <2>0. 1 \in 0..Len(d) /\ Len(d) >= 3 /\ Len(d) \in 1..4 /\ 0 + 3 <= Len(d) /\ 1 + 3 <= Len(d)
        /\ 1 + 0 + 3 <= Len(d)
    BY <1>2
  <2>1. r \in Seq(Byte) /\ Len(r) = 3
    <3>1. r \in Seq(Byte) /\ Len(r) = Len(d) - 1
      BY <2>0, DropIs
    <3> QED
      BY <1>2, <3>1
  <2>2. CASE StartsAt(d, 0)
    <3>1. Units(d) = <<UnitAt(d, 0)>> \o Units(r)
      BY <2>0, <2>2, FirstUnit
    <3>2. ~StartsAt(r, 0)
      <4>1. StartsAt(d, 0) <=> d[0 + 1] = 0 /\ d[0 + 2] = 0 /\ d[0 + 3] = 1
        BY <2>0, StartIs
      <4>2. StartsAt(d, 1) <=> d[1 + 1] = 0 /\ d[1 + 2] = 0 /\ d[1 + 3] = 1
        BY <2>0, StartIs
      <4>3. StartsAt(r, 0) <=> StartsAt(d, 1 + 0)
        BY <2>0, StartOfRest
      <4> QED
        BY <2>2, <4>1, <4>2, <4>3
    <3> DEFINE t == Drop(r, 1)
    <3>3. t \in Seq(Byte) /\ Len(t) = Len(r) - 1
      <4> HIDE DEF r
      <4>1. 1 \in 0..Len(r)
        BY <2>1
      <4> QED
        BY <2>1, <4>1, DropIs
    <3>4. Units(r) = Units(t) /\ Units(t) = <<>>
      <4>1. Units(t) = <<>>
        <5>1. Len(t) <= 2
          BY <2>1, <3>3
        <5> HIDE DEF t
        <5> QED
          BY <3>3, <5>1, UnitsOfTwo
      <4> HIDE DEF r
      <4>2. Units(r) = Units(t)
        <5>1. Len(r) \in 1..4
          BY <2>1
        <5> QED
          BY <2>1, <3>2, <5>1, OneLeft
      <4> QED
        BY <4>1, <4>2
    <3>5. UnitAt(d, 0) \in Seq(Byte) /\ Len(UnitAt(d, 0)) <= 1
      <4>1. 0 + 3 <= Len(d)
        BY <1>2
      <4>2. EndOf(d, 0) \in (0 + 3)..Len(d) /\ UnitAt(d, 0) \in Seq(Byte)
            /\ Len(UnitAt(d, 0)) = EndOf(d, 0) - (0 + 3)
        BY <4>1, UnitAtIs
      <4> QED
        BY <1>2, <4>2
    <3>6. <<UnitAt(d, 0)>> \in Seq(Seq(Byte))
      BY <3>5
    <3>7. <<UnitAt(d, 0)>> \o <<>> = <<UnitAt(d, 0)>>
      BY <3>6, ConcatEmptySeq
    <3> QED
      BY <3>1, <3>4, <3>5, <3>7
  <2>3. CASE ~StartsAt(d, 0)
    <3>1. Units(d) = Units(r)
      BY <2>0, <2>3, OneLeft
    <3>2. Units(r) = <<>> \/ \E u \in Seq(Byte) : Units(r) = <<u>> /\ Len(u) = 0
      <4> HIDE DEF r
      <4>1. Len(r) <= 3
        BY <2>1
      <4> QED
        BY <2>1, <4>1, UnitsOfThree
    <3> QED
      BY <3>1, <3>2
  <2> QED
    BY <2>2, <2>3
<1>3. Len(d) <= 3 \/ Len(d) = 4
  <2> DEFINE n == Len(d)
  <2>1. n \in Nat /\ n <= 4
    BY <1>0
  <2> HIDE DEF n
  <2>2. n <= 3 \/ n = 4
    BY <2>1
  <2> QED
    BY <2>2 DEF n
<1> QED
  BY <1>1, <1>2, <1>3

(* What of a list is in a set.                                              *)
\* Its elements as lists of one and of none.
OnlyParts(l, s, S) ==
    /\ Len(l) = Len(s) /\ Only(s, S) = FlattenSeq(l)
    /\ \A k \in 1..Len(s) : l[k] = IF s[k] \in S THEN <<s[k]>> ELSE <<>>

LEMMA OnlyList ==
    ASSUME NEW T, NEW S, NEW s \in Seq(T)
    PROVE  \E l \in Seq(Seq(T)) : OnlyParts(l, s, S)
<1> DEFINE l == [k \in DOMAIN s |-> IF s[k] \in S THEN <<s[k]>> ELSE <<>>]
           n == Len(s)
<1>1. DOMAIN s = 1..n /\ n \in Nat /\ \A k \in 1..n : s[k] \in T
  OBVIOUS
<1>2. ASSUME NEW k \in 1..n
      PROVE  (IF s[k] \in S THEN <<s[k]>> ELSE <<>>) \in Seq(T)
  BY <1>1
<1>3. l \in [1..n -> Seq(T)]
  BY <1>1, <1>2, Zenon
<1>4. \A k \in 1..n : l[k] = IF s[k] \in S THEN <<s[k]>> ELSE <<>>
  BY <1>1
<1>5. Only(s, S) = FlattenSeq(l)
  BY Zenon DEF Only
<1> HIDE DEF l, n
<1>6. l \in Seq(Seq(T)) /\ Len(l) = n
  BY <1>1, <1>3
<1> QED
  BY <1>4, <1>5, <1>6, Zenon DEF n, OnlyParts

LEMMA OnlyType ==
    ASSUME NEW T, NEW S, NEW s \in Seq(T)
    PROVE  Only(s, S) \in Seq(T)
<1>1. PICK l \in Seq(Seq(T)) : OnlyParts(l, s, S)
  BY OnlyList
<1>2. Only(s, S) = FlattenSeq(l)
  BY <1>1 DEF OnlyParts
<1> QED
  BY <1>2, FlattenType

LEMMA OnlyConcat ==
    ASSUME NEW T, NEW S, NEW s \in Seq(T), NEW t \in Seq(T)
    PROVE  Only(s \o t, S) = Only(s, S) \o Only(t, S)
<1> DEFINE st == s \o t
<1>1. /\ st \in Seq(T) /\ Len(st) = Len(s) + Len(t)
      /\ \A k \in 1..(Len(s) + Len(t)) : st[k] = IF k <= Len(s) THEN s[k] ELSE t[k - Len(s)]
  BY ConcatProperties
<1> HIDE DEF st
<1>2. st \in Seq(T)
  BY <1>1
<1>3. PICK a \in Seq(Seq(T)) : OnlyParts(a, s, S)
  BY OnlyList
<1>4. PICK b \in Seq(Seq(T)) : OnlyParts(b, t, S)
  BY OnlyList
<1>5. PICK c \in Seq(Seq(T)) : OnlyParts(c, st, S)
  BY <1>2, OnlyList
<1> USE DEF OnlyParts
<1>7. /\ a \o b \in Seq(Seq(T)) /\ Len(a \o b) = Len(a) + Len(b)
      /\ \A k \in 1..(Len(a) + Len(b)) : (a \o b)[k] = IF k <= Len(a) THEN a[k] ELSE b[k - Len(a)]
  BY ConcatProperties
<1>8. ASSUME NEW k \in 1..Len(c)
      PROVE  c[k] = (a \o b)[k]
  <2>1. k \in 1..(Len(s) + Len(t)) /\ Len(s) \in Nat /\ Len(t) \in Nat
    BY <1>1, <1>5
  <2>2. CASE k <= Len(s)
    <3>1. k \in 1..Len(s)
      BY <2>1, <2>2
    <3>2. st[k] = s[k] /\ (a \o b)[k] = a[k]
      BY <1>1, <1>3, <1>4, <1>7, <2>1, <2>2
    <3> QED
      BY <1>1, <1>3, <1>5, <2>1, <3>1, <3>2
  <2>3. CASE ~(k <= Len(s))
    <3>1. k - Len(s) \in 1..Len(t)
      BY <2>1, <2>3
    <3>2. st[k] = t[k - Len(s)] /\ (a \o b)[k] = b[k - Len(s)]
      BY <1>1, <1>3, <1>4, <1>7, <2>1, <2>3
    <3> QED
      BY <1>1, <1>4, <1>5, <2>1, <3>1, <3>2
  <2> QED
    BY <2>2, <2>3
<1>9. c = a \o b
  <2>1. Len(c) = Len(a \o b)
    BY <1>1, <1>3, <1>4, <1>5, <1>7
  <2> QED
    BY <1>5, <1>7, <1>8, <2>1, SeqEqual
<1>10. FlattenSeq(a \o b) = FlattenSeq(a) \o FlattenSeq(b)
  BY FlattenConcat
<1> QED
  BY <1>3, <1>4, <1>5, <1>9, <1>10, Zenon DEF st

LEMMA OnlyEmpty ==
    ASSUME NEW S
    PROVE  Only(<<>>, S) = <<>>
<1>1. [k \in DOMAIN <<>> |-> IF <<>>[k] \in S THEN <<<<>>[k]>> ELSE <<>>] = <<>>
  OBVIOUS
<1> QED
  BY <1>1, FlattenEmpty DEF Only

LEMMA OnlyOne ==
    ASSUME NEW T, NEW S, NEW x \in T
    PROVE  Only(<<x>>, S) = IF x \in S THEN <<x>> ELSE <<>>
<1> DEFINE y == IF x \in S THEN <<x>> ELSE <<>>
<1>1. [k \in DOMAIN <<x>> |-> IF <<x>>[k] \in S THEN <<<<x>>[k]>> ELSE <<>>] = <<y>>
  OBVIOUS
<1>2. y \in Seq(T)
  OBVIOUS
<1> HIDE DEF y
<1>3. FlattenSeq(<<y>>) = y
  BY <1>2, FlattenOne
<1> QED
  BY <1>1, <1>3 DEF Only, y

-----------------------------------------------------------------------------
(* H.264: the packets of a frame.                                           *)

(* The number of fragments.                                                 *)
LEMMA Fragments ==
    ASSUME NEW n \in Nat \ {0}, H264Assumption
    PROVE  /\ CountOf(n) \in Nat \ {0}
           /\ CountOf(n) = 1 <=> n <= H264MaxPayload - 2
           /\ n > H264MaxPayload - 2 => CountOf(n - (H264MaxPayload - 2)) = CountOf(n) - 1
<1> DEFINE m == H264MaxPayload - 2
           R(x) == (x + m - 1) \div m
<1>1. m \in Nat \ {0} /\ \A x \in Nat : CountOf(x) = R(x)
  <2>1. m \in Nat \ {0}
    BY DEF H264Assumption
  <2>2. \A x \in Nat : x + H264MaxPayload - 2 - 1 = x + m - 1
    BY DEF H264Assumption
  <2> QED
    BY <2>1, <2>2 DEF CountOf
<1> HIDE DEF m
<1>2. R(n) \in Nat \ {0} /\ (R(n) - 1) * m < n /\ n <= R(n) * m
  <2>1. R(n) \in Nat \ {0}
    BY <1>1, SMT
  <2>2. (R(n) - 1) * m < n
    BY <1>1, SMT
  <2>3. n <= R(n) * m
    BY <1>1, SMT
  <2> QED
    BY <2>1, <2>2, <2>3
<1>3. R(n) = 1 => n <= m
  BY <1>1, <1>2
<1>4. n <= m => R(n) = 1
  <2> SUFFICES ASSUME n <= m, R(n) # 1
               PROVE  FALSE
    OBVIOUS
  <2> DEFINE d == R(n) - 2
  <2>1. d \in Nat /\ R(n) - 1 = d + 1
    BY <1>2
  <2> HIDE DEF d, R
  <2>2. (d + 1) * m = d * m + m /\ d * m \in Nat
    BY <1>1, <2>1
  <2> QED
    BY <1>1, <1>2, <2>1, <2>2
<1>5. n > m => R(n - m) = R(n) - 1
  <2> SUFFICES ASSUME n > m
               PROVE  R(n - m) = R(n) - 1
    OBVIOUS
  <2> DEFINE a == n - m
             b == R(n - m)
             c == R(n)
  <2>1. a \in Nat \ {0} /\ n = a + m
    BY <1>1
  <2>2. b \in Nat /\ b * m < a + m /\ a <= b * m /\ b * m \in Nat
    <3> HIDE DEF a
    <3>1. R(a) \in Nat /\ R(a) * m < a + m
      BY <1>1, <2>1, SMT
    <3>2. a <= R(a) * m /\ R(a) * m \in Nat
      BY <1>1, <2>1, SMT
    <3>3. b = R(a)
      BY DEF a
    <3> HIDE DEF b, R
    <3> QED
      BY <3>1, <3>2, <3>3
  <2>3. c \in Nat \ {0} /\ c * m < n + m /\ n <= c * m /\ c * m \in Nat
    <3>1. (c - 1) * m = c * m - m
      <4> DEFINE e == c - 1
      <4>1. e \in Nat /\ c = e + 1
        BY <1>2
      <4> HIDE DEF c, e
      <4>2. (e + 1) * m = e * m + m /\ e * m \in Nat
        BY <1>1, <4>1
      <4>3. (c - 1) * m = e * m
        BY <4>1 DEF e
      <4> QED
        BY <1>1, <4>1, <4>2, <4>3
    <3>2. c * m \in Nat
      <4>1. c \in Nat
        BY <1>2
      <4> HIDE DEF c
      <4> QED
        BY <1>1, <4>1
    <3> HIDE DEF c
    <3>3. c \in Nat \ {0} /\ (c - 1) * m < n /\ n <= c * m
      BY <1>2 DEF c
    <3> QED
      BY <1>1, <3>1, <3>2, <3>3
  <2> HIDE DEF a, b, c, R
  <2>4. ~ b + 1 < c
    <3> SUFFICES ASSUME b + 1 < c
                 PROVE  FALSE
      OBVIOUS
    <3> DEFINE e == c - (b + 2)
    <3>1. e \in Nat /\ c = b + (e + 2)
      BY <2>2, <2>3
    <3> HIDE DEF e
    <3>2. c * m = b * m + (e * m + (m + m)) /\ e * m \in Nat
      BY <1>1, <2>2, <3>1
    <3> QED
      BY <1>1, <2>1, <2>2, <2>3, <3>2
  <2>5. ~ b + 1 > c
    <3> SUFFICES ASSUME b + 1 > c
                 PROVE  FALSE
      OBVIOUS
    <3> DEFINE e == b - c
    <3>1. e \in Nat /\ b = c + e
      BY <2>2, <2>3
    <3> HIDE DEF e
    <3>2. b * m = c * m + e * m /\ e * m \in Nat
      BY <1>1, <2>3, <3>1
    <3> QED
      BY <1>1, <2>1, <2>2, <2>3, <3>2
  <2>6. b = c - 1
    BY <2>2, <2>3, <2>4, <2>5
  <2> QED
    BY <2>6 DEF a, b, c
<1>6. n > m => n - m \in Nat
  BY <1>1
<1> QED
  BY <1>1, <1>2, <1>3, <1>4, <1>5, <1>6 DEF m

-----------------------------------------------------------------------------
(* The receiver, one packet at a time.                                      *)

\* What a receiver that has got makes of another packet.
Received1(got, p) ==
    IF p[1] % 32 # 28 THEN Append(got, p)
    ELSE IF p[2] >= 128 THEN Append(got, <<(p[1] - 28) + (p[2] % 32)>> \o Drop(p, 2))
    ELSE IF got = <<>> THEN <<>>
    ELSE Front(got) \o <<Last(got) \o Drop(p, 2)>>

\* f has what is put together from the first packets of w.
PartialReceived(f, w) ==
    f = [n \in 0..Len(w) |-> IF n = 0 THEN <<>> ELSE Received1(f[n - 1], w[n].bytes)]

LEMMA ReceivedExists ==
    ASSUME NEW P, NEW w \in Seq(P)
    PROVE  \E f : PartialReceived(f, w)
<1> DEFINE Rec(f, n) == f = [k \in 0..n |-> IF k = 0 THEN <<>> ELSE Received1(f[k - 1], w[k].bytes)]
           N == {n \in Nat : \E f : Rec(f, n)}
<1>1. 0 \in N
  <2> DEFINE g == [k \in 0..0 |-> <<>>]
  <2>1. g = [k \in 0..0 |-> IF k = 0 THEN <<>> ELSE Received1(g[k - 1], w[k].bytes)]
    OBVIOUS
  <2>2. Rec(g, 0)
    <3> HIDE DEF g
    <3> QED
      BY <2>1
  <2> QED
    BY <2>2
<1>2. ASSUME NEW n \in Nat, n \in N
      PROVE  n + 1 \in N
  <2>1. PICK f : Rec(f, n)
    BY <1>2
  <2> DEFINE g == [k \in 0..(n + 1) |-> IF k <= n THEN f[k] ELSE Received1(f[n], w[n + 1].bytes)]
             h == [k \in 0..(n + 1) |-> IF k = 0 THEN <<>> ELSE Received1(g[k - 1], w[k].bytes)]
  <2>2. ASSUME NEW k \in 0..(n + 1)
        PROVE  g[k] = IF k = 0 THEN <<>> ELSE Received1(g[k - 1], w[k].bytes)
    <3>1. CASE k = 0
      <4>1. 0 \in 0..n /\ 0 \in 0..(n + 1) /\ 0 <= n
        OBVIOUS
      <4>2. g[0] = f[0]
        BY <4>1
      <4>3. f[0] = <<>>
        BY <2>1, <4>1
      <4> QED
        BY <3>1, <4>2, <4>3
    <3>2. CASE k # 0 /\ k <= n
      <4>1. k \in 0..n /\ k - 1 \in 0..(n + 1) /\ k - 1 <= n
        BY <3>2
      <4>2. g[k] = f[k] /\ g[k - 1] = f[k - 1]
        BY <3>2, <4>1
      <4>3. f[k] = Received1(f[k - 1], w[k].bytes)
        BY <2>1, <3>2, <4>1
      <4> HIDE DEF g
      <4> QED
        BY <3>2, <4>2, <4>3
    <3>3. CASE k = n + 1
      <4>1. k # 0 /\ ~(k <= n) /\ k - 1 \in 0..(n + 1) /\ k - 1 <= n /\ k - 1 = n
        BY <3>3
      <4>2. g[k] = Received1(f[n], w[n + 1].bytes) /\ g[k - 1] = f[n]
        BY <4>1
      <4> HIDE DEF g
      <4> QED
        BY <3>3, <4>1, <4>2
    <3> QED
      BY <3>1, <3>2, <3>3
  <2>3. g = h
    <3>1. ASSUME NEW k \in 0..(n + 1)
          PROVE  g[k] = h[k]
      <4>1. h[k] = IF k = 0 THEN <<>> ELSE Received1(g[k - 1], w[k].bytes)
        <5> HIDE DEF g
        <5> QED
          OBVIOUS
      <4> HIDE DEF g, h
      <4> QED
        BY <2>2, <4>1
    <3>2. g = [k \in 0..(n + 1) |-> g[k]] /\ h = [k \in 0..(n + 1) |-> h[k]]
      <4>1. g = [k \in 0..(n + 1) |-> g[k]]
        OBVIOUS
      <4>2. h = [k \in 0..(n + 1) |-> h[k]]
        <5> HIDE DEF g
        <5> QED
          OBVIOUS
      <4> HIDE DEF g, h
      <4> QED
        BY <4>1, <4>2
    <3> HIDE DEF g, h
    <3> QED
      BY <3>1, <3>2
  <2>4. Rec(g, n + 1)
    <3> HIDE DEF g
    <3> QED
      BY <2>3
  <2> HIDE DEF g, h
  <2>5. \E j : Rec(j, n + 1)
    BY <2>4, Zenon
  <2>6. n + 1 \in Nat
    OBVIOUS
  <2> HIDE DEF Rec
  <2> QED
    BY <2>5, <2>6
<1>3. Nat \subseteq N
  <2> HIDE DEF N
  <2> QED
    BY <1>1, <1>2, Induction
<1>4. Len(w) \in Nat
  OBVIOUS
<1>5. \E f : Rec(f, Len(w))
  BY <1>3, <1>4
<1> QED
  BY <1>5, Zenon DEF PartialReceived

LEMMA ReceivedIs ==
    ASSUME NEW P, NEW w \in Seq(P), NEW f, PartialReceived(f, w)
    PROVE  Received(w) = f[Len(w)]
<1> DEFINE Rec(g) ==
               g = [n \in 0..Len(w) |-> IF n = 0 THEN <<>> ELSE Received1(g[n - 1], w[n].bytes)]
           after == CHOOSE g : Rec(g)
<1>1. Rec(f)
  BY Zenon DEF PartialReceived
<1>2. Rec(after)
  BY <1>1, Zenon
<1>3. Received(w) = after[Len(w)]
  BY Zenon DEF Received, Received1
<1> DEFINE S == {n \in Nat : n <= Len(w) => after[n] = f[n]}
<1> HIDE DEF after
<1>4. 0 \in S
  <2>1. 0 \in 0..Len(w)
    OBVIOUS
  <2> QED
    BY <1>1, <1>2, <2>1
<1>5. ASSUME NEW n \in Nat, n \in S
      PROVE  n + 1 \in S
  <2> SUFFICES ASSUME n + 1 <= Len(w)
               PROVE  after[n + 1] = f[n + 1]
    OBVIOUS
  <2>1. n + 1 \in 0..Len(w) /\ n <= Len(w) /\ n + 1 # 0 /\ (n + 1) - 1 = n
    OBVIOUS
  <2>2. after[n + 1] = Received1(after[n], w[n + 1].bytes)
    BY <1>2, <2>1
  <2>3. f[n + 1] = Received1(f[n], w[n + 1].bytes)
    BY <1>1, <2>1
  <2> QED
    BY <1>5, <2>1, <2>2, <2>3
<1>6. Nat \subseteq S
  <2> HIDE DEF S
  <2> QED
    BY <1>4, <1>5, Induction
<1>7. Len(w) \in Nat
  OBVIOUS
<1>8. after[Len(w)] = f[Len(w)]
  <2>1. Len(w) \in S
    <3> HIDE DEF S
    <3> QED
      BY <1>6, <1>7
  <2> QED
    BY <1>7, <2>1
<1> QED
  BY <1>3, <1>8

LEMMA ReceivedNothing == Received(<<>>) = <<>>
<1>0. <<>> \in Seq({})
  OBVIOUS
<1>1. PICK f : PartialReceived(f, <<>>)
  BY <1>0, ReceivedExists
<1>2. Received(<<>>) = f[Len(<<>>)]
  BY <1>0, <1>1, ReceivedIs
<1>3. Len(<<>>) = 0 /\ 0 \in 0..Len(<<>>)
  OBVIOUS
<1>4. f[0] = <<>>
  BY <1>1, <1>3 DEF PartialReceived
<1> QED
  BY <1>2, <1>3, <1>4

LEMMA ReceivedNext ==
    ASSUME NEW P, NEW w \in Seq(P), NEW x \in P
    PROVE  Received(Append(w, x)) = Received1(Received(w), x.bytes)
<1> DEFINE n == Len(w)
           v == Append(w, x)
<1>1. PICK f : PartialReceived(f, w)
  BY ReceivedExists
<1>0. v \in Seq(P)
  OBVIOUS
<1>2. PICK g : PartialReceived(g, v)
  <2> HIDE DEF v
  <2> QED
    BY <1>0, ReceivedExists
<1>3. /\ v \in Seq(P) /\ n \in Nat /\ Len(v) = n + 1 /\ v[n + 1] = x
      /\ \A k \in 1..n : v[k] = w[k]
  OBVIOUS
<1>4. Received(w) = f[n]
  BY <1>1, ReceivedIs
<1>5. Received(v) = g[n + 1]
  <2>1. Received(v) = g[Len(v)]
    <3> HIDE DEF v, n
    <3> QED
      BY <1>2, <1>3, ReceivedIs
  <2> QED
    BY <1>3, <2>1
<1> HIDE DEF v, n
<1>6. \A k \in 0..n : f[k] = IF k = 0 THEN <<>> ELSE Received1(f[k - 1], w[k].bytes)
  BY <1>1 DEF PartialReceived, n
<1>7. \A k \in 0..(n + 1) : g[k] = IF k = 0 THEN <<>> ELSE Received1(g[k - 1], v[k].bytes)
  BY <1>2, <1>3 DEF PartialReceived
<1> DEFINE S == {k \in Nat : k <= n => g[k] = f[k]}
<1>8. 0 \in S
  <2>1. 0 \in 0..n /\ 0 \in 0..(n + 1)
    BY <1>3
  <2> QED
    BY <1>6, <1>7, <2>1
<1>9. ASSUME NEW k \in Nat, k \in S
      PROVE  k + 1 \in S
  <2> SUFFICES ASSUME k + 1 <= n
               PROVE  g[k + 1] = f[k + 1]
    OBVIOUS
  <2>1. /\ k + 1 \in 0..n /\ k + 1 \in 0..(n + 1) /\ k + 1 # 0 /\ (k + 1) - 1 = k
        /\ k + 1 \in 1..n /\ k <= n
    BY <1>3
  <2>2. g[k + 1] = Received1(g[k], v[k + 1].bytes)
    BY <1>7, <2>1
  <2>3. f[k + 1] = Received1(f[k], w[k + 1].bytes)
    BY <1>6, <2>1
  <2> QED
    BY <1>3, <1>9, <2>1, <2>2, <2>3
<1>10. Nat \subseteq S
  <2> HIDE DEF S
  <2> QED
    BY <1>8, <1>9, Induction
<1>11. g[n] = f[n]
  <2>1. n \in S
    BY <1>3, <1>10, Zenon
  <2> QED
    BY <1>3, <2>1
<1>12. n + 1 \in 0..(n + 1) /\ n + 1 # 0 /\ (n + 1) - 1 = n
  BY <1>3
<1>13. g[n + 1] = Received1(g[n], v[n + 1].bytes)
  BY <1>7, <1>12
<1> QED
  BY <1>3, <1>4, <1>5, <1>11, <1>13 DEF v

(* The last of a list, and those before it.                                 *)
LEMMA FrontAndLast ==
    ASSUME NEW S, NEW s \in Seq(S), s # <<>>
    PROVE  Front(s) \in Seq(S) /\ Last(s) \in S /\ s = Front(s) \o <<Last(s)>>
<1> DEFINE n == Len(s)
<1>1. n \in Nat \ {0} /\ n - 1 \in 0..n /\ (n - 1) + 1 = n /\ n \in 1..n
  <2>1. n \in Nat
    OBVIOUS
  <2>2. n # 0
    BY EmptySeq
  <2> HIDE DEF n
  <2> QED
    BY <2>1, <2>2
<1>2. s[n] \in S
  BY <1>1
<1>3. Front(s) \in Seq(S)
  <2>1. 0 \in 0..Len(s) /\ n - 1 \in 0..Len(s) /\ 0 + 1 = 1
    BY <1>1
  <2>2. SubSeq(s, 0 + 1, n - 1) \in Seq(S)
    <3> HIDE DEF n
    <3> QED
      BY <2>1, SubSeqIs
  <2> QED
    BY <2>1, <2>2 DEF Front
<1>4. SubSeq(s, 1, n - 1) \o Drop(s, n - 1) = s
  <2>1. n - 1 \in 0..Len(s)
    BY <1>1
  <2> HIDE DEF n
  <2> QED
    BY <2>1, BeginningAndRest
<1>5. Drop(s, n - 1) = <<s[n]>>
  <2>1. n - 1 \in 0..Len(s)
    BY <1>1
  <2> DEFINE r == Drop(s, n - 1)
  <2>2. r \in Seq(S) /\ Len(r) = Len(s) - (n - 1)
        /\ \A k \in 1..(Len(s) - (n - 1)) : r[k] = s[(n - 1) + k]
    <3> HIDE DEF n
    <3> QED
      BY <2>1, DropIs
  <2>3. Len(s) - (n - 1) = 1
    BY <1>1
  <2> HIDE DEF r
  <2>4. Len(r) = 1 /\ r[1] = s[n]
    BY <1>1, <2>2, <2>3
  <2>5. r = <<r[1]>>
    BY <2>2, <2>4
  <2> QED
    BY <2>4, <2>5 DEF r
<1> QED
  BY <1>2, <1>3, <1>4, <1>5, Zenon DEF Front, Last

LEMMA LastOfAppend ==
    ASSUME NEW S, NEW s \in Seq(S), NEW x \in S
    PROVE  /\ Append(s, x) = s \o <<x>> /\ Append(s, x) # <<>>
           /\ Front(s \o <<x>>) = s /\ Last(s \o <<x>>) = x
<1> DEFINE a == Append(s, x)
           n == Len(s)
<1>1. n \in Nat /\ a \in Seq(S) /\ Len(a) = n + 1 /\ a[n + 1] = x /\ \A k \in 1..n : a[k] = s[k]
  OBVIOUS
<1>2. a = s \o <<x>>
  OBVIOUS
<1>3. a # <<>>
  BY <1>1
<1>4. Last(a) = x
  BY <1>1 DEF Last
<1>5. Front(a) = s
  <2> HIDE DEF a, n
  <2>1. 0 \in 0..Len(a) /\ n \in 0..Len(a) /\ 0 + 1 = 1 /\ Len(a) - 1 = n /\ n - 0 = n
    BY <1>1
  <2> DEFINE f == SubSeq(a, 0 + 1, n)
  <2>2. f \in Seq(S) /\ Len(f) = n - 0 /\ \A k \in 1..(n - 0) : f[k] = a[0 + k]
    BY <1>1, <2>1, SubSeqIs
  <2>3. Front(a) = f
    BY <2>1 DEF Front
  <2> HIDE DEF f
  <2>4. Len(f) = Len(s) /\ \A k \in 1..Len(f) : f[k] = s[k]
    BY <1>1, <2>1, <2>2 DEF n
  <2> QED
    BY <2>2, <2>3, <2>4, SeqEqual
<1> QED
  BY <1>2, <1>3, <1>4, <1>5

(* A start code of what is left has the header it has in the whole.         *)
LEMMA WellFormedRest ==
    ASSUME NEW d \in Seq(Byte), NEW p \in 0..Len(d), H264WellFormed(d)
    PROVE  H264WellFormed(Drop(d, p))
<1> DEFINE r == Drop(d, p)
<1>1. /\ r \in Seq(Byte) /\ Len(r) = Len(d) - p
      /\ \A k \in 1..(Len(d) - p) : r[k] = d[p + k]
  BY DropIs
<1>2. ASSUME NEW n \in 0..(Len(r) - 4), StartsAt(r, n)
      PROVE  r[n + 4] < 128 /\ r[n + 4] % 32 \in 1..23
  <2>1. /\ n \in Nat /\ p + n + 3 <= Len(d) /\ p + n \in 0..(Len(d) - 4)
        /\ n + 4 \in 1..(Len(d) - p) /\ (p + n) + 4 = p + (n + 4)
    BY <1>1
  <2>2. StartsAt(d, p + n)
    BY <1>2, <2>1, StartOfRest
  <2>3. d[(p + n) + 4] < 128 /\ d[(p + n) + 4] % 32 \in 1..23
    BY <2>1, <2>2 DEF H264WellFormed
  <2>4. r[n + 4] = d[p + (n + 4)]
    BY <1>1, <2>1
  <2> QED
    BY <2>1, <2>3, <2>4
<1> HIDE DEF r
<1>3. H264WellFormed(r)
  BY <1>2 DEF H264WellFormed
<1> QED
  BY <1>3 DEF r

\* The unit the code cuts off, with its start code.
Cut(d) == SubSeq(d, 1, Size(d))

(* What the code cuts off is the first unit of d and its start code.        *)
LEMMA CutIs ==
    ASSUME NEW d \in Seq(Byte), Len(d) > 4, StartsAt(d, 0), H264WellFormed(d),
           NEW u, u = UnitAt(d, 0), NEW r, r = Drop(d, Skip(d))
    PROVE  /\ u \in Seq(Byte) /\ r \in Seq(Byte) /\ H264WellFormed(r)
           /\ Units(d) = <<u>> \o Units(r)
           /\ r = <<>> \/ (StartsAt(r, 0) /\ Units(r) # <<>>)
           /\ Len(Cut(d)) = Len(u) + 3 /\ Drop(Cut(d), 3) = u
           /\ Len(Cut(d)) >= Len(d) <=> r = <<>>
           /\ Accepted(Cut(d)) <=> u \in Payloads
           /\ Accepted(Cut(d)) =>
                /\ NalHeader(Cut(d)) \in Byte /\ NalHeader(Cut(d)) < 128
                /\ Drop(Cut(d), 4) \in Seq(Byte) /\ Len(Drop(Cut(d), 4)) = Len(u) - 1
                /\ Len(u) > 1
                /\ u = <<NalHeader(Cut(d))>> \o Drop(Cut(d), 4)
                /\ u[1] % 32 # 28
<1> DEFINE c == Cut(d)
           z == Size(d)
           s == Skip(d)
           h == d[4]
<1>1. h \in Byte /\ h < 128 /\ h % 32 \in 1..23
  <2>1. 0 \in 0..(Len(d) - 4) /\ 0 + 4 = 4 /\ 4 \in 1..Len(d)
    OBVIOUS
  <2>2. d[0 + 4] < 128 /\ d[0 + 4] % 32 \in 1..23
    BY <2>1, Zenon DEF H264WellFormed
  <2>3. d[4] \in Byte
    BY <2>1
  <2> QED
    BY <2>1, <2>2, <2>3
<1>2. h # 0
  <2>1. 0 % 32 = 0 /\ 0 \notin 1..23
    OBVIOUS
  <2> QED
    BY <1>1, <2>1, Zenon
<1>3. z \in 3..s /\ u = SubSeq(d, 4, z) /\ Units(d) = <<u>> \o Units(r)
  <2>1. /\ Size(d) \in 3..Skip(d) /\ UnitAt(d, 0) = SubSeq(d, 4, Size(d))
        /\ Units(d) = <<UnitAt(d, 0)>> \o Units(Drop(d, Skip(d)))
    BY <1>2, NextUnit
  <2> QED
    BY <2>1, Zenon
<1>4. /\ s \in 4..Len(d) /\ Len(d) \in Nat
      /\ IF NextStarts(d) = {} THEN s = Len(d) ELSE s + 3 <= Len(d) /\ StartsAt(d, s)
  BY SkipIs
<1>5. r \in Seq(Byte) /\ Len(r) = Len(d) - s /\ H264WellFormed(r)
  <2>1. s \in 0..Len(d)
    BY <1>4
  <2> QED
    BY <2>1, DropIs, WellFormedRest
<1>6. r = <<>> <=> s = Len(d)
  <2>1. r = <<>> <=> Len(r) = 0
    BY <1>5, EmptySeq
  <2> HIDE DEF s
  <2> QED
    BY <1>4, <1>5, <2>1
<1>7. s # Len(d) => StartsAt(r, 0) /\ Len(r) >= 3
  <2> SUFFICES ASSUME s # Len(d)
               PROVE  StartsAt(r, 0) /\ Len(r) >= 3
    OBVIOUS
  <2>1. s + 3 <= Len(d) /\ StartsAt(d, s)
    BY <1>4
  <2>2. s \in 0..Len(d) /\ s + 0 + 3 <= Len(d) /\ s + 0 = s
    BY <1>4, <2>1
  <2>3. StartsAt(Drop(d, s), 0) <=> StartsAt(d, s + 0)
    BY <2>2, StartOfRest
  <2> HIDE DEF s
  <2>4. Len(r) >= 3
    BY <1>4, <1>5, <2>1
  <2>5. StartsAt(d, s + 0)
    BY <2>1, <2>2
  <2> QED
    BY <2>3, <2>4, <2>5 DEF s
<1>8. StartsAt(r, 0) /\ Len(r) >= 3 => Units(r) # <<>>
  <2> SUFFICES ASSUME StartsAt(r, 0), Len(r) >= 3
               PROVE  Units(r) # <<>>
    OBVIOUS
  <2>1. Units(r) = <<UnitAt(r, 0)>> \o Units(Drop(r, 1))
    BY <1>5, FirstUnit
  <2>2. Drop(r, 1) \in Seq(Byte)
    <3>1. 1 \in 0..Len(r)
      BY <1>5
    <3> QED
      BY <1>5, <3>1, DropIs
  <2>3. Units(Drop(r, 1)) \in Seq(Seq(Byte)) /\ UnitAt(r, 0) \in Seq(Byte)
    <3>1. 0 + 3 <= Len(r) /\ 0 \in Nat
      BY <1>5
    <3>2. UnitAt(r, 0) \in Seq(Byte)
      BY <1>5, <3>1, UnitAtIs
    <3> QED
      BY <2>2, <3>2, UnitListIs
  <2> DEFINE a == <<UnitAt(r, 0)>>
             b == Units(Drop(r, 1))
  <2>4. a \in Seq(Seq(Byte)) /\ Len(a) = 1
    BY <2>3
  <2>5. a \o b \in Seq(Seq(Byte)) /\ Len(a \o b) = Len(a) + Len(b)
    <3> HIDE DEF a, b
    <3> QED
      BY <2>3, <2>4, ConcatProperties DEF b
  <2> HIDE DEF a, b
  <2>6. a \o b # <<>>
    <3>1. Len(b) \in Nat
      BY <2>3 DEF b
    <3>2. Len(a \o b) # 0
      BY <2>4, <2>5, <3>1
    <3> QED
      BY <2>5, <3>2, EmptySeq
  <2> QED
    BY <2>1, <2>6 DEF a, b
<1>9. /\ c \in Seq(Byte) /\ Len(c) = z /\ \A k \in 1..z : c[k] = d[k]
  <2>1. 0 \in 0..Len(d) /\ z \in 0..Len(d) /\ 0 + 1 = 1 /\ z - 0 = z /\ \A k \in 1..z : 0 + k = k
    BY <1>3, <1>4
  <2>2. /\ SubSeq(d, 0 + 1, z) \in Seq(Byte) /\ Len(SubSeq(d, 0 + 1, z)) = z - 0
        /\ \A k \in 1..(z - 0) : SubSeq(d, 0 + 1, z)[k] = d[0 + k]
    BY <2>1, SubSeqIs
  <2>3. c = SubSeq(d, 0 + 1, z)
    BY <2>1 DEF Cut
  <2> QED
    BY <2>1, <2>2, <2>3
<1>10. /\ u \in Seq(Byte) /\ Len(u) = z - 3 /\ \A k \in 1..(z - 3) : u[k] = d[3 + k]
  <2>1. 3 \in 0..Len(d) /\ z \in 3..Len(d) /\ 3 + 1 = 4
    BY <1>3, <1>4
  <2>2. /\ SubSeq(d, 3 + 1, z) \in Seq(Byte) /\ Len(SubSeq(d, 3 + 1, z)) = z - 3
        /\ \A k \in 1..(z - 3) : SubSeq(d, 3 + 1, z)[k] = d[3 + k]
    BY <2>1, SubSeqIs
  <2> QED
    BY <1>3, <2>1, <2>2
<1> HIDE DEF c, z, s, h
<1>11. Len(c) = Len(u) + 3
  BY <1>3, <1>4, <1>9, <1>10
<1>12. Drop(c, 3) = u
  <2>1. 3 \in 0..Len(c)
    BY <1>3, <1>4, <1>9
  <2> DEFINE v == Drop(c, 3)
  <2>2. v \in Seq(Byte) /\ Len(v) = Len(c) - 3 /\ \A k \in 1..(Len(c) - 3) : v[k] = c[3 + k]
    BY <1>9, <2>1, DropIs
  <2> HIDE DEF v
  <2>3. Len(v) = Len(u)
    BY <1>9, <1>10, <2>2
  <2>4. ASSUME NEW k \in 1..Len(v)
        PROVE  v[k] = u[k]
    <3>1. k \in 1..(z - 3) /\ 3 + k \in 1..z /\ k \in 1..(Len(c) - 3)
      BY <1>3, <1>4, <1>9, <1>10, <2>3
    <3> QED
      BY <1>9, <1>10, <2>2, <3>1
  <2>5. v = u
    BY <1>10, <2>2, <2>3, <2>4, SeqEqual
  <2> QED
    BY <2>5 DEF v
<1>13. Len(c) >= Len(d) <=> r = <<>>
  <2>1. NextStarts(d) = {} => z = Len(d)
    BY DEF Size, z
  <2> QED
    BY <1>3, <1>4, <1>6, <1>9, <2>1
<1>14. z > 3 => NalHeader(c) = h /\ u[1] = h
  <2> SUFFICES ASSUME z > 3
               PROVE  NalHeader(c) = h /\ u[1] = h
    OBVIOUS
  <2>1. 4 \in 1..z /\ 1 \in 1..(z - 3) /\ 3 + 1 = 4
    BY <1>3, <1>4
  <2> QED
    BY <1>9, <1>10, <2>1 DEF NalHeader, h
<1>15. Accepted(c) <=> u \in Payloads
  <2>1. z \in Nat /\ (Len(u) > 1 <=> Len(c) >= 5) /\ (Len(u) > 1 => z > 3)
    BY <1>3, <1>4, <1>9, <1>10
  <2>2. u \in Payloads <=> Len(u) > 1 /\ u[1] % 32 \notin {7, 8}
    BY <1>10 DEF Payloads
  <2>3. Accepted(c) <=> Len(c) >= 5 /\ NalHeader(c) % 32 \notin {7, 8}
    BY DEF Accepted, NalType
  <2> QED
    BY <1>14, <2>1, <2>2, <2>3
<1>16. ASSUME Accepted(c)
       PROVE  /\ NalHeader(c) \in Byte /\ NalHeader(c) < 128
              /\ Drop(c, 4) \in Seq(Byte) /\ Len(Drop(c, 4)) = Len(u) - 1
              /\ Len(u) > 1
              /\ u = <<NalHeader(c)>> \o Drop(c, 4)
              /\ u[1] % 32 # 28
  <2>1. Len(c) >= 5 /\ z > 3 /\ Len(u) > 1
    <3>1. Len(c) >= 5
      BY <1>16 DEF Accepted
    <3> QED
      BY <1>3, <1>4, <1>9, <1>10, <3>1
  <2>2. NalHeader(c) = h /\ u[1] = h
    BY <1>14, <2>1
  <2>3. 3 \in 0..Len(c) /\ 1 \in 0..(Len(c) - 3) /\ 4 \in 0..Len(c) /\ 3 + 1 = 4
    BY <1>3, <1>4, <1>9, <2>1
  <2>4. Drop(c, 4) = Drop(u, 1)
    BY <1>9, <1>12, <2>3, DropDrop
  <2>5. Drop(c, 4) \in Seq(Byte) /\ Len(Drop(c, 4)) = Len(c) - 4
    BY <1>9, <2>3, DropIs
  <2>6. Len(Drop(c, 4)) = Len(u) - 1
    <3> DEFINE x == Len(Drop(c, 4))
    <3>1. x = Len(c) - 4
      BY <2>5
    <3> HIDE DEF x
    <3>2. x = Len(u) - 1
      BY <1>9, <1>10, <1>11, <3>1
    <3> QED
      BY <3>2 DEF x
  <2>7. u = <<u[1]>> \o Drop(u, 1)
    <3>1. 1 \in 0..Len(u)
      BY <1>10, <2>1
    <3>2. SubSeq(u, 1, 1) \o Drop(u, 1) = u
      BY <1>10, <3>1, BeginningAndRest
    <3>3. SubSeq(u, 1, 1) = <<u[1]>>
      <4> DEFINE x == SubSeq(u, 1, 1)
      <4>1. 0 \in 0..Len(u) /\ 1 \in 0..Len(u) /\ 0 + 1 = 1 /\ 1 - 0 = 1
        BY <3>1
      <4>2. /\ SubSeq(u, 0 + 1, 1) \in Seq(Byte) /\ Len(SubSeq(u, 0 + 1, 1)) = 1 - 0
            /\ \A k \in 1..(1 - 0) : SubSeq(u, 0 + 1, 1)[k] = u[0 + k]
        BY <1>10, <4>1, SubSeqIs
      <4>3. x \in Seq(Byte) /\ Len(x) = 1 /\ x[1] = u[1]
        BY <4>1, <4>2
      <4> HIDE DEF x
      <4>4. x = <<x[1]>>
        BY <4>3
      <4> QED
        BY <4>3, <4>4 DEF x
    <3> QED
      BY <3>2, <3>3
  <2>8. u[1] % 32 # 28
    <3> DEFINE x == u[1] % 32
    <3>1. x \in 1..23
      BY <1>1, <2>2
    <3> HIDE DEF x
    <3>2. x # 28
      BY <3>1
    <3> QED
      BY <3>2 DEF x
  <2>9. u = <<NalHeader(c)>> \o Drop(c, 4)
    BY <2>2, <2>4, <2>7, Zenon
  <2> QED
    BY <1>1, <2>1, <2>2, <2>5, <2>6, <2>8, <2>9
<1> QED
  BY <1>3, <1>5, <1>6, <1>7, <1>8, <1>10, <1>11, <1>12, <1>13, <1>15, <1>16 DEF c

-----------------------------------------------------------------------------
(* Packets.                                                                 *)

\* p is a packet that starts a unit with header h and payload b or adds b to one.
IsFragment(p, h, b, start) ==
    /\ p \in Seq(Byte) /\ Len(p) = Len(b) + 2
    /\ \A got : Received1(got, p) =
           IF start THEN Append(got, <<h>> \o b)
           ELSE IF got = <<>> THEN <<>> ELSE Front(got) \o <<Last(got) \o b>>

(* A receiver of a fragment: the header comes back, and of the payload      *)
(* nothing is lost.                                                         *)
LEMMA FragmentBytes ==
    ASSUME NEW h \in Byte, h < 128, NEW b \in Seq(Byte),
           NEW start \in BOOLEAN, NEW end \in BOOLEAN
    PROVE  IsFragment(FuA(h, start, end, b), h, b, start)
<1> DEFINE x == 32 * ((h \div 32) % 4) + 28
           y == (IF start THEN 128 ELSE 0) + (IF end THEN 64 ELSE 0) + (h % 32)
           p == FuA(h, start, end, b)
<1>1. /\ h \in Nat /\ h \div 32 \in 0..3 /\ h % 32 \in 0..31 /\ h = 32 * (h \div 32) + (h % 32)
      /\ (h \div 32) % 4 = h \div 32
  <2>1. h \in 0..127
    BY DEF Byte
  <2>2. h \div 32 \in 0..3 /\ h % 32 \in 0..31 /\ h = 32 * (h \div 32) + (h % 32)
    BY <2>1
  <2> DEFINE q == h \div 32
  <2>3. q \in 0..3
    BY <2>2
  <2> HIDE DEF q
  <2>4. q % 4 = q
    BY <2>3
  <2> QED
    BY <2>1, <2>2, <2>4 DEF q
<1>2. x \in Byte /\ x % 32 = 28 /\ (x - 28) + (h % 32) = h
  <2> DEFINE q == h \div 32
             e == h % 32
  <2>1. q \in 0..3 /\ e \in 0..31 /\ h = 32 * q + e /\ x = 32 * q + 28
    BY <1>1
  <2> HIDE DEF q, e, x
  <2>2. x % 32 = 28 /\ x \in 0..255
    BY <2>1
  <2>3. (x - 28) + e = h
    BY <2>1
  <2> QED
    BY <2>2, <2>3 DEF e, Byte
<1>3. y \in Byte /\ (y >= 128 <=> start) /\ y % 32 = h % 32
  <2> DEFINE e == h % 32
  <2>1. e \in 0..31 /\ y = (IF start THEN 128 ELSE 0) + (IF end THEN 64 ELSE 0) + e
    BY <1>1
  <2> HIDE DEF e, y
  <2>2. y \in {e, 64 + e, 128 + e, 192 + e} /\ (start <=> y \in {128 + e, 192 + e})
    BY <2>1
  <2>3. y % 32 = e
    BY <2>1, <2>2
  <2>4. y \in 0..255 /\ (y >= 128 <=> y \in {128 + e, 192 + e})
    BY <2>1, <2>2
  <2> QED
    BY <2>2, <2>3, <2>4 DEF e, Byte
<1>4. p = <<x, y>> \o b
  BY Zenon DEF FuA
<1> HIDE DEF x, y, p
<1>5. /\ p \in Seq(Byte) /\ Len(p) = Len(b) + 2 /\ p[1] = x /\ p[2] = y
      /\ \A k \in 1..Len(b) : p[2 + k] = b[k]
  <2> DEFINE a == <<x, y>>
  <2>1. a \in Seq(Byte) /\ Len(a) = 2 /\ a[1] = x /\ a[2] = y
    BY <1>2, <1>3
  <2> HIDE DEF a
  <2>2. /\ a \o b \in Seq(Byte) /\ Len(a \o b) = Len(a) + Len(b)
        /\ \A k \in 1..(Len(a) + Len(b)) : (a \o b)[k] = IF k <= Len(a) THEN a[k] ELSE b[k - Len(a)]
    BY <2>1, ConcatProperties
  <2>3. p = a \o b /\ Len(b) \in Nat
    BY <1>4 DEF a
  <2>4. p \in Seq(Byte) /\ Len(p) = Len(b) + 2 /\ p[1] = x /\ p[2] = y
    BY <2>1, <2>2, <2>3
  <2>5. ASSUME NEW k \in 1..Len(b)
        PROVE  p[2 + k] = b[k]
    <3>1. 2 + k \in 1..(Len(a) + Len(b)) /\ ~(2 + k <= Len(a)) /\ (2 + k) - Len(a) = k
      BY <2>1, <2>3
    <3> QED
      BY <2>2, <2>3, <3>1
  <2> QED
    BY <2>4, <2>5
<1>6. Drop(p, 2) = b
  <2>1. 2 \in 0..Len(p) /\ Len(b) \in Nat
    BY <1>5
  <2> DEFINE v == Drop(p, 2)
  <2>0. p \in Seq(Byte) /\ 2 \in 0..Len(p)
    BY <1>5, <2>1
  <2>2. v \in Seq(Byte) /\ Len(v) = Len(p) - 2 /\ \A k \in 1..(Len(p) - 2) : v[k] = p[2 + k]
    BY <2>0, DropIs
  <2> HIDE DEF v
  <2>3. Len(v) = Len(b) /\ \A k \in 1..Len(v) : v[k] = b[k]
    BY <1>5, <2>1, <2>2
  <2> QED
    BY <2>2, <2>3, SeqEqual DEF v
<1>7. <<(x - 28) + (y % 32)>> = <<h>>
  BY <1>2, <1>3
<1>8. ~(x % 32 # 28)
  BY <1>2
<1>9. ASSUME NEW got
      PROVE  Received1(got, p) = IF start THEN Append(got, <<h>> \o b)
                                 ELSE IF got = <<>> THEN <<>> ELSE Front(got) \o <<Last(got) \o b>>
  <2>1. Received1(got, p) = IF y >= 128 THEN Append(got, <<(x - 28) + (y % 32)>> \o Drop(p, 2))
                            ELSE IF got = <<>> THEN <<>>
                            ELSE Front(got) \o <<Last(got) \o Drop(p, 2)>>
    BY <1>5, <1>8, Zenon DEF Received1
  <2> QED
    BY <1>3, <1>6, <1>7, <2>1, Zenon
<1>10. IsFragment(p, h, b, start)
  BY <1>5, <1>9, Zenon DEF IsFragment
<1> QED
  BY <1>10 DEF p

-----------------------------------------------------------------------------
(* The invariant.                                                           *)

\* What a receiver has when the unit under way has arrived.
Complete ==
    IF h264_i_count = 0 THEN Received(h264_wire)
    ELSE IF h264_i = 0 THEN Append(Received(h264_wire), <<nal.header>> \o nal.data)
    ELSE Front(Received(h264_wire)) \o <<Last(Received(h264_wire)) \o nal.data>>

\* The fragments to come are those of what is left of the unit.
UnderWay ==
    h264_i_count > 0 =>
        /\ h264_busy /\ h264_i < h264_i_count
        /\ nal.data # <<>> /\ nal.header < 128
        /\ h264_i_count - h264_i = CountOf(Len(nal.data))
        /\ nal.last <=> p_buffer = <<>>
        /\ h264_i > 0 => Received(h264_wire) # <<>>

\* What TransportData has not looked at begins with a unit, and behind the first
\* packet nothing is left that does not.
Ahead ==
    /\ H264WellFormed(p_buffer)
    /\ Len(p_buffer) <= 4 \/ StartsAt(p_buffer, 0)
    /\ h264_wire # <<>> \/ h264_i_count > 0 => p_buffer = <<>> \/ Units(p_buffer) # <<>>
    /\ \E before \in Seq(Seq(Byte)) : Units(h264_frame) = before \o Units(p_buffer)

\* No unit is lost, split up or invented.
Arrived ==
    /\ Received(h264_wire) \in Seq(Seq(Byte))
    /\ h264_wire # <<>> => Received(h264_wire) # <<>>
    /\ Complete \in Seq(Payloads)
    /\ Complete \o Sendable(p_buffer) = Sendable(h264_frame)

\* A marker is where the frame ends.
Marked ==
    /\ \A k \in 1..Len(h264_wire) :
           h264_wire[k].marker => k = Len(h264_wire) /\ p_buffer = <<>> /\ h264_i_count = 0
    /\ h264_wire # <<>> /\ p_buffer = <<>> /\ h264_i_count = 0
       /\ Last(Units(h264_frame)) \in Payloads =>
           Last(h264_wire).marker

H264Inv == H264TypeOK /\ UnderWay /\ Ahead /\ Arrived /\ Marked /\ FitsTheMtu

(* What is to be sent of nothing, and of what begins with a unit.           *)
LEMMA SendableIs ==
    /\ Units(<<>>) = <<>> /\ Sendable(<<>>) = <<>> /\ H264WellFormed(<<>>)
    /\ \A d \in Seq(Byte) : Units(d) \in Seq(Seq(Byte)) /\ Sendable(d) \in Seq(Seq(Byte))
<1>1. Units(<<>>) = <<>>
  <2>1. <<>> \in Seq(Byte) /\ Len(<<>>) <= 2
    OBVIOUS
  <2> QED
    BY <2>1, UnitsOfTwo
<1>2. Sendable(<<>>) = <<>>
  BY <1>1, OnlyEmpty DEF Sendable
<1>3. H264WellFormed(<<>>)
  <2>1. 0..(Len(<<>>) - 4) = {}
    OBVIOUS
  <2> QED
    BY <2>1 DEF H264WellFormed
<1>4. ASSUME NEW d \in Seq(Byte)
      PROVE  Units(d) \in Seq(Seq(Byte)) /\ Sendable(d) \in Seq(Seq(Byte))
  <2>1. Units(d) \in Seq(Seq(Byte))
    BY UnitListIs
  <2> QED
    BY <2>1, OnlyType DEF Sendable
<1> QED
  BY <1>1, <1>2, <1>3, <1>4

LEMMA SendableNext ==
    ASSUME NEW d \in Seq(Byte), NEW r \in Seq(Byte), NEW u \in Seq(Byte),
           Units(d) = <<u>> \o Units(r)
    PROVE  Sendable(d) = IF u \in Payloads THEN <<u>> \o Sendable(r) ELSE Sendable(r)
<1> DEFINE a == <<u>>
           b == Units(r)
<1>1. a \in Seq(Seq(Byte)) /\ b \in Seq(Seq(Byte)) /\ Sendable(r) \in Seq(Seq(Byte))
  BY SendableIs
<1>2. Only(a, Payloads) = IF u \in Payloads THEN <<u>> ELSE <<>>
  BY OnlyOne
<1>3. <<>> \o Sendable(r) = Sendable(r)
  BY <1>1, ConcatEmptySeq
<1> HIDE DEF a, b
<1>4. Only(a \o b, Payloads) = Only(a, Payloads) \o Only(b, Payloads)
  BY <1>1, OnlyConcat DEF a, b
<1> QED
  BY <1>2, <1>3, <1>4, Zenon DEF a, b, Sendable

(* To begin with there is nothing.                                          *)
Nothing == h264_frame = <<>> /\ p_buffer = <<>> /\ h264_wire = <<>> /\ h264_i_count = 0

LEMMA NothingYet == Nothing => UnderWay /\ Ahead /\ Arrived /\ Marked /\ FitsTheMtu
<1> SUFFICES ASSUME Nothing
             PROVE  UnderWay /\ Ahead /\ Arrived /\ Marked /\ FitsTheMtu
  OBVIOUS
<1> USE DEF Nothing
<1>0. <<>> \in Seq(Seq(Byte)) /\ <<>> \in Seq(Payloads) /\ <<>> \o <<>> = <<>> /\ Len(<<>>) = 0
  OBVIOUS
<1>1. UnderWay
  BY DEF UnderWay
<1>2. Ahead
  <2>1. Len(p_buffer) <= 4
    BY <1>0
  <2>2. \E before \in Seq(Seq(Byte)) : Units(h264_frame) = before \o Units(p_buffer)
    BY <1>0, SendableIs
  <2> QED
    BY <2>1, <2>2, SendableIs DEF Ahead
<1>3. Arrived
  <2>1. Complete = <<>> /\ Received(h264_wire) = <<>>
    BY ReceivedNothing DEF Complete
  <2>2. Complete \o Sendable(p_buffer) = Sendable(h264_frame)
    BY <1>0, <2>1, SendableIs
  <2> QED
    BY <1>0, <2>1, <2>2 DEF Arrived
<1>4. Marked /\ FitsTheMtu
  BY <1>0 DEF Marked, FitsTheMtu
<1> QED
  BY <1>1, <1>2, <1>3, <1>4

LEMMA H264Initially == H264Init => H264Inv
<1> SUFFICES ASSUME H264Init
             PROVE  H264Inv
  OBVIOUS
<1>1. H264TypeOK
  <2>1. NoNal \in [header : Byte, data : Seq(Byte), last : BOOLEAN]
    BY DEF NoNal, Byte
  <2>2. <<>> \in Seq(Byte) /\ <<>> \in Seq([bytes : Seq(Byte), marker : BOOLEAN])
    OBVIOUS
  <2> QED
    BY <2>1, <2>2 DEF H264Init, H264TypeOK
<1>2. UnderWay /\ Ahead /\ Arrived /\ Marked /\ FitsTheMtu
  BY NothingYet DEF H264Init, Nothing
<1> QED
  BY <1>1, <1>2 DEF H264Inv

(* TransportData looks for the first unit.                                  *)
LEMMA TransportDataKeeps ==
    ASSUME H264Assumption, H264Inv, NEW data \in H264Frames, H264TransportData(data)
    PROVE  H264Inv'
<1>1. /\ data \in Seq(Byte) /\ H264WellFormed(data)
      /\ h264_frame' = data /\ p_buffer' = SkipToStart(data) /\ h264_wire' = <<>>
      /\ h264_busy' = TRUE
      /\ UNCHANGED <<nal, h264_i, h264_i_count>>
  BY DEF H264Assumption, H264TransportData
<1>2. h264_i_count = 0 /\ h264_i = 0
  <2>1. h264_i_count \in Nat /\ h264_i \in Nat /\ (h264_i = 0 \/ h264_i < h264_i_count)
    BY DEF H264Inv, H264TypeOK
  <2>2. ~(h264_i_count > 0)
    BY DEF H264Inv, UnderWay, H264TransportData
  <2> QED
    BY <2>1, <2>2
<1>3. PICK m \in 0..Len(data) :
             /\ SkipToStart(data) = Drop(data, m) /\ Units(data) = Units(Drop(data, m))
             /\ Len(Drop(data, m)) <= 4 \/ StartsAt(Drop(data, m), 0)
  BY <1>1, ToStart
<1> DEFINE r == Drop(data, m)
<1>4. /\ r \in Seq(Byte) /\ H264WellFormed(r) /\ p_buffer' = r /\ Units(data) = Units(r)
      /\ Len(r) <= 4 \/ StartsAt(r, 0)
  BY <1>1, <1>3, DropIs, WellFormedRest
<1> HIDE DEF r
<1>0. <<>> \in Seq(Seq(Byte)) /\ <<>> \in Seq(Payloads) /\ Len(<<>>) = 0
  OBVIOUS
<1>5. H264TypeOK'
  BY <1>1, <1>2, <1>4 DEF H264Inv, H264TypeOK
<1>6. UnderWay'
  BY <1>1, <1>2 DEF UnderWay
<1>7. Ahead'
  <2>1. <<>> \o Units(r) = Units(r)
    BY <1>4, SendableIs, ConcatEmptySeq
  <2>2. \E before \in Seq(Seq(Byte)) : Units(data) = before \o Units(r)
    BY <1>0, <1>4, <2>1
  <2>3. ~(h264_wire' # <<>> \/ h264_i_count' > 0)
    BY <1>1, <1>2
  <2> QED
    BY <1>1, <1>4, <2>2, <2>3 DEF Ahead
<1>8. Arrived'
  <2>1. Complete' = <<>> /\ Received(h264_wire') = <<>>
    BY <1>1, <1>2, ReceivedNothing DEF Complete
  <2>2. <<>> \o Sendable(r) = Sendable(r)
    BY <1>4, SendableIs, ConcatEmptySeq
  <2>3. Sendable(r) = Sendable(data)
    BY <1>4 DEF Sendable
  <2> QED
    BY <1>0, <1>1, <1>4, <2>1, <2>2, <2>3 DEF Arrived
<1>9. Marked' /\ FitsTheMtu'
  BY <1>0, <1>1 DEF Marked, FitsTheMtu
<1> QED
  BY <1>5, <1>6, <1>7, <1>8, <1>9 DEF H264Inv

LEMMA ReturnKeeps ==
    ASSUME H264Inv, H264Return
    PROVE  H264Inv'
<1>1. /\ h264_frame' = <<>> /\ p_buffer' = <<>> /\ h264_wire' = <<>> /\ h264_busy' = FALSE
      /\ h264_i_count' = 0
      /\ UNCHANGED <<nal, h264_i, h264_i_count>>
  BY DEF H264Return, H264Done
<1>2. H264TypeOK'
  <2>1. <<>> \in Seq(Byte) /\ <<>> \in Seq([bytes : Seq(Byte), marker : BOOLEAN])
    OBVIOUS
  <2> QED
    BY <1>1, <2>1 DEF H264Inv, H264TypeOK
<1>3. Nothing'
  BY <1>1 DEF Nothing
<1>4. (UnderWay /\ Ahead /\ Arrived /\ Marked /\ FitsTheMtu)'
  BY <1>3, NothingYet, PTL
<1> QED
  BY <1>2, <1>4 DEF H264Inv

\* What the cut of a unit u leaves, r, and what happens to the unit.
NalStep(u, r) ==
    \/ /\ u \notin Payloads
       /\ UNCHANGED <<nal, h264_i_count, h264_wire>>
    \/ /\ u \in Payloads /\ Len(u) <= H264MaxPayload /\ u[1] % 32 # 28
       /\ H264Write(u, r = <<>>)
       /\ UNCHANGED <<nal, h264_i_count>>
    \/ /\ u \in Payloads
       /\ \E h \in Byte, b \in Seq(Byte) :
             /\ h < 128 /\ u = <<h>> \o b /\ Len(b) > 0
             /\ nal' = [header |-> h, data |-> b, last |-> r = <<>>]
             /\ h264_i_count' = CountOf(Len(b))
       /\ UNCHANGED h264_wire

LEMMA NalStepIs ==
    ASSUME H264Assumption, H264Inv, TransportH264Nal
    PROVE  \E u \in Seq(Byte), r \in Seq(Byte) :
             /\ Units(p_buffer) = <<u>> \o Units(r) /\ H264WellFormed(r)
             /\ r = <<>> \/ (StartsAt(r, 0) /\ Units(r) # <<>>)
             /\ p_buffer' = r /\ NalStep(u, r)
<1> DEFINE d == p_buffer
           u == UnitAt(d, 0)
           r == Drop(d, Skip(d))
           c == Cut(d)
<1>1. d \in Seq(Byte) /\ Len(d) > 4 /\ H264WellFormed(d) /\ StartsAt(d, 0)
  <2>1. d \in Seq(Byte) /\ Len(d) > 4 /\ H264WellFormed(d) /\ (Len(d) <= 4 \/ StartsAt(d, 0))
    BY DEF H264Inv, H264TypeOK, Ahead, TransportH264Nal
  <2>2. Len(d) \in Nat
    BY <2>1
  <2> QED
    BY <2>1, <2>2
<1>2. /\ u \in Seq(Byte) /\ r \in Seq(Byte) /\ H264WellFormed(r)
      /\ Units(d) = <<u>> \o Units(r)
      /\ r = <<>> \/ (StartsAt(r, 0) /\ Units(r) # <<>>)
      /\ Len(c) = Len(u) + 3 /\ Drop(c, 3) = u
      /\ Len(c) >= Len(d) <=> r = <<>>
      /\ Accepted(c) <=> u \in Payloads
      /\ Accepted(c) =>
            /\ NalHeader(c) \in Byte /\ NalHeader(c) < 128
            /\ Drop(c, 4) \in Seq(Byte) /\ Len(Drop(c, 4)) = Len(u) - 1
            /\ Len(u) > 1
            /\ u = <<NalHeader(c)>> \o Drop(c, 4)
            /\ u[1] % 32 # 28
  <2> HIDE DEF d
  <2> QED
    BY <1>1, CutIs
<1>3. /\ p_buffer' = r
      /\ \/ /\ ~Accepted(c)
            /\ UNCHANGED <<nal, h264_i_count, h264_wire>>
         \/ /\ Accepted(c) /\ Len(c) - 3 <= H264MaxPayload
            /\ H264Write(Drop(c, 3), IsLast(c))
            /\ UNCHANGED <<nal, h264_i_count>>
         \/ /\ Accepted(c) /\ Len(c) - 3 > H264MaxPayload
            /\ nal' = [header |-> NalHeader(c), data |-> Drop(c, 4), last |-> IsLast(c)]
            /\ h264_i_count' = CountOf(Len(c) - 4)
            /\ UNCHANGED h264_wire
  BY Zenon DEF TransportH264Nal, Cut
<1>4. IsLast(c) = (r = <<>>)
  <2>1. IsLast(c) <=> Len(c) >= Len(d)
    BY DEF IsLast
  <2>2. IsLast(c) \in BOOLEAN
    BY DEF IsLast
  <2> QED
    BY <1>2, <2>1, <2>2
<1> HIDE DEF d, u, r, c
<1>5. Len(u) \in Nat /\ Len(c) - 3 = Len(u) /\ Len(c) - 4 = Len(u) - 1
  <2>1. Len(u) \in Nat
    BY <1>2
  <2> QED
    BY <1>2, <2>1
<1>6. NalStep(u, r)
  <2>1. CASE ~Accepted(c) /\ UNCHANGED <<nal, h264_i_count, h264_wire>>
    BY <1>2, <2>1 DEF NalStep
  <2>2. CASE Accepted(c) /\ Len(c) - 3 <= H264MaxPayload /\ H264Write(Drop(c, 3), IsLast(c))
             /\ UNCHANGED <<nal, h264_i_count>>
    <3>1. Len(u) <= H264MaxPayload
      BY <1>5, <2>2
    <3>2. H264Write(u, r = <<>>)
      BY <1>2, <1>4, <2>2, Zenon
    <3> QED
      BY <1>2, <2>2, <3>1, <3>2, Zenon DEF NalStep
  <2>3. CASE /\ Accepted(c) /\ Len(c) - 3 > H264MaxPayload
             /\ nal' = [header |-> NalHeader(c), data |-> Drop(c, 4), last |-> IsLast(c)]
             /\ h264_i_count' = CountOf(Len(c) - 4)
             /\ UNCHANGED h264_wire
    <3> DEFINE h == NalHeader(c)
               b == Drop(c, 4)
    <3>1. h \in Byte /\ b \in Seq(Byte) /\ h < 128 /\ u = <<h>> \o b /\ Len(b) = Len(u) - 1
          /\ Len(u) > 1
      BY <1>2, <2>3
    <3>2. Len(b) > 0
      <4> DEFINE n == Len(b)
      <4>1. n = Len(u) - 1 /\ Len(u) > 1
        BY <3>1
      <4> HIDE DEF n
      <4>2. n > 0
        BY <1>5, <4>1
      <4> QED
        BY <4>2 DEF n
    <3>3. h264_i_count' = CountOf(Len(b))
      BY <1>5, <2>3, <3>1
    <3>4. nal' = [header |-> h, data |-> b, last |-> r = <<>>]
      BY <1>4, <2>3, Zenon
    <3> HIDE DEF h, b
    <3>5. \E g \in Byte, e \in Seq(Byte) :
             /\ g < 128 /\ u = <<g>> \o e /\ Len(e) > 0
             /\ nal' = [header |-> g, data |-> e, last |-> r = <<>>]
             /\ h264_i_count' = CountOf(Len(e))
      BY <3>1, <3>2, <3>3, <3>4, Zenon
    <3> QED
      BY <1>2, <2>3, <3>5, Zenon DEF NalStep
  <2> QED
    BY <1>3, <2>1, <2>2, <2>3, Zenon
<1> QED
  BY <1>2, <1>3, <1>6, Zenon DEF d

\* The type of a packet.
PacketType == [bytes : Seq(Byte), marker : BOOLEAN]

LEMMA WrittenPacket ==
    ASSUME h264_wire \in Seq(PacketType), NEW b \in Seq(Byte), NEW m \in BOOLEAN, H264Write(b, m)
    PROVE  /\ h264_wire' \in Seq(PacketType) /\ h264_wire' # <<>>
           /\ Len(h264_wire') = Len(h264_wire) + 1 /\ Len(h264_wire) \in Nat
           /\ h264_wire'[Len(h264_wire')].bytes = b /\ h264_wire'[Len(h264_wire')].marker = m
           /\ Last(h264_wire').marker = m
           /\ \A k \in 1..Len(h264_wire') :
                 k # Len(h264_wire') => k \in 1..Len(h264_wire) /\ h264_wire'[k] = h264_wire[k]
           /\ Received(h264_wire') = Received1(Received(h264_wire), b)
<1> DEFINE x == [bytes |-> b, marker |-> m]
<1>1. x \in PacketType /\ x.bytes = b /\ x.marker = m
  BY DEF PacketType
<1>2. h264_wire' = Append(h264_wire, x)
  BY DEF H264Write
<1> HIDE DEF x
<1>3. /\ h264_wire' \in Seq(PacketType) /\ Len(h264_wire') = Len(h264_wire) + 1
      /\ Len(h264_wire) \in Nat
      /\ h264_wire'[Len(h264_wire')] = x
      /\ \A k \in 1..Len(h264_wire') :
            k # Len(h264_wire') => k \in 1..Len(h264_wire) /\ h264_wire'[k] = h264_wire[k]
  BY <1>1, <1>2
<1>4. h264_wire' # <<>>
  <2>1. Len(h264_wire') # 0
    BY <1>3
  <2> QED
    BY <1>3, <2>1, EmptySeq
<1>5. Received(h264_wire') = Received1(Received(h264_wire), b)
  BY <1>1, <1>2, ReceivedNext
<1> QED
  BY <1>1, <1>3, <1>4, <1>5 DEF Last

(* The unit that is cut off is complete when it has arrived, and it comes   *)
(* next.                                                                    *)
LEMMA NalKeeps ==
    ASSUME H264Assumption, H264Inv, TransportH264Nal
    PROVE  H264Inv'
<1>1. PICK u \in Seq(Byte), r \in Seq(Byte) :
             /\ Units(p_buffer) = <<u>> \o Units(r) /\ H264WellFormed(r)
             /\ r = <<>> \/ (StartsAt(r, 0) /\ Units(r) # <<>>)
             /\ p_buffer' = r /\ NalStep(u, r)
  BY NalStepIs
<1>2. /\ h264_busy /\ h264_i_count = 0 /\ h264_i = 0 /\ p_buffer # <<>>
      /\ UNCHANGED <<h264_frame, h264_i, h264_busy>>
  <2>1. h264_busy /\ h264_i_count = 0 /\ Len(p_buffer) > 4
        /\ UNCHANGED <<h264_frame, h264_i, h264_busy>>
    BY DEF TransportH264Nal
  <2>2. h264_i = 0
    BY <2>1 DEF H264Inv, H264TypeOK
  <2>3. Len(<<>>) = 0
    OBVIOUS
  <2> QED
    BY <2>1, <2>2, <2>3
<1>3. /\ h264_frame \in Seq(Byte) /\ p_buffer \in Seq(Byte)
      /\ nal \in [header : Byte, data : Seq(Byte), last : BOOLEAN]
      /\ h264_busy \in BOOLEAN /\ h264_wire \in Seq(PacketType)
  BY DEF H264Inv, H264TypeOK, PacketType
<1> DEFINE R == Received(h264_wire)
<1>4. /\ R \in Seq(Seq(Byte)) /\ (h264_wire # <<>> => R # <<>>)
      /\ R \in Seq(Payloads) /\ R \o Sendable(p_buffer) = Sendable(h264_frame)
  BY <1>2 DEF H264Inv, Arrived, Complete
<1>5. /\ Sendable(r) \in Seq(Seq(Byte)) /\ <<u>> \in Seq(Seq(Byte)) /\ Units(r) \in Seq(Seq(Byte))
      /\ Sendable(p_buffer) = IF u \in Payloads THEN <<u>> \o Sendable(r) ELSE Sendable(r)
  <2>1. Sendable(p_buffer) = IF u \in Payloads THEN <<u>> \o Sendable(r) ELSE Sendable(r)
    BY <1>1, <1>3, SendableNext
  <2> QED
    BY <2>1, SendableIs
<1>6. ASSUME u \in Payloads
      PROVE  /\ Append(R, u) \in Seq(Payloads) /\ Append(R, u) \in Seq(Seq(Byte))
             /\ Append(R, u) # <<>>
             /\ Append(R, u) \o Sendable(r) = Sendable(h264_frame)
  <2> HIDE DEF R
  <2>1. Append(R, u) = R \o <<u>> /\ Append(R, u) # <<>>
    BY <1>4, LastOfAppend
  <2>2. (R \o <<u>>) \o Sendable(r) = R \o (<<u>> \o Sendable(r))
    <3> DEFINE a == <<u>>
               b == Sendable(r)
    <3>1. a \in Seq(Seq(Byte)) /\ b \in Seq(Seq(Byte)) /\ R \in Seq(Seq(Byte))
      BY <1>4, <1>5
    <3> HIDE DEF a, b
    <3>2. Joined(R, Joined(a, b)) = Joined(Joined(R, a), b)
      BY <3>1, JoinedAssociates
    <3> QED
      BY <3>2, Zenon DEF Joined, a, b
  <2>3. Append(R, u) \in Seq(Payloads) /\ Append(R, u) \in Seq(Seq(Byte))
    BY <1>4, <1>6
  <2>4. Append(R, u) \o Sendable(r) = Sendable(h264_frame)
    BY <1>4, <1>5, <1>6, <2>1, <2>2, Zenon
  <2> QED
    BY <2>1, <2>3, <2>4
<1>7. PICK before \in Seq(Seq(Byte)) : Units(h264_frame) = before \o Units(p_buffer)
  BY DEF H264Inv, Ahead
<1>8. Units(h264_frame) = (before \o <<u>>) \o Units(r) /\ before \o <<u>> \in Seq(Seq(Byte))
  <2>1. before \o (<<u>> \o Units(r)) = (before \o <<u>>) \o Units(r)
    <3> DEFINE a == <<u>>
               b == Units(r)
    <3>1. a \in Seq(Seq(Byte)) /\ b \in Seq(Seq(Byte)) /\ before \in Seq(Seq(Byte))
      BY <1>5, <1>7
    <3> HIDE DEF a, b
    <3>2. Joined(before, Joined(a, b)) = Joined(Joined(before, a), b)
      BY <3>1, JoinedAssociates
    <3> QED
      BY <3>2, Zenon DEF Joined, a, b
  <2>2. before \o <<u>> \in Seq(Seq(Byte))
    BY <1>5, <1>7, ConcatProperties
  <2> QED
    BY <1>1, <1>7, <2>1, <2>2, Zenon
<1>9. r = <<>> => Last(Units(h264_frame)) = u
  <2>1. Units(<<>>) = <<>>
    BY SendableIs
  <2>2. (before \o <<u>>) \o <<>> = before \o <<u>>
    BY <1>8, ConcatEmptySeq
  <2>3. Last(before \o <<u>>) = u
    BY LastOfAppend
  <2> QED
    BY <1>8, <2>1, <2>2, <2>3, Zenon
<1>10. \A k \in 1..Len(h264_wire) : ~h264_wire[k].marker
  BY <1>2 DEF H264Inv, Marked
<1>11. Ahead'
  <2>1. Len(r) <= 4 \/ StartsAt(r, 0)
    <3>1. Len(<<>>) <= 4
      OBVIOUS
    <3> QED
      BY <1>1, <3>1, Zenon
  <2>2. \E w \in Seq(Seq(Byte)) : Units(h264_frame) = w \o Units(r)
    BY <1>8, Zenon
  <2>3. r = <<>> \/ Units(r) # <<>>
    BY <1>1, Zenon
  <2> QED
    BY <1>1, <1>2, <2>1, <2>2, <2>3 DEF Ahead
<1> HIDE DEF R
<1>12. CASE u \notin Payloads /\ UNCHANGED <<nal, h264_i_count, h264_wire>>
  <2>1. H264TypeOK'
    BY <1>1, <1>2, <1>12 DEF H264Inv, H264TypeOK
  <2>2. UnderWay'
    BY <1>2, <1>12 DEF UnderWay
  <2>3. Arrived'
    <3>1. Complete' = R /\ Received(h264_wire') = R
      BY <1>2, <1>12 DEF Complete, R
    <3>2. R \o Sendable(r) = Sendable(h264_frame)
      BY <1>4, <1>5, <1>12
    <3> QED
      BY <1>1, <1>2, <1>4, <1>12, <3>1, <3>2 DEF Arrived
  <2>4. Marked'
    <3>1. r = <<>> => Last(Units(h264_frame)) \notin Payloads
      BY <1>9, <1>12
    <3> QED
      BY <1>1, <1>2, <1>10, <1>12, <3>1 DEF Marked
  <2>5. FitsTheMtu'
    BY <1>12 DEF H264Inv, FitsTheMtu
  <2> QED
    BY <1>11, <2>1, <2>2, <2>3, <2>4, <2>5 DEF H264Inv
<1>13. CASE /\ u \in Payloads /\ Len(u) <= H264MaxPayload /\ u[1] % 32 # 28
            /\ H264Write(u, r = <<>>)
            /\ UNCHANGED <<nal, h264_i_count>>
  <2>1. /\ h264_wire' \in Seq(PacketType) /\ h264_wire' # <<>>
        /\ Len(h264_wire') = Len(h264_wire) + 1 /\ Len(h264_wire) \in Nat
        /\ h264_wire'[Len(h264_wire')].bytes = u /\ h264_wire'[Len(h264_wire')].marker = (r = <<>>)
        /\ Last(h264_wire').marker = (r = <<>>)
        /\ \A k \in 1..Len(h264_wire') :
              k # Len(h264_wire') => k \in 1..Len(h264_wire) /\ h264_wire'[k] = h264_wire[k]
        /\ Received(h264_wire') = Received1(Received(h264_wire), u)
    <3>1. (r = <<>>) \in BOOLEAN /\ H264Write(u, r = <<>>)
      BY <1>13
    <3> QED
      BY <1>3, <3>1, WrittenPacket
  <2>2. Received(h264_wire') = Append(R, u)
    BY <1>13, <2>1, Zenon DEF Received1, R
  <2>3. H264TypeOK'
    BY <1>1, <1>2, <1>13, <2>1 DEF H264Inv, H264TypeOK, PacketType
  <2>4. UnderWay'
    BY <1>2, <1>13 DEF UnderWay
  <2>5. Arrived'
    <3>1. Complete' = Append(R, u)
      BY <1>2, <1>13, <2>2 DEF Complete
    <3> QED
      BY <1>1, <1>2, <1>6, <1>13, <2>2, <3>1 DEF Arrived
  <2>6. Marked'
    <3>1. ASSUME NEW k \in 1..Len(h264_wire'), h264_wire'[k].marker
          PROVE  k = Len(h264_wire') /\ r = <<>>
      BY <1>10, <2>1, <3>1
    <3>2. h264_i_count' = 0
      BY <1>2, <1>13
    <3>3. r = <<>> => Last(h264_wire').marker
      BY <2>1
    <3> QED
      BY <1>1, <1>2, <3>1, <3>2, <3>3 DEF Marked
  <2>7. FitsTheMtu'
    BY <1>13, <2>1 DEF H264Inv, FitsTheMtu
  <2> QED
    BY <1>11, <2>3, <2>4, <2>5, <2>6, <2>7 DEF H264Inv
<1>14. CASE /\ u \in Payloads
            /\ \E h \in Byte, b \in Seq(Byte) :
                  /\ h < 128 /\ u = <<h>> \o b /\ Len(b) > 0
                  /\ nal' = [header |-> h, data |-> b, last |-> r = <<>>]
                  /\ h264_i_count' = CountOf(Len(b))
            /\ UNCHANGED h264_wire
  <2>1. PICK h \in Byte, b \in Seq(Byte) :
             /\ h < 128 /\ u = <<h>> \o b /\ Len(b) > 0
             /\ nal' = [header |-> h, data |-> b, last |-> r = <<>>]
             /\ h264_i_count' = CountOf(Len(b))
    BY <1>14
  <2>2. /\ nal'.header = h /\ nal'.data = b /\ nal'.last = (r = <<>>)
        /\ nal' \in [header : Byte, data : Seq(Byte), last : BOOLEAN]
    BY <2>1
  <2>3. h264_i_count' \in Nat \ {0}
    <3>1. Len(b) \in Nat \ {0}
      BY <2>1
    <3> QED
      BY <2>1, <3>1, Fragments
  <2>4. H264TypeOK'
    BY <1>1, <1>2, <1>3, <1>14, <2>2, <2>3 DEF H264TypeOK, PacketType
  <2>5. UnderWay'
    <3>1. b # <<>>
      <4>1. Len(<<>>) = 0
        OBVIOUS
      <4> QED
        BY <2>1, <4>1
    <3>2. h264_i' = 0
      BY <1>2
    <3>3. h264_i_count' - h264_i' = h264_i_count' /\ h264_i' < h264_i_count'
      <4> DEFINE n == h264_i_count'
      <4>1. n \in Nat \ {0}
        BY <2>3
      <4> HIDE DEF n
      <4>2. n - 0 = n /\ 0 < n
        BY <4>1
      <4> QED
        BY <3>2, <4>2 DEF n
    <3>4. h264_busy' /\ ~(h264_i' > 0)
      BY <1>2, <3>2
    <3>5. nal'.last <=> p_buffer' = <<>>
      BY <1>1, <2>2
    <3>6. h264_i_count' - h264_i' = CountOf(Len(nal'.data)) /\ nal'.data # <<>> /\ nal'.header < 128
      BY <2>1, <2>2, <3>1, <3>3
    <3> QED
      BY <3>3, <3>4, <3>5, <3>6, Zenon DEF UnderWay
  <2>6. Arrived'
    <3>1. Complete' = Append(R, u)
      <4>1. h264_i_count' # 0 /\ h264_i' = 0 /\ Received(h264_wire') = R
        BY <1>2, <1>14, <2>3 DEF R
      <4> QED
        BY <2>1, <2>2, <4>1, Zenon DEF Complete
    <3>2. Received(h264_wire') = R /\ (h264_wire' # <<>> => R # <<>>)
      BY <1>4, <1>14 DEF R
    <3> QED
      BY <1>1, <1>2, <1>4, <1>6, <1>14, <3>1, <3>2 DEF Arrived
  <2>7. Marked'
    BY <1>10, <1>14, <2>3 DEF Marked
  <2>8. FitsTheMtu'
    BY <1>14 DEF H264Inv, FitsTheMtu
  <2> QED
    BY <1>11, <2>4, <2>5, <2>6, <2>7, <2>8 DEF H264Inv
<1> QED
  BY <1>1, <1>12, <1>13, <1>14, Zenon DEF NalStep

\* What a fragment takes of the unit, b, and leaves of it, c; more tells whether it
\* is not the last.
FragmentStep(b, c, more) ==
    /\ nal.data = b \o c /\ more = (h264_i + 1 < h264_i_count)
    /\ Len(b) + 2 <= H264MaxPayload
    /\ H264Write(FuA(nal.header, h264_i = 0, h264_i = h264_i_count - 1, b),
                 nal.last /\ h264_i = h264_i_count - 1)
    /\ IF more
       THEN /\ h264_i' = h264_i + 1 /\ nal' = [nal EXCEPT !.data = c]
            /\ h264_i_count' = h264_i_count
            /\ c # <<>> /\ h264_i_count' - h264_i' = CountOf(Len(c))
       ELSE h264_i' = 0 /\ nal' = NoNal /\ h264_i_count' = 0 /\ c = <<>>

LEMMA FragmentStepIs ==
    ASSUME H264Assumption, H264Inv, Fragment
    PROVE  \E b \in Seq(Byte), c \in Seq(Byte), more \in BOOLEAN : FragmentStep(b, c, more)
<1> DEFINE m == H264MaxPayload - 2
           d == nal.data
           l == Len(d)
           n == Lesser(l, m)
           b == SubSeq(d, 1, n)
           c == Drop(d, n)
           left == h264_i_count - h264_i
<1>1. m \in Nat \ {0} /\ H264MaxPayload \in Nat /\ m + 2 = H264MaxPayload
  BY DEF H264Assumption
<1>2. /\ d \in Seq(Byte) /\ h264_i \in Nat /\ h264_i_count \in Nat /\ h264_i < h264_i_count
      /\ d # <<>>
      /\ left = CountOf(l)
  <2>1. h264_i_count > 0
    BY DEF Fragment, FragmentWith
  <2> QED
    BY <2>1 DEF H264Inv, H264TypeOK, UnderWay
<1>3. l \in Nat \ {0}
  <2>1. l # 0
    BY <1>2, EmptySeq
  <2> QED
    BY <1>2, <2>1
<1>4. /\ left = 1 <=> l <= m
      /\ l > m => CountOf(l - m) = left - 1
  <2> HIDE DEF l, left
  <2> QED
    BY <1>2, <1>3, Fragments
<1>5. n \in 0..l /\ n <= m /\ (l <= m => n = l) /\ (l > m => n = m)
  <2> HIDE DEF l, m
  <2> QED
    BY <1>1, <1>3 DEF Lesser
<1>6. /\ b \in Seq(Byte) /\ Len(b) = n /\ c \in Seq(Byte) /\ Len(c) = l - n
      /\ d = b \o c
  <2>0. n \in 0..Len(d) /\ 0 \in 0..Len(d) /\ n \in 0..Len(d)
    BY <1>3, <1>5
  <2> HIDE DEF d, n
  <2>1. c \in Seq(Byte) /\ Len(c) = Len(d) - n
    BY <1>2, <2>0, DropIs
  <2>2. b \in Seq(Byte) /\ Len(b) = n
    <3>1. SubSeq(d, 0 + 1, n) \in Seq(Byte) /\ Len(SubSeq(d, 0 + 1, n)) = n - 0
      BY <1>2, <2>0, SubSeqIs
    <3>2. 0 + 1 = 1 /\ n - 0 = n
      BY <2>0
    <3> QED
      BY <3>1, <3>2
  <2>3. b \o c = d
    BY <1>2, <2>0, BeginningAndRest
  <2> QED
    BY <2>1, <2>2, <2>3
<1>7. /\ H264Write(FuA(nal.header, h264_i = 0, h264_i = h264_i_count - 1, b),
                nal.last /\ h264_i = h264_i_count - 1)
      /\ IF h264_i + 1 < h264_i_count
         THEN h264_i' = h264_i + 1 /\ nal' = [nal EXCEPT !.data = c] /\ h264_i_count' = h264_i_count
         ELSE h264_i' = 0 /\ nal' = NoNal /\ h264_i_count' = 0
  BY Zenon DEF Fragment, FragmentWith
<1>8. h264_i + 1 < h264_i_count <=> left # 1
  BY <1>2
<1>9. ASSUME h264_i + 1 < h264_i_count
      PROVE  c # <<>> /\ h264_i_count - (h264_i + 1) = CountOf(Len(c))
  <2>1. l > m
    <3> HIDE DEF l, left
    <3> QED
      BY <1>1, <1>3, <1>4, <1>8, <1>9
  <2>2. Len(c) = l - m /\ n = m
    BY <1>5, <1>6, <2>1
  <2>3. c # <<>>
    <3>1. Len(<<>>) = 0
      OBVIOUS
    <3>2. l - m # 0
      <4> HIDE DEF l, m
      <4> QED
        BY <1>1, <1>3, <2>1
    <3> HIDE DEF c
    <3> QED
      BY <2>2, <3>1, <3>2
  <2>4. h264_i_count - (h264_i + 1) = left - 1
    BY <1>2
  <2>5. CountOf(Len(c)) = left - 1
    <3> HIDE DEF left, l, c
    <3> QED
      BY <1>4, <2>1, <2>2
  <2> QED
    BY <2>3, <2>4, <2>5
<1>10. ASSUME ~(h264_i + 1 < h264_i_count)
       PROVE  c = <<>>
  <2>1. left = 1
    BY <1>8, <1>10
  <2>2. l <= m /\ n = l
    <3> HIDE DEF left, l, m, n
    <3> QED
      BY <1>4, <1>5, <2>1
  <2>3. Len(c) = 0
    <3> HIDE DEF c, l, n
    <3> QED
      BY <1>3, <1>6, <2>2
  <2> HIDE DEF c
  <2> QED
    BY <1>6, <2>3, EmptySeq
<1>11. Len(b) + 2 <= H264MaxPayload
  <2> HIDE DEF b, n, m
  <2>1. n \in Nat
    BY <1>5
  <2> QED
    BY <1>1, <1>5, <1>6, <2>1
<1> HIDE DEF b, c, n, l, left, m
<1>12. FragmentStep(b, c, h264_i + 1 < h264_i_count)
  <2>1. CASE h264_i + 1 < h264_i_count
    <3>1. h264_i_count' - h264_i' = CountOf(Len(c))
      BY <1>7, <1>9, <2>1
    <3> QED
      BY <1>6, <1>7, <1>9, <1>11, <2>1, <3>1 DEF FragmentStep
  <2>2. CASE ~(h264_i + 1 < h264_i_count)
    BY <1>6, <1>7, <1>10, <1>11, <2>2 DEF FragmentStep
  <2> QED
    BY <2>1, <2>2
<1>13. (h264_i + 1 < h264_i_count) \in BOOLEAN
  OBVIOUS
<1> QED
  BY <1>6, <1>12, <1>13, Zenon

(* A fragment brings a receiver closer to the unit it is of.                *)
LEMMA FragmentKeeps ==
    ASSUME H264Assumption, H264Inv, Fragment
    PROVE  H264Inv'
<1>1. PICK b \in Seq(Byte), c \in Seq(Byte), more \in BOOLEAN : FragmentStep(b, c, more)
  BY FragmentStepIs
<1>2. h264_i_count > 0 /\ UNCHANGED <<h264_frame, p_buffer, h264_busy>>
  BY DEF Fragment, FragmentWith
<1>3. /\ h264_frame \in Seq(Byte) /\ p_buffer \in Seq(Byte)
      /\ nal \in [header : Byte, data : Seq(Byte), last : BOOLEAN]
      /\ h264_i \in Nat /\ h264_i_count \in Nat
      /\ h264_busy \in BOOLEAN /\ h264_wire \in Seq(PacketType)
  BY DEF H264Inv, H264TypeOK, PacketType
<1>4. /\ h264_busy /\ h264_i < h264_i_count /\ nal.header < 128 /\ (nal.last <=> p_buffer = <<>>)
      /\ h264_i > 0 => Received(h264_wire) # <<>>
  BY <1>2 DEF H264Inv, UnderWay
<1> DEFINE got == Received(h264_wire)
           h == nal.header
           base == IF h264_i = 0 THEN got ELSE Front(got)
           cur == IF h264_i = 0 THEN <<h>> ELSE Last(got)
           p == FuA(h, h264_i = 0, h264_i = h264_i_count - 1, b)
           end == nal.last /\ h264_i = h264_i_count - 1
<1>5. /\ got \in Seq(Seq(Byte)) /\ Complete \in Seq(Payloads)
      /\ Complete \o Sendable(p_buffer) = Sendable(h264_frame)
  BY DEF H264Inv, Arrived
<1>6. h \in Byte /\ nal.data \in Seq(Byte) /\ nal.last \in BOOLEAN /\ end \in BOOLEAN
  BY <1>3
<1>7. base \in Seq(Seq(Byte)) /\ cur \in Seq(Byte)
  <2>1. CASE h264_i = 0
    BY <1>5, <1>6, <2>1
  <2>2. CASE h264_i # 0
    <3>1. got # <<>>
      BY <1>3, <1>4, <2>2
    <3> HIDE DEF got
    <3>2. Front(got) \in Seq(Seq(Byte)) /\ Last(got) \in Seq(Byte)
      BY <1>5, <3>1, FrontAndLast
    <3> QED
      BY <2>2, <3>2
  <2> QED
    BY <2>1, <2>2
<1>8. /\ p \in Seq(Byte) /\ Len(p) = Len(b) + 2
      /\ Received1(got, p) = base \o <<cur \o b>>
  <2>0. (h264_i = 0) \in BOOLEAN /\ (h264_i = h264_i_count - 1) \in BOOLEAN /\ h < 128
    BY <1>4
  <2>1. /\ p \in Seq(Byte) /\ Len(p) = Len(b) + 2
        /\ Received1(got, p) = IF h264_i = 0 THEN Append(got, <<h>> \o b)
                               ELSE IF got = <<>> THEN <<>> ELSE Front(got) \o <<Last(got) \o b>>
    <3> DEFINE starts == h264_i = 0
               ends == h264_i = h264_i_count - 1
    <3>1. starts \in BOOLEAN /\ ends \in BOOLEAN /\ h \in Byte /\ h < 128
      BY <1>6, <2>0
    <3> HIDE DEF h, got, starts, ends
    <3>2. IsFragment(FuA(h, starts, ends, b), h, b, starts)
      BY <3>1, FragmentBytes
    <3> QED
      BY <3>2, Zenon DEF starts, ends, IsFragment
  <2>2. CASE h264_i = 0
    <3>1. <<h>> \o b \in Seq(Byte)
      BY <1>6
    <3> DEFINE x == <<h>> \o b
    <3> HIDE DEF x, got
    <3>2. Append(got, x) = got \o <<x>>
      BY <1>5, <3>1, LastOfAppend DEF x
    <3> QED
      BY <2>1, <2>2, <3>2 DEF x
  <2>3. CASE h264_i # 0
    <3>1. got # <<>>
      BY <1>3, <1>4, <2>3
    <3> QED
      BY <2>1, <2>3, <3>1
  <2> QED
    BY <2>1, <2>2, <2>3
<1>9. Complete = base \o <<(cur \o b) \o c>>
  <2>1. (cur \o b) \o c = cur \o nal.data
    <3>1. cur \o (b \o c) = (cur \o b) \o c
      <4> HIDE DEF cur
      <4>1. Joined(cur, Joined(b, c)) = Joined(Joined(cur, b), c)
        BY <1>7, JoinedAssociates
      <4> QED
        BY <4>1, Zenon DEF Joined
    <3>2. nal.data = b \o c
      BY <1>1 DEF FragmentStep
    <3> HIDE DEF cur
    <3> QED
      BY <3>1, <3>2
  <2>2. h264_i_count # 0
    BY <1>2, <1>3
  <2>3. CASE h264_i = 0
    <3>1. Complete = Append(got, cur \o nal.data)
      BY <2>2, <2>3 DEF Complete
    <3>2. cur \o nal.data \in Seq(Byte)
      <4> HIDE DEF cur
      <4> QED
        BY <1>6, <1>7, ConcatProperties
    <3> DEFINE x == cur \o nal.data
    <3>3. Append(got, x) = got \o <<x>>
      <4> HIDE DEF x, got
      <4> QED
        BY <1>5, <3>2, LastOfAppend DEF x
    <3>4. base = got
      BY <2>3
    <3> HIDE DEF got, cur, base
    <3> QED
      BY <2>1, <3>1, <3>3, <3>4, Zenon
  <2>4. CASE h264_i # 0
    <3>1. Complete = Front(got) \o <<Last(got) \o nal.data>>
      BY <2>2, <2>4 DEF Complete
    <3>2. base = Front(got) /\ cur = Last(got)
      BY <2>4
    <3> HIDE DEF got, cur, base
    <3> QED
      BY <2>1, <3>1, <3>2, Zenon
  <2> QED
    BY <2>3, <2>4
<1> DEFINE now == Received(h264_wire')
<1>10. /\ h264_wire' \in Seq(PacketType) /\ h264_wire' # <<>>
       /\ Len(h264_wire') = Len(h264_wire) + 1 /\ Len(h264_wire) \in Nat
       /\ h264_wire'[Len(h264_wire')].bytes = p /\ h264_wire'[Len(h264_wire')].marker = end
       /\ Last(h264_wire').marker = end
       /\ \A k \in 1..Len(h264_wire') :
             k # Len(h264_wire') => k \in 1..Len(h264_wire) /\ h264_wire'[k] = h264_wire[k]
       /\ now = Received1(got, p)
  <2>1. H264Write(p, end)
    BY <1>1 DEF FragmentStep
  <2> HIDE DEF p, end
  <2> QED
    BY <1>3, <1>6, <1>8, <2>1, WrittenPacket
<1> HIDE DEF base, cur, got, p
<1>11. cur \o b \in Seq(Byte) /\ now = base \o <<cur \o b>>
  <2>1. cur \o b \in Seq(Byte)
    BY <1>7, ConcatProperties
  <2> QED
    BY <1>8, <1>10, <2>1, Zenon
<1>12. /\ now \in Seq(Seq(Byte)) /\ now # <<>> /\ Front(now) = base /\ Last(now) = cur \o b
  <2> DEFINE x == cur \o b
  <2>1. Append(base, x) = base \o <<x>> /\ Append(base, x) # <<>>
        /\ Front(base \o <<x>>) = base /\ Last(base \o <<x>>) = x
    <3> HIDE DEF x
    <3> QED
      BY <1>7, <1>11, LastOfAppend DEF x
  <2>2. Append(base, x) \in Seq(Seq(Byte))
    <3> HIDE DEF x
    <3> QED
      BY <1>7, <1>11 DEF x
  <2> HIDE DEF now
  <2> QED
    BY <1>11, <2>1, <2>2, Zenon
<1>13. \A k \in 1..Len(h264_wire) : ~h264_wire[k].marker
  BY <1>2 DEF H264Inv, Marked
<1>14. FitsTheMtu'
  <2>1. Len(p) <= H264MaxPayload
    BY <1>1, <1>8 DEF FragmentStep
  <2> QED
    BY <1>10, <2>1 DEF H264Inv, FitsTheMtu
<1>15. Ahead'
  BY <1>2 DEF H264Inv, Ahead
<1>16. CASE more
  <2>1. /\ h264_i' = h264_i + 1 /\ nal' = [nal EXCEPT !.data = c] /\ h264_i_count' = h264_i_count
        /\ c # <<>> /\ h264_i_count' - h264_i' = CountOf(Len(c)) /\ h264_i + 1 < h264_i_count
    BY <1>1, <1>16 DEF FragmentStep
  <2>2. /\ nal' \in [header : Byte, data : Seq(Byte), last : BOOLEAN]
        /\ nal'.header = h /\ nal'.data = c /\ nal'.last = nal.last
    BY <1>3, <2>1
  <2>3. h264_i' \in Nat /\ h264_i' > 0 /\ h264_i' < h264_i_count' /\ h264_i_count' > 0
        /\ h264_i_count' \in Nat /\ h264_i' # 0 /\ h264_i_count' # 0
    BY <1>3, <2>1
  <2>4. H264TypeOK'
    BY <1>2, <1>3, <1>10, <2>2, <2>3 DEF H264TypeOK, PacketType
  <2>5. UnderWay'
    <3>1. nal'.last <=> p_buffer' = <<>>
      BY <1>2, <1>4, <2>2
    <3>2. h264_busy' /\ nal'.data # <<>> /\ nal'.header < 128
          /\ h264_i_count' - h264_i' = CountOf(Len(nal'.data))
      BY <1>2, <1>4, <2>1, <2>2
    <3>3. Received(h264_wire') # <<>>
      BY <1>12
    <3> QED
      BY <2>3, <3>1, <3>2, <3>3, Zenon DEF UnderWay
  <2>6. Arrived'
    <3>1. Complete' = Front(now) \o <<Last(now) \o nal'.data>>
      BY <2>3 DEF Complete
    <3>2. Complete' = Complete
      BY <1>9, <1>12, <2>2, <3>1, Zenon
    <3>3. now \in Seq(Seq(Byte)) /\ now # <<>>
      BY <1>12
    <3>4. Complete' \in Seq(Payloads) /\ Complete' \o Sendable(p_buffer') = Sendable(h264_frame')
      BY <1>2, <1>5, <3>2
    <3> QED
      BY <3>3, <3>4 DEF Arrived
  <2>7. Marked'
    <3>1. ~end
      <4>1. h264_i # h264_i_count - 1
        BY <1>3, <2>1
      <4> QED
        BY <4>1
    <3>2. ASSUME NEW k \in 1..Len(h264_wire')
          PROVE  ~h264_wire'[k].marker
      <4> HIDE DEF end
      <4> QED
        BY <1>10, <1>13, <3>1
    <3> QED
      BY <2>3, <3>2 DEF Marked
  <2> QED
    BY <1>14, <1>15, <2>4, <2>5, <2>6, <2>7 DEF H264Inv
<1>17. CASE ~more
  <2>1. h264_i' = 0 /\ nal' = NoNal /\ h264_i_count' = 0 /\ c = <<>> /\ ~(h264_i + 1 < h264_i_count)
    BY <1>1, <1>17 DEF FragmentStep
  <2>2. NoNal \in [header : Byte, data : Seq(Byte), last : BOOLEAN]
    BY DEF NoNal, Byte
  <2>3. H264TypeOK'
    BY <1>2, <1>3, <1>10, <2>1, <2>2 DEF H264TypeOK, PacketType
  <2>4. UnderWay'
    BY <2>1 DEF UnderWay
  <2>5. Arrived'
    <3>1. Complete' = now
      BY <2>1 DEF Complete
    <3>2. (cur \o b) \o c = cur \o b
      <4> DEFINE x == cur \o b
      <4> HIDE DEF x
      <4>1. x \o <<>> = x
        BY <1>11, ConcatEmptySeq DEF x
      <4> QED
        BY <2>1, <4>1 DEF x
    <3>3. Complete' = Complete
      BY <1>9, <1>11, <3>1, <3>2, Zenon
    <3>4. now \in Seq(Seq(Byte)) /\ now # <<>>
      BY <1>12
    <3>5. Complete' \in Seq(Payloads) /\ Complete' \o Sendable(p_buffer') = Sendable(h264_frame')
      BY <1>2, <1>5, <3>3
    <3> QED
      BY <3>4, <3>5 DEF Arrived
  <2>6. Marked'
    <3>1. end <=> p_buffer' = <<>>
      <4>1. h264_i = h264_i_count - 1
        BY <1>3, <1>4, <2>1
      <4> QED
        BY <1>2, <1>4, <4>1
    <3> HIDE DEF end
    <3>2. ASSUME NEW k \in 1..Len(h264_wire'), h264_wire'[k].marker
          PROVE  k = Len(h264_wire') /\ p_buffer' = <<>>
      BY <1>10, <1>13, <3>1, <3>2
    <3>3. p_buffer' = <<>> => Last(h264_wire').marker
      BY <1>10, <3>1
    <3> QED
      BY <2>1, <3>2, <3>3 DEF Marked
  <2> QED
    BY <1>14, <1>15, <2>3, <2>4, <2>5, <2>6 DEF H264Inv
<1> QED
  BY <1>16, <1>17

LEMMA H264Always ==
    ASSUME H264Assumption
    PROVE  H264Inv /\ [H264Next]_h264Vars => H264Inv'
<1> SUFFICES ASSUME H264Inv, [H264Next]_h264Vars
             PROVE  H264Inv'
  OBVIOUS
<1>1. ASSUME NEW data \in H264Frames, H264TransportData(data)
      PROVE  H264Inv'
  BY <1>1, TransportDataKeeps
<1>2. CASE TransportH264Nal
  BY <1>2, NalKeeps
<1>3. CASE Fragment
  BY <1>3, FragmentKeeps
<1>4. CASE H264Return
  BY <1>4, ReturnKeeps
<1>5. CASE UNCHANGED h264Vars
  BY <1>5 DEF h264Vars, H264Inv, H264TypeOK, UnderWay, Ahead, Arrived, Complete, Marked, FitsTheMtu
<1> QED
  BY <1>1, <1>2, <1>3, <1>4, <1>5 DEF H264Next

(* What TransportData does not look at has no unit to send.                 *)
LEMMA LeftOver ==
    ASSUME H264Inv, H264Done
    PROVE  /\ Received(h264_wire) = Sendable(h264_frame)
           /\ h264_wire # <<>>
              /\ Last(Received(h264_wire)) = Last(Units(h264_frame)) => Last(h264_wire).marker
<1> DEFINE d == p_buffer
           R == Received(h264_wire)
<1>1. /\ d \in Seq(Byte) /\ Len(d) <= 4 /\ h264_i_count = 0
      /\ R \in Seq(Seq(Byte)) /\ R \in Seq(Payloads) /\ (h264_wire # <<>> => R # <<>>)
      /\ R \o Sendable(d) = Sendable(h264_frame)
  BY DEF H264Inv, H264TypeOK, Arrived, Complete, H264Done
<1>2. Units(d) = <<>> \/ \E u \in Seq(Byte) : Units(d) = <<u>> /\ u \notin Payloads
  <2>1. Units(d) = <<>> \/ \E u \in Seq(Byte) : Units(d) = <<u>> /\ Len(u) <= 1
    <3> HIDE DEF d
    <3> QED
      BY <1>1, UnitsOfFour
  <2>2. ASSUME NEW u \in Seq(Byte), Len(u) <= 1
        PROVE  u \notin Payloads
    BY <2>2 DEF Payloads
  <2> QED
    BY <2>1, <2>2
<1>3. Sendable(d) = <<>>
  <2>1. CASE Units(d) = <<>>
    BY <2>1, OnlyEmpty DEF Sendable
  <2>2. CASE \E u \in Seq(Byte) : Units(d) = <<u>> /\ u \notin Payloads
    <3>1. PICK u \in Seq(Byte) : Units(d) = <<u>> /\ u \notin Payloads
      BY <2>2
    <3>2. Only(<<u>>, Payloads) = IF u \in Payloads THEN <<u>> ELSE <<>>
      BY OnlyOne
    <3> QED
      BY <3>1, <3>2, Zenon DEF Sendable
  <2> QED
    BY <1>2, <2>1, <2>2
<1>4. R = Sendable(h264_frame)
  <2>1. R \o <<>> = R
    <3> HIDE DEF R
    <3> QED
      BY <1>1, ConcatEmptySeq
  <2> QED
    BY <1>1, <1>3, <2>1, Zenon
<1>5. ASSUME h264_wire # <<>>, Last(R) = Last(Units(h264_frame))
      PROVE  Last(h264_wire).marker
  <2>1. Last(R) \in Payloads
    <3> HIDE DEF R
    <3> QED
      BY <1>1, <1>5, FrontAndLast
  <2>2. d = <<>> \/ Units(d) # <<>>
    BY <1>5 DEF H264Inv, Ahead
  <2>3. CASE Units(d) # <<>>
    <3>1. PICK u \in Seq(Byte) : Units(d) = <<u>> /\ u \notin Payloads
      BY <1>2, <2>3
    <3>2. PICK before \in Seq(Seq(Byte)) : Units(h264_frame) = before \o Units(d)
      BY DEF H264Inv, Ahead
    <3>3. Last(before \o <<u>>) = u
      BY LastOfAppend
    <3> QED
      BY <1>5, <2>1, <3>1, <3>2, <3>3, Zenon
  <2>4. CASE d = <<>>
    <3> HIDE DEF R
    <3>1. Last(Units(h264_frame)) \in Payloads
      BY <1>5, <2>1
    <3> QED
      BY <1>1, <1>5, <2>4, <3>1 DEF H264Inv, Marked
  <2> QED
    BY <2>2, <2>3, <2>4
<1> QED
  BY <1>4, <1>5

LEMMA H264Promises ==
    ASSUME H264Inv
    PROVE  H264TypeOK /\ H264ReceiverHasTheFrame /\ H264MarkerEndsTheFrame /\ FitsTheMtu
<1>1. H264TypeOK /\ FitsTheMtu
  BY DEF H264Inv
<1>2. H264ReceiverHasTheFrame
  BY LeftOver DEF H264ReceiverHasTheFrame
<1>3. H264MarkerEndsTheFrame
  <2>1. \A k \in 1..Len(h264_wire) : h264_wire[k].marker => k = Len(h264_wire)
    BY DEF H264Inv, Marked
  <2> QED
    BY <2>1, LeftOver DEF H264MarkerEndsTheFrame
<1> QED
  BY <1>1, <1>2, <1>3

(* As TransportData returns, a receiver has every unit of the frame, whole  *)
(* and in order; the marker is where the frame ends; and no packet is       *)
(* longer than the MTU allows: for frames of any bytes, and any MTU.        *)
THEOREM H264FramesArrive == H264Spec => []H264FrameArrives
<1>1. H264Init => H264Inv
  BY H264Initially
<1>2. H264Inv /\ [H264Next]_h264Vars => H264Inv'
  BY H264Assumption, H264Always
<1>3. H264Inv => H264FrameArrives
  BY H264Promises DEF H264FrameArrives
<1> QED
  BY <1>1, <1>2, <1>3, PTL DEF H264Spec

-----------------------------------------------------------------------------
(* The pace of the feeder.                                                  *)

\* The tick count at which the count of frames began is that of its time, which is past.
PaceInv ==
    /\ clock \in Nat /\ began \in 0..clock /\ i_begin_time = began % TickRange
    /\ frame_count \in Nat

(* Where the tick count has not gone back, it shows no more time than has   *)
(* passed, however often it has gone round.                                 *)
LEMMA NotMoreThanPassed ==
    ASSUME NEW a \in Nat, NEW b \in 0..a, NEW r \in Nat \ {0}, ~(a % r < b % r)
    PROVE  (a % r) - (b % r) <= a - b
<1> DEFINE q == a \div r
           p == b \div r
           x == a % r
           y == b % r
<1>1. /\ q \in Nat /\ x \in 0..(r - 1) /\ a = r * q + x
      /\ p \in Nat /\ y \in 0..(r - 1) /\ b = r * p + y
  OBVIOUS
<1> HIDE DEF q, p, x, y
<1>2. p <= q
  <2> SUFFICES ASSUME ~(p <= q) PROVE FALSE
    OBVIOUS
  <2> DEFINE d == p - (q + 1)
  <2>1. d \in Nat /\ p = q + 1 + d
    BY <1>1
  <2> HIDE DEF d
  <2>2. r * p = r * q + r + r * d /\ r * d \in Nat
    BY <1>1, <2>1
  <2>3. r * q \in Nat
    BY <1>1
  <2> QED
    BY <1>1, <2>2, <2>3
<1> DEFINE e == q - p
<1>3. e \in Nat /\ q = p + e
  BY <1>1, <1>2
<1> HIDE DEF e
<1>4. r * q = r * p + r * e /\ r * e \in Nat /\ r * p \in Nat
  BY <1>1, <1>3
<1>5. x - y <= a - b
  BY <1>1, <1>4
<1> QED
  BY <1>5 DEF x, y

\* What taking a unit, whichever it is, does to the count of frames and its time.
PaceTaken ==
    /\ Feeding => ~Wrapped /\ Due
    /\ clock' = clock /\ frame_count' \in {frame_count, frame_count + 1}
    /\ \/ UNCHANGED <<i_begin_time, began>>
       \/ i_begin_time' = GetTickCount /\ began' = clock

LEMMA PaceOfTake == Take => PaceTaken
<1>1. ASSUME NEW unit, NEW buffer, NEW size, NEW cleared, TakeWith(unit, buffer, size, cleared)
      PROVE  PaceTaken
  <2>1. Feeding => ~Wrapped /\ Due
    BY <1>1 DEF TakeWith
  <2>2. clock' = clock /\ frame_count' \in {frame_count, frame_count + 1}
    BY <1>1 DEF TakeWith
  <2>3. \/ UNCHANGED <<i_begin_time, began>>
        \/ i_begin_time' = GetTickCount /\ began' = clock
    BY <1>1 DEF TakeWith
  <2> QED
    BY <2>1, <2>2, <2>3 DEF PaceTaken
<1> DEFINE unit == Head(h264_nal_buff_list)
           appended == AppendAt(m_nDataSize, unit)
<1>2. Take => \/ TakeWith(unit, appended, m_nDataSize + Len(unit), 0)
              \/ TakeWith(unit, h264_frame_buff, m_nDataSize, 0)
  BY Zenon DEF Take, TakeAndClear
<1> QED
  BY <1>1, <1>2, Zenon

LEMMA PaceStep == PaceInv /\ [FeederNext]_feederVars => PaceInv'
<1> SUFFICES ASSUME PaceInv, [FeederNext]_feederVars PROVE PaceInv'
  OBVIOUS
<1> USE DEF PaceInv
<1>1. CASE Loop \/ Rewind \/ Read \/ Leave \/ Stop \/ UNCHANGED feederVars
  BY <1>1 DEF Loop, LoopWhile, Rewind, Read, Leave, Stop, feederVars, paceVars
<1>2. CASE Restart
  BY <1>2 DEF Restart, RestartAt, GetTickCount
<1>3. CASE Take
  BY <1>3, PaceOfTake DEF PaceTaken, GetTickCount
<1>4. CASE Tick
  BY <1>4 DEF Tick, paceVars
<1> QED
  BY <1>1, <1>2, <1>3, <1>4 DEF FeederNext, InnerStep

(* No frame is sent before its time, of any file, at any rate, and however  *)
(* often the tick count wraps.                                              *)
THEOREM FramesAreNotEarly == FeederSpec => NotEarly
<1> USE FeederAssumption DEF FeederAssumption
<1>1. FeederInit => PaceInv
  BY DEF FeederInit, PaceInv
<1>2. PaceInv /\ [FeederNext]_feederVars
        => [frame_count' > frame_count /\ Feeding =>
              frame_count * Period <= clock - began]_feederVars
  <2> SUFFICES ASSUME PaceInv, FeederNext, frame_count' > frame_count, Feeding
               PROVE  frame_count * Period <= clock - began
    OBVIOUS
  <2>1. Take
    <3>1. CASE Loop \/ Rewind \/ Read \/ Leave \/ Stop \/ Tick
      BY <3>1 DEF Loop, LoopWhile, Rewind, Read, Leave, Stop, Tick, paceVars, PaceInv
    <3>2. CASE Restart
      BY <3>2 DEF Restart, RestartAt, PaceInv
    <3> QED
      BY <3>1, <3>2 DEF FeederNext, InnerStep
  <2>2. ~(clock % TickRange < began % TickRange)
        /\ (clock % TickRange) - (began % TickRange) >= frame_count * Period
    <3>1. ~Wrapped /\ Due
      BY <2>1, PaceOfTake DEF PaceTaken
    <3> QED
      BY <3>1, Zenon DEF Wrapped, Due, GetTickCount, PaceInv
  <2>3. (clock % TickRange) - (began % TickRange) <= clock - began
    BY <2>2, NotMoreThanPassed DEF PaceInv
  <2> DEFINE d == (clock % TickRange) - (began % TickRange)
             n == frame_count * Period
             t == clock - began
  <2>4. n \in Nat /\ d \in Int /\ t \in Int
    BY DEF PaceInv
  <2> HIDE DEF d, n, t
  <2>5. n <= d /\ d <= t
    BY <2>2, <2>3, <2>4 DEF d, n, t
  <2>6. n <= t
    BY <2>4, <2>5
  <2> QED
    BY <2>6 DEF n, t
<1> QED
  BY <1>1, <1>2, PaceStep, PTL DEF FeederSpec, NotEarly

-----------------------------------------------------------------------------
(* What the feeder cuts off.                                                *)

(* The end of a coded file is one.                                          *)
LEMMA CodedRest ==
    ASSUME NEW d \in Seq(Byte), NEW p \in 0..Len(d), Coded(d)
    PROVE  Coded(Drop(d, p))
<1> DEFINE r == Drop(d, p)
<1>1. /\ r \in Seq(Byte) /\ Len(r) = Len(d) - p
      /\ \A k \in 1..(Len(d) - p) : r[k] = d[p + k]
  BY DropIs
<1>2. ASSUME NEW n \in 0..(Len(r) - 4), StartsAt(r, n)
      PROVE  r[n + 4] # 0
  <2>1. /\ n \in Nat /\ p + n + 3 <= Len(d) /\ p + n \in 0..(Len(d) - 4)
        /\ n + 4 \in 1..(Len(d) - p) /\ (p + n) + 4 = p + (n + 4)
    BY <1>1
  <2>2. StartsAt(d, p + n)
    BY <1>2, <2>1, StartOfRest
  <2>3. d[(p + n) + 4] # 0
    BY <2>1, <2>2, Zenon DEF Coded
  <2>4. r[n + 4] = d[p + (n + 4)]
    BY <1>1, <2>1
  <2> QED
    BY <2>1, <2>3, <2>4
<1> HIDE DEF r
<1>3. Coded(r)
  BY <1>2 DEF Coded
<1> QED
  BY <1>3 DEF r

\* A unit with a start code.
WithCode(u) == <<0, 0, 1>> \o u

LEMMA WithCodeIs ==
    ASSUME NEW u \in Seq(Byte)
    PROVE  /\ WithCode(u) \in Seq(Byte) /\ Len(WithCode(u)) = Len(u) + 3
           /\ WithCode(u)[1] = 0 /\ WithCode(u)[2] = 0 /\ WithCode(u)[3] = 1
           /\ \A k \in 1..Len(u) : WithCode(u)[k + 3] = u[k]
<1> DEFINE a == <<0, 0, 1>>
<1>1. a \in Seq(Byte) /\ Len(a) = 3 /\ a[1] = 0 /\ a[2] = 0 /\ a[3] = 1 /\ Len(u) \in Nat
  BY DEF Byte
<1> HIDE DEF a
<1>2. /\ a \o u \in Seq(Byte) /\ Len(a \o u) = Len(a) + Len(u)
      /\ \A k \in 1..(Len(a) + Len(u)) : (a \o u)[k] = IF k <= Len(a) THEN a[k] ELSE u[k - Len(a)]
  BY <1>1, ConcatProperties
<1> DEFINE w == a \o u
<1>3. w = WithCode(u)
  BY DEF WithCode, a
<1> HIDE DEF w
<1>4. w \in Seq(Byte) /\ Len(w) = Len(u) + 3
  BY <1>1, <1>2 DEF w
<1>5. w[1] = 0 /\ w[2] = 0 /\ w[3] = 1
  <2>1. 1 \in 1..(Len(a) + Len(u)) /\ 2 \in 1..(Len(a) + Len(u)) /\ 3 \in 1..(Len(a) + Len(u))
    BY <1>1
  <2>2. w[1] = a[1] /\ w[2] = a[2] /\ w[3] = a[3]
    BY <1>1, <1>2, <2>1 DEF w
  <2> QED
    BY <1>1, <2>2
<1>6. ASSUME NEW k \in 1..Len(u)
      PROVE  w[k + 3] = u[k]
  <2>1. k + 3 \in 1..(Len(a) + Len(u)) /\ ~(k + 3 <= Len(a)) /\ (k + 3) - Len(a) = k
    BY <1>1
  <2> QED
    BY <1>2, <2>1 DEF w
<1> QED
  BY <1>3, <1>4, <1>5, <1>6

(* Units with their start codes.                                            *)
LEMMA NalsOfIs ==
    ASSUME NEW d \in Seq(Byte)
    PROVE  /\ NalsOf(d) \in Seq(Seq(Byte)) /\ Len(NalsOf(d)) = Len(Units(d))
           /\ Units(d) \in Seq(Seq(Byte))
           /\ \A k \in 1..Len(Units(d)) : NalsOf(d)[k] = WithCode(Units(d)[k])
<1> DEFINE u == Units(d)
           n == [k \in DOMAIN u |-> WithCode(u[k])]
<1>1. u \in Seq(Seq(Byte))
  BY UnitListIs
<1>2. NalsOf(d) = n
  BY Zenon DEF NalsOf, WithCode
<1>3. DOMAIN u = 1..Len(u) /\ Len(u) \in Nat
  BY <1>1
<1> HIDE DEF u
<1>4. ASSUME NEW k \in 1..Len(u)
      PROVE  WithCode(u[k]) \in Seq(Byte)
  <2>1. u[k] \in Seq(Byte)
    BY <1>1
  <2> QED
    BY <2>1, WithCodeIs
<1>5. n \in Seq(Seq(Byte)) /\ Len(n) = Len(u) /\ \A k \in 1..Len(u) : n[k] = WithCode(u[k])
  BY <1>1, <1>3, <1>4
<1> QED
  BY <1>1, <1>2, <1>5 DEF u

(* The units of a whole are those of a part of it and of the rest.          *)
LEMMA NalsOfNext ==
    ASSUME NEW d \in Seq(Byte), NEW r \in Seq(Byte), NEW s \in Seq(Seq(Byte)),
           Units(d) = s \o Units(r)
    PROVE  \E t \in Seq(Seq(Byte)) :
             /\ NalsOf(d) = t \o NalsOf(r) /\ Len(t) = Len(s)
             /\ \A k \in 1..Len(s) : t[k] = WithCode(s[k])
<1> DEFINE u == Units(d)
           v == Units(r)
           x == NalsOf(d)
           y == NalsOf(r)
           t == [k \in 1..Len(s) |-> WithCode(s[k])]
<1>1. /\ x \in Seq(Seq(Byte)) /\ Len(x) = Len(u) /\ u \in Seq(Seq(Byte))
      /\ \A k \in 1..Len(u) : x[k] = WithCode(u[k])
  BY NalsOfIs
<1>2. /\ y \in Seq(Seq(Byte)) /\ Len(y) = Len(v) /\ v \in Seq(Seq(Byte))
      /\ \A k \in 1..Len(v) : y[k] = WithCode(v[k])
  BY NalsOfIs
<1>3. ASSUME NEW k \in 1..Len(s)
      PROVE  WithCode(s[k]) \in Seq(Byte)
  <2>1. s[k] \in Seq(Byte)
    OBVIOUS
  <2> QED
    BY <2>1, WithCodeIs
<1>4. /\ t \in Seq(Seq(Byte)) /\ Len(t) = Len(s) /\ Len(s) \in Nat
      /\ \A k \in 1..Len(s) : t[k] = WithCode(s[k])
  BY <1>3
<1> HIDE DEF u, v, x, y, t
<1>5. u = s \o v
  BY DEF u, v
<1>6. /\ Len(u) = Len(s) + Len(v)
      /\ \A k \in 1..(Len(s) + Len(v)) : u[k] = IF k <= Len(s) THEN s[k] ELSE v[k - Len(s)]
  BY <1>2, <1>5, ConcatProperties
<1>7. /\ t \o y \in Seq(Seq(Byte)) /\ Len(t \o y) = Len(t) + Len(y)
      /\ \A k \in 1..(Len(t) + Len(y)) : (t \o y)[k] = IF k <= Len(t) THEN t[k] ELSE y[k - Len(t)]
  <2>1. t \in Seq(Seq(Byte)) /\ y \in Seq(Seq(Byte))
    BY <1>2, <1>4
  <2> QED
    BY <2>1, ConcatProperties
<1>8. Len(x) = Len(t \o y)
  BY <1>1, <1>2, <1>4, <1>6, <1>7
<1>9. ASSUME NEW k \in 1..Len(x)
      PROVE  x[k] = (t \o y)[k]
  <2>1. /\ k \in 1..(Len(s) + Len(v)) /\ k \in 1..(Len(t) + Len(y))
        /\ Len(v) \in Nat /\ k \in 1..Len(u)
    BY <1>1, <1>2, <1>4, <1>6
  <2>2. x[k] = WithCode(u[k])
    BY <1>1, <2>1
  <2>3. CASE k <= Len(s)
    <3>1. k \in 1..Len(s) /\ k <= Len(t)
      BY <1>4, <2>1, <2>3
    <3>2. u[k] = s[k] /\ (t \o y)[k] = t[k] /\ t[k] = WithCode(s[k])
      BY <1>4, <1>6, <1>7, <2>1, <2>3, <3>1
    <3> QED
      BY <2>2, <3>2, Zenon
  <2>4. CASE ~(k <= Len(s))
    <3> DEFINE j == k - Len(s)
    <3>1. j \in 1..Len(v) /\ ~(k <= Len(t)) /\ k - Len(t) = j
      BY <1>4, <2>1, <2>4
    <3>2. u[k] = v[j] /\ (t \o y)[k] = y[j]
      BY <1>4, <1>6, <1>7, <2>1, <2>4, <3>1
    <3> HIDE DEF j
    <3>3. y[j] = WithCode(v[j])
      BY <1>2, <3>1
    <3> QED
      BY <2>2, <3>2, <3>3, Zenon
  <2> QED
    BY <2>3, <2>4
<1>10. x = t \o y
  BY <1>1, <1>7, <1>8, <1>9, SeqEqual
<1>11. NalsOf(d) = t \o NalsOf(r)
  BY <1>10 DEF x, y
<1> QED
  BY <1>4, <1>11

\* f has the places where the feeder cuts from each place on.
CutsFrom(f, d) ==
    f = [n \in 0..Len(d) |-> <<n>> \o IF Len(d) - n <= 4 THEN <<>> ELSE f[n + Skip(Drop(d, n))]]

(* From the end of the data to its beginning.                               *)
LEMMA CutsExist ==
    ASSUME NEW d \in Seq(Byte)
    PROVE  \E f : CutsFrom(f, d)
<1> DEFINE At(f, n) == <<n>> \o IF Len(d) - n <= 4 THEN <<>> ELSE f[n + Skip(Drop(d, n))]
           Up(m) == \E f : f = [n \in (Len(d) - m)..Len(d) |-> At(f, n)]
           N == {m \in Nat : m <= Len(d) => Up(m)}
<1>1. 0 \in N
  <2> DEFINE f == [n \in (Len(d) - 0)..Len(d) |-> <<n>> \o <<>>]
  <2>1. \A n \in (Len(d) - 0)..Len(d) : Len(d) - n <= 4
    OBVIOUS
  <2>2. f = [n \in (Len(d) - 0)..Len(d) |-> At(f, n)]
    BY <2>1, Zenon
  <2>3. Up(0)
    <3> HIDE DEF f
    <3> QED
      BY <2>2
  <2> HIDE DEF Up
  <2> QED
    BY <2>3
<1>2. ASSUME NEW m \in Nat, m \in N
      PROVE  m + 1 \in N
  <2> SUFFICES ASSUME m + 1 <= Len(d)
               PROVE  Up(m + 1)
    <3> HIDE DEF Up
    <3> QED
      OBVIOUS
  <2> DEFINE low == Len(d) - (m + 1)
  <2>1. /\ low \in Nat /\ low <= Len(d) /\ Len(d) - m = low + 1 /\ Len(d) \in Nat /\ m <= Len(d)
        /\ Len(d) - (m + 1) = low
    OBVIOUS
  <2>2. PICK g : g = [n \in (Len(d) - m)..Len(d) |-> At(g, n)]
    BY <1>2, <2>1
  <2> HIDE DEF low
  <2> DEFINE f == [n \in low..Len(d) |-> IF n = low THEN At(g, low) ELSE g[n]]
  <2>3. ASSUME NEW n \in low..Len(d)
        PROVE  f[n] = At(f, n)
    <3>1. n \in 0..Len(d) /\ Len(d) - n \in Nat
      BY <2>1
    <3>2. Len(d) - n <= 4 \/ n + Skip(Drop(d, n)) \in (low + 1)..Len(d)
      <4> SUFFICES ASSUME ~(Len(d) - n <= 4)
                   PROVE  n + Skip(Drop(d, n)) \in (low + 1)..Len(d)
        OBVIOUS
      <4> DEFINE r == Drop(d, n)
      <4>1. r \in Seq(Byte) /\ Len(r) = Len(d) - n
        BY <3>1, DropIs
      <4>2. Skip(r) \in 4..Len(r)
        <5>1. Len(r) >= 4
          BY <3>1, <4>1
        <5> HIDE DEF r
        <5> QED
          BY <4>1, <5>1, SkipIs
      <4> HIDE DEF r
      <4>3. n + Skip(r) \in (low + 1)..Len(d)
        BY <2>1, <3>1, <4>1, <4>2
      <4> QED
        BY <4>3 DEF r
    <3>3. At(g, n) = At(f, n)
      <4>1. CASE Len(d) - n <= 4
        BY <4>1, Zenon
      <4>2. CASE ~(Len(d) - n <= 4)
        <5> DEFINE j == n + Skip(Drop(d, n))
        <5>1. j \in (low + 1)..Len(d)
          BY <3>2, <4>2
        <5> HIDE DEF j
        <5>2. f[j] = g[j]
          BY <2>1, <5>1
        <5> HIDE DEF f
        <5> QED
          BY <4>2, <5>2, Zenon DEF j
      <4> QED
        BY <4>1, <4>2, Zenon
    <3>4. f[n] = At(g, n)
      <4>1. CASE n = low
        BY <4>1, Zenon
      <4>2. CASE n # low
        <5>1. n \in (Len(d) - m)..Len(d)
          BY <2>1, <4>2
        <5>2. g[n] = At(g, n)
          BY <2>2, <5>1, Zenon
        <5> HIDE DEF At
        <5> QED
          BY <4>2, <5>2, Zenon
      <4> QED
        BY <4>1, <4>2
    <3> HIDE DEF f, At
    <3> QED
      BY <3>3, <3>4
  <2>4. f = [n \in low..Len(d) |-> At(f, n)]
    <3>1. f = [n \in low..Len(d) |-> f[n]]
      OBVIOUS
    <3> HIDE DEF f, At
    <3> QED
      BY <2>3, <3>1
  <2>5. f = [n \in (Len(d) - (m + 1))..Len(d) |-> At(f, n)]
    <3> HIDE DEF f, At
    <3> QED
      BY <2>1, <2>4
  <2> HIDE DEF f
  <2> QED
    BY <2>5
<1>3. Nat \subseteq N
  <2> HIDE DEF N
  <2> QED
    BY <1>1, <1>2, Induction
<1>4. Len(d) \in Nat /\ Len(d) - Len(d) = 0
  OBVIOUS
<1>5. Up(Len(d))
  <2> HIDE DEF Up
  <2> QED
    BY <1>3, <1>4
<1>6. PICK f : f = [n \in (Len(d) - Len(d))..Len(d) |-> At(f, n)]
  BY <1>5
<1>7. CutsFrom(f, d)
  BY <1>4, <1>6, Zenon DEF CutsFrom
<1> QED
  BY <1>7

(* A piece that is cut off is a unit with its start code.                   *)
LEMMA PieceIs ==
    ASSUME NEW d \in Seq(Byte), Len(d) > 4
    PROVE  /\ Skip(d) \in 4..Len(d) /\ Cut(d) \in Seq(Byte)
           /\ Len(Drop(d, Skip(d))) <= 4 \/ StartsAt(Drop(d, Skip(d)), 0)
           /\ StartsAt(d, 0) /\ d[4] # 0 => NalsOf(d) = <<Cut(d)>> \o NalsOf(Drop(d, Skip(d)))
<1> DEFINE z == Size(d)
           s == Skip(d)
           c == Cut(d)
           r == Drop(d, Skip(d))
<1>1. /\ s \in 4..Len(d) /\ Len(d) \in Nat
      /\ IF NextStarts(d) = {} THEN s = Len(d) ELSE s + 3 <= Len(d) /\ StartsAt(d, s)
  BY SkipIs
<1>2. z \in 3..Len(d)
  <2>1. z = IF NextStarts(d) = {} THEN Len(d) ELSE IF d[s] = 0 THEN s - 1 ELSE s
    BY DEF Size
  <2> HIDE DEF z, s
  <2> QED
    BY <1>1, <2>1
<1>3. /\ c \in Seq(Byte) /\ Len(c) = z /\ \A k \in 1..z : c[k] = d[k]
  <2>1. 0 \in 0..Len(d) /\ z \in 0..Len(d) /\ 0 + 1 = 1 /\ z - 0 = z /\ \A k \in 1..z : 0 + k = k
    BY <1>1, <1>2
  <2>2. /\ SubSeq(d, 0 + 1, z) \in Seq(Byte) /\ Len(SubSeq(d, 0 + 1, z)) = z - 0
        /\ \A k \in 1..(z - 0) : SubSeq(d, 0 + 1, z)[k] = d[0 + k]
    BY <2>1, SubSeqIs
  <2>3. c = SubSeq(d, 0 + 1, z)
    BY <2>1 DEF Cut
  <2> QED
    BY <2>1, <2>2, <2>3
<1>4. r \in Seq(Byte) /\ Len(r) = Len(d) - s
  <2>1. s \in 0..Len(d)
    BY <1>1
  <2> QED
    BY <2>1, DropIs
<1>5. Len(r) <= 4 \/ StartsAt(r, 0)
  <2>1. CASE NextStarts(d) = {}
    <3>1. Len(r) = 0
      BY <1>1, <1>4, <2>1
    <3> QED
      BY <3>1
  <2>2. CASE NextStarts(d) # {}
    <3>1. s \in 0..Len(d) /\ s + 0 + 3 <= Len(d) /\ s + 0 = s /\ StartsAt(d, s)
      BY <1>1, <2>2
    <3>2. StartsAt(Drop(d, s), 0) <=> StartsAt(d, s + 0)
      BY <3>1, StartOfRest
    <3> QED
      BY <3>1, <3>2, Zenon
  <2> QED
    BY <2>1, <2>2
<1>6. ASSUME StartsAt(d, 0), d[4] # 0
      PROVE  NalsOf(d) = <<c>> \o NalsOf(r)
  <2> DEFINE u == UnitAt(d, 0)
  <2>1. u = SubSeq(d, 4, z) /\ Units(d) = <<u>> \o Units(r)
    <3>1. /\ UnitAt(d, 0) = SubSeq(d, 4, Size(d))
          /\ Units(d) = <<UnitAt(d, 0)>> \o Units(Drop(d, Skip(d)))
      BY <1>6, NextUnit
    <3> QED
      BY <3>1, Zenon
  <2>2. u \in Seq(Byte) /\ Len(u) = z - 3 /\ \A k \in 1..(z - 3) : u[k] = d[3 + k]
    <3>1. 3 \in 0..Len(d) /\ z \in 3..Len(d) /\ 3 + 1 = 4
      BY <1>1, <1>2
    <3>2. /\ SubSeq(d, 3 + 1, z) \in Seq(Byte) /\ Len(SubSeq(d, 3 + 1, z)) = z - 3
          /\ \A k \in 1..(z - 3) : SubSeq(d, 3 + 1, z)[k] = d[3 + k]
      BY <3>1, SubSeqIs
    <3> QED
      BY <2>1, <3>1, <3>2
  <2> HIDE DEF u, c, r, z, s
  <2> DEFINE w == WithCode(u)
  <2>3. /\ w \in Seq(Byte) /\ Len(w) = Len(u) + 3 /\ w[1] = 0 /\ w[2] = 0 /\ w[3] = 1
        /\ \A k \in 1..Len(u) : w[k + 3] = u[k]
    BY <2>2, WithCodeIs
  <2>4. c = w
    <3>1. Len(c) = Len(w)
      BY <1>2, <1>3, <2>2, <2>3
    <3>2. d[1] = 0 /\ d[2] = 0 /\ d[3] = 1
      <4>1. StartsAt(d, 0) <=> d[0 + 1] = 0 /\ d[0 + 2] = 0 /\ d[0 + 3] = 1
        <5>1. 0 + 3 <= Len(d)
          BY <1>1
        <5> QED
          BY <5>1, StartIs
      <4> QED
        BY <1>6, <4>1
    <3> HIDE DEF w
    <3>3. ASSUME NEW k \in 1..Len(c)
          PROVE  c[k] = w[k]
      <4>1. c[k] = d[k] /\ k \in 1..z
        BY <1>3
      <4>2. CASE k <= 3
        <5>1. k = 1 \/ k = 2 \/ k = 3
          BY <1>2, <4>1, <4>2
        <5> QED
          BY <2>3, <3>2, <4>1, <5>1
      <4>3. CASE ~(k <= 3)
        <5> DEFINE j == k - 3
        <5>1. j \in 1..Len(u) /\ j \in 1..(z - 3) /\ j + 3 = k /\ 3 + j = k
          BY <1>2, <2>2, <4>1, <4>3
        <5> HIDE DEF j
        <5>2. w[k] = u[j] /\ u[j] = d[k]
          BY <2>2, <2>3, <5>1
        <5> QED
          BY <4>1, <5>2
      <4> QED
        BY <4>2, <4>3
    <3> QED
      BY <1>3, <2>3, <3>1, <3>3, SeqEqual
  <2> DEFINE a == <<u>>
  <2>5. a \in Seq(Seq(Byte)) /\ Len(a) = 1 /\ a[1] = u
    BY <2>2
  <2> HIDE DEF a, w
  <2>6. Units(d) = a \o Units(r)
    BY <2>1 DEF a
  <2>7. PICK t \in Seq(Seq(Byte)) :
             /\ NalsOf(d) = t \o NalsOf(r) /\ Len(t) = Len(a)
             /\ \A k \in 1..Len(a) : t[k] = WithCode(a[k])
    BY <1>4, <2>5, <2>6, NalsOfNext
  <2>8. t = <<c>>
    <3>1. 1 \in 1..Len(a)
      BY <2>5
    <3>2. t[1] = WithCode(u)
      BY <2>5, <2>7, <3>1
    <3>3. t[1] = c
      BY <2>4, <3>2 DEF w
    <3>4. Len(t) = 1
      BY <2>5, <2>7
    <3> QED
      BY <3>3, <3>4
  <2> QED
    BY <2>7, <2>8
<1> QED
  BY <1>1, <1>3, <1>5, <1>6

\* The pieces of d that begin at the places c, but for the last.
Pieces(d, c) == [k \in 1..(Len(c) - 1) |-> Cut(Drop(d, c[k]))]

\* c are the places where what is left of d from n on is cut.
CutsWell(d, c, n) ==
    /\ c \in Seq(0..Len(d)) /\ c # <<>> /\ Len(Drop(d, Last(c))) <= 4
    /\ Pieces(d, c) \in Seq(Seq(Byte))
    /\ Coded(d) /\ (Len(Drop(d, n)) <= 4 \/ StartsAt(Drop(d, n), 0)) =>
           NalsOf(Drop(d, n)) = Pieces(d, c) \o NalsOf(Drop(d, Last(c)))

(* One place more, where nothing was cut off yet.                           *)
LEMMA OneCutMore ==
    ASSUME NEW d \in Seq(Byte), NEW n \in 0..Len(d), Len(Drop(d, n)) > 4,
           NEW m, m = n + Skip(Drop(d, n)), NEW c, CutsWell(d, c, m)
    PROVE  CutsWell(d, <<n>> \o c, n)
<1> DEFINE r == Drop(d, n)
           b == <<n>>
           e == b \o c
           p == Pieces(d, e)
           q == Pieces(d, c)
           a == <<Cut(r)>>
<1>1. r \in Seq(Byte) /\ Len(r) = Len(d) - n
  BY DropIs
<1>2. /\ Skip(r) \in 4..Len(r) /\ Cut(r) \in Seq(Byte)
      /\ Len(Drop(r, Skip(r))) <= 4 \/ StartsAt(Drop(r, Skip(r)), 0)
      /\ StartsAt(r, 0) /\ r[4] # 0 => NalsOf(r) = a \o NalsOf(Drop(r, Skip(r)))
  <2> HIDE DEF r
  <2> QED
    BY <1>1, PieceIs DEF r
<1>3. Drop(r, Skip(r)) = Drop(d, m)
  <2>1. Skip(r) \in 0..(Len(d) - n)
    BY <1>1, <1>2
  <2> QED
    BY <2>1, DropDrop
<1>4. c \in Seq(0..Len(d)) /\ c # <<>> /\ Len(c) \in Nat \ {0} /\ q \in Seq(Seq(Byte))
  <2>1. c \in Seq(0..Len(d)) /\ c # <<>> /\ q \in Seq(Seq(Byte))
    BY DEF CutsWell
  <2> HIDE DEF q
  <2> QED
    BY <2>1
<1>5. /\ e \in Seq(0..Len(d)) /\ Len(e) = 1 + Len(c)
      /\ \A k \in 1..(1 + Len(c)) : e[k] = IF k <= 1 THEN n ELSE c[k - 1]
  <2>1. b \in Seq(0..Len(d)) /\ Len(b) = 1 /\ b[1] = n
    OBVIOUS
  <2> HIDE DEF b
  <2>2. /\ e \in Seq(0..Len(d)) /\ Len(e) = Len(b) + Len(c)
        /\ \A k \in 1..(Len(b) + Len(c)) : e[k] = IF k <= Len(b) THEN b[k] ELSE c[k - Len(b)]
    BY <1>4, <2>1, ConcatProperties
  <2>3. ASSUME NEW k \in 1..(1 + Len(c))
        PROVE  e[k] = IF k <= 1 THEN n ELSE c[k - 1]
    <3>1. e[k] = IF k <= 1 THEN b[k] ELSE c[k - 1]
      BY <2>1, <2>2
    <3>2. k <= 1 => k = 1
      BY <1>4
    <3> HIDE DEF e
    <3> QED
      BY <2>1, <3>1, <3>2
  <2> QED
    BY <2>1, <2>2, <2>3
<1> HIDE DEF r, b, e, a
<1>6. e # <<>> /\ Last(e) = Last(c)
  <2>1. Len(e) # 0
    BY <1>4, <1>5
  <2>2. e[Len(e)] = c[Len(c)]
    <3>1. 1 + Len(c) \in 1..(1 + Len(c)) /\ ~(1 + Len(c) <= 1) /\ (1 + Len(c)) - 1 = Len(c)
      BY <1>4
    <3> QED
      BY <1>5, <3>1
  <2> QED
    BY <1>5, <2>1, <2>2, EmptySeq DEF Last
<1>7. p = a \o q
  <2>1. /\ DOMAIN p = 1..Len(c) /\ p = [k \in 1..Len(c) |-> Cut(Drop(d, e[k]))]
    <3>1. Len(e) - 1 = Len(c)
      BY <1>4, <1>5
    <3> QED
      BY <3>1 DEF Pieces
  <2>2. Len(q) = Len(c) - 1 /\ \A k \in 1..(Len(c) - 1) : q[k] = Cut(Drop(d, c[k]))
    <3>1. q = [k \in 1..(Len(c) - 1) |-> Cut(Drop(d, c[k]))]
      BY DEF Pieces
    <3>2. DOMAIN q = 1..(Len(c) - 1) /\ Len(c) - 1 \in Nat
      BY <1>4, <3>1
    <3> HIDE DEF q
    <3> QED
      BY <1>4, <3>1, <3>2
  <2>3. a \in Seq(Seq(Byte)) /\ Len(a) = 1 /\ a[1] = Cut(r)
    BY <1>2 DEF a
  <2> HIDE DEF p, q
  <2>4. /\ a \o q \in Seq(Seq(Byte)) /\ Len(a \o q) = Len(a) + Len(q)
        /\ \A k \in 1..(Len(a) + Len(q)) : (a \o q)[k] = IF k <= Len(a) THEN a[k] ELSE q[k - Len(a)]
    BY <1>4, <2>3, ConcatProperties
  <2>5. ASSUME NEW k \in 1..Len(c)
        PROVE  p[k] = (a \o q)[k]
    <3>1. p[k] = Cut(Drop(d, e[k]))
      BY <2>1
    <3>2. k \in 1..(1 + Len(c)) /\ k \in 1..(Len(a) + Len(q))
      BY <1>4, <2>2, <2>3
    <3>3. CASE k = 1
      <4>1. e[k] = n
        BY <1>5, <3>2, <3>3
      <4>2. (a \o q)[k] = Cut(r)
        BY <2>3, <2>4, <3>2, <3>3
      <4> QED
        BY <3>1, <4>1, <4>2, Zenon DEF r
    <3>4. CASE k # 1
      <4> DEFINE j == k - 1
      <4>1. j \in 1..(Len(c) - 1) /\ ~(k <= 1)
        BY <1>4, <3>4
      <4>2. e[k] = c[j]
        BY <1>5, <3>2, <4>1
      <4>3. (a \o q)[k] = q[j]
        BY <2>3, <2>4, <3>2, <4>1
      <4> HIDE DEF j
      <4>4. q[j] = Cut(Drop(d, c[j]))
        BY <2>2, <4>1
      <4> QED
        BY <3>1, <4>2, <4>3, <4>4, Zenon
    <3> QED
      BY <3>3, <3>4
  <2> DEFINE x == a \o q
  <2>6. x \in Seq(Seq(Byte)) /\ Len(x) = Len(c)
    BY <1>4, <2>2, <2>3, <2>4
  <2> HIDE DEF x
  <2>7. DOMAIN x = 1..Len(c)
    BY <2>6
  <2>8. \A k \in 1..Len(c) : p[k] = x[k]
    BY <2>5 DEF x
  <2>9. p = [k \in 1..Len(c) |-> p[k]] /\ x = [k \in 1..Len(c) |-> x[k]]
    BY <2>1, <2>6, <2>7
  <2>10. p = x
    BY <2>8, <2>9
  <2> QED
    BY <2>10 DEF x
<1>8. p \in Seq(Seq(Byte))
  <2>1. a \in Seq(Seq(Byte))
    BY <1>2 DEF a
  <2> HIDE DEF p, q
  <2> QED
    BY <1>4, <1>7, <2>1, ConcatProperties
<1>9. ASSUME Coded(d), Len(r) <= 4 \/ StartsAt(r, 0)
      PROVE  NalsOf(r) = p \o NalsOf(Drop(d, Last(e)))
  <2> DEFINE y == NalsOf(Drop(d, Last(c)))
  <2>1. StartsAt(r, 0) /\ r[4] # 0
    <3>1. StartsAt(r, 0) /\ 0 \in 0..(Len(r) - 4) /\ 0 + 4 = 4
      BY <1>1, <1>9 DEF r
    <3>2. Coded(r)
      BY <1>9, CodedRest DEF r
    <3>3. r[0 + 4] # 0
      BY <3>1, <3>2, Zenon DEF Coded
    <3> QED
      BY <3>1, <3>3
  <2>2. NalsOf(r) = a \o NalsOf(Drop(d, m))
    BY <1>2, <1>3, <2>1
  <2>3. NalsOf(Drop(d, m)) = q \o y
    BY <1>2, <1>3, <1>9 DEF CutsWell
  <2>4. y \in Seq(Seq(Byte))
    <3>1. Last(c) \in 0..Len(d)
      BY <1>4 DEF Last
    <3>2. Drop(d, Last(c)) \in Seq(Byte)
      BY <3>1, DropIs
    <3> QED
      BY <3>2, NalsOfIs
  <2>5. a \in Seq(Seq(Byte))
    BY <1>2 DEF a
  <2> HIDE DEF p, q, y
  <2>6. Joined(a, Joined(q, y)) = Joined(Joined(a, q), y)
    BY <1>4, <2>4, <2>5, JoinedAssociates
  <2>7. NalsOf(r) = p \o y
    BY <1>7, <2>2, <2>3, <2>6, Zenon DEF Joined
  <2> QED
    BY <1>6, <2>7, Zenon DEF y
<1>10. Len(Drop(d, Last(e))) <= 4
  BY <1>6 DEF CutsWell
<1> HIDE DEF p
<1>11. CutsWell(d, e, n)
  BY <1>5, <1>6, <1>8, <1>9, <1>10 DEF CutsWell, p, r
<1> QED
  BY <1>11 DEF e, b

(* From where nothing is cut.                                               *)
LEMMA NoCutMore ==
    ASSUME NEW d \in Seq(Byte), NEW n \in 0..Len(d), Len(Drop(d, n)) <= 4
    PROVE  CutsWell(d, <<n>>, n)
<1> DEFINE c == <<n>>
           p == Pieces(d, c)
           y == NalsOf(Drop(d, n))
<1>1. c \in Seq(0..Len(d)) /\ Len(c) = 1 /\ c # <<>> /\ Last(c) = n
  BY DEF Last
<1>2. p = <<>>
  <2>1. 1..(Len(c) - 1) = {}
    BY <1>1
  <2>2. p = [k \in {} |-> Cut(Drop(d, c[k]))]
    BY <2>1, Zenon DEF Pieces
  <2> HIDE DEF c
  <2>3. [k \in {} |-> Cut(Drop(d, c[k]))] = <<>>
    OBVIOUS
  <2> QED
    BY <2>2, <2>3
<1>3. y \in Seq(Seq(Byte))
  <2>1. Drop(d, n) \in Seq(Byte)
    BY DropIs
  <2> QED
    BY <2>1, NalsOfIs
<1> HIDE DEF c, p, y
<1>4. <<>> \o y = y
  BY <1>3, ConcatEmptySeq
<1>5. p \in Seq(Seq(Byte))
  <2>1. <<>> \in Seq(Seq(Byte))
    OBVIOUS
  <2> QED
    BY <1>2, <2>1
<1>6. y = p \o NalsOf(Drop(d, Last(c)))
  BY <1>1, <1>2, <1>4, Zenon DEF y
<1>7. CutsWell(d, c, n)
  BY <1>1, <1>5, <1>6, Zenon DEF CutsWell, p, y
<1> QED
  BY <1>7 DEF c

(* The feeder cuts what is left from any place on well.                     *)
LEMMA AllCutsWell ==
    ASSUME NEW d \in Seq(Byte), NEW f, CutsFrom(f, d)
    PROVE  \A n \in 0..Len(d) : CutsWell(d, f[n], n)
<1> DEFINE N == {m \in Nat : \A n \in 0..Len(d) : Len(d) - n <= m => CutsWell(d, f[n], n)}
<1>1. ASSUME NEW n \in 0..Len(d)
      PROVE  /\ Drop(d, n) \in Seq(Byte) /\ Len(Drop(d, n)) = Len(d) - n
             /\ f[n] = <<n>> \o IF Len(d) - n <= 4 THEN <<>> ELSE f[n + Skip(Drop(d, n))]
  <2>1. f[n] = <<n>> \o IF Len(d) - n <= 4 THEN <<>> ELSE f[n + Skip(Drop(d, n))]
    BY Zenon DEF CutsFrom
  <2> QED
    BY <2>1, DropIs
<1>2. ASSUME NEW n \in 0..Len(d), Len(d) - n <= 4
      PROVE  CutsWell(d, f[n], n)
  <2>1. f[n] = <<n>> \o <<>>
    BY <1>1, <1>2, Zenon
  <2>2. <<n>> \o <<>> = <<n>>
    OBVIOUS
  <2>3. CutsWell(d, <<n>>, n)
    BY <1>1, <1>2, NoCutMore
  <2> QED
    BY <2>1, <2>2, <2>3, Zenon
<1>3. 0 \in N
  <2>1. \A n \in 0..Len(d) : Len(d) - n <= 0 => Len(d) - n <= 4
    OBVIOUS
  <2> QED
    BY <1>2, <2>1
<1>4. ASSUME NEW m \in Nat, m \in N
      PROVE  m + 1 \in N
  <2> SUFFICES ASSUME NEW n \in 0..Len(d), Len(d) - n <= m + 1, ~(Len(d) - n <= 4)
               PROVE  CutsWell(d, f[n], n)
    BY <1>2
  <2> DEFINE r == Drop(d, n)
             j == n + Skip(Drop(d, n))
  <2>1. r \in Seq(Byte) /\ Len(r) > 4 /\ Len(r) = Len(d) - n
    <3>1. r \in Seq(Byte) /\ Len(r) = Len(d) - n
      BY <1>1
    <3> HIDE DEF r
    <3> QED
      BY <3>1
  <2>2. Skip(r) \in 4..Len(r)
    <3> HIDE DEF r
    <3> QED
      BY <2>1, PieceIs
  <2>3. j \in 0..Len(d) /\ Len(d) - j <= m
    <3> DEFINE k == Skip(r)
               x == Len(r)
               y == Len(d)
    <3>1. k \in 4..x /\ x = y - n /\ y \in Nat /\ n \in 0..y /\ y - n <= m + 1
      BY <2>1, <2>2
    <3> HIDE DEF k, x, y
    <3>2. n + k \in 0..y /\ y - (n + k) <= m
      BY <3>1
    <3> QED
      BY <3>2 DEF k, y
  <2>4. f[n] = <<n>> \o f[j]
    BY <1>1, Zenon
  <2> HIDE DEF j
  <2>5. CutsWell(d, f[j], j)
    BY <1>4, <2>3
  <2>6. CutsWell(d, <<n>> \o f[j], n)
    <3>1. j = n + Skip(Drop(d, n)) /\ Len(Drop(d, n)) > 4
      BY <2>1 DEF j
    <3> QED
      BY <2>5, <3>1, OneCutMore
  <2> QED
    BY <2>4, <2>6, Zenon
<1>5. Nat \subseteq N
  <2> HIDE DEF N
  <2> QED
    BY <1>3, <1>4, Induction
<1>6. ASSUME NEW n \in 0..Len(d)
      PROVE  CutsWell(d, f[n], n)
  <2>1. Len(d) - n \in Nat /\ Len(d) - n <= Len(d) - n
    OBVIOUS
  <2>2. Len(d) - n \in N
    <3> HIDE DEF N
    <3> QED
      BY <1>5, <2>1
  <2> QED
    BY <2>1, <2>2
<1> QED
  BY <1>6

(* What h264_split_nal puts in the list are the first units, and what it    *)
(* leaves is an end of the data, of four bytes at the most.                 *)
LEMMA SplitIs ==
    ASSUME NEW d \in Seq(Byte)
    PROVE  /\ Split(d).nals \in Seq(Seq(Byte))
           /\ Len(Split(d).rest) <= 4
           /\ \E m \in 0..Len(d) : Split(d).rest = Drop(d, m)
           /\ Coded(d) => NalsOf(d) = Split(d).nals \o NalsOf(Split(d).rest)
<1>1. PICK m \in 0..Len(d) :
             /\ SkipToStart(d) = Drop(d, m) /\ Units(d) = Units(Drop(d, m))
             /\ Len(Drop(d, m)) <= 4 \/ StartsAt(Drop(d, m), 0)
  BY ToStart
<1> DEFINE x == Drop(d, m)
           c == Cuts(x)
<1>2. x \in Seq(Byte) /\ Len(x) = Len(d) - m /\ SkipToStart(d) = x
  BY <1>1, DropIs
<1>3. Split(d).nals = Pieces(x, c) /\ Split(d).rest = Drop(x, Last(c))
  BY <1>2, Zenon DEF Split, Pieces, Cut
<1>4. (Len(x) <= 4 \/ StartsAt(x, 0)) /\ Units(d) = Units(x)
  BY <1>1
<1>5. Coded(d) => Coded(x)
  BY CodedRest
<1> HIDE DEF x, c
<1>6. PICK f : CutsFrom(f, x)
  BY <1>2, CutsExist
<1>7. CutsFrom(CHOOSE g : CutsFrom(g, x), x)
  BY <1>6, Zenon
<1> DEFINE g == CHOOSE g : CutsFrom(g, x)
<1>8. c = g[0]
  BY Zenon DEF c, Cuts, CutsFrom
<1> HIDE DEF g
<1>9. CutsWell(x, c, 0)
  <2>1. 0 \in 0..Len(x)
    BY <1>2
  <2>2. CutsFrom(g, x)
    BY <1>7 DEF g
  <2>3. CutsWell(x, g[0], 0)
    BY <1>2, <2>1, <2>2, AllCutsWell
  <2> QED
    BY <1>8, <2>3, Zenon
<1>10. Last(c) \in 0..Len(x)
  <2>1. c \in Seq(0..Len(x)) /\ c # <<>>
    BY <1>9 DEF CutsWell
  <2> QED
    BY <2>1 DEF Last
<1>11. Split(d).nals \in Seq(Seq(Byte)) /\ Len(Split(d).rest) <= 4
  BY <1>3, <1>9 DEF CutsWell
<1>12. m + Last(c) \in 0..Len(d) /\ Split(d).rest = Drop(d, m + Last(c))
  <2>1. Last(c) \in 0..(Len(d) - m)
    BY <1>2, <1>10
  <2>2. Drop(Drop(d, m), Last(c)) = Drop(d, m + Last(c))
    BY <2>1, DropDrop
  <2>3. m + Last(c) \in 0..Len(d)
    BY <2>1
  <2> QED
    BY <1>3, <2>2, <2>3 DEF x
<1>13. ASSUME Coded(d)
       PROVE  NalsOf(d) = Split(d).nals \o NalsOf(Split(d).rest)
  <2>1. Drop(x, 0) = x
    BY <1>2, DropNone
  <2>2. NalsOf(Drop(x, 0)) = Pieces(x, c) \o NalsOf(Drop(x, Last(c)))
    BY <1>4, <1>5, <1>9, <1>13, <2>1 DEF CutsWell
  <2>3. NalsOf(d) = NalsOf(x)
    BY <1>4, Zenon DEF NalsOf
  <2> QED
    BY <1>3, <2>1, <2>2, <2>3, Zenon
<1> QED
  BY <1>11, <1>12, <1>13

-----------------------------------------------------------------------------
(* Types, for any file.                                                     *)

\* Where a read ends.
ReadEnd == Min({offset + FILE_READ_SIZE, Len(File)})

\* What the read has to cut.
ToSplit == h264_buff \o SubSeq(File, offset + 1, ReadEnd)

(* What is read are bytes.                                                  *)
LEMMA ReadIs ==
    ASSUME FeederTypeOK
    PROVE  /\ ReadEnd \in offset..Len(File) /\ ReadEnd <= offset + FILE_READ_SIZE
           /\ (ReadEnd = Len(File) \/ ReadEnd = offset + FILE_READ_SIZE)
           /\ SubSeq(File, offset + 1, ReadEnd) \in Seq(Byte)
           /\ ToSplit \in Seq(Byte)
<1> DEFINE s == {offset + FILE_READ_SIZE, Len(File)}
<1>1. File \in Seq(Byte) /\ FILE_READ_SIZE \in Nat /\ offset \in 0..Len(File) /\ Len(File) \in Nat
  BY FeederAssumption DEF FeederTypeOK
<1>2. s \in SUBSET Nat /\ s # {}
  BY <1>1
<1>3. Min(s) \in s /\ \A n \in s : Min(s) <= n
  <2> HIDE DEF s
  <2> QED
    BY <1>2, MinIs
<1>4. ReadEnd \in s /\ ReadEnd <= Len(File) /\ ReadEnd <= offset + FILE_READ_SIZE
  BY <1>3 DEF ReadEnd
<1> HIDE DEF s
<1>5. ReadEnd = Len(File) \/ ReadEnd = offset + FILE_READ_SIZE
  BY <1>4 DEF s
<1>6. ReadEnd \in offset..Len(File)
  BY <1>1, <1>4, <1>5
<1>7. SubSeq(File, offset + 1, ReadEnd) \in Seq(Byte)
  BY <1>1, <1>6, SubSeqIs
<1>8. ToSplit \in Seq(Byte)
  <2>1. h264_buff \in Seq(Byte)
    BY DEF FeederTypeOK
  <2> QED
    BY <1>7, <2>1 DEF ToSplit
<1> QED
  BY <1>4, <1>5, <1>6, <1>7, <1>8

(* What Read does to what is read and cut.                                  *)
LEMMA ReadStep ==
    Read => /\ offset' = ReadEnd /\ h264_buff' = Split(ToSplit).rest
            /\ h264_nal_buff_list' = h264_nal_buff_list \o Split(ToSplit).nals
  BY DEF Read, ReadEnd, ToSplit

(* A read keeps the types.                                                  *)
LEMMA TypesOfRead ==
    ASSUME FeederTypeOK, Read
    PROVE  FeederTypeOK'
<1>1. /\ ReadEnd \in 0..Len(File) /\ ToSplit \in Seq(Byte)
  <2>1. ReadEnd \in offset..Len(File) /\ ToSplit \in Seq(Byte)
    BY ReadIs
  <2>2. offset \in 0..Len(File)
    BY DEF FeederTypeOK
  <2> QED
    BY <2>1, <2>2
<1>2. PICK m \in 0..Len(ToSplit) : Split(ToSplit).rest = Drop(ToSplit, m)
  BY <1>1, SplitIs
<1>3. Split(ToSplit).nals \in Seq(Seq(Byte)) /\ Len(Split(ToSplit).rest) <= 4
  BY <1>1, SplitIs
<1>4. Split(ToSplit).rest \in Seq(Byte)
  BY <1>1, <1>2, DropIs
<1>5. offset' \in 0..Len(File) /\ h264_buff' \in Seq(Byte) /\ Len(h264_buff') <= 4
  BY <1>1, <1>3, <1>4, ReadStep
<1>6. h264_nal_buff_list' \in Seq(Seq(Byte))
  <2>1. h264_nal_buff_list \in Seq(Seq(Byte))
    BY DEF FeederTypeOK
  <2>2. h264_nal_buff_list \o Split(ToSplit).nals \in Seq(Seq(Byte))
    BY <1>3, <2>1
  <2> QED
    BY <2>2, ReadStep
<1>7. pc' = "inner" /\ UNCHANGED <<fileVars, frameVars, initVars, paceVars, clock>>
  BY DEF Read
<1> QED
  BY <1>5, <1>6, <1>7 DEF FeederTypeOK, fileVars, frameVars, initVars, paceVars

\* A unit, and what the buffer becomes with it.
Taken == Head(h264_nal_buff_list)

Buffer == IF Gathered(Taken) THEN AppendAt(m_nDataSize, Taken) ELSE h264_frame_buff

BufferSize == IF Gathered(Taken) THEN m_nDataSize + Len(Taken) ELSE m_nDataSize

(* What Take does, by the cases of the code.                                *)
LEMMA TakeStep ==
    Take => /\ h264_nal_buff_list # <<>> /\ h264_nal_buff_list' = Tail(h264_nal_buff_list)
            /\ TakeWith(Taken, Buffer, BufferSize, 0)
<1> SUFFICES ASSUME Take
             PROVE  /\ h264_nal_buff_list # <<>> /\ h264_nal_buff_list' = Tail(h264_nal_buff_list)
                    /\ TakeWith(Taken, Buffer, BufferSize, 0)
  OBVIOUS
<1>1. /\ h264_nal_buff_list # <<>>
      /\ IF Gathered(Taken)
         THEN TakeWith(Taken, AppendAt(m_nDataSize, Taken), m_nDataSize + Len(Taken), 0)
         ELSE TakeWith(Taken, h264_frame_buff, m_nDataSize, 0)
  BY Zenon DEF Take, TakeAndClear, Taken
<1>2. TakeWith(Taken, Buffer, BufferSize, 0)
  BY <1>1, Zenon DEF Buffer, BufferSize
<1>3. h264_nal_buff_list' = Tail(h264_nal_buff_list)
  BY <1>2, Zenon DEF TakeWith
<1> QED
  BY <1>1, <1>2, <1>3

\* The buffer keeps its data, and the unit comes behind them.
LEMMA BufferIs ==
    ASSUME FeederTypeOK, h264_nal_buff_list # <<>>
    PROVE  /\ Taken \in Seq(Byte) /\ Tail(h264_nal_buff_list) \in Seq(Seq(Byte))
           /\ Buffer \in Seq(Byte) /\ BufferSize \in 0..Len(Buffer)
           /\ SubSeq(Buffer, 1, BufferSize) =
                IF Gathered(Taken) THEN SubSeq(h264_frame_buff, 1, m_nDataSize) \o Taken
                ELSE SubSeq(h264_frame_buff, 1, m_nDataSize)
<1> DEFINE b == h264_frame_buff
           n == m_nDataSize
           u == Taken
           x == SubSeq(b, 1, n)
           z == SubSeq(b, n + Len(u) + 1, Len(b))
<1>1. /\ b \in Seq(Byte) /\ n \in 0..Len(b) /\ u \in Seq(Byte)
      /\ Tail(h264_nal_buff_list) \in Seq(Seq(Byte))
  BY DEF FeederTypeOK, Taken
<1>2. CASE ~Gathered(Taken)
  BY <1>1, <1>2 DEF Buffer, BufferSize
<1>3. CASE Gathered(Taken)
  <2>1. x \in Seq(Byte) /\ Len(x) = n
    <3>1. 0 \in 0..Len(b) /\ n \in 0..Len(b) /\ 0 + 1 = 1 /\ n - 0 = n
      BY <1>1
    <3>2. SubSeq(b, 0 + 1, n) \in Seq(Byte) /\ Len(SubSeq(b, 0 + 1, n)) = n - 0
      BY <1>1, <3>1, SubSeqIs
    <3> QED
      BY <3>1, <3>2
  <2>2. z \in Seq(Byte)
    <3>1. Len(u) \in Nat /\ n \in Nat /\ Len(b) \in Nat
      BY <1>1
    <3>2. CASE n + Len(u) <= Len(b)
      <4> HIDE DEF b, n, u
      <4>1. n + Len(u) \in 0..Len(b) /\ Len(b) \in (n + Len(u))..Len(b)
        BY <3>1, <3>2
      <4>2. SubSeq(b, (n + Len(u)) + 1, Len(b)) \in Seq(Byte)
        BY <1>1, <4>1, SubSeqIs
      <4> QED
        BY <4>2 DEF z
    <3>3. CASE n + Len(u) > Len(b)
      <4>1. z = <<>>
        BY <1>1, <3>1, <3>3
      <4>2. <<>> \in Seq(Byte)
        OBVIOUS
      <4> QED
        BY <4>1, <4>2, Zenon
    <3> QED
      BY <3>1, <3>2, <3>3
  <2>3. Buffer = x \o u \o z /\ BufferSize = n + Len(u)
    BY <1>3, Zenon DEF Buffer, BufferSize, AppendAt
  <2> HIDE DEF b, n, u, x, z
  <2> DEFINE y == x \o u
  <2>4. y \in Seq(Byte) /\ Len(y) = n + Len(u) /\ Len(u) \in Nat /\ Len(z) \in Nat /\ n \in Nat
    <3>1. y \in Seq(Byte) /\ Len(y) = Len(x) + Len(u)
      BY <1>1, <2>1, ConcatProperties
    <3> QED
      BY <1>1, <2>1, <2>2, <3>1
  <2>5. Buffer = y \o z
    BY <2>3
  <2> HIDE DEF y
  <2>6. /\ Buffer \in Seq(Byte) /\ Len(Buffer) = Len(y) + Len(z)
        /\ \A k \in 1..(Len(y) + Len(z)) :
             Buffer[k] = IF k <= Len(y) THEN y[k] ELSE z[k - Len(y)]
    BY <2>2, <2>4, <2>5, ConcatProperties
  <2>7. BufferSize \in 0..Len(Buffer) /\ BufferSize = Len(y)
    BY <2>3, <2>4, <2>6
  <2>8. SubSeq(Buffer, 1, BufferSize) = y
    <3> DEFINE w == SubSeq(Buffer, 1, BufferSize)
    <3>1. /\ w \in Seq(Byte) /\ Len(w) = Len(y) /\ \A k \in 1..Len(y) : w[k] = Buffer[k]
      <4>1. 0 \in 0..Len(Buffer) /\ BufferSize \in 0..Len(Buffer) /\ 0 + 1 = 1
            /\ BufferSize - 0 = Len(y) /\ \A k \in 1..Len(y) : 0 + k = k
        BY <2>4, <2>7
      <4>2. /\ SubSeq(Buffer, 0 + 1, BufferSize) \in Seq(Byte)
            /\ Len(SubSeq(Buffer, 0 + 1, BufferSize)) = BufferSize - 0
            /\ \A k \in 1..(BufferSize - 0) : SubSeq(Buffer, 0 + 1, BufferSize)[k] = Buffer[0 + k]
        BY <2>6, <4>1, SubSeqIs
      <4> QED
        BY <4>1, <4>2
    <3> HIDE DEF w
    <3>2. \A k \in 1..Len(w) : w[k] = y[k]
      <4>1. \A k \in 1..Len(y) : k \in 1..(Len(y) + Len(z)) /\ k <= Len(y)
        BY <2>4
      <4> QED
        BY <2>6, <3>1, <4>1
    <3>3. w = y
      BY <2>4, <3>1, <3>2, SeqEqual
    <3> QED
      BY <3>3 DEF w
  <2> QED
    BY <1>1, <1>3, <2>6, <2>7, <2>8 DEF y, x, u, b, n
<1> QED
  BY <1>2, <1>3

\* What is known when a unit is taken.
NowSps == b_find_sps \/ (NalType(Taken) = SPS /\ HasTiming(Taken))
NowPps == b_find_pps \/ NalType(Taken) = PPS

FrameIsSent == FrameEnds(Taken) /\ NowSps /\ NowPps

NowHeld == IF Gathered(Taken) THEN held + 1 ELSE held

(* What Take does, in these terms.                                          *)
LEMMA TakenIs ==
    ASSUME Take
    PROVE  /\ pc = "inner" /\ (Feeding => ~Wrapped /\ Due)
           /\ h264_nal_buff_list # <<>> /\ h264_nal_buff_list' = Tail(h264_nal_buff_list)
           /\ b_find_sps' = NowSps /\ b_find_pps' = NowPps
           /\ IF InitNow(NowSps, NowPps)
              THEN m_bInit' = TRUE /\ i_begin_time' = GetTickCount /\ began' = clock
              ELSE UNCHANGED <<m_bInit, i_begin_time, began>>
           /\ h264_frame_buff' = Buffer
           /\ IF FrameIsSent
              THEN /\ SendFrame(Taken, Buffer, BufferSize, 0)
                   /\ first' = first + NowHeld /\ held' = 0
              ELSE /\ m_nDataSize' = BufferSize /\ held' = NowHeld
                   /\ UNCHANGED <<sent, first, iframe_offset, shown>>
           /\ found_frame_start' = (Starting(Taken) /\ ~FrameEnds(Taken))
           /\ frame_count' = IF FrameEnds(Taken) THEN frame_count + 1 ELSE frame_count
           /\ UNCHANGED <<fileVars, pc, offset, h264_buff, clock>>
<1>1. /\ TakeWith(Taken, Buffer, BufferSize, 0) /\ h264_nal_buff_list # <<>>
      /\ h264_nal_buff_list' = Tail(h264_nal_buff_list)
  BY TakeStep
<1> QED
  BY <1>1, Zenon DEF TakeWith, NowSps, NowPps, FrameIsSent, NowHeld

(* The time of a frame is a number, at least.                               *)
LEMMA TimeIs ==
    ASSUME FeederTypeOK, NEW u \in Seq(Byte), NEW count \in Nat
    PROVE  h264_get_pts_rtp(u, count) \in Nat
<1>1. iframe_offset \in Nat
  BY DEF FeederTypeOK
<1>2. PicOrder(u) \in Nat
  <2>1. CASE Len(u) > 5
    <3>1. 6 \in 1..Len(u)
      BY <2>1
    <3>2. u[6] \in Byte
      BY <3>1
    <3>3. PicOrder(u) = u[6]
      BY <2>1, Zenon DEF PicOrder
    <3>4. PicOrder(u) \in Byte
      BY <3>2, <3>3, Zenon
    <3>5. \A b \in Byte : b \in Nat
      BY DEF Byte
    <3> QED
      BY <3>4, <3>5, Zenon
  <2>2. CASE ~(Len(u) > 5)
    BY <2>2 DEF PicOrder
  <2> QED
    BY <2>1, <2>2
<1>3. 2 * count \in Nat /\ PicOrder(u) + 2 * iframe_offset \in Nat
  BY <1>1, <1>2
<1>4. \/ h264_get_pts_rtp(u, count) = 0
      \/ h264_get_pts_rtp(u, count) = 2 * count
      \/ h264_get_pts_rtp(u, count) = PicOrder(u) + 2 * iframe_offset
  BY Zenon DEF h264_get_pts_rtp, TimeWith
<1> QED
  BY <1>3, <1>4

(* A unit that is taken keeps the types.                                    *)
LEMMA TypesOfTake ==
    ASSUME FeederTypeOK, Take
    PROVE  FeederTypeOK'
<1>1. /\ Taken \in Seq(Byte) /\ h264_nal_buff_list' \in Seq(Seq(Byte))
      /\ Buffer \in Seq(Byte) /\ BufferSize \in 0..Len(Buffer)
  <2>1. h264_nal_buff_list # <<>> /\ h264_nal_buff_list' = Tail(h264_nal_buff_list)
    BY TakenIs
  <2> QED
    BY <2>1, BufferIs
<1>2. b_find_sps' \in BOOLEAN /\ b_find_pps' \in BOOLEAN
  <2>1. b_find_sps' = NowSps /\ b_find_pps' = NowPps
    BY TakenIs
  <2>2. b_find_sps \in BOOLEAN /\ b_find_pps \in BOOLEAN
    BY DEF FeederTypeOK
  <2>3. NowSps \in BOOLEAN /\ NowPps \in BOOLEAN
    BY <2>2, Zenon DEF NowSps, NowPps
  <2> QED
    BY <2>1, <2>3, Zenon
<1>3. m_bInit' \in BOOLEAN /\ i_begin_time' \in 0..(TickRange - 1) /\ began' \in 0..MaxClock
  <2>1. clock \in 0..MaxClock /\ TickRange \in Nat \ {0}
    BY FeederAssumption DEF FeederTypeOK
  <2>2. GetTickCount \in 0..(TickRange - 1)
    BY <2>1 DEF GetTickCount
  <2>3. IF InitNow(NowSps, NowPps)
        THEN m_bInit' = TRUE /\ i_begin_time' = GetTickCount /\ began' = clock
        ELSE UNCHANGED <<m_bInit, i_begin_time, began>>
    BY TakenIs
  <2>4. CASE InitNow(NowSps, NowPps)
    BY <2>1, <2>2, <2>3, <2>4
  <2>5. CASE ~InitNow(NowSps, NowPps)
    <3>1. UNCHANGED <<m_bInit, i_begin_time, began>>
      BY <2>3, <2>5, Zenon
    <3> QED
      BY <3>1 DEF FeederTypeOK
  <2> QED
    BY <2>4, <2>5
<1>4. NowHeld \in Nat /\ frame_count + 1 \in Nat
  BY DEF FeederTypeOK, NowHeld
<1>5. frame_count' \in Nat
  <2>1. frame_count' = IF FrameEnds(Taken) THEN frame_count + 1 ELSE frame_count
    BY TakenIs
  <2>2. frame_count \in Nat
    BY DEF FeederTypeOK
  <2> QED
    BY <1>4, <2>1, <2>2
<1>6. h264_frame_buff' \in Seq(Byte) /\ m_nDataSize' \in 0..Len(h264_frame_buff')
      /\ first' \in Nat /\ held' \in Nat /\ iframe_offset' \in Nat /\ shown' \subseteq Nat
      /\ sent' \in [bytes : Seq(Byte), size : Nat, pts : Nat]
  <2>1. /\ h264_frame_buff' = Buffer
        /\ IF FrameIsSent
           THEN /\ SendFrame(Taken, Buffer, BufferSize, 0)
                /\ first' = first + NowHeld /\ held' = 0
           ELSE /\ m_nDataSize' = BufferSize /\ held' = NowHeld
                /\ UNCHANGED <<sent, first, iframe_offset, shown>>
    BY TakenIs
  <2>2. /\ first \in Nat /\ iframe_offset \in Nat /\ shown \subseteq Nat
        /\ sent \in [bytes : Seq(Byte), size : Nat, pts : Nat] /\ frame_count \in Nat
    BY DEF FeederTypeOK
  <2>3. CASE FrameIsSent
    <3>1. SendFrame(Taken, Buffer, BufferSize, 0) /\ first' = first + NowHeld /\ held' = 0
      BY <2>1, <2>3, Zenon
    <3> DEFINE time == h264_get_pts_rtp(Taken, frame_count + 1)
    <3>2. time \in Nat
      BY <1>1, <1>4, TimeIs
    <3> HIDE DEF time
    <3>3. /\ sent' = [bytes |-> Buffer, size |-> BufferSize, pts |-> time]
          /\ iframe_offset' \in {frame_count + 1, iframe_offset}
          /\ shown' \in {shown \cup {time}, {}}
          /\ m_nDataSize' = 0
      BY <3>1 DEF SendFrame, time
    <3>4. sent' \in [bytes : Seq(Byte), size : Nat, pts : Nat]
      BY <1>1, <3>2, <3>3
    <3>5. iframe_offset' \in Nat /\ shown' \subseteq Nat
      BY <1>4, <2>2, <3>2, <3>3
    <3> QED
      BY <1>1, <1>4, <2>1, <2>2, <3>1, <3>3, <3>4, <3>5
  <2>4. CASE ~FrameIsSent
    <3>1. /\ m_nDataSize' = BufferSize /\ held' = NowHeld
          /\ UNCHANGED <<sent, first, iframe_offset, shown>>
      BY <2>1, <2>4, Zenon
    <3> QED
      BY <1>1, <1>4, <2>1, <2>2, <3>1
  <2> QED
    BY <2>3, <2>4
<1>7. found_frame_start' \in BOOLEAN
  <2>1. found_frame_start' = (Starting(Taken) /\ ~FrameEnds(Taken))
    BY TakenIs
  <2> QED
    BY <2>1
<1>8. UNCHANGED <<fileVars, pc, offset, h264_buff, clock>>
  BY TakenIs
<1>9. /\ FILE_READ_SIZE' \in ReadSizes /\ m_bVideoFile_ReadThread_Stop' \in BOOLEAN
      /\ pc' \in {"outer", "inner", "returned"} /\ offset' \in 0..Len(File)
      /\ h264_buff' \in Seq(Byte) /\ Len(h264_buff') <= 4 /\ clock' \in 0..MaxClock
  BY <1>8 DEF FeederTypeOK, fileVars
<1> QED
  BY <1>1, <1>2, <1>3, <1>5, <1>6, <1>7, <1>9 DEF FeederTypeOK

(* And so does all else.                                                    *)
LEMMA TypesOfOthers ==
    ASSUME FeederTypeOK, Loop \/ Rewind \/ Leave \/ Restart \/ Stop \/ Tick
    PROVE  FeederTypeOK'
<1>1. CASE Loop
  BY <1>1 DEF FeederTypeOK, Loop, LoopWhile, fileVars, bufferVars, frameVars, initVars, paceVars
<1>2. CASE Rewind
  <2>1. 0 \in 0..Len(File)
    BY FeederAssumption
  <2> QED
    BY <1>2, <2>1 DEF FeederTypeOK, Rewind, fileVars, frameVars, initVars, paceVars
<1>3. CASE Leave
  BY <1>3 DEF FeederTypeOK, Leave, fileVars, bufferVars, frameVars, initVars, paceVars
<1>4. CASE Restart
  <2>1. clock \in 0..MaxClock /\ TickRange \in Nat \ {0}
    BY FeederAssumption DEF FeederTypeOK
  <2>2. GetTickCount \in 0..(TickRange - 1)
    BY <2>1 DEF GetTickCount
  <2> QED
    BY <1>4, <2>1, <2>2
    DEF FeederTypeOK, Restart, RestartAt, fileVars, bufferVars, frameVars, initVars
<1>5. CASE Stop
  BY <1>5 DEF FeederTypeOK, Stop, bufferVars, frameVars, initVars, paceVars
<1>6. CASE Tick
  <2>1. clock < MaxClock /\ clock' = clock + 1 /\ clock \in 0..MaxClock /\ MaxClock \in Nat
    BY <1>6, FeederAssumption DEF FeederTypeOK, Tick
  <2>2. clock' \in 0..MaxClock
    BY <2>1
  <2> QED
    BY <1>6, <2>2 DEF FeederTypeOK, Tick, fileVars, bufferVars, frameVars, initVars, paceVars
<1> QED
  BY <1>1, <1>2, <1>3, <1>4, <1>5, <1>6

(* At the beginning.                                                        *)
LEMMA FeederTypesInit ==
    ASSUME FeederInit
    PROVE  FeederTypeOK
<1>1. <<>> \in Seq(Byte) /\ Len(<<>>) = 0 /\ <<>> \in Seq(Seq(Byte))
  OBVIOUS
<1>2. 0 \in 0..Len(File) /\ 0 \in 0..MaxClock /\ 0 \in 0..(TickRange - 1) /\ 0 \in 0..0
  <2>1. Len(File) \in Nat /\ MaxClock \in Nat /\ TickRange \in Nat \ {0}
    BY FeederAssumption
  <2> QED
    BY <2>1
<1>3. [bytes |-> <<>>, size |-> 0, pts |-> 0] \in [bytes : Seq(Byte), size : Nat, pts : Nat]
  BY <1>1
<1>4. /\ offset \in 0..Len(File) /\ h264_buff \in Seq(Byte) /\ Len(h264_buff) <= 4
      /\ h264_nal_buff_list \in Seq(Seq(Byte)) /\ h264_frame_buff \in Seq(Byte)
      /\ m_nDataSize \in 0..Len(h264_frame_buff)
  BY <1>1, <1>2 DEF FeederInit
<1>5. sent \in [bytes : Seq(Byte), size : Nat, pts : Nat]
  BY <1>3, Zenon DEF FeederInit
<1>6. /\ i_begin_time \in 0..(TickRange - 1) /\ clock \in 0..MaxClock /\ began \in 0..MaxClock
      /\ iframe_offset \in Nat /\ shown \subseteq Nat /\ frame_count \in Nat
      /\ first \in Nat /\ held \in Nat
  BY <1>2 DEF FeederInit
<1> QED
  BY <1>4, <1>5, <1>6 DEF FeederInit, FeederTypeOK

(* From step to step.                                                       *)
LEMMA FeederTypesStep == FeederTypeOK /\ [FeederNext]_feederVars => FeederTypeOK'
<1>1. ASSUME FeederTypeOK, FeederNext
      PROVE  FeederTypeOK'
  <2>1. Read \/ Take \/ (Loop \/ Rewind \/ Leave \/ Restart \/ Stop \/ Tick)
    BY <1>1, Zenon DEF FeederNext, InnerStep
  <2> QED
    BY <1>1, <2>1, TypesOfRead, TypesOfTake, TypesOfOthers
<1>2. ASSUME FeederTypeOK, UNCHANGED feederVars
      PROVE  FeederTypeOK'
  BY <1>2
  DEF FeederTypeOK, feederVars, fileVars, bufferVars, frameVars, initVars, paceVars
<1> QED
  BY <1>1, <1>2

(* The types of the feeder, whatever is in the file.                        *)
THEOREM FeederTypes == FeederSpec => []FeederTypeOK
<1> QED
  BY FeederTypesInit, FeederTypesStep, PTL DEF FeederSpec

-----------------------------------------------------------------------------
(* Frames and the stream's Init.                                            *)

\* Nothing is sent until a PPS is met, and that will be behind a usable SPS.
SetsInv ==
    \/ m_bInit
    \/ /\ ~b_find_pps /\ sent.size = 0
       /\ \/ b_find_sps
          \/ offset = 0 /\ h264_buff = <<>> /\ h264_nal_buff_list = <<>>
          \/ SetsInFront(h264_nal_buff_list)

(* What comes behind the sets leaves them in front.                         *)
LEMMA SetsAppend ==
    ASSUME NEW s \in Seq(Seq(Byte)), NEW t \in Seq(Seq(Byte)), SetsInFront(s)
    PROVE  SetsInFront(s \o t)
<1> DEFINE st == s \o t
<1>1. /\ st \in Seq(Seq(Byte)) /\ Len(st) = Len(s) + Len(t) /\ Len(s) \in Nat /\ Len(t) \in Nat
      /\ \A k \in 1..(Len(s) + Len(t)) : st[k] = IF k <= Len(s) THEN s[k] ELSE t[k - Len(s)]
  BY ConcatProperties
<1> HIDE DEF st
<1>2. PICK k \in DOMAIN s :
             /\ NalType(s[k]) = SPS /\ HasTiming(s[k])
             /\ \A j \in 1..k : NalType(s[j]) # PPS
  BY Zenon DEF SetsInFront
<1>3. k \in 1..Len(s)
  BY <1>2
<1>4. \A j \in 1..k : st[j] = s[j]
  <2>1. \A j \in 1..k : j \in 1..(Len(s) + Len(t)) /\ j <= Len(s)
    BY <1>1, <1>3
  <2> QED
    BY <1>1, <2>1
<1>5. k \in DOMAIN st /\ k \in 1..k
  BY <1>1, <1>3
<1>6. SetsInFront(st)
  BY <1>2, <1>4, <1>5, Zenon DEF SetsInFront
<1> QED
  BY <1>6 DEF st

\* The first unit is no PPS; if it is no usable SPS that comes behind it.
LEMMA SetsTail ==
    ASSUME NEW s \in Seq(Seq(Byte)), SetsInFront(s)
    PROVE  /\ NalType(Head(s)) # PPS
           /\ (NalType(Head(s)) = SPS /\ HasTiming(Head(s))) \/ SetsInFront(Tail(s))
<1>1. PICK k \in DOMAIN s :
             /\ NalType(s[k]) = SPS /\ HasTiming(s[k])
             /\ \A j \in 1..k : NalType(s[j]) # PPS
  BY Zenon DEF SetsInFront
<1>2. k \in 1..Len(s) /\ 1 \in 1..k /\ s # <<>>
  BY <1>1
<1>3. Head(s) = s[1]
  BY <1>2
<1>4. CASE k = 1
  BY <1>1, <1>2, <1>3, <1>4
<1>5. CASE k # 1
  <2> DEFINE t == Tail(s)
  <2>1. t \in Seq(Seq(Byte)) /\ Len(t) = Len(s) - 1 /\ \A j \in 1..(Len(s) - 1) : t[j] = s[j + 1]
    BY <1>2
  <2> HIDE DEF t
  <2>2. k - 1 \in DOMAIN t /\ (k - 1) + 1 = k
    BY <1>2, <1>5, <2>1
  <2>3. t[k - 1] = s[k]
    BY <1>2, <1>5, <2>1, <2>2
  <2>4. ASSUME NEW j \in 1..(k - 1)
        PROVE  NalType(t[j]) # PPS
    <3>1. j \in 1..(Len(s) - 1) /\ j + 1 \in 1..k
      BY <1>2, <1>5
    <3> QED
      BY <1>1, <2>1, <3>1
  <2>5. SetsInFront(t)
    BY <1>1, <2>2, <2>3, <2>4, Zenon DEF SetsInFront
  <2> QED
    BY <1>1, <1>2, <1>3, <2>5 DEF t
<1> QED
  BY <1>4, <1>5

\* The sets that a file has are in its first read.
LEMMA SetsOfFirstRead ==
    ASSUME Coded(File), SetsAreRead, SetsInFront(FileNals), NEW n \in ReadSizes
    PROVE  SetsInFront(FirstRead(n))
<1>1. File \in Seq(Byte) /\ n \in Nat /\ Len(File) \in Nat
  BY FeederAssumption
<1>2. CASE n < Len(File)
  BY <1>2 DEF SetsAreRead
<1>3. CASE ~(n < Len(File))
  <2> DEFINE m == Min({n, Len(File)})
             nals == Split(File).nals
             rest == Split(File).rest
             more == NalsOf(rest)
  <2>1. m = Len(File)
    <3>1. {n, Len(File)} \in SUBSET Nat /\ Len(File) \in {n, Len(File)}
          /\ \A k \in {n, Len(File)} : Len(File) <= k
      BY <1>1, <1>3
    <3> QED
      BY <3>1, MinOnly
  <2>2. SubSeq(File, 1, m) = File
    BY <1>1, <2>1, SubSeqFull
  <2>3. FirstRead(n) = nals
    BY <2>2, Zenon DEF FirstRead
  <2>4. nals \in Seq(Seq(Byte)) /\ Len(rest) <= 4 /\ FileNals = nals \o more
    BY <1>1, SplitIs DEF FileNals
  <2>5. rest \in Seq(Byte)
    <3>1. PICK k \in 0..Len(File) : rest = Drop(File, k)
      BY <1>1, SplitIs
    <3> QED
      BY <1>1, <3>1, DropIs
  <2>6. more \in Seq(Seq(Byte)) /\ \A k \in 1..Len(more) : ~HasTiming(more[k])
    <3>1. Units(rest) = <<>> \/ \E u \in Seq(Byte) : Units(rest) = <<u>> /\ Len(u) <= 1
      BY <2>4, <2>5, UnitsOfFour
    <3> HIDE DEF rest
    <3>2. more \in Seq(Seq(Byte)) /\ Len(more) = Len(Units(rest))
          /\ \A k \in 1..Len(Units(rest)) : more[k] = WithCode(Units(rest)[k])
      BY <2>5, NalsOfIs
    <3> HIDE DEF more
    <3>3. ASSUME NEW k \in 1..Len(more)
          PROVE  ~HasTiming(more[k])
      <4>1. PICK u \in Seq(Byte) : Units(rest) = <<u>> /\ Len(u) <= 1
        BY <3>1, <3>2
      <4>2. Len(<<u>>) = 1 /\ <<u>>[1] = u
        OBVIOUS
      <4>3. k = 1 /\ 1 \in 1..Len(Units(rest))
        BY <3>2, <4>1, <4>2
      <4>4. more[k] = WithCode(u)
        BY <3>2, <4>1, <4>2, <4>3
      <4>5. Len(WithCode(u)) <= 4 /\ Len(WithCode(u)) \in Nat
        <5>1. WithCode(u) \in Seq(Byte) /\ Len(WithCode(u)) = Len(u) + 3
          BY WithCodeIs
        <5> HIDE DEF more, rest
        <5> QED
          BY <4>1, <5>1
      <4> QED
        BY <4>4, <4>5 DEF HasTiming
    <3> QED
      BY <3>2, <3>3
  <2> HIDE DEF nals, more
  <2>7. /\ Len(FileNals) = Len(nals) + Len(more) /\ FileNals \in Seq(Seq(Byte))
        /\ \A k \in 1..(Len(nals) + Len(more)) :
             FileNals[k] = IF k <= Len(nals) THEN nals[k] ELSE more[k - Len(nals)]
    BY <2>4, <2>6, ConcatProperties
  <2>8. PICK k \in DOMAIN FileNals :
               /\ NalType(FileNals[k]) = SPS /\ HasTiming(FileNals[k])
               /\ \A j \in 1..k : NalType(FileNals[j]) # PPS
    BY Zenon DEF SetsInFront
  <2>9. k \in 1..(Len(nals) + Len(more)) /\ Len(nals) \in Nat /\ Len(more) \in Nat
    BY <2>4, <2>6, <2>7, <2>8
  <2>10. k <= Len(nals)
    <3>1. SUFFICES ASSUME ~(k <= Len(nals))
                   PROVE  FALSE
      OBVIOUS
    <3>2. k - Len(nals) \in 1..Len(more)
      BY <2>9, <3>1
    <3>3. FileNals[k] = more[k - Len(nals)]
      BY <2>7, <2>9, <3>1
    <3> QED
      BY <2>6, <2>8, <3>2, <3>3
  <2>11. k \in DOMAIN nals /\ k \in 1..k
    BY <2>4, <2>9, <2>10
  <2>12. \A j \in 1..k : nals[j] = FileNals[j]
    <3>1. \A j \in 1..k : j \in 1..(Len(nals) + Len(more)) /\ j <= Len(nals)
      BY <2>9, <2>10
    <3> QED
      BY <2>7, <3>1
  <2>13. SetsInFront(nals)
    BY <2>8, <2>11, <2>12, Zenon DEF SetsInFront
  <2> QED
    BY <2>3, <2>13
<1> QED
  BY <1>2, <1>3

(* From step to step: what is read goes behind, what is taken is in front.  *)
LEMMA SetsKept ==
    ASSUME Coded(File), SetsAreRead, SetsInFront(FileNals),
           FeederTypeOK, SetsInv, [FeederNext]_feederVars
    PROVE  SetsInv'
<1>1. CASE Read
  <2>1. /\ offset' = ReadEnd /\ h264_buff' = Split(ToSplit).rest
        /\ h264_nal_buff_list' = h264_nal_buff_list \o Split(ToSplit).nals
    BY <1>1, ReadStep
  <2>2. UNCHANGED <<m_bInit, b_find_pps, b_find_sps, sent>>
    BY <1>1 DEF Read, initVars, frameVars
  <2>3. CASE m_bInit \/ b_find_sps
    BY <2>2, <2>3 DEF SetsInv
  <2>4. CASE ~m_bInit /\ offset = 0 /\ h264_buff = <<>> /\ h264_nal_buff_list = <<>>
    <3>1. ToSplit = SubSeq(File, 1, Min({FILE_READ_SIZE, Len(File)}))
      <4>1. FILE_READ_SIZE \in Nat /\ File \in Seq(Byte)
        BY FeederAssumption DEF FeederTypeOK
      <4>2. 0 + FILE_READ_SIZE = FILE_READ_SIZE /\ 0 + 1 = 1
        BY <4>1
      <4>3. ReadEnd = Min({FILE_READ_SIZE, Len(File)})
        BY <2>4, <4>2, Zenon DEF ReadEnd
      <4>4. ToSplit = <<>> \o SubSeq(File, 1, ReadEnd)
        BY <2>4, <4>2, Zenon DEF ToSplit
      <4>5. SubSeq(File, offset + 1, ReadEnd) \in Seq(Byte)
        BY ReadIs
      <4>6. SubSeq(File, 1, ReadEnd) \in Seq(Byte)
        BY <2>4, <4>2, <4>5
      <4>7. <<>> \o SubSeq(File, 1, ReadEnd) = SubSeq(File, 1, ReadEnd)
        BY <4>6, ConcatEmptySeq
      <4> QED
        BY <4>3, <4>4, <4>7, Zenon
    <3>2. Split(ToSplit).nals = FirstRead(FILE_READ_SIZE)
      BY <3>1, Zenon DEF FirstRead
    <3>3. SetsInFront(Split(ToSplit).nals)
      BY <3>2, SetsOfFirstRead DEF FeederTypeOK
    <3>4. Split(ToSplit).nals \in Seq(Seq(Byte))
      BY ReadIs, SplitIs
    <3>5. <<>> \o Split(ToSplit).nals = Split(ToSplit).nals
      BY <3>4, ConcatEmptySeq
    <3>6. SetsInFront(h264_nal_buff_list')
      BY <2>1, <2>4, <3>3, <3>5
    <3>7. ~b_find_pps /\ sent.size = 0
      BY <2>4 DEF SetsInv
    <3> QED
      BY <2>2, <3>6, <3>7 DEF SetsInv
  <2>5. CASE ~m_bInit /\ SetsInFront(h264_nal_buff_list)
    <3>1. h264_nal_buff_list \in Seq(Seq(Byte)) /\ Split(ToSplit).nals \in Seq(Seq(Byte))
      BY ReadIs, SplitIs DEF FeederTypeOK
    <3>2. SetsInFront(h264_nal_buff_list')
      BY <2>1, <2>5, <3>1, SetsAppend
    <3>3. ~b_find_pps /\ sent.size = 0
      BY <2>5 DEF SetsInv
    <3> QED
      BY <2>2, <3>2, <3>3 DEF SetsInv
  <2> QED
    BY <2>3, <2>4, <2>5 DEF SetsInv
<1>2. CASE Take
  <2>1. /\ h264_nal_buff_list # <<>> /\ h264_nal_buff_list' = Tail(h264_nal_buff_list)
        /\ b_find_sps' = NowSps /\ b_find_pps' = NowPps
        /\ IF InitNow(NowSps, NowPps)
           THEN m_bInit' = TRUE /\ i_begin_time' = GetTickCount /\ began' = clock
           ELSE UNCHANGED <<m_bInit, i_begin_time, began>>
        /\ IF FrameIsSent
           THEN /\ SendFrame(Taken, Buffer, BufferSize, 0)
                /\ first' = first + NowHeld /\ held' = 0
           ELSE /\ m_nDataSize' = BufferSize /\ held' = NowHeld
                /\ UNCHANGED <<sent, first, iframe_offset, shown>>
    BY <1>2, TakenIs
  <2>2. CASE m_bInit
    <3>1. m_bInit'
      BY <2>1, <2>2
    <3> QED
      BY <3>1 DEF SetsInv
  <2>3. CASE ~m_bInit
    <3>1. ~b_find_pps /\ sent.size = 0
      BY <2>3 DEF SetsInv
    <3>2. CASE NowPps
      <4>1. b_find_sps
        <5>1. NalType(Taken) = PPS
          BY <3>1, <3>2 DEF NowPps
        <5>2. ~SetsInFront(h264_nal_buff_list)
          <6>1. h264_nal_buff_list \in Seq(Seq(Byte))
            BY DEF FeederTypeOK
          <6> QED
            BY <5>1, <6>1, SetsTail DEF Taken
        <5> QED
          BY <2>1, <2>3, <5>2 DEF SetsInv
      <4>2. InitNow(NowSps, NowPps)
        BY <3>1, <3>2, <4>1 DEF InitNow, NowSps
      <4>3. m_bInit'
        BY <2>1, <4>2
      <4> QED
        BY <4>3 DEF SetsInv
    <3>3. CASE ~NowPps
      <4>1. ~FrameIsSent /\ ~b_find_pps'
        BY <2>1, <3>3 DEF FrameIsSent
      <4>2. sent' = sent
        BY <2>1, <4>1
      <4>3. CASE b_find_sps
        BY <2>1, <3>1, <4>1, <4>2, <4>3 DEF SetsInv, NowSps
      <4>4. CASE ~b_find_sps
        <5>1. SetsInFront(h264_nal_buff_list)
          BY <2>1, <2>3, <4>4 DEF SetsInv
        <5>2. NowSps \/ SetsInFront(h264_nal_buff_list')
          <6>1. h264_nal_buff_list \in Seq(Seq(Byte))
            BY DEF FeederTypeOK
          <6>2. (NalType(Taken) = SPS /\ HasTiming(Taken)) \/ SetsInFront(Tail(h264_nal_buff_list))
            BY <5>1, <6>1, SetsTail DEF Taken
          <6> QED
            BY <2>1, <6>2 DEF NowSps
        <5> QED
          BY <2>1, <3>1, <4>1, <4>2, <5>2 DEF SetsInv
      <4> QED
        BY <4>3, <4>4
    <3> QED
      BY <3>2, <3>3
  <2> QED
    BY <2>2, <2>3
<1>3. CASE Rewind
  <2>1. offset # 0
    BY <1>3, FeederAssumption DEF Rewind
  <2>2. UNCHANGED <<m_bInit, b_find_pps, b_find_sps, sent, h264_nal_buff_list>>
    BY <1>3 DEF Rewind, initVars, frameVars
  <2> QED
    BY <2>1, <2>2 DEF SetsInv
<1>4. CASE Loop \/ Leave \/ Restart \/ Stop \/ Tick \/ UNCHANGED feederVars
  <2>1. UNCHANGED <<m_bInit, b_find_pps, b_find_sps, sent, h264_nal_buff_list, offset, h264_buff>>
    BY <1>4 DEF Loop, LoopWhile, Leave, Restart, RestartAt, Stop, Tick, feederVars,
                initVars, frameVars, bufferVars
  <2> QED
    BY <2>1 DEF SetsInv
<1> QED
  BY <1>1, <1>2, <1>3, <1>4, Zenon DEF FeederNext, InnerStep

(* In a file whose start codes are what they seem, and of which a read takes *)
(* the sets at its beginning whole: no frame is sent before the stream's     *)
(* Init, however the clock goes, wherever else reads end.                    *)
THEOREM FramesFollowInit ==
    ASSUME Coded(File), SetsAreRead
    PROVE  FeederSpec => []FramesAfterInit
<1>1. CASE ~SetsInFront(FileNals)
  <2>1. FramesAfterInit
    BY <1>1 DEF FramesAfterInit
  <2> QED
    BY <2>1, PTL
<1>2. CASE SetsInFront(FileNals)
  <2>1. FeederInit => SetsInv
    BY DEF FeederInit, SetsInv
  <2>2. FeederTypeOK /\ SetsInv /\ [FeederNext]_feederVars => SetsInv'
    BY <1>2, SetsKept
  <2>3. FeederTypeOK /\ SetsInv => FramesAfterInit
    BY DEF SetsInv, FramesAfterInit
  <2> QED
    BY <2>1, <2>2, <2>3, FeederTypes, PTL DEF FeederSpec
<1> QED
  BY <1>1, <1>2

-----------------------------------------------------------------------------
(* Frames and the units of the file.                                        *)

\* The units that make frames.
GatheredNals == {u \in Seq(Byte) : Gathered(u)}

\* How many of the first r units of the file make frames.
CountTo(r) == Len(Only(SubSeq(FileNals, 1, r), GatheredNals))

(* The units of the file are lists of bytes.                                *)
LEMMA FileNalsAre ==
    FileNals \in Seq(Seq(Byte)) /\ FileUnits = Only(FileNals, GatheredNals)
    /\ FileUnits \in Seq(Seq(Byte))
<1>1. FileNals \in Seq(Seq(Byte))
  BY FeederAssumption, NalsOfIs DEF FileNals
<1>2. FileUnits = Only(FileNals, GatheredNals)
  BY DEF FileUnits, GatheredNals
<1> QED
  BY <1>1, <1>2, OnlyType

(* The unit behind the first r.                                             *)
LEMMA CountIs ==
    ASSUME NEW r \in 0..Len(FileNals)
    PROVE  /\ CountTo(r) \in 0..Len(FileUnits)
           /\ r = Len(FileNals) => CountTo(r) = Len(FileUnits)
           /\ r = 0 => CountTo(r) = 0
           /\ FileUnits = Only(SubSeq(FileNals, 1, r), GatheredNals)
                            \o Only(Drop(FileNals, r), GatheredNals)
<1> DEFINE s == FileNals
           a == SubSeq(s, 1, r)
           b == Drop(s, r)
<1>1. s \in Seq(Seq(Byte)) /\ FileUnits = Only(s, GatheredNals)
  BY FileNalsAre
<1>2. a \in Seq(Seq(Byte)) /\ b \in Seq(Seq(Byte)) /\ a \o b = s
  <2>1. 0 \in 0..Len(s) /\ r \in 0..Len(s) /\ 0 + 1 = 1
    BY <1>1
  <2>2. SubSeq(s, 0 + 1, r) \in Seq(Seq(Byte))
    BY <1>1, <2>1, SubSeqIs
  <2> QED
    BY <1>1, <2>1, <2>2, DropIs, BeginningAndRest
<1>3. Only(a \o b, GatheredNals) = Only(a, GatheredNals) \o Only(b, GatheredNals)
  BY <1>2, OnlyConcat
<1>4. Only(a, GatheredNals) \in Seq(Seq(Byte)) /\ Only(b, GatheredNals) \in Seq(Seq(Byte))
  BY <1>2, OnlyType
<1>5. FileUnits = Only(a, GatheredNals) \o Only(b, GatheredNals)
  BY <1>1, <1>2, <1>3
<1>6. CountTo(r) \in 0..Len(FileUnits)
  <2> DEFINE x == Only(a, GatheredNals)
             y == Only(b, GatheredNals)
  <2>1. Len(x \o y) = Len(x) + Len(y) /\ Len(x) \in Nat /\ Len(y) \in Nat
    BY <1>4
  <2>2. CountTo(r) = Len(x)
    BY DEF CountTo
  <2> HIDE DEF x, y
  <2> QED
    BY <1>5, <2>1, <2>2 DEF x, y
<1>7. ASSUME r = Len(s)
      PROVE  CountTo(r) = Len(FileUnits)
  <2>1. a = s
    BY <1>1, <1>7, SubSeqFull
  <2> QED
    BY <1>1, <2>1 DEF CountTo
<1>8. ASSUME r = 0
      PROVE  CountTo(r) = 0
  <2>1. a = <<>>
    BY <1>8
  <2>2. CountTo(r) = Len(Only(<<>>, GatheredNals))
    BY <2>1, Zenon DEF CountTo
  <2> QED
    BY <2>2, OnlyEmpty
<1> QED
  BY <1>5, <1>6, <1>7, <1>8

(* Counting on.                                                             *)
LEMMA CountNext ==
    ASSUME NEW r \in 0..Len(FileNals), NEW m \in r..Len(FileNals)
    PROVE  /\ CountTo(r) <= CountTo(m)
           /\ m = r + 1 /\ ~Gathered(FileNals[m]) => CountTo(m) = CountTo(r)
           /\ m = r + 1 /\ Gathered(FileNals[m]) =>
                CountTo(m) = CountTo(r) + 1 /\ FileUnits[CountTo(m)] = FileNals[m]
<1> DEFINE s == FileNals
           a == SubSeq(s, 1, r)
           b == SubSeq(s, r + 1, m)
           c == SubSeq(s, 1, m)
           d == Drop(s, m)
           x == Only(a, GatheredNals)
           y == Only(b, GatheredNals)
           z == Only(d, GatheredNals)
<1>1. s \in Seq(Seq(Byte)) /\ Len(s) \in Nat
  BY FileNalsAre
<1>2. a \in Seq(Seq(Byte)) /\ b \in Seq(Seq(Byte)) /\ d \in Seq(Seq(Byte))
      /\ Len(b) = m - r /\ \A k \in 1..(m - r) : b[k] = s[r + k]
  <2>1. 0 \in 0..Len(s) /\ r \in 0..Len(s) /\ 0 + 1 = 1 /\ m \in 0..Len(s) /\ m \in r..Len(s)
    BY <1>1
  <2>2. SubSeq(s, 0 + 1, r) \in Seq(Seq(Byte))
    BY <1>1, <2>1, SubSeqIs
  <2>3. /\ b \in Seq(Seq(Byte)) /\ Len(b) = m - r
        /\ \A k \in 1..(m - r) : b[k] = s[r + k]
    BY <1>1, <2>1, SubSeqIs
  <2>4. d \in Seq(Seq(Byte))
    BY <1>1, <2>1, DropIs
  <2> HIDE DEF b, d
  <2> QED
    BY <2>1, <2>2, <2>3, <2>4
<1>3. a \o b = c
  <2>1. 1 \in 1..(Len(s) + 1) /\ r \in (1 - 1)..Len(s) /\ m \in r..Len(s)
    BY <1>1
  <2> QED
    BY <1>1, <2>1, ConcatAdjacentSubSeq
<1>4. x \in Seq(Seq(Byte)) /\ y \in Seq(Seq(Byte)) /\ z \in Seq(Seq(Byte))
  BY <1>2, OnlyType
<1>5. Only(c, GatheredNals) = x \o y
  <2>1. Only(a \o b, GatheredNals) = x \o y
    BY <1>2, OnlyConcat
  <2> QED
    BY <1>3, <2>1, Zenon
<1>6. CountTo(r) = Len(x) /\ CountTo(m) = Len(x \o y)
  BY <1>5 DEF CountTo
<1>7. FileUnits = (x \o y) \o z
  <2>1. m \in 0..Len(FileNals)
    BY <1>1
  <2>2. FileUnits = Only(c, GatheredNals) \o z
    BY <2>1, CountIs
  <2> QED
    BY <1>5, <2>2
<1>8. m = r + 1 => b = <<s[m]>> /\ s[m] \in Seq(Byte)
  <2>1. ASSUME m = r + 1
        PROVE  b = <<s[m]>> /\ s[m] \in Seq(Byte)
    <3>1. Len(b) = 1 /\ 1 \in 1..(m - r) /\ b[1] = s[m] /\ m \in 1..Len(s)
      BY <1>1, <1>2, <2>1
    <3>2. b \in Seq(Seq(Byte)) /\ s[m] \in Seq(Byte)
      <4> HIDE DEF b
      <4>1. b \in Seq(Seq(Byte))
        BY <1>2
      <4> HIDE DEF s
      <4> QED
        BY <1>1, <3>1, <4>1
    <3> DEFINE v == s[m]
    <3>3. <<v>> \in Seq(Seq(Byte)) /\ Len(<<v>>) = 1 /\ <<v>>[1] = v
      BY <3>2
    <3> HIDE DEF b
    <3>4. b[1] = v
      BY <3>1
    <3> HIDE DEF v
    <3>5. \A k \in 1..Len(b) : b[k] = <<v>>[k]
      BY <3>1, <3>3, <3>4
    <3>6. b = <<v>>
      BY <3>1, <3>2, <3>3, <3>5, SeqEqual
    <3> QED
      BY <3>2, <3>6 DEF v
  <2> QED
    BY <2>1
<1>9. m = r + 1 => y = IF s[m] \in GatheredNals THEN <<s[m]>> ELSE <<>>
  <2>1. ASSUME m = r + 1
        PROVE  y = IF s[m] \in GatheredNals THEN <<s[m]>> ELSE <<>>
    <3>1. Only(<<s[m]>>, GatheredNals) = IF s[m] \in GatheredNals THEN <<s[m]>> ELSE <<>>
      BY <1>8, <2>1, OnlyOne
    <3> QED
      BY <1>8, <2>1, <3>1, Zenon
  <2> QED
    BY <2>1
<1>10. m = r + 1 => (s[m] \in GatheredNals <=> Gathered(s[m]))
  BY <1>8 DEF GatheredNals
<1> DEFINE u == FileNals[m]
<1>11. /\ m = r + 1 => y = IF u \in GatheredNals THEN <<u>> ELSE <<>>
       /\ m = r + 1 => (u \in GatheredNals <=> Gathered(u))
  BY <1>9, <1>10
<1> HIDE DEF x, y, z, s, u
<1>12. Len(x \o y) = Len(x) + Len(y) /\ Len(x) \in Nat /\ Len(y) \in Nat
  BY <1>4
<1>13. ASSUME m = r + 1, Gathered(u)
       PROVE  CountTo(m) = CountTo(r) + 1 /\ FileUnits[CountTo(m)] = u
  <2>1. y = <<u>> /\ Len(y) = 1 /\ y[1] = u
    BY <1>11, <1>13
  <2> DEFINE w == x \o y
  <2>2. w \in Seq(Seq(Byte)) /\ Len(w) = Len(x) + 1 /\ w[Len(x) + 1] = u
    <3>1. /\ w \in Seq(Seq(Byte)) /\ Len(w) = Len(x) + Len(y)
          /\ \A k \in 1..(Len(x) + Len(y)) : w[k] = IF k <= Len(x) THEN x[k] ELSE y[k - Len(x)]
      BY <1>4, ConcatProperties
    <3>2. /\ Len(x) + 1 \in 1..(Len(x) + Len(y)) /\ ~(Len(x) + 1 <= Len(x))
          /\ (Len(x) + 1) - Len(x) = 1
      BY <1>12, <2>1
    <3> HIDE DEF w
    <3> QED
      BY <2>1, <3>1, <3>2
  <2> HIDE DEF w
  <2>3. /\ \A k \in 1..(Len(w) + Len(z)) : (w \o z)[k] = IF k <= Len(w) THEN w[k] ELSE z[k - Len(w)]
    BY <1>4, <2>2, ConcatProperties
  <2>4. Len(w) \in 1..(Len(w) + Len(z)) /\ Len(w) <= Len(w)
    BY <1>4, <1>12, <2>2
  <2>5. (w \o z)[Len(w)] = w[Len(w)]
    BY <2>3, <2>4
  <2>6. CountTo(m) = Len(w) /\ FileUnits = w \o z
    BY <1>6, <1>7 DEF w
  <2> QED
    BY <1>6, <2>2, <2>5, <2>6
<1>14. ASSUME m = r + 1, ~Gathered(u)
       PROVE  CountTo(m) = CountTo(r)
  <2>1. y = <<>> /\ Len(y) = 0
    BY <1>11, <1>14
  <2> QED
    BY <1>6, <1>12, <2>1
<1>15. CountTo(r) <= CountTo(m)
  BY <1>6, <1>12
<1> QED
  BY <1>13, <1>14, <1>15 DEF u

-----------------------------------------------------------------------------
(* A file read in one piece.                                                *)

\* The place in the file behind k.
Succ(k) == IF k = Len(FileNals) THEN 1 ELSE k + 1

\* What is in the list is at these places of the file, in their order and round again,
\* from the one behind r to the end of the file.
Places(pos, r) ==
    /\ pos \in Seq(1..Len(FileNals)) /\ Len(pos) = Len(h264_nal_buff_list)
    /\ \A j \in 1..Len(pos) : h264_nal_buff_list[j] = FileNals[pos[j]]
    /\ \A j \in 1..(Len(pos) - 1) : pos[j + 1] = Succ(pos[j])
    /\ IF pos = <<>> THEN r = 0 ELSE pos[1] = r + 1 /\ pos[Len(pos)] = Len(FileNals)

\* The units gathered in q turns and the first r units of the next.
Gone(q, r) == q * Len(FileUnits) + CountTo(r)

\* Which have been seen, and which frames have ended.
SetsSeen(q, r) ==
    \A k \in 1..Len(FileNals) : q > 0 \/ r >= k =>
        (Usable(k) => b_find_sps) /\ (IsPps(k) => b_find_pps)

FramesEnded(q, r) ==
    \A k \in 1..Len(FileNals) : Closes(k) =>
        /\ r >= k => first >= Gone(q, k)
        /\ r < k /\ q > 0 => first >= Gone(q - 1, k)

\* What holds q turns and r units into the file.
InTurn(q, r) ==
    /\ first + held = Gone(q, r) /\ SetsSeen(q, r) /\ FramesEnded(q, r)
    /\ \E pos \in Seq(1..Len(FileNals)) : Places(pos, r)

\* The j-th unit sent, in a file that comes round again.
UnitNo(j) == FileUnits[(j % Len(FileUnits)) + 1]

\* The data of the frame are its units.
FrameData ==
    SubSeq(h264_frame_buff, 1, m_nDataSize) = FlattenSeq([j \in 1..held |-> UnitNo(first + j - 1)])

\* The inductive invariant, while the file is read whole.
WholeFileInv ==
    FILE_READ_SIZE >= Len(File) =>
        /\ offset \in {0, Len(File)} /\ h264_buff = <<>>
        /\ \E q \in Nat, r \in 0..(Len(FileNals) - 1) : InTurn(q, r)
        /\ FrameData

(* What a playable file has.                                                *)
LEMMA PlayableIs ==
    ASSUME PlayableFile
    PROVE  /\ FileNals \in Seq(Seq(Byte)) /\ Len(FileNals) \in Nat \ {0}
           /\ Split(File).nals = FileNals /\ Split(File).rest = <<>>
<1>1. File \in Seq(Byte) /\ FileNals \in Seq(Seq(Byte))
  BY FeederAssumption, FileNalsAre
<1>2. PICK k \in 1..Len(FileNals) : Closes(k)
  BY DEF PlayableFile
<1>3. Split(File).nals \in Seq(Seq(Byte)) /\ FileNals = Split(File).nals \o NalsOf(<<>>)
  BY <1>1, SplitIs DEF PlayableFile, FileNals
<1>4. NalsOf(<<>>) = <<>>
  <2>1. Units(<<>>) = <<>>
    <3>1. <<>> \in Seq(Byte) /\ Len(<<>>) <= 2
      OBVIOUS
    <3> QED
      BY <3>1, UnitsOfTwo
  <2>2. <<>> \in Seq(Byte)
    OBVIOUS
  <2>3. NalsOf(<<>>) \in Seq(Seq(Byte)) /\ Len(NalsOf(<<>>)) = Len(Units(<<>>))
    BY <2>2, NalsOfIs
  <2> DEFINE y == NalsOf(<<>>)
  <2>4. y \in Seq(Seq(Byte)) /\ Len(y) = 0
    BY <2>1, <2>3
  <2> HIDE DEF y
  <2>5. y = <<>>
    BY <2>4
  <2> QED
    BY <2>5 DEF y
<1>5. Split(File).nals \o <<>> = Split(File).nals
  BY <1>3, ConcatEmptySeq
<1>6. Split(File).nals = FileNals
  BY <1>3, <1>4, <1>5, Zenon
<1>7. Len(FileNals) \in Nat \ {0}
  BY <1>1, <1>2
<1> QED
  BY <1>1, <1>6, <1>7 DEF PlayableFile

(* Turns and places in them.                                                *)
LEMMA GoneIs ==
    ASSUME PlayableFile
    PROVE  /\ \A q \in Nat, r \in 0..Len(FileNals) : Gone(q, r) \in Nat
           /\ Gone(0, 0) = 0
           /\ \A q \in Nat : Gone(q, Len(FileNals)) = Gone(q + 1, 0)
           /\ \A q \in Nat, r \in 0..Len(FileNals), m \in 0..Len(FileNals) :
                r <= m => Gone(q, r) <= Gone(q, m)
           /\ \A q \in Nat \ {0}, r \in 0..Len(FileNals), m \in 0..Len(FileNals) :
                r <= m => Gone(q, r) <= Gone(q - 1, m) + Len(FileUnits)
           /\ \A q \in Nat, r \in 0..Len(FileNals), m \in 0..Len(FileNals) :
                Gone(q, r) <= Gone(q, m) + Len(FileUnits)
           /\ \A r \in 0..Len(FileNals) : Gone(0, r) <= Len(FileUnits)
<1> DEFINE n == Len(FileUnits)
           l == Len(FileNals)
<1>1. n \in Nat /\ l \in Nat
  BY FileNalsAre
<1>2. \A r \in 0..l : CountTo(r) \in 0..n
  BY CountIs
<1>3. CountTo(0) = 0 /\ CountTo(l) = n
  <2>1. 0 \in 0..Len(FileNals) /\ l \in 0..Len(FileNals)
    BY <1>1
  <2> QED
    BY <2>1, CountIs
<1>4. ASSUME NEW r \in 0..l, NEW m \in 0..l, r <= m
      PROVE  CountTo(r) <= CountTo(m)
  <2>1. r \in 0..Len(FileNals) /\ m \in r..Len(FileNals)
    BY <1>1, <1>4
  <2> QED
    BY <2>1, CountNext
<1> HIDE DEF n, l
<1>5. \A q \in Nat : \A r : Gone(q, r) = q * n + CountTo(r)
  BY DEF Gone, n
<1>6. \A q \in Nat : q * n \in Nat /\ (q + 1) * n = q * n + n
  BY <1>1
<1>7. \A q \in Nat \ {0} : q - 1 \in Nat /\ q * n = (q - 1) * n + n
  <2>1. ASSUME NEW q \in Nat \ {0}
        PROVE  q - 1 \in Nat /\ q * n = (q - 1) * n + n
    <3>1. q - 1 \in Nat /\ (q - 1) + 1 = q
      OBVIOUS
    <3> QED
      BY <1>6, <3>1
  <2> QED
    BY <2>1
<1>8. 0 * n = 0
  BY <1>1
<1>9. \A q \in Nat, r \in 0..l : Gone(q, r) \in Nat
  <2>1. ASSUME NEW q \in Nat, NEW r \in 0..l
        PROVE  Gone(q, r) \in Nat
    <3>1. q * n \in Nat /\ CountTo(r) \in Nat
      BY <1>1, <1>2, <1>6
    <3> QED
      BY <1>5, <3>1
  <2> QED
    BY <2>1
<1>10. Gone(0, 0) = 0
  BY <1>3, <1>5, <1>8
<1>11. \A q \in Nat : Gone(q, l) = Gone(q + 1, 0)
  <2>1. ASSUME NEW q \in Nat
        PROVE  Gone(q, l) = Gone(q + 1, 0)
    <3>1. q + 1 \in Nat /\ (q + 1) * n = q * n + n /\ q * n \in Nat
      BY <1>6
    <3>2. Gone(q, l) = q * n + n /\ Gone(q + 1, 0) = (q + 1) * n + 0
      BY <1>3, <1>5, <3>1
    <3> QED
      BY <1>1, <3>1, <3>2
  <2> QED
    BY <2>1
<1>12. ASSUME NEW q \in Nat, NEW r \in 0..l, NEW m \in 0..l
       PROVE  /\ r <= m => Gone(q, r) <= Gone(q, m)
              /\ Gone(q, r) <= Gone(q, m) + n
  <2> DEFINE x == q * n
             a == CountTo(r)
             b == CountTo(m)
  <2>1. x \in Nat /\ a \in 0..n /\ b \in 0..n /\ Gone(q, r) = x + a /\ Gone(q, m) = x + b
    BY <1>2, <1>5, <1>6
  <2>2. r <= m => a <= b
    BY <1>4
  <2> HIDE DEF x, a, b
  <2> QED
    BY <1>1, <2>1, <2>2
<1>13. ASSUME NEW q \in Nat \ {0}, NEW r \in 0..l, NEW m \in 0..l, r <= m
       PROVE  Gone(q, r) <= Gone(q - 1, m) + n
  <2> DEFINE x == (q - 1) * n
             y == q * n
             a == CountTo(r)
             b == CountTo(m)
  <2>1. /\ x \in Nat /\ y = x + n /\ a \in 0..n /\ b \in 0..n
        /\ Gone(q, r) = y + a /\ Gone(q - 1, m) = x + b
    <3>1. q - 1 \in Nat /\ q \in Nat
      BY <1>7
    <3> QED
      BY <1>2, <1>5, <1>6, <1>7, <3>1
  <2>2. a <= b
    BY <1>4, <1>13
  <2> HIDE DEF x, y, a, b
  <2> QED
    BY <1>1, <2>1, <2>2
<1>14. \A r \in 0..l : Gone(0, r) <= n
  <2>1. ASSUME NEW r \in 0..l
        PROVE  Gone(0, r) <= n
    <3>1. Gone(0, r) = 0 + CountTo(r) /\ CountTo(r) \in 0..n
      BY <1>2, <1>5, <1>8
    <3> QED
      BY <1>1, <3>1
  <2> QED
    BY <2>1
<1> QED
  BY <1>9, <1>10, <1>11, <1>12, <1>13, <1>14 DEF l, n

(* The next unit of the frame is the next that the file has for one.        *)
LEMMA NextIs ==
    ASSUME PlayableFile, NEW q \in Nat, NEW r \in 0..(Len(FileNals) - 1)
    PROVE  /\ ~Gathered(FileNals[r + 1]) => Gone(q, r + 1) = Gone(q, r)
           /\ Gathered(FileNals[r + 1]) =>
                Gone(q, r + 1) = Gone(q, r) + 1 /\ UnitNo(Gone(q, r)) = FileNals[r + 1]
<1> DEFINE n == Len(FileUnits)
           l == Len(FileNals)
           g == CountTo(r)
           h == CountTo(r + 1)
<1>1. n \in Nat /\ l \in Nat /\ r \in 0..l /\ r + 1 \in r..l /\ r + 1 \in 0..l
  BY FileNalsAre
<1>2. g \in 0..n /\ h \in 0..n
  BY <1>1, CountIs
<1>3. /\ ~Gathered(FileNals[r + 1]) => h = g
      /\ Gathered(FileNals[r + 1]) => h = g + 1 /\ FileUnits[h] = FileNals[r + 1]
  BY <1>1, CountNext
<1>4. Gone(q, r) = q * n + g /\ Gone(q, r + 1) = q * n + h
  BY DEF Gone
<1> HIDE DEF n, l, g, h
<1>5. q * n \in Nat
  BY <1>1
<1>6. ASSUME h = g + 1
      PROVE  (q * n + g) % n = g
  <2>1. n > 0 /\ g \in 0..(n - 1)
    BY <1>1, <1>2, <1>6
  <2> QED
    BY <1>1, <2>1
<1>7. ASSUME Gathered(FileNals[r + 1])
      PROVE  Gone(q, r + 1) = Gone(q, r) + 1 /\ UnitNo(Gone(q, r)) = FileNals[r + 1]
  <2>1. h = g + 1 /\ FileUnits[h] = FileNals[r + 1] /\ (q * n + g) % n = g
    BY <1>3, <1>6, <1>7
  <2>2. Gone(q, r) % n = g
    BY <1>4, <2>1
  <2>3. UnitNo(Gone(q, r)) = FileUnits[g + 1]
    BY <2>2, Zenon DEF UnitNo, n
  <2>4. Gone(q, r + 1) = Gone(q, r) + 1
    BY <1>2, <1>4, <1>5, <2>1
  <2> QED
    BY <2>1, <2>3, <2>4
<1>8. ASSUME ~Gathered(FileNals[r + 1])
      PROVE  Gone(q, r + 1) = Gone(q, r)
  BY <1>3, <1>4, <1>8
<1> QED
  BY <1>7, <1>8

(* There are units to send.                                                 *)
LEMMA UnitsToSend ==
    ASSUME PlayableFile
    PROVE  Len(FileUnits) \in Nat \ {0} /\ \A j \in Nat : UnitNo(j) \in Seq(Byte)
<1>1. FileUnits \in Seq(Seq(Byte)) /\ Len(FileUnits) \in Nat /\ Len(FileNals) \in Nat
  BY FileNalsAre
<1>2. PICK k \in 1..Len(FileNals) : Closes(k)
  BY DEF PlayableFile
<1>3. k - 1 \in 0..(Len(FileNals) - 1) /\ (k - 1) + 1 = k
      /\ k \in 0..Len(FileNals) /\ k - 1 \in 0..Len(FileNals) /\ 0 \in Nat
  BY <1>1
<1>4. Gathered(FileNals[k])
  <2>1. NalType(FileNals[k]) \in {1, 2, 5}
    BY <1>2, Zenon DEF Closes, Slices
  <2> DEFINE t == NalType(FileNals[k])
  <2>2. t \in {1, 2, 5} => t \notin {6, 7, 8}
    OBVIOUS
  <2> QED
    BY <2>1, <2>2 DEF Gathered, SEI, SPS, PPS
<1>5. Gone(0, k) = Gone(0, k - 1) + 1 /\ Gone(0, k - 1) \in Nat /\ Gone(0, k) <= Len(FileUnits)
  <2>1. Gathered(FileNals[(k - 1) + 1]) => Gone(0, (k - 1) + 1) = Gone(0, k - 1) + 1
    BY <1>3, NextIs
  <2> QED
    BY <1>3, <1>4, <2>1, GoneIs
<1>6. Len(FileUnits) \in Nat \ {0}
  BY <1>1, <1>5
<1>7. ASSUME NEW j \in Nat
      PROVE  UnitNo(j) \in Seq(Byte)
  <2> DEFINE n == Len(FileUnits)
             m == j % n
  <2>1. n \in Nat \ {0}
    BY <1>6
  <2> HIDE DEF n
  <2>2. m \in 0..(n - 1)
    BY <2>1
  <2>3. m + 1 \in 1..n
    <3> HIDE DEF m
    <3> QED
      BY <2>1, <2>2
  <2>4. m + 1 \in 1..Len(FileUnits) /\ UnitNo(j) = FileUnits[m + 1]
    BY <2>3 DEF UnitNo, n
  <2> HIDE DEF m
  <2> QED
    BY <1>1, <2>4
<1> QED
  BY <1>6, <1>7

\* The h units from the f-th on.
FrameUnits(f, h) == [j \in 1..h |-> UnitNo(f + j - 1)]

(* A frame with one unit more.                                              *)
LEMMA FrameUnitsNext ==
    ASSUME PlayableFile, NEW f \in Nat, NEW h \in Nat
    PROVE  /\ FlattenSeq(FrameUnits(f, h + 1)) = FlattenSeq(FrameUnits(f, h)) \o UnitNo(f + h)
           /\ FlattenSeq(FrameUnits(f, 0)) = <<>>
<1> DEFINE a == FrameUnits(f, h)
           b == FrameUnits(f, h + 1)
           u == UnitNo(f + h)
           c == a \o <<u>>
<1>1. \A j \in Nat : UnitNo(j) \in Seq(Byte)
  BY UnitsToSend
<1>2. ASSUME NEW m \in Nat
      PROVE  FrameUnits(f, m) \in Seq(Seq(Byte)) /\ Len(FrameUnits(f, m)) = m
  <2>1. \A j \in 1..m : f + j - 1 \in Nat
    OBVIOUS
  <2>2. \A j \in 1..m : UnitNo(f + j - 1) \in Seq(Byte)
    BY <1>1, <2>1
  <2> QED
    BY <2>2 DEF FrameUnits
<1>3. a \in Seq(Seq(Byte)) /\ Len(a) = h /\ \A j \in 1..h : a[j] = UnitNo(f + j - 1)
  <2>1. \A j \in 1..h : a[j] = UnitNo(f + j - 1)
    BY DEF FrameUnits
  <2> HIDE DEF a
  <2>2. a \in Seq(Seq(Byte)) /\ Len(a) = h
    BY <1>2 DEF a
  <2> QED
    BY <2>1, <2>2
<1>4. b \in Seq(Seq(Byte)) /\ Len(b) = h + 1 /\ \A j \in 1..(h + 1) : b[j] = UnitNo(f + j - 1)
  <2>1. \A j \in 1..(h + 1) : b[j] = UnitNo(f + j - 1)
    BY DEF FrameUnits
  <2> HIDE DEF b
  <2>2. h + 1 \in Nat
    OBVIOUS
  <2>3. b \in Seq(Seq(Byte)) /\ Len(b) = h + 1
    BY <1>2, <2>2 DEF b
  <2> QED
    BY <2>1, <2>3
<1>5. u \in Seq(Byte)
  <2>1. f + h \in Nat
    OBVIOUS
  <2> QED
    BY <1>1, <2>1
<1>6. <<u>> \in Seq(Seq(Byte)) /\ Len(<<u>>) = 1 /\ <<u>>[1] = u
  BY <1>5
<1>7. f + (h + 1) - 1 = f + h
  OBVIOUS
<1> DEFINE e == <<u>>
<1> HIDE DEF a, b, e
<1>8. /\ c \in Seq(Seq(Byte)) /\ Len(c) = h + 1
      /\ \A j \in 1..(h + 1) : c[j] = IF j <= h THEN a[j] ELSE e[j - h]
  <2>1. c = a \o e
    BY DEF e
  <2>2. e \in Seq(Seq(Byte)) /\ Len(e) = 1
    BY <1>6 DEF e
  <2>3. /\ a \o e \in Seq(Seq(Byte)) /\ Len(a \o e) = Len(a) + Len(e)
        /\ \A j \in 1..(Len(a) + Len(e)) :
             (a \o e)[j] = IF j <= Len(a) THEN a[j] ELSE e[j - Len(a)]
    BY <1>3, <2>2, ConcatProperties
  <2> HIDE DEF c
  <2> QED
    BY <1>3, <2>1, <2>2, <2>3, Zenon
<1>9. \A j \in 1..Len(c) : c[j] = b[j]
  <2>1. e[1] = u
    BY <1>6 DEF e
  <2>2. b[h + 1] = u
    <3>1. h + 1 \in 1..(h + 1)
      OBVIOUS
    <3>2. b[h + 1] = UnitNo(f + (h + 1) - 1)
      BY <1>4, <3>1, Zenon
    <3> QED
      BY <1>7, <3>2, Zenon
  <2> HIDE DEF c, u
  <2>3. ASSUME NEW j \in 1..Len(c)
        PROVE  c[j] = b[j]
    <3>1. CASE j <= h
      BY <1>3, <1>4, <1>8, <3>1
    <3>2. CASE ~(j <= h)
      <4>1. j = h + 1 /\ j - h = 1
        BY <1>8, <3>2
      <4> QED
        BY <1>8, <2>1, <2>2, <3>2, <4>1
    <3> QED
      BY <3>1, <3>2
  <2> QED
    BY <2>3
<1>10. c = b
  <2> HIDE DEF c
  <2> QED
    BY <1>4, <1>8, <1>9, SeqEqual
<1>11. FlattenSeq(a \o e) = FlattenSeq(a) \o FlattenSeq(e)
  <2>1. e \in Seq(Seq(Byte))
    BY <1>6 DEF e
  <2> QED
    BY <1>3, <2>1, FlattenConcat
<1>12. FlattenSeq(e) = u
  <2>1. FlattenSeq(<<u>>) = u
    BY <1>5, FlattenOne
  <2> QED
    BY <2>1 DEF e
<1>13. FlattenSeq(b) = FlattenSeq(a) \o u
  BY <1>10, <1>11, <1>12 DEF e
<1>14. FlattenSeq(FrameUnits(f, 0)) = <<>>
  <2>1. FrameUnits(f, 0) = <<>>
    BY DEF FrameUnits
  <2> QED
    BY <2>1, FlattenEmpty
<1> QED
  BY <1>13, <1>14 DEF a, b

(* The data of the frame, in these terms.                                   *)
LEMMA FrameDataIs ==
    FrameData <=> SubSeq(h264_frame_buff, 1, m_nDataSize) = FlattenSeq(FrameUnits(first, held))
  BY DEF FrameData, FrameUnits

(* A unit that is taken is appended to the frame.                           *)
LEMMA FrameDataKept ==
    ASSUME PlayableFile, FeederTypeOK, Take, FrameData,
           NEW q \in Nat, NEW r \in 0..(Len(FileNals) - 1),
           first + held = Gone(q, r), Taken = FileNals[r + 1]
    PROVE  FrameData'
<1>1. /\ h264_nal_buff_list # <<>> /\ h264_frame_buff' = Buffer
      /\ IF FrameIsSent
         THEN /\ SendFrame(Taken, Buffer, BufferSize, 0)
              /\ first' = first + NowHeld /\ held' = 0
         ELSE /\ m_nDataSize' = BufferSize /\ held' = NowHeld
              /\ UNCHANGED <<sent, first, iframe_offset, shown>>
  BY TakenIs
<1>2. first \in Nat /\ held \in Nat /\ first' \in Nat
  BY TypesOfTake DEF FeederTypeOK
<1>3. CASE FrameIsSent
  <2>1. m_nDataSize' = 0 /\ held' = 0
    BY <1>1, <1>3 DEF SendFrame
  <2>2. SubSeq(h264_frame_buff', 1, 0) = <<>>
    OBVIOUS
  <2>3. FlattenSeq(FrameUnits(first', 0)) = <<>>
    BY <1>2, FrameUnitsNext
  <2>4. SubSeq(h264_frame_buff', 1, m_nDataSize') = FlattenSeq(FrameUnits(first', held'))
    BY <2>1, <2>2, <2>3
  <2> QED
    BY <2>4 DEF FrameData, FrameUnits
<1>4. CASE ~FrameIsSent
  <2>1. m_nDataSize' = BufferSize /\ held' = NowHeld /\ first' = first
    BY <1>1, <1>4
  <2>2. SubSeq(Buffer, 1, BufferSize) =
           IF Gathered(Taken) THEN SubSeq(h264_frame_buff, 1, m_nDataSize) \o Taken
           ELSE SubSeq(h264_frame_buff, 1, m_nDataSize)
    BY <1>1, BufferIs
  <2>3. SubSeq(h264_frame_buff, 1, m_nDataSize) = FlattenSeq(FrameUnits(first, held))
    BY FrameDataIs
  <2>4. CASE Gathered(Taken)
    <3>1. UnitNo(first + held) = Taken
      BY <2>4, NextIs
    <3>2. FlattenSeq(FrameUnits(first, held + 1)) = FlattenSeq(FrameUnits(first, held)) \o Taken
      BY <1>2, <3>1, FrameUnitsNext
    <3>3. NowHeld = held + 1
      BY <2>4 DEF NowHeld
    <3>4. SubSeq(Buffer, 1, BufferSize) = FlattenSeq(FrameUnits(first, NowHeld))
      BY <2>2, <2>3, <2>4, <3>2, <3>3
    <3>5. SubSeq(h264_frame_buff', 1, m_nDataSize') = FlattenSeq(FrameUnits(first', held'))
      BY <1>1, <2>1, <3>4
    <3> QED
      BY <3>5 DEF FrameData, FrameUnits
  <2>5. CASE ~Gathered(Taken)
    <3>1. NowHeld = held
      BY <2>5 DEF NowHeld
    <3>2. SubSeq(h264_frame_buff', 1, m_nDataSize') = FlattenSeq(FrameUnits(first', held'))
      BY <1>1, <2>1, <2>2, <2>3, <2>5, <3>1
    <3> QED
      BY <3>2 DEF FrameData, FrameUnits
  <2> QED
    BY <2>4, <2>5
<1> QED
  BY <1>3, <1>4

(* What is taken is the next unit of the file, and the list goes on behind. *)
LEMMA PlacesTail ==
    ASSUME PlayableFile, FeederTypeOK, h264_nal_buff_list # <<>>,
           h264_nal_buff_list' = Tail(h264_nal_buff_list),
           NEW r \in 0..(Len(FileNals) - 1), NEW pos, Places(pos, r)
    PROVE  /\ Taken = FileNals[r + 1]
           /\ \E p \in Seq(1..Len(FileNals)) :
                Places(p, IF r + 1 = Len(FileNals) THEN 0 ELSE r + 1)'
<1> DEFINE l == Len(FileNals)
           s == h264_nal_buff_list
           m == IF r + 1 = l THEN 0 ELSE r + 1
           p == Tail(pos)
           t == Tail(s)
<1>1. /\ pos \in Seq(1..l) /\ Len(pos) = Len(s)
      /\ \A j \in 1..Len(pos) : s[j] = FileNals[pos[j]]
      /\ \A j \in 1..(Len(pos) - 1) : pos[j + 1] = Succ(pos[j])
      /\ pos # <<>> => pos[1] = r + 1 /\ pos[Len(pos)] = l
  BY DEF Places
<1>2. s \in Seq(Seq(Byte)) /\ s # <<>> /\ l \in Nat
  BY PlayableIs DEF FeederTypeOK
<1> HIDE DEF l, s
<1>3. Len(s) \in Nat \ {0} /\ pos # <<>> /\ Len(pos) \in Nat \ {0}
  BY <1>1, <1>2
<1>4. pos[1] = r + 1 /\ pos[Len(pos)] = l
  BY <1>1, <1>3
<1>5. Taken = FileNals[r + 1]
  <2>1. Taken = s[1]
    BY <1>2 DEF Taken, s
  <2>2. 1 \in 1..Len(pos)
    BY <1>3
  <2> QED
    BY <1>1, <1>4, <2>1, <2>2
<1>6. p \in Seq(1..l) /\ Len(p) = Len(pos) - 1 /\ \A j \in 1..(Len(pos) - 1) : p[j] = pos[j + 1]
  BY <1>1, <1>3
<1>7. t \in Seq(Seq(Byte)) /\ Len(t) = Len(s) - 1 /\ \A j \in 1..(Len(s) - 1) : t[j] = s[j + 1]
  BY <1>2, <1>3
<1> HIDE DEF p, t, m
<1>8. Len(p) = Len(t)
  BY <1>1, <1>6, <1>7
<1>9. ASSUME NEW j \in 1..Len(p)
      PROVE  t[j] = FileNals[p[j]]
  <2>1. j \in 1..(Len(pos) - 1) /\ j \in 1..(Len(s) - 1) /\ j + 1 \in 1..Len(pos)
    BY <1>1, <1>3, <1>6
  <2> QED
    BY <1>1, <1>6, <1>7, <2>1
<1>10. ASSUME NEW j \in 1..(Len(p) - 1)
       PROVE  p[j + 1] = Succ(p[j])
  <2>1. /\ j \in 1..(Len(pos) - 1) /\ j + 1 \in 1..(Len(pos) - 1)
    BY <1>3, <1>6
  <2>2. pos[(j + 1) + 1] = Succ(pos[j + 1])
    BY <1>1, <2>1
  <2> QED
    BY <1>6, <2>1, <2>2
<1>11. ASSUME p = <<>>
       PROVE  m = 0
  <2>1. Len(pos) = 1
    BY <1>3, <1>6, <1>11
  <2> QED
    BY <1>4, <2>1 DEF m
<1>12. ASSUME p # <<>>
       PROVE  p[1] = m + 1 /\ p[Len(p)] = l
  <2>1. /\ Len(p) \in Nat \ {0} /\ 1 \in 1..(Len(pos) - 1)
        /\ Len(p) \in 1..(Len(pos) - 1) /\ Len(p) + 1 = Len(pos)
    <3>1. Len(p) # 0
      BY <1>6, <1>12
    <3> QED
      BY <1>3, <1>6, <3>1
  <2>2. p[Len(p)] = l
    BY <1>4, <1>6, <2>1
  <2>3. p[1] = Succ(r + 1)
    <3>1. p[1] = pos[1 + 1] /\ pos[1 + 1] = Succ(pos[1])
      BY <1>1, <1>6, <2>1
    <3> QED
      BY <1>4, <3>1
  <2>4. Succ(r + 1) = m + 1
    BY DEF Succ, m, l
  <2> QED
    BY <2>2, <2>3, <2>4
<1>13. t = h264_nal_buff_list'
  BY DEF t, s
<1>14. Places(p, m)'
  <2>1. p \in Seq(1..Len(FileNals)) /\ Len(p) = Len(h264_nal_buff_list')
    BY <1>6, <1>8, <1>13 DEF l
  <2>2. \A j \in 1..Len(p) : h264_nal_buff_list'[j] = FileNals[p[j]]
    BY <1>9, <1>13
  <2>3. IF p = <<>> THEN m = 0 ELSE p[1] = m + 1 /\ p[Len(p)] = Len(FileNals)
    BY <1>11, <1>12 DEF l
  <2> QED
    BY <1>10, <2>1, <2>2, <2>3 DEF Places
<1>15. p \in Seq(1..Len(FileNals))
  BY <1>6 DEF l
<1> QED
  BY <1>5, <1>14, <1>15 DEF m, l

(* A read puts the whole file behind the list.                              *)
LEMMA PlacesOfRead ==
    ASSUME PlayableFile, FeederTypeOK,
           h264_nal_buff_list' = h264_nal_buff_list \o FileNals,
           NEW r \in 0..(Len(FileNals) - 1), NEW pos, Places(pos, r)
    PROVE  \E p \in Seq(1..Len(FileNals)) : Places(p, r)'
<1> DEFINE l == Len(FileNals)
           s == h264_nal_buff_list
           t == s \o FileNals
           own == [k \in 1..l |-> k]
           p == pos \o own
<1>1. /\ pos \in Seq(1..l) /\ Len(pos) = Len(s)
      /\ \A j \in 1..Len(pos) : s[j] = FileNals[pos[j]]
      /\ \A j \in 1..(Len(pos) - 1) : pos[j + 1] = Succ(pos[j])
      /\ IF pos = <<>> THEN r = 0 ELSE pos[1] = r + 1 /\ pos[Len(pos)] = l
  BY DEF Places
<1>2. s \in Seq(Seq(Byte)) /\ FileNals \in Seq(Seq(Byte)) /\ l \in Nat \ {0}
  BY PlayableIs DEF FeederTypeOK
<1>3. own \in Seq(1..l) /\ Len(own) = l /\ \A j \in 1..l : own[j] = j
  BY <1>2
<1>4. /\ t \in Seq(Seq(Byte)) /\ Len(t) = Len(s) + Len(FileNals)
      /\ \A j \in 1..(Len(s) + Len(FileNals)) :
            t[j] = IF j <= Len(s) THEN s[j] ELSE FileNals[j - Len(s)]
  <2> HIDE DEF s
  <2> QED
    BY <1>2, ConcatProperties
<1> HIDE DEF own
<1>5. /\ p \in Seq(1..l) /\ Len(p) = Len(pos) + Len(own)
      /\ \A j \in 1..(Len(pos) + Len(own)) :
            p[j] = IF j <= Len(pos) THEN pos[j] ELSE own[j - Len(pos)]
  <2> HIDE DEF l
  <2>1. pos \in Seq(1..l) /\ own \in Seq(1..l)
    BY <1>1, <1>3
  <2> QED
    BY <2>1, ConcatProperties
<1>6. t = h264_nal_buff_list'
  OBVIOUS
<1> HIDE DEF p, t, s
<1> DEFINE n == Len(pos)
<1>7. n \in Nat /\ Len(s) = n /\ Len(p) = n + l /\ Len(t) = n + l
  BY <1>1, <1>3, <1>4, <1>5
<1>8. /\ \A j \in 1..n : p[j] = pos[j] /\ t[j] = s[j]
      /\ \A j \in (n + 1)..(n + l) : p[j] = j - n /\ t[j] = FileNals[j - n]
  <2>1. ASSUME NEW j \in 1..n
        PROVE  p[j] = pos[j] /\ t[j] = s[j]
    <3>1. j \in 1..(Len(pos) + Len(own)) /\ j \in 1..(Len(s) + Len(FileNals)) /\ j <= Len(pos)
      BY <1>2, <1>3, <1>7
    <3> QED
      BY <1>4, <1>5, <1>7, <3>1
  <2>2. ASSUME NEW j \in (n + 1)..(n + l)
        PROVE  p[j] = j - n /\ t[j] = FileNals[j - n]
    <3>1. j \in 1..(Len(pos) + Len(own)) /\ j \in 1..(Len(s) + Len(FileNals)) /\ ~(j <= n)
          /\ j - n \in 1..l
      BY <1>2, <1>3, <1>7
    <3> QED
      BY <1>3, <1>4, <1>5, <1>7, <3>1
  <2> QED
    BY <2>1, <2>2
<1> DEFINE F == FileNals
<1> HIDE DEF l, n, F
<1>9. ASSUME NEW j \in 1..Len(p)
      PROVE  t[j] = F[p[j]]
  <2>1. CASE j \in 1..n
    BY <1>1, <1>8, <2>1 DEF n, F
  <2>2. CASE j \in (n + 1)..(n + l)
    BY <1>8, <2>2 DEF F
  <2> QED
    BY <1>2, <1>7, <2>1, <2>2
<1>10. ASSUME NEW j \in 1..(Len(p) - 1)
       PROVE  p[j + 1] = Succ(p[j])
  <2>1. CASE j \in 1..(n - 1)
    <3>1. j \in 1..n /\ j + 1 \in 1..n
      BY <1>7, <2>1
    <3> QED
      BY <1>1, <1>8, <2>1, <3>1 DEF n
  <2>2. CASE j = n
    <3>1. n \in 1..n /\ n + 1 \in (n + 1)..(n + l) /\ (n + 1) - n = 1 /\ pos # <<>>
      BY <1>1, <1>2, <1>7, <2>2 DEF n
    <3>2. p[n] = l /\ p[n + 1] = 1
      BY <1>1, <1>8, <3>1 DEF n
    <3> QED
      BY <2>2, <3>2 DEF Succ, l
  <2>3. CASE j \in (n + 1)..(n + l - 1)
    <3>1. /\ j \in (n + 1)..(n + l) /\ j + 1 \in (n + 1)..(n + l)
          /\ (j + 1) - n = (j - n) + 1 /\ j - n # l
      BY <1>2, <1>7, <2>3
    <3>2. p[j] = j - n /\ p[j + 1] = (j - n) + 1
      BY <1>8, <3>1
    <3> QED
      BY <3>1, <3>2 DEF Succ, l
  <2> QED
    BY <1>2, <1>7, <2>1, <2>2, <2>3
<1>11. p # <<>> /\ p[1] = r + 1 /\ p[Len(p)] = l
  <2>1. Len(p) \in Nat \ {0} /\ n + l \in (n + 1)..(n + l) /\ (n + l) - n = l
    BY <1>2, <1>7
  <2>2. p # <<>> /\ p[Len(p)] = l
    BY <1>7, <1>8, <2>1
  <2>3. CASE n = 0
    <3>1. pos = <<>> /\ 1 \in (n + 1)..(n + l) /\ 1 - n = 1
      BY <1>1, <1>2, <2>3 DEF n
    <3> QED
      BY <1>1, <1>8, <2>2, <3>1
  <2>4. CASE n # 0
    <3>1. pos # <<>> /\ 1 \in 1..n
      BY <1>7, <2>4 DEF n
    <3> QED
      BY <1>1, <1>8, <2>2, <3>1
  <2> QED
    BY <2>3, <2>4
<1>12. Places(p, r)'
  <2>1. p \in Seq(1..Len(FileNals)) /\ Len(p) = Len(h264_nal_buff_list')
    BY <1>5, <1>6, <1>7 DEF l
  <2>2. \A j \in 1..Len(p) : h264_nal_buff_list'[j] = FileNals[p[j]]
    BY <1>6, <1>9 DEF F
  <2>3. IF p = <<>> THEN r = 0 ELSE p[1] = r + 1 /\ p[Len(p)] = Len(FileNals)
    BY <1>11 DEF l
  <2> QED
    BY <1>10, <2>1, <2>2, <2>3 DEF Places
<1>13. p \in Seq(1..Len(FileNals))
  BY <1>5 DEF l
<1> QED
  BY <1>12, <1>13

(* The turn goes on with each unit that is taken.                           *)
LEMMA InTurnKept ==
    ASSUME PlayableFile, FeederTypeOK, Take,
           NEW q \in Nat, NEW r \in 0..(Len(FileNals) - 1), InTurn(q, r)
    PROVE  \E q2 \in Nat, r2 \in 0..(Len(FileNals) - 1) : InTurn(q2, r2)'
<1> DEFINE l == Len(FileNals)
           r2 == IF r + 1 = l THEN 0 ELSE r + 1
           q2 == IF r + 1 = l THEN q + 1 ELSE q
<1>1. /\ h264_nal_buff_list # <<>> /\ h264_nal_buff_list' = Tail(h264_nal_buff_list)
      /\ b_find_sps' = NowSps /\ b_find_pps' = NowPps
      /\ IF FrameIsSent
         THEN /\ SendFrame(Taken, Buffer, BufferSize, 0)
              /\ first' = first + NowHeld /\ held' = 0
         ELSE /\ m_nDataSize' = BufferSize /\ held' = NowHeld
              /\ UNCHANGED <<sent, first, iframe_offset, shown>>
  BY TakenIs
<1>2. PICK pos \in Seq(1..Len(FileNals)) : Places(pos, r)
  BY DEF InTurn
<1>3. /\ Taken = FileNals[r + 1]
      /\ \E p \in Seq(1..Len(FileNals)) : Places(p, r2)'
  BY <1>1, <1>2, PlacesTail
<1>4. l \in Nat \ {0}
  BY PlayableIs
<1>5. /\ first \in Nat /\ held \in Nat /\ NowHeld \in Nat /\ first' \in Nat
  BY TypesOfTake DEF FeederTypeOK, NowHeld
<1>6. /\ first + held = Gone(q, r) /\ SetsSeen(q, r) /\ FramesEnded(q, r)
  BY DEF InTurn
<1> HIDE DEF l, r2, q2
<1>7. /\ q2 \in Nat /\ r2 \in 0..(l - 1) /\ r + 1 \in 1..l /\ r \in 0..l
      /\ r + 1 = l => q2 = q + 1 /\ r2 = 0
      /\ r + 1 # l => q2 = q /\ r2 = r + 1
  BY <1>4 DEF r2, q2, l
<1>8. \A c \in 0..l : Gone(q, c) \in Nat
  BY GoneIs DEF l
<1>9. Gone(q2, r2) = Gone(q, r + 1)
  <2>1. CASE r + 1 = l
    <3>1. Gone(q, l) = Gone(q + 1, 0)
      BY GoneIs DEF l
    <3> QED
      BY <1>7, <2>1, <3>1
  <2>2. CASE r + 1 # l
    BY <1>7, <2>2
  <2> QED
    BY <2>1, <2>2
<1>10. first + NowHeld = Gone(q, r + 1)
  <2>1. CASE Gathered(Taken)
    <3>1. Gone(q, r + 1) = Gone(q, r) + 1 /\ NowHeld = held + 1
      BY <1>3, <2>1, NextIs DEF NowHeld
    <3> QED
      BY <1>5, <1>6, <3>1
  <2>2. CASE ~Gathered(Taken)
    <3>1. Gone(q, r + 1) = Gone(q, r) /\ NowHeld = held
      BY <1>3, <2>2, NextIs DEF NowHeld
    <3> QED
      BY <1>6, <3>1
  <2> QED
    BY <2>1, <2>2
<1>11. first' + held' = Gone(q2, r2)
  <2>1. CASE FrameIsSent
    BY <1>1, <1>5, <1>9, <1>10, <2>1
  <2>2. CASE ~FrameIsSent
    BY <1>1, <1>9, <1>10, <2>2
  <2> QED
    BY <2>1, <2>2
<1>12. SetsSeen(q2, r2)'
  <2>1. ASSUME NEW k \in 1..l, q2 > 0 \/ r2 >= k
        PROVE  (Usable(k) => b_find_sps') /\ (IsPps(k) => b_find_pps')
    <3>1. CASE q > 0 \/ r >= k
      BY <1>1, <1>6, <3>1 DEF SetsSeen, l, NowSps, NowPps
    <3>2. CASE ~(q > 0 \/ r >= k)
      <4>1. k = r + 1
        BY <1>4, <1>7, <2>1, <3>2
      <4> QED
        BY <1>1, <1>3, <4>1 DEF NowSps, NowPps, Usable, IsPps
    <3> QED
      BY <3>1, <3>2
  <2> QED
    BY <2>1 DEF SetsSeen, l, Usable, IsPps
<1>13. ASSUME NEW k \in 1..l, Closes(k)
       PROVE  /\ r2 >= k => first' >= Gone(q2, k)
              /\ r2 < k /\ q2 > 0 => first' >= Gone(q2 - 1, k)
  <2>1. /\ r >= k => first >= Gone(q, k)
        /\ r < k /\ q > 0 => first >= Gone(q - 1, k)
    BY <1>6, <1>13 DEF FramesEnded, l
  <2>2. first' >= first
    <3>1. CASE FrameIsSent
      BY <1>1, <1>5, <3>1
    <3>2. CASE ~FrameIsSent
      BY <1>1, <1>5, <3>2
    <3> QED
      BY <3>1, <3>2
  <2>3. Gone(q, k) \in Nat /\ (q > 0 => Gone(q - 1, k) \in Nat)
    <3>1. k \in 0..Len(FileNals) /\ (q > 0 => q - 1 \in Nat)
      BY <1>4, <1>13 DEF l
    <3> QED
      BY <3>1, GoneIs
  <2>4. CASE k = r + 1
    <3>1. FrameIsSent
      <4>1. PICK s \in 1..(k - 1), p \in 1..(k - 1) : Usable(s) /\ IsPps(p)
        BY <1>13 DEF Closes
      <4>2. s \in 1..Len(FileNals) /\ p \in 1..Len(FileNals) /\ r >= s /\ r >= p
        BY <1>4, <1>7, <2>4 DEF l
      <4>3. b_find_sps /\ b_find_pps
        BY <1>6, <4>1, <4>2 DEF SetsSeen
      <4>4. FrameEnds(Taken)
        <5>1. NalType(Taken) \in Slices /\ \E j \in 4..Len(Taken) : Taken[j] >= 128
          BY <1>3, <1>13, <2>4 DEF Closes
        <5>2. NalType(Taken) \notin {SPS, PPS, AUD}
          BY <5>1 DEF Slices, SPS, PPS, AUD
        <5>3. Starting(Taken)
          BY <5>1, <5>2, Zenon DEF Starting
        <5> QED
          BY <5>1, <5>3 DEF FrameEnds
      <4> QED
        BY <4>3, <4>4 DEF FrameIsSent, NowSps, NowPps
    <3>2. first' = Gone(q, k)
      BY <1>1, <1>10, <2>4, <3>1
    <3>3. CASE r + 1 = l
      <4>1. q2 = q + 1 /\ r2 = 0 /\ q2 - 1 = q
        BY <1>7, <3>3
      <4> QED
        BY <1>13, <2>3, <3>2, <4>1
    <3>4. CASE r + 1 # l
      <4>1. q2 = q /\ r2 = k
        BY <1>7, <2>4, <3>4
      <4> QED
        BY <1>7, <1>13, <2>3, <3>2, <4>1
    <3> QED
      BY <3>3, <3>4
  <2>5. CASE k # r + 1
    <3>1. CASE r + 1 = l
      <4>1. q2 - 1 = q /\ r2 = 0 /\ r >= k
        BY <1>7, <1>13, <2>5, <3>1
      <4>2. first' >= Gone(q, k)
        BY <1>5, <2>1, <2>2, <2>3, <4>1
      <4> QED
        BY <1>13, <4>1, <4>2
    <3>2. CASE r + 1 # l
      <4>1. q2 = q /\ (r2 >= k <=> r >= k) /\ (r2 < k <=> r < k)
        BY <1>7, <1>13, <2>5, <3>2
      <4> QED
        BY <1>5, <2>1, <2>2, <2>3, <4>1
    <3> QED
      BY <3>1, <3>2
  <2> QED
    BY <2>4, <2>5
<1>14. FramesEnded(q2, r2)'
  BY <1>13 DEF FramesEnded, l, Closes, Usable, IsPps, Gone, CountTo
<1>15. InTurn(q2, r2)'
  <2>1. (first + held = Gone(q2, r2))'
    BY <1>11 DEF Gone, CountTo
  <2>2. (\E p \in Seq(1..Len(FileNals)) : Places(p, r2))'
    BY <1>3
  <2> QED
    BY <1>12, <1>14, <2>1, <2>2 DEF InTurn
<1> QED
  BY <1>7, <1>15 DEF l

(* A read keeps the invariant,                                              *)
LEMMA WholeFileRead ==
    ASSUME PlayableFile, FeederTypeOK, Read, WholeFileInv
    PROVE  WholeFileInv'
<1> SUFFICES ASSUME FILE_READ_SIZE' >= Len(File)
             PROVE  /\ offset' \in {0, Len(File)} /\ h264_buff' = <<>>
                    /\ \E q \in Nat, r \in 0..(Len(FileNals) - 1) : InTurn(q, r)'
                    /\ FrameData'
  BY DEF WholeFileInv
<1>1. /\ offset' = ReadEnd /\ h264_buff' = Split(ToSplit).rest
      /\ h264_nal_buff_list' = h264_nal_buff_list \o Split(ToSplit).nals
  BY ReadStep
<1>2. offset < Len(File) /\ UNCHANGED <<fileVars, frameVars, initVars, paceVars, clock>>
  BY DEF Read
<1>3. /\ FILE_READ_SIZE >= Len(File) /\ offset \in {0, Len(File)} /\ h264_buff = <<>>
      /\ FrameData /\ \E q \in Nat, r \in 0..(Len(FileNals) - 1) : InTurn(q, r)
  BY <1>2 DEF WholeFileInv, fileVars
<1>4. File \in Seq(Byte) /\ Len(File) \in Nat /\ FILE_READ_SIZE \in Nat
  BY FeederAssumption DEF FeederTypeOK
<1>5. offset = 0
  BY <1>2, <1>3, <1>4
<1>6. ReadEnd = Len(File)
  <2>1. ReadEnd \in offset..Len(File) /\ (ReadEnd = Len(File) \/ ReadEnd = offset + FILE_READ_SIZE)
    BY ReadIs
  <2> QED
    BY <1>3, <1>4, <1>5, <2>1
<1>7. ToSplit = File
  <2>1. offset + 1 = 1
    BY <1>5
  <2>2. SubSeq(File, 1, Len(File)) = File
    BY <1>4, SubSeqFull
  <2>3. ToSplit = <<>> \o File
    BY <1>3, <1>6, <2>1, <2>2, Zenon DEF ToSplit
  <2>4. <<>> \o File = File
    BY <1>4, ConcatEmptySeq
  <2> QED
    BY <2>3, <2>4
<1>8. h264_buff' = <<>> /\ h264_nal_buff_list' = h264_nal_buff_list \o FileNals
  BY <1>1, <1>7, PlayableIs
<1>9. PICK q \in Nat, r \in 0..(Len(FileNals) - 1) : InTurn(q, r)
  BY <1>3
<1>10. PICK pos \in Seq(1..Len(FileNals)) : Places(pos, r)
  BY <1>9 DEF InTurn
<1>11. \E p \in Seq(1..Len(FileNals)) : Places(p, r)'
  BY <1>8, <1>10, PlacesOfRead
<1>12. UNCHANGED <<first, held, b_find_sps, b_find_pps, h264_frame_buff, m_nDataSize>>
  BY <1>2 DEF frameVars, initVars
<1>13. InTurn(q, r)'
  <2>1. (first + held = Gone(q, r) /\ SetsSeen(q, r) /\ FramesEnded(q, r))'
    BY <1>9, <1>12 DEF InTurn, SetsSeen, FramesEnded, Usable, IsPps, Closes, Gone, CountTo
  <2> QED
    BY <1>11, <2>1 DEF InTurn
<1>14. FrameData'
  BY <1>3, <1>12 DEF FrameData
<1> QED
  BY <1>1, <1>6, <1>8, <1>13, <1>14

(* a unit that is taken keeps it,                                           *)
LEMMA WholeFileTake ==
    ASSUME PlayableFile, FeederTypeOK, Take, WholeFileInv
    PROVE  WholeFileInv'
<1> SUFFICES ASSUME FILE_READ_SIZE' >= Len(File)
             PROVE  /\ offset' \in {0, Len(File)} /\ h264_buff' = <<>>
                    /\ \E q \in Nat, r \in 0..(Len(FileNals) - 1) : InTurn(q, r)'
                    /\ FrameData'
  BY DEF WholeFileInv
<1>1. /\ UNCHANGED <<fileVars, pc, offset, h264_buff, clock>>
      /\ h264_nal_buff_list # <<>>
  BY TakenIs
<1>2. /\ offset \in {0, Len(File)} /\ h264_buff = <<>>
      /\ FrameData /\ \E q \in Nat, r \in 0..(Len(FileNals) - 1) : InTurn(q, r)
  BY <1>1 DEF WholeFileInv, fileVars
<1>3. PICK q \in Nat, r \in 0..(Len(FileNals) - 1) : InTurn(q, r)
  BY <1>2
<1>4. \E q2 \in Nat, r2 \in 0..(Len(FileNals) - 1) : InTurn(q2, r2)'
  BY <1>3, InTurnKept
<1>5. first + held = Gone(q, r) /\ Taken = FileNals[r + 1]
  <2>1. PICK pos \in Seq(1..Len(FileNals)) : Places(pos, r)
    BY <1>3 DEF InTurn
  <2>2. h264_nal_buff_list' = Tail(h264_nal_buff_list)
    BY TakenIs
  <2> QED
    BY <1>1, <1>3, <2>1, <2>2, PlacesTail DEF InTurn
<1>6. FrameData'
  BY <1>2, <1>5, FrameDataKept
<1> QED
  BY <1>1, <1>2, <1>4, <1>6

(* and so does all else.                                                    *)
LEMMA WholeFileOthers ==
    ASSUME PlayableFile, FeederTypeOK, WholeFileInv,
           Loop \/ Rewind \/ Leave \/ Restart \/ Stop \/ Tick \/ UNCHANGED feederVars
    PROVE  WholeFileInv'
<1>1. UNCHANGED <<FILE_READ_SIZE, h264_buff, h264_nal_buff_list, first, held,
                  b_find_sps, b_find_pps, h264_frame_buff, m_nDataSize>>
      /\ offset' \in {0, offset}
  BY DEF Loop, LoopWhile, Rewind, Leave, Restart, RestartAt, Stop, Tick, feederVars,
         fileVars, initVars, frameVars, bufferVars
<1>2. \A pos, r : Places(pos, r) => Places(pos, r)'
  BY <1>1 DEF Places, Succ
<1>3. \A q, r : InTurn(q, r) => InTurn(q, r)'
  <2> SUFFICES ASSUME NEW q, NEW r, InTurn(q, r)
               PROVE  InTurn(q, r)'
    OBVIOUS
  <2>1. SetsSeen(q, r)'
    BY <1>1 DEF InTurn, SetsSeen
  <2>2. FramesEnded(q, r)'
    BY <1>1 DEF InTurn, FramesEnded
  <2>3. (first + held = Gone(q, r))'
    BY <1>1 DEF InTurn
  <2> QED
    BY <1>2, <2>1, <2>2, <2>3 DEF InTurn
<1>4. FrameData => FrameData'
  BY <1>1 DEF FrameData
<1> QED
  BY <1>1, <1>3, <1>4 DEF WholeFileInv

(* At the beginning.                                                        *)
LEMMA WholeFileInit == PlayableFile /\ FeederInit => WholeFileInv
<1> SUFFICES ASSUME PlayableFile, FeederInit
             PROVE  WholeFileInv
  OBVIOUS
<1>1. /\ offset = 0 /\ h264_buff = <<>> /\ h264_nal_buff_list = <<>>
      /\ h264_frame_buff = <<>> /\ m_nDataSize = 0 /\ first = 0 /\ held = 0
  BY DEF FeederInit
<1>2. FrameData
  <2>1. FlattenSeq(FrameUnits(0, 0)) = <<>>
    BY FrameUnitsNext
  <2>2. SubSeq(<<>>, 1, 0) = <<>>
    OBVIOUS
  <2>3. SubSeq(h264_frame_buff, 1, m_nDataSize) = FlattenSeq(FrameUnits(first, held))
    BY <1>1, <2>1, <2>2
  <2> QED
    BY <2>3, FrameDataIs
<1>3. Len(FileNals) \in Nat \ {0}
  BY PlayableIs
<1>4. InTurn(0, 0)
  <2>1. first + held = Gone(0, 0)
    BY <1>1, GoneIs
  <2>2. SetsSeen(0, 0) /\ FramesEnded(0, 0)
    BY DEF SetsSeen, FramesEnded
  <2>3. <<>> \in Seq(1..Len(FileNals)) /\ Places(<<>>, 0)
    BY <1>1 DEF Places
  <2> QED
    BY <2>1, <2>2, <2>3 DEF InTurn
<1>5. 0 \in Nat /\ 0 \in 0..(Len(FileNals) - 1)
  BY <1>3
<1> QED
  BY <1>1, <1>2, <1>4, <1>5 DEF WholeFileInv

(* Never more than the file has.                                            *)
LEMMA HeldIs ==
    ASSUME PlayableFile, FeederTypeOK,
           NEW q \in Nat, NEW r \in 0..(Len(FileNals) - 1), InTurn(q, r)
    PROVE  held <= Len(FileUnits)
<1> DEFINE l == Len(FileNals)
<1>1. PICK k \in 1..l : Closes(k)
  BY DEF PlayableFile
<1>2. /\ first + held = Gone(q, r)
      /\ r >= k => first >= Gone(q, k)
      /\ r < k /\ q > 0 => first >= Gone(q - 1, k)
  BY <1>1 DEF InTurn, FramesEnded
<1>3. /\ first \in Nat /\ held \in Nat /\ Len(FileUnits) \in Nat
      /\ l \in Nat \ {0} /\ r \in 0..l /\ k \in 0..l
  <2>1. first \in Nat /\ held \in Nat
    BY DEF FeederTypeOK
  <2>2. Len(FileUnits) \in Nat
    BY UnitsToSend
  <2>3. l \in Nat \ {0}
    BY PlayableIs
  <2> HIDE DEF l
  <2>4. r \in 0..l /\ k \in 0..l
    BY <1>1, <2>3 DEF l
  <2> QED
    BY <2>1, <2>2, <2>3, <2>4
<1>4. Gone(q, r) \in Nat /\ Gone(q, k) \in Nat
  BY <1>3, GoneIs
<1>5. CASE r >= k
  <2>1. Gone(q, r) <= Gone(q, k) + Len(FileUnits)
    BY <1>3, GoneIs
  <2> QED
    BY <1>2, <1>3, <1>4, <1>5, <2>1
<1>6. CASE r < k /\ q > 0
  <2>1. q \in Nat \ {0} /\ q - 1 \in Nat /\ r <= k
    BY <1>3, <1>6
  <2>2. Gone(q, r) <= Gone(q - 1, k) + Len(FileUnits) /\ Gone(q - 1, k) \in Nat
    BY <1>3, <2>1, GoneIs
  <2> QED
    BY <1>2, <1>3, <1>4, <1>6, <2>2
<1>7. CASE q = 0
  <2>1. Gone(0, r) <= Len(FileUnits)
    BY <1>3, GoneIs
  <2> QED
    BY <1>2, <1>3, <1>4, <1>7, <2>1
<1> QED
  BY <1>3, <1>5, <1>6, <1>7

(* The invariant says what the run checks.                                  *)
LEMMA FramesHaveThem ==
    ASSUME PlayableFile, FeederTypeOK, WholeFileInv
    PROVE  FeederInv
<1> SUFFICES ASSUME FILE_READ_SIZE >= Len(File)
             PROVE  /\ SubSeq(h264_frame_buff, 1, m_nDataSize) =
                           FlattenSeq([j \in 1..held |->
                               FileUnits[((first + j - 1) % Len(FileUnits)) + 1]])
                    /\ Feeding => held <= Len(FileUnits)
  BY DEF FeederInv, FrameHasItsUnits
<1>1. FrameData
  BY DEF WholeFileInv
<1>2. PICK q \in Nat, r \in 0..(Len(FileNals) - 1) : InTurn(q, r)
  BY DEF WholeFileInv
<1>3. held <= Len(FileUnits)
  BY <1>2, HeldIs
<1> QED
  BY <1>1, <1>3 DEF FrameData, UnitNo

(* Of a file that the feeder is made for, read in one piece: the frame's     *)
(* buffer always has units of the file, each one whole, in order and none    *)
(* lost or twice, from one frame to the next, past the end of the file and   *)
(* round again; and never more than the file has.                            *)
THEOREM FramesHaveTheirUnits ==
    ASSUME PlayableFile
    PROVE  FeederSpec => []FeederInv
<1>1. FeederInit => WholeFileInv
  BY WholeFileInit
<1>2. FeederTypeOK /\ WholeFileInv /\ [FeederNext]_feederVars => WholeFileInv'
  <2> SUFFICES ASSUME FeederTypeOK, WholeFileInv, [FeederNext]_feederVars
               PROVE  WholeFileInv'
    OBVIOUS
  <2>1. \/ Read \/ Take
        \/ (Loop \/ Rewind \/ Leave \/ Restart \/ Stop \/ Tick \/ UNCHANGED feederVars)
    BY Zenon DEF FeederNext, InnerStep
  <2> QED
    BY <2>1, WholeFileRead, WholeFileTake, WholeFileOthers
<1>3. FeederTypeOK /\ WholeFileInv => FeederInv
  BY FramesHaveThem
<1> QED
  BY <1>1, <1>2, <1>3, FeederTypes, PTL DEF FeederSpec

-----------------------------------------------------------------------------
(* Files that are read in parts.                                            *)

(* There is a last number of a kind up to a bound.                          *)
LEMMA LastOne ==
    ASSUME NEW n \in Nat, NEW S \in SUBSET (0..n), 0 \in S
    PROVE  \E m \in S : \A k \in S : k <= m
<1> DEFINE T == {j \in Nat : j <= n /\ n - j \in S}
<1>1. T \in SUBSET Nat /\ n \in T
  OBVIOUS
<1>2. PICK j \in T : \A w \in T : j <= w
  <2> HIDE DEF T
  <2>1. T # {}
    BY <1>1
  <2> QED
    BY <1>1, <2>1, SmallestExists
<1>3. n - j \in S /\ \A k \in S : k <= n - j
  <2>1. j \in Nat /\ j <= n /\ n - j \in S
    OBVIOUS
  <2>2. ASSUME NEW k \in S PROVE k <= n - j
    <3>1. k \in 0..n /\ n - k \in Nat /\ n - k <= n /\ n - (n - k) = k
      OBVIOUS
    <3>2. n - k \in T
      BY <3>1
    <3>3. j <= n - k
      BY <1>2, <3>2
    <3> QED
      BY <2>1, <3>1, <3>3
  <2> QED
    BY <2>1, <2>2
<1> QED
  BY <1>3

(* Each unit but the last is that of a start code with another behind it.   *)
LEMMA UnitHasPlace ==
    ASSUME NEW d \in Seq(Byte), NEW k \in 1..(Len(Units(d)) - 1)
    PROVE  \E n \in Nat : /\ n + 3 <= Len(d) /\ StartsAt(d, n) /\ NextFrom(d, n) # {}
                          /\ Units(d)[k] = UnitAt(d, n)
<1> DEFINE u == Units(d)
           j == (Len(u) - k) + 1
           rest(p) == Units(Drop(d, p))
           S == {p \in 0..Len(d) : Len(rest(p)) >= j}
<1>1. u \in Seq(Seq(Byte)) /\ Len(u) \in Nat /\ k \in 1..(Len(u) - 1) /\ Len(d) \in Nat
  BY UnitListIs
<1>2. \A p \in 0..Len(d) : /\ Drop(d, p) \in Seq(Byte) /\ Len(Drop(d, p)) = Len(d) - p
                           /\ rest(p) \in Seq(Seq(Byte)) /\ Len(rest(p)) \in Nat
  <2> SUFFICES ASSUME NEW p \in 0..Len(d)
               PROVE  /\ Drop(d, p) \in Seq(Byte) /\ Len(Drop(d, p)) = Len(d) - p
                      /\ rest(p) \in Seq(Seq(Byte)) /\ Len(rest(p)) \in Nat
    OBVIOUS
  <2>1. Drop(d, p) \in Seq(Byte) /\ Len(Drop(d, p)) = Len(d) - p
    BY DropIs
  <2>2. rest(p) \in Seq(Seq(Byte))
    BY <2>1, UnitListIs
  <2> QED
    BY <2>1, <2>2
<1>3. j \in 2..Len(u) /\ Len(u) - j = k - 1
  <2> HIDE DEF u
  <2> QED
    BY <1>1
<1>4. 0 \in S
  <2>1. Drop(d, 0) = d
    BY DropNone
  <2>2. rest(0) = u
    BY <2>1
  <2> HIDE DEF u, j, rest
  <2> QED
    BY <1>1, <1>3, <2>2
<1> HIDE DEF u, j
<1>5. PICK p \in S : \A q \in S : q <= p
  <2>1. S \in SUBSET (0..Len(d))
    OBVIOUS
  <2> HIDE DEF S
  <2> QED
    BY <1>1, <1>4, <2>1, LastOne
<1> DEFINE r == Drop(d, p)
           v == rest(p)
<1>6. /\ p \in 0..Len(d) /\ r \in Seq(Byte) /\ Len(r) = Len(d) - p
      /\ v = Units(r) /\ v \in Seq(Seq(Byte)) /\ Len(v) \in Nat /\ Len(v) >= j
  BY <1>2
<1> HIDE DEF v, r
<1>7. Len(r) >= 3
  <2>1. ASSUME Len(r) <= 2 PROVE FALSE
    <3>1. Units(r) = <<>>
      BY <1>6, <2>1, UnitsOfTwo
    <3>2. Len(v) = 0
      BY <1>6, <3>1
    <3> QED
      BY <1>3, <1>6, <3>2
  <2> QED
    BY <1>6, <2>1
<1>8. p + 1 \in 0..Len(d) /\ 1 \in 0..Len(r) /\ 1 \in 0..(Len(d) - p) /\ 0 + 3 <= Len(r)
  BY <1>1, <1>6, <1>7
<1>9. Drop(r, 1) = Drop(d, p + 1)
  BY <1>6, <1>8, DropDrop DEF r
<1>10. rest(p + 1) = Units(Drop(r, 1)) /\ ~(Len(rest(p + 1)) >= j)
  <2>1. p + 1 \notin S
    <3>1. ~(p + 1 <= p)
      BY <1>6
    <3> QED
      BY <1>5, <3>1
  <2>2. ~(Len(rest(p + 1)) >= j)
    BY <1>8, <2>1
  <2> QED
    BY <1>9, <2>2
<1> HIDE DEF rest, S
<1>11. StartsAt(r, 0)
  <2>1. ASSUME ~StartsAt(r, 0) PROVE FALSE
    <3>1. \A n \in 0..(1 - 1) : n + 3 <= Len(r) => ~StartsAt(r, n)
      BY <2>1
    <3>2. Units(r) = Units(Drop(r, 1))
      BY <1>6, <1>8, <3>1, NoUnitBefore
    <3> QED
      BY <1>6, <1>10, <3>2
  <2> QED
    BY <2>1
<1> DEFINE a == UnitAt(r, 0)
           w == Units(Drop(r, 1))
<1>12. v = <<a>> \o w
  BY <1>6, <1>7, <1>11, FirstUnit
<1>13. w \in Seq(Seq(Byte)) /\ Len(w) \in Nat /\ a \in Seq(Byte)
  <2>1. Drop(r, 1) \in Seq(Byte)
    BY <1>6, <1>8, DropIs
  <2>2. w \in Seq(Seq(Byte))
    BY <2>1, UnitListIs
  <2>3. a \in Seq(Byte)
    BY <1>6, <1>8, UnitAtIs
  <2> QED
    BY <2>2, <2>3
<1> HIDE DEF a, w
<1>14. Len(v) = 1 + Len(w) /\ v[1] = a
  BY <1>12, <1>13
<1>15. Len(v) = j /\ Len(w) > 0
  <2>1. ~(Len(w) >= j)
    BY <1>10 DEF w
  <2>2. j \in Nat /\ j >= 2
    BY <1>3
  <2>3. Len(v) >= j /\ Len(v) \in Nat /\ Len(w) \in Nat
    BY <1>6, <1>13
  <2>4. Len(v) = 1 + Len(w)
    BY <1>14
  <2> QED
    BY <2>1, <2>2, <2>3, <2>4
<1>16. u[k] = a
  <2>1. PICK q \in 0..Len(UnitList(d)) :
            Units(d) = FlattenSeq(SubSeq(UnitList(d), 1, q)) \o Units(Drop(d, p))
    BY <1>6, UnitsSplit
  <2> DEFINE s == FlattenSeq(SubSeq(UnitList(d), 1, q))
  <2>2. s \in Seq(Seq(Byte)) /\ u = s \o v
    <3>1. UnitList(d) \in Seq(Seq(Seq(Byte)))
      BY UnitListIs
    <3>2. SubSeq(UnitList(d), 1, q) \in Seq(Seq(Seq(Byte)))
      BY <3>1
    <3> QED
      BY <1>6, <2>1, <3>2, FlattenType DEF u, r
  <2> HIDE DEF s
  <2>3. Len(u) = Len(s) + Len(v) /\ (Len(v) > 0 => u[Len(s) + 1] = v[1])
    BY <1>6, <2>2
  <2>4. Len(s) \in Nat /\ Len(s) + 1 = k
    BY <1>1, <1>3, <1>15, <2>2, <2>3
  <2> QED
    BY <1>13, <1>14, <2>3, <2>4
<1>17. UnitAt(r, 0) = UnitAt(d, p) /\ StartsAt(d, p) /\ p + 3 <= Len(d)
  <2>1. p + 0 + 3 <= Len(d) /\ p + 0 = p /\ p \in Nat
    BY <1>6, <1>7
  <2>2. UnitAt(Drop(d, p), 0) = UnitAt(d, p + 0)
    BY <1>6, <2>1, UnitOfRest
  <2>3. StartsAt(Drop(d, p), 0) <=> StartsAt(d, p + 0)
    BY <1>6, <2>1, StartOfRest
  <2> QED
    BY <1>11, <2>1, <2>2, <2>3 DEF r
<1>18. NextFrom(d, p) # {}
  <2> SUFFICES ASSUME NextFrom(d, p) = {} PROVE FALSE
    OBVIOUS
  <2>1. r[1] = 0 /\ r[2] = 0 /\ r[3] = 1
    <3>1. StartsAt(r, 0) <=> r[0 + 1] = 0 /\ r[0 + 2] = 0 /\ r[0 + 3] = 1
      BY <1>6, <1>8, StartIs
    <3> QED
      BY <1>11, <3>1
  <2> DEFINE t == Drop(r, 1)
  <2>2. t \in Seq(Byte) /\ Len(t) = Len(r) - 1
    BY <1>6, <1>8, DropIs
  <2>3. ASSUME NEW n \in 0..(Len(t) - 1), n + 3 <= Len(t)
        PROVE  ~StartsAt(t, n)
    <3>1. /\ n \in Nat /\ 1 + n + 3 <= Len(r) /\ 1 + n = n + 1
          /\ n + 1 \in Nat /\ (n + 1) + 3 <= Len(r)
      BY <1>6, <2>2, <2>3
    <3>2. StartsAt(t, n) <=> StartsAt(r, n + 1)
      <4>1. StartsAt(Drop(r, 1), n) <=> StartsAt(r, 1 + n)
        BY <1>6, <1>8, <3>1, StartOfRest
      <4> QED
        BY <3>1, <4>1
    <3>3. StartsAt(r, n + 1) <=> r[(n + 1) + 1] = 0 /\ r[(n + 1) + 2] = 0 /\ r[(n + 1) + 3] = 1
      BY <1>6, <3>1, StartIs
    <3>4. CASE n = 0
      BY <2>1, <3>2, <3>3, <3>4
    <3>5. CASE n = 1
      BY <2>1, <3>2, <3>3, <3>5
    <3>6. CASE n > 1
      <4>1. p + (n + 1) \in (p + 3)..(Len(d) - 3) /\ p + (n + 1) + 3 <= Len(d)
        BY <1>6, <3>1, <3>6
      <4>2. ~StartsAt(d, p + (n + 1))
        BY <4>1 DEF NextFrom
      <4>3. StartsAt(Drop(d, p), n + 1) <=> StartsAt(d, p + (n + 1))
        BY <1>6, <3>1, <4>1, StartOfRest
      <4> QED
        BY <3>2, <4>2, <4>3 DEF r
    <3> QED
      BY <3>1, <3>4, <3>5, <3>6
  <2>4. Len(t) \in 0..Len(t)
    BY <2>2
  <2> HIDE DEF t
  <2>5. Units(t) = Units(Drop(t, Len(t)))
    BY <2>2, <2>3, <2>4, NoUnitBefore
  <2>6. Drop(t, Len(t)) \in Seq(Byte) /\ Len(Drop(t, Len(t))) = 0
    <3>1. Drop(t, Len(t)) \in Seq(Byte) /\ Len(Drop(t, Len(t))) = Len(t) - Len(t)
      BY <2>2, <2>4, DropIs
    <3> QED
      BY <2>2, <3>1
  <2>7. Units(Drop(t, Len(t))) = <<>>
    <3>1. Len(Drop(t, Len(t))) <= 2
      BY <2>6
    <3> QED
      BY <2>6, <3>1, UnitsOfTwo
  <2>8. w = <<>>
    BY <2>5, <2>7, Zenon DEF w, t
  <2> QED
    BY <1>15, <2>8
<1> QED
  BY <1>6, <1>16, <1>17, <1>18 DEF u, a

(* The unit of each start code is one of the units.                         *)
LEMMA PlaceHasUnit ==
    ASSUME NEW d \in Seq(Byte), NEW n \in Nat, n + 3 <= Len(d), StartsAt(d, n)
    PROVE  \E k \in 1..Len(Units(d)) : Units(d)[k] = UnitAt(d, n)
<1> DEFINE r == Drop(d, n)
           a == UnitAt(r, 0)
           w == Units(Drop(r, 1))
<1>1. /\ n \in 0..Len(d) /\ r \in Seq(Byte) /\ Len(r) = Len(d) - n /\ Len(r) >= 3
      /\ n + 0 + 3 <= Len(d) /\ n + 0 = n /\ 1 \in 0..Len(r) /\ 0 + 3 <= Len(r)
  <2>1. n \in 0..Len(d)
    OBVIOUS
  <2>2. r \in Seq(Byte) /\ Len(r) = Len(d) - n
    BY <2>1, DropIs
  <2> HIDE DEF r
  <2> QED
    BY <2>1, <2>2
<1>2. StartsAt(r, 0) /\ a = UnitAt(d, n)
  <2>1. StartsAt(Drop(d, n), 0) <=> StartsAt(d, n + 0)
    BY <1>1, StartOfRest
  <2>2. UnitAt(Drop(d, n), 0) = UnitAt(d, n + 0)
    BY <1>1, UnitOfRest
  <2> QED
    BY <1>1, <2>1, <2>2
<1> HIDE DEF r
<1>3. Units(r) = <<a>> \o w
  BY <1>1, <1>2, FirstUnit
<1>4. w \in Seq(Seq(Byte)) /\ a \in Seq(Byte)
  <2>1. Drop(r, 1) \in Seq(Byte)
    BY <1>1, DropIs
  <2> QED
    BY <1>1, <2>1, UnitListIs, UnitAtIs
<1>5. PICK q \in 0..Len(UnitList(d)) :
          Units(d) = FlattenSeq(SubSeq(UnitList(d), 1, q)) \o Units(Drop(d, n))
  BY <1>1, UnitsSplit
<1> DEFINE s == FlattenSeq(SubSeq(UnitList(d), 1, q))
<1>6. s \in Seq(Seq(Byte)) /\ Units(d) = s \o (<<a>> \o w)
  <2>1. UnitList(d) \in Seq(Seq(Seq(Byte)))
    BY UnitListIs
  <2>2. SubSeq(UnitList(d), 1, q) \in Seq(Seq(Seq(Byte)))
    BY <2>1
  <2> QED
    BY <1>3, <1>5, <2>2, FlattenType DEF r
<1> HIDE DEF s, a, w
<1>7. Len(s) + 1 \in 1..Len(Units(d)) /\ Units(d)[Len(s) + 1] = a
  BY <1>4, <1>6
<1> QED
  BY <1>2, <1>7

(* The unit at one place is that at another if the bytes up to the next     *)
(* start code, and that, are the same.                                      *)
LEMMA UnitMoves ==
    ASSUME NEW d \in Seq(Byte), NEW n \in Nat, NEW m, m = Min(NextFrom(d, n)),
           NextFrom(d, n) # {},
           NEW g \in Seq(Byte), NEW p \in Nat, p + (m - n) + 3 <= Len(g),
           \A k \in 1..((m - n) + 3) : g[p + k] = d[n + k]
    PROVE  UnitAt(g, p) = UnitAt(d, n)
<1> DEFINE l == m - n
           M == NextFrom(d, n)
           N == NextFrom(g, p)
<1>1. m \in M /\ \A k \in M : m <= k
  <2>1. M \in SUBSET Nat /\ M # {} /\ m = Min(M)
    <3>1. M \in SUBSET Nat
      BY DEF NextFrom
    <3> QED
      BY <3>1
  <2> HIDE DEF M
  <2> QED
    BY <2>1, MinIs
<1>2. /\ m \in (n + 3)..(Len(d) - 3) /\ StartsAt(d, m) /\ Len(d) \in Nat /\ Len(g) \in Nat
      /\ l \in Nat /\ l >= 3 /\ m = n + l /\ m \in Nat /\ m + 3 <= Len(d) /\ n + 3 <= Len(d)
  <2>1. m \in (n + 3)..(Len(d) - 3) /\ StartsAt(d, m)
    BY <1>1 DEF NextFrom
  <2> QED
    BY <2>1
<1>3. p + l + 3 <= Len(g) /\ \A k \in 1..(l + 3) : g[p + k] = d[n + k]
  OBVIOUS
<1> HIDE DEF l
<1>4. p + l \in Nat /\ (p + l) + 3 <= Len(g) /\ p + 3 <= Len(g) /\ p + l \in (p + 3)..(Len(g) - 3)
  BY <1>2, <1>3
<1>5. ASSUME NEW q \in Nat, q <= l
      PROVE  StartsAt(g, p + q) <=> StartsAt(d, n + q)
  <2>1. /\ p + q \in Nat /\ (p + q) + 3 <= Len(g) /\ n + q \in Nat /\ (n + q) + 3 <= Len(d)
    <3>1. p + q \in Nat /\ n + q \in Nat /\ p + q <= p + l /\ n + q <= n + l
      BY <1>2, <1>5
    <3>2. (p + q) + 3 <= Len(g)
      BY <1>2, <1>4, <3>1
    <3>3. (n + q) + 3 <= Len(d)
      BY <1>2, <3>1
    <3> QED
      BY <3>1, <3>2, <3>3
  <2>2. StartsAt(g, p + q) <=> /\ g[(p + q) + 1] = 0 /\ g[(p + q) + 2] = 0 /\ g[(p + q) + 3] = 1
    BY <2>1, StartIs
  <2>3. StartsAt(d, n + q) <=> /\ d[(n + q) + 1] = 0 /\ d[(n + q) + 2] = 0 /\ d[(n + q) + 3] = 1
    BY <2>1, StartIs
  <2>4. /\ g[p + (q + 1)] = d[n + (q + 1)] /\ g[p + (q + 2)] = d[n + (q + 2)]
        /\ g[p + (q + 3)] = d[n + (q + 3)]
    <3>1. q + 1 \in 1..(l + 3) /\ q + 2 \in 1..(l + 3) /\ q + 3 \in 1..(l + 3)
      BY <1>2, <1>5
    <3>2. \A k \in 1..(l + 3) : g[p + k] = d[n + k]
      BY <1>3
    <3> QED
      BY <3>1, <3>2, Zenon
  <2>5. /\ p + (q + 1) = (p + q) + 1 /\ p + (q + 2) = (p + q) + 2 /\ p + (q + 3) = (p + q) + 3
        /\ n + (q + 1) = (n + q) + 1 /\ n + (q + 2) = (n + q) + 2 /\ n + (q + 3) = (n + q) + 3
    OBVIOUS
  <2> QED
    BY <2>2, <2>3, <2>4, <2>5
<1>6. p + l \in N
  BY <1>2, <1>4, <1>5 DEF NextFrom
<1>7. ASSUME NEW w \in N PROVE p + l <= w
  <2>1. w \in (p + 3)..(Len(g) - 3) /\ StartsAt(g, w)
    BY DEF NextFrom
  <2> SUFFICES ASSUME w < p + l PROVE FALSE
    BY <1>4, <2>1
  <2> DEFINE q == w - p
  <2>2. q \in 3..(l - 1) /\ w = p + q
    BY <1>2, <2>1
  <2> HIDE DEF q
  <2>3. StartsAt(d, n + q)
    BY <1>2, <1>5, <2>1, <2>2
  <2>4. n + q \in (n + 3)..(Len(d) - 3) /\ n + q < m
    BY <1>2, <2>2
  <2>5. n + q \in M
    BY <2>3, <2>4 DEF NextFrom
  <2> QED
    BY <1>1, <1>2, <2>2, <2>4, <2>5
<1>8. Min(N) = p + l
  <2>1. N \in SUBSET Nat
    BY DEF NextFrom
  <2> HIDE DEF N
  <2> QED
    BY <1>6, <1>7, <2>1, MinOnly
<1>9. g[p + l] = d[m]
  <2>1. l \in 1..(l + 3)
    BY <1>2
  <2> QED
    BY <1>2, <1>3, <2>1
<1>10. EndOf(d, n) = IF m > n + 3 /\ d[m] = 0 THEN m - 1 ELSE m
  BY <1>1, Zenon DEF EndOf
<1>11. EndOf(g, p) = IF p + l > p + 3 /\ g[p + l] = 0 THEN (p + l) - 1 ELSE p + l
  BY <1>6, <1>8, Zenon DEF EndOf
<1> HIDE DEF M, N
<1>12. EndOf(g, p) - p = EndOf(d, n) - n /\ EndOf(d, n) \in (n + 3)..m
  <2>1. p + l > p + 3 <=> m > n + 3
    BY <1>2
  <2>2. CASE m > n + 3 /\ d[m] = 0
    <3>1. EndOf(d, n) = m - 1 /\ EndOf(g, p) = (p + l) - 1
      BY <1>9, <1>10, <1>11, <2>1, <2>2, Zenon
    <3> QED
      BY <1>2, <2>2, <3>1
  <2>3. CASE ~(m > n + 3 /\ d[m] = 0)
    <3>1. EndOf(d, n) = m /\ EndOf(g, p) = p + l
      BY <1>9, <1>10, <1>11, <2>1, <2>3, Zenon
    <3> QED
      BY <1>2, <3>1
  <2> QED
    BY <2>2, <2>3
<1>13. /\ EndOf(g, p) \in (p + 3)..Len(g)
       /\ UnitAt(g, p) = SubSeq(g, (p + 3) + 1, EndOf(g, p))
       /\ UnitAt(d, n) = SubSeq(d, (n + 3) + 1, EndOf(d, n))
  BY <1>2, <1>4, UnitAtIs
<1> DEFINE x == EndOf(g, p)
           y == EndOf(d, n)
           a == SubSeq(g, (p + 3) + 1, x)
           b == SubSeq(d, (n + 3) + 1, y)
<1>14. x - (p + 3) = y - (n + 3) /\ x \in (p + 3)..Len(g) /\ y \in (n + 3)..Len(d)
       /\ y - (n + 3) <= l - 3
  <2>1. x - p = y - n /\ y \in (n + 3)..m /\ x \in (p + 3)..Len(g)
    BY <1>12, <1>13
  <2> HIDE DEF x, y
  <2>2. m <= Len(d) /\ m = n + l /\ l \in Nat /\ Len(d) \in Nat /\ Len(g) \in Nat
    BY <1>2
  <2> QED
    BY <2>1, <2>2
<1> HIDE DEF x, y
<1>15. /\ a \in Seq(Byte) /\ Len(a) = x - (p + 3)
       /\ \A k \in 1..(x - (p + 3)) : a[k] = g[(p + 3) + k]
  <2> DEFINE h == p + 3
  <2>1. h \in 0..Len(g) /\ x \in h..Len(g) /\ g \in Seq(Byte)
    BY <1>4, <1>14
  <2> HIDE DEF h
  <2>2. /\ SubSeq(g, h + 1, x) \in Seq(Byte) /\ Len(SubSeq(g, h + 1, x)) = x - h
        /\ \A k \in 1..(x - h) : SubSeq(g, h + 1, x)[k] = g[h + k]
    BY <2>1, SubSeqIs
  <2> QED
    BY <2>2 DEF h
<1>16. /\ b \in Seq(Byte) /\ Len(b) = y - (n + 3)
       /\ \A k \in 1..(y - (n + 3)) : b[k] = d[(n + 3) + k]
  <2> DEFINE h == n + 3
  <2>1. h \in 0..Len(d) /\ y \in h..Len(d) /\ d \in Seq(Byte)
    BY <1>2, <1>14
  <2> HIDE DEF h
  <2>2. /\ SubSeq(d, h + 1, y) \in Seq(Byte) /\ Len(SubSeq(d, h + 1, y)) = y - h
        /\ \A k \in 1..(y - h) : SubSeq(d, h + 1, y)[k] = d[h + k]
    BY <2>1, SubSeqIs
  <2> QED
    BY <2>2 DEF h
<1> HIDE DEF a, b
<1>17. ASSUME NEW k \in 1..Len(a) PROVE a[k] = b[k]
  <2>1. /\ k \in 1..(x - (p + 3)) /\ k \in 1..(y - (n + 3)) /\ 3 + k \in 1..(l + 3)
        /\ (p + 3) + k = p + (3 + k) /\ (n + 3) + k = n + (3 + k)
    BY <1>2, <1>14, <1>15
  <2> QED
    BY <1>3, <1>15, <1>16, <2>1
<1>18. a = b
  <2>1. Len(a) = Len(b)
    BY <1>14, <1>15, <1>16
  <2> QED
    BY <1>15, <1>16, <1>17, <2>1, SeqEqual
<1> QED
  BY <1>13, <1>18 DEF a, b, x, y

\* What the feeder has read and not cut goes round and round: the file behind itself.
Twice == File \o File

\* A piece of that, at a.
PieceAt(d, a) ==
    /\ d \in Seq(Byte) /\ a + Len(d) <= 2 * Len(File)
    /\ \A k \in 1..Len(d) : d[k] = Twice[a + k]

LEMMA TwiceIs ==
    /\ File \in Seq(Byte) /\ Len(File) \in Nat /\ Len(File) > 0
    /\ Twice \in Seq(Byte) /\ Len(Twice) = 2 * Len(File)
    /\ \A k \in 1..Len(File) : Twice[k] = File[k] /\ Twice[Len(File) + k] = File[k]
<1>1. File \in Seq(Byte) /\ Len(File) \in Nat /\ Len(File) > 0
  BY FeederAssumption
<1>2. /\ Twice \in Seq(Byte) /\ Len(Twice) = Len(File) + Len(File)
      /\ \A k \in 1..(Len(File) + Len(File)) :
            Twice[k] = IF k <= Len(File) THEN File[k] ELSE File[k - Len(File)]
  BY <1>1, ConcatProperties DEF Twice
<1>3. ASSUME NEW k \in 1..Len(File)
      PROVE  Twice[k] = File[k] /\ Twice[Len(File) + k] = File[k]
  <2>1. /\ k \in 1..(Len(File) + Len(File)) /\ Len(File) + k \in 1..(Len(File) + Len(File))
        /\ k <= Len(File) /\ ~(Len(File) + k <= Len(File)) /\ (Len(File) + k) - Len(File) = k
    BY <1>1
  <2> QED
    BY <1>2, <2>1
<1> QED
  BY <1>1, <1>2, <1>3

(* The start codes of a piece are start codes there.                        *)
LEMMA StartOfPiece ==
    ASSUME NEW a \in Nat, NEW d, PieceAt(d, a), NEW n \in Nat, n + 3 <= Len(d)
    PROVE  StartsAt(d, n) <=> StartsAt(Twice, a + n)
<1>1. /\ d \in Seq(Byte) /\ Len(d) \in Nat /\ a + n \in Nat /\ (a + n) + 3 <= Len(Twice)
      /\ Twice \in Seq(Byte)
  BY TwiceIs DEF PieceAt
<1>2. StartsAt(d, n) <=> d[n + 1] = 0 /\ d[n + 2] = 0 /\ d[n + 3] = 1
  BY <1>1, StartIs
<1>3. StartsAt(Twice, a + n) <=>
        Twice[(a + n) + 1] = 0 /\ Twice[(a + n) + 2] = 0 /\ Twice[(a + n) + 3] = 1
  BY <1>1, StartIs
<1>4. /\ d[n + 1] = Twice[a + (n + 1)] /\ d[n + 2] = Twice[a + (n + 2)]
      /\ d[n + 3] = Twice[a + (n + 3)]
  <2>1. n + 1 \in 1..Len(d) /\ n + 2 \in 1..Len(d) /\ n + 3 \in 1..Len(d)
    BY <1>1
  <2> QED
    BY <2>1 DEF PieceAt
<1>5. a + (n + 1) = (a + n) + 1 /\ a + (n + 2) = (a + n) + 2 /\ a + (n + 3) = (a + n) + 3
  OBVIOUS
<1> QED
  BY <1>2, <1>3, <1>4, <1>5

(* A piece of a coded file is coded.                                        *)
LEMMA PieceCoded ==
    ASSUME Coded(Twice), NEW a \in Nat, NEW d, PieceAt(d, a)
    PROVE  Coded(d)
<1> SUFFICES ASSUME NEW n \in 0..(Len(d) - 4), StartsAt(d, n)
             PROVE  d[n + 4] # 0
  BY DEF Coded
<1>1. /\ d \in Seq(Byte) /\ Len(d) \in Nat /\ n \in Nat /\ n + 3 <= Len(d)
      /\ n + 4 \in 1..Len(d) /\ a + n \in 0..(Len(Twice) - 4) /\ a + (n + 4) = (a + n) + 4
  <2>1. d \in Seq(Byte) /\ a + Len(d) <= Len(Twice)
    BY TwiceIs DEF PieceAt
  <2>2. Len(d) \in Nat /\ Len(Twice) \in Nat
    BY <2>1, TwiceIs
  <2> QED
    BY <2>1, <2>2
<1>2. StartsAt(Twice, a + n)
  BY <1>1, StartOfPiece
<1>3. Twice[(a + n) + 4] # 0
  BY <1>1, <1>2, Zenon DEF Coded
<1> QED
  BY <1>1, <1>3 DEF PieceAt

(* A start code does not go past the end of the file.                       *)
LEMMA NoneAcross ==
    ASSUME RepeatableFile, NEW P \in Nat, P + 3 <= Len(Twice), StartsAt(Twice, P)
    PROVE  P + 3 <= Len(File) \/ P >= Len(File)
<1> DEFINE l == Len(File)
<1>1. l \in Nat /\ l > 3 /\ File[l] # 0 /\ Twice[l] # 0
  BY TwiceIs DEF RepeatableFile
<1>2. Twice[P + 1] = 0 /\ Twice[P + 2] = 0
  BY TwiceIs, StartIs
<1> HIDE DEF l
<1>3. P + 1 # l /\ P + 2 # l
  BY <1>1, <1>2
<1>4. P + 3 <= l \/ P >= l
  BY <1>1, <1>3
<1> QED
  BY <1>4 DEF l

(* The start codes of the file are those in both halves.                    *)
LEMMA StartsTwice ==
    ASSUME NEW P \in Nat, P + 3 <= Len(File)
    PROVE  /\ StartsAt(File, P) <=> StartsAt(Twice, P)
           /\ StartsAt(File, P) <=> StartsAt(Twice, Len(File) + P)
<1>1. PieceAt(File, 0)
  <2>1. \A k \in 1..Len(File) : File[k] = Twice[0 + k]
    BY TwiceIs
  <2> QED
    BY <2>1, TwiceIs DEF PieceAt
<1>2. PieceAt(File, Len(File))
  BY TwiceIs DEF PieceAt
<1>3. StartsAt(File, P) <=> StartsAt(Twice, 0 + P)
  <2>1. 0 \in Nat
    OBVIOUS
  <2> QED
    BY <1>1, <2>1, StartOfPiece
<1>4. StartsAt(File, P) <=> StartsAt(Twice, Len(File) + P)
  BY <1>2, TwiceIs, StartOfPiece
<1> QED
  BY <1>3, <1>4

(* A unit with another start code behind it in a piece is one of the file.  *)
LEMMA UnitOfPiece ==
    ASSUME RepeatableFile, NEW a \in Nat, NEW d, PieceAt(d, a),
           NEW n \in Nat, n + 3 <= Len(d), StartsAt(d, n), NextFrom(d, n) # {}
    PROVE  \E P \in Nat : P + 3 <= Len(File) /\ StartsAt(File, P) /\ UnitAt(File, P) = UnitAt(d, n)
<1> DEFINE L == Len(File)
           M == NextFrom(d, n)
           m == Min(M)
           P == a + n
<1>1. M \in SUBSET Nat /\ m \in M /\ \A w \in M : m <= w
  <2>1. M \in SUBSET Nat /\ M # {}
    <3>1. M \in SUBSET Nat
      BY DEF NextFrom
    <3> QED
      BY <3>1
  <2> HIDE DEF M
  <2> QED
    BY <2>1, MinIs
<1>2. /\ d \in Seq(Byte) /\ Len(d) \in Nat /\ a + Len(d) <= 2 * L
      /\ \A k \in 1..Len(d) : d[k] = Twice[a + k]
  BY DEF PieceAt
<1>3. m \in (n + 3)..(Len(d) - 3) /\ StartsAt(d, m) /\ m \in Nat /\ m + 3 <= Len(d)
  <2>1. m \in (n + 3)..(Len(d) - 3) /\ StartsAt(d, m)
    BY <1>1 DEF NextFrom
  <2> QED
    BY <1>2, <2>1
<1>4. L \in Nat /\ L > 3 /\ Len(Twice) = 2 * L /\ File \in Seq(Byte)
  BY TwiceIs DEF RepeatableFile
<1>5. P \in Nat /\ P + 3 <= 2 * L /\ StartsAt(Twice, P)
  BY <1>2, StartOfPiece
<1>6. a + m \in Nat /\ (a + m) + 3 <= 2 * L /\ StartsAt(Twice, a + m)
  BY <1>2, <1>3, StartOfPiece
<1>7. m = Min(NextFrom(d, n))
  OBVIOUS
<1> HIDE DEF m
<1>8. \A k \in 1..((m - n) + 3) : d[n + k] = Twice[P + k]
  <2> SUFFICES ASSUME NEW k \in 1..((m - n) + 3)
               PROVE  d[n + k] = Twice[P + k]
    OBVIOUS
  <2>1. n + k \in 1..Len(d) /\ a + (n + k) = P + k
    BY <1>2, <1>3
  <2> QED
    BY <1>2, <2>1
<1>9. P + 3 <= L \/ P >= L
  BY <1>4, <1>5, NoneAcross
<1>10. CASE P >= L
  <2> DEFINE p == P - L
  <2>1. p \in Nat /\ p + (m - n) + 3 <= L /\ L + p = P /\ p + 3 <= L
    BY <1>2, <1>3, <1>4, <1>10
  <2> HIDE DEF p, P
  <2>2. \A k \in 1..((m - n) + 3) : File[p + k] = d[n + k]
    <3> SUFFICES ASSUME NEW k \in 1..((m - n) + 3)
                 PROVE  File[p + k] = d[n + k]
      OBVIOUS
    <3>1. p + k \in 1..L /\ L + (p + k) = P + k
      BY <1>3, <1>4, <2>1
    <3>2. Twice[L + (p + k)] = File[p + k]
      BY <3>1, TwiceIs
    <3> QED
      BY <1>8, <3>1, <3>2
  <2>3. UnitAt(File, p) = UnitAt(d, n)
    BY <1>2, <1>4, <1>7, <2>1, <2>2, UnitMoves
  <2>4. StartsAt(File, p)
    BY <1>5, <2>1, StartsTwice
  <2> QED
    BY <2>1, <2>3, <2>4
<1>11. CASE P + 3 <= L /\ (a + m) + 3 <= L
  <2>1. P + (m - n) + 3 <= L
    BY <1>3, <1>11
  <2>2. \A k \in 1..((m - n) + 3) : File[P + k] = d[n + k]
    <3> SUFFICES ASSUME NEW k \in 1..((m - n) + 3)
                 PROVE  File[P + k] = d[n + k]
      OBVIOUS
    <3>1. P + k \in 1..L
      BY <1>3, <1>4, <1>5, <2>1
    <3>2. Twice[P + k] = File[P + k]
      BY <3>1, TwiceIs
    <3> QED
      BY <1>8, <3>2
  <2> HIDE DEF P
  <2>3. UnitAt(File, P) = UnitAt(d, n)
    <3>1. d \in Seq(Byte) /\ File \in Seq(Byte) /\ P \in Nat
      BY <1>2, <1>4, <1>5
    <3> QED
      BY <1>7, <2>1, <2>2, <3>1, UnitMoves
  <2>4. StartsAt(File, P)
    BY <1>5, <1>11, StartsTwice
  <2> QED
    BY <1>5, <1>11, <2>3, <2>4
<1>12. CASE P + 3 <= L /\ a + m >= L
  <2>1. StartsAt(File, P)
    BY <1>5, <1>12, StartsTwice
  <2>2. NextFrom(File, P) = {}
    <3> SUFFICES ASSUME NEW w \in NextFrom(File, P) PROVE FALSE
      OBVIOUS
    <3>1. w \in (P + 3)..(L - 3) /\ StartsAt(File, w)
      BY DEF NextFrom
    <3>2. w \in Nat /\ w + 3 <= L
      BY <1>4, <1>5, <3>1
    <3>3. StartsAt(Twice, w)
      BY <3>1, <3>2, StartsTwice
    <3> DEFINE j == w - a
    <3>4. j \in (n + 3)..(Len(d) - 3) /\ j \in Nat /\ j + 3 <= Len(d) /\ a + j = w /\ j < m
      BY <1>2, <1>3, <1>4, <1>12, <3>1
    <3> HIDE DEF j
    <3>5. StartsAt(d, j)
      BY <3>3, <3>4, StartOfPiece
    <3>6. j \in M
      BY <3>4, <3>5 DEF NextFrom
    <3>7. m <= j
      BY <1>1, <3>6
    <3> QED
      BY <1>3, <3>4, <3>7
  <2>3. a + m = L \/ (a + m = L + 1 /\ File[1] = 0)
    <3>1. CASE StartsAt(File, 0)
      <4>1. StartsAt(Twice, L + 0)
        <5>1. 0 \in Nat /\ 0 + 3 <= Len(File)
          BY <1>4
        <5> QED
          BY <3>1, <5>1, StartsTwice
      <4> DEFINE j == L - a
      <4>2. j \in (n + 3)..(Len(d) - 3) /\ j \in Nat /\ j + 3 <= Len(d) /\ a + j = L + 0
        BY <1>2, <1>3, <1>4, <1>12
      <4> HIDE DEF j
      <4>3. StartsAt(d, j)
        BY <4>1, <4>2, StartOfPiece
      <4>4. m <= j
        <5>1. j \in M
          BY <4>2, <4>3 DEF NextFrom
        <5> QED
          BY <1>1, <5>1
      <4> QED
        BY <1>3, <1>4, <1>12, <4>2, <4>4
    <3>2. CASE File[1] = 0 /\ StartsAt(File, 1) /\ a + m # L
      <4>1. StartsAt(Twice, L + 1)
        <5>1. 1 \in Nat /\ 1 + 3 <= Len(File)
          BY <1>4
        <5> QED
          BY <3>2, <5>1, StartsTwice
      <4> DEFINE j == (L + 1) - a
      <4>2. j \in (n + 3)..(Len(d) - 3) /\ j \in Nat /\ j + 3 <= Len(d) /\ a + j = L + 1
        BY <1>2, <1>3, <1>4, <1>12, <3>2
      <4> HIDE DEF j
      <4>3. StartsAt(d, j)
        BY <4>1, <4>2, StartOfPiece
      <4>4. m <= j
        <5>1. j \in M
          BY <4>2, <4>3 DEF NextFrom
        <5> QED
          BY <1>1, <5>1
      <4> QED
        BY <1>3, <1>4, <1>12, <3>2, <4>2, <4>4
    <3> QED
      BY <3>1, <3>2 DEF RepeatableFile
  <2> DEFINE e == L - a
  <2>4. EndOf(d, n) = e
    <3>1. EndOf(d, n) = IF m > n + 3 /\ d[m] = 0 THEN m - 1 ELSE m
      BY <1>7, Zenon DEF EndOf
    <3>2. m \in 1..Len(d) /\ d[m] = Twice[a + m]
      <4>1. m \in 1..Len(d)
        BY <1>2, <1>3
      <4> QED
        BY <1>2, <4>1
    <3>3. CASE a + m = L
      <4>1. d[m] # 0
        <5>1. L \in 1..L /\ File[L] # 0
          BY <1>4 DEF RepeatableFile
        <5> QED
          BY <3>2, <3>3, <5>1, TwiceIs
      <4>2. EndOf(d, n) = m
        BY <3>1, <4>1, Zenon
      <4> QED
        BY <1>3, <3>3, <4>2
    <3>4. CASE a + m = L + 1 /\ File[1] = 0
      <4>1. d[m] = 0
        BY <1>4, <3>2, <3>4, TwiceIs
      <4>2. m > n + 3
        BY <1>3, <1>12, <3>4
      <4>3. EndOf(d, n) = m - 1
        BY <3>1, <4>1, <4>2, Zenon
      <4> QED
        BY <1>3, <3>4, <4>3
    <3> QED
      BY <2>3, <3>3, <3>4
  <2>5. EndOf(File, P) = L
    BY <2>2, Zenon DEF EndOf
  <2>6. UnitAt(File, P) = SubSeq(File, (P + 3) + 1, L)
    BY <1>4, <1>5, <1>12, <2>5, UnitAtIs
  <2>7. UnitAt(d, n) = SubSeq(d, (n + 3) + 1, e) /\ e \in (n + 3)..Len(d)
    BY <1>2, <2>4, UnitAtIs
  <2>8. /\ n + 3 \in 0..Len(d) /\ P + 3 \in 0..L /\ L \in (P + 3)..L /\ e - (n + 3) = L - (P + 3)
        /\ e \in (n + 3)..Len(d) /\ L - (P + 3) \in Nat
    BY <1>2, <1>4, <1>5, <1>12, <2>7
  <2> DEFINE f == SubSeq(File, (P + 3) + 1, L)
             g == SubSeq(d, (n + 3) + 1, e)
  <2> HIDE DEF e
  <2>9. /\ f \in Seq(Byte) /\ Len(f) = L - (P + 3)
        /\ \A k \in 1..(L - (P + 3)) : f[k] = File[(P + 3) + k]
    BY <1>4, <2>8, SubSeqIs
  <2>10. /\ g \in Seq(Byte) /\ Len(g) = e - (n + 3)
         /\ \A k \in 1..(e - (n + 3)) : g[k] = d[(n + 3) + k]
    BY <1>2, <2>8, SubSeqIs
  <2> HIDE DEF f, g
  <2>11. ASSUME NEW k \in 1..Len(f) PROVE f[k] = g[k]
    <3>1. /\ k \in 1..(L - (P + 3)) /\ k \in 1..(e - (n + 3)) /\ (P + 3) + k \in 1..L
          /\ (n + 3) + k \in 1..Len(d) /\ a + ((n + 3) + k) = (P + 3) + k
      BY <1>2, <1>4, <1>5, <2>8, <2>9
    <3>2. Twice[(P + 3) + k] = File[(P + 3) + k]
      BY <3>1, TwiceIs
    <3> QED
      BY <1>2, <2>9, <2>10, <3>1, <3>2
  <2>12. f = g
    <3>1. Len(f) = Len(g)
      BY <2>8, <2>9, <2>10
    <3> QED
      BY <2>9, <2>10, <2>11, <3>1, SeqEqual
  <2>13. UnitAt(File, P) = UnitAt(d, n)
    BY <2>6, <2>7, <2>12 DEF f, g
  <2> QED
    BY <1>5, <1>12, <2>1, <2>13
<1>13. (a + m) + 3 <= L \/ a + m >= L
  BY <1>4, <1>6, NoneAcross
<1> QED
  BY <1>9, <1>10, <1>11, <1>12, <1>13

(* What is left of a piece is one.                                          *)
LEMMA PieceRest ==
    ASSUME NEW a \in Nat, NEW d, PieceAt(d, a), NEW m \in 0..Len(d)
    PROVE  PieceAt(Drop(d, m), a + m) /\ (a + m) + Len(Drop(d, m)) = a + Len(d)
<1> DEFINE r == Drop(d, m)
<1>1. /\ d \in Seq(Byte) /\ Len(d) \in Nat /\ a + Len(d) <= 2 * Len(File)
      /\ \A k \in 1..Len(d) : d[k] = Twice[a + k]
  BY DEF PieceAt
<1>2. r \in Seq(Byte) /\ Len(r) = Len(d) - m /\ \A k \in 1..(Len(d) - m) : r[k] = d[m + k]
  BY <1>1, DropIs
<1> HIDE DEF r
<1>3. (a + m) + Len(r) = a + Len(d)
  BY <1>1, <1>2
<1>4. ASSUME NEW k \in 1..Len(r) PROVE r[k] = Twice[(a + m) + k]
  <2>1. k \in 1..(Len(d) - m) /\ m + k \in 1..Len(d) /\ a + (m + k) = (a + m) + k
    BY <1>1, <1>2
  <2> QED
    BY <1>1, <1>2, <2>1
<1>5. PieceAt(r, a + m)
  <2>1. (a + m) + Len(r) <= 2 * Len(File)
    BY <1>1, <1>3
  <2> QED
    BY <1>2, <1>4, <2>1 DEF PieceAt
<1> QED
  BY <1>3, <1>5 DEF r

\* Where the feeder is: behind the piece that h264_buff has.
Behind(d, a, at) == PieceAt(d, a) /\ (a + Len(d) = at \/ a + Len(d) = Len(File) + at)

BuffIsPiece == \E a \in Nat : Behind(h264_buff, a, offset)

(* What a read has to cut is a piece.                                       *)
LEMMA PieceToSplit ==
    ASSUME FeederTypeOK, NEW a \in Nat, Behind(h264_buff, a, offset)
    PROVE  Behind(ToSplit, a, ReadEnd)
<1> DEFINE L == Len(File)
           b == h264_buff
           s == SubSeq(File, offset + 1, ReadEnd)
           d == b \o s
<1>1. File \in Seq(Byte) /\ L \in Nat /\ offset \in 0..L /\ ReadEnd \in offset..L
  BY TwiceIs, ReadIs DEF FeederTypeOK
<1>2. /\ b \in Seq(Byte) /\ Len(b) \in Nat /\ \A k \in 1..Len(b) : b[k] = Twice[a + k]
      /\ a + Len(b) = offset \/ a + Len(b) = L + offset
  BY DEF Behind, PieceAt
<1>3. /\ s \in Seq(Byte) /\ Len(s) = ReadEnd - offset
      /\ \A k \in 1..(ReadEnd - offset) : s[k] = File[offset + k]
  BY <1>1, SubSeqIs
<1> HIDE DEF s, b
<1>4. /\ d \in Seq(Byte) /\ Len(d) = Len(b) + Len(s)
      /\ \A k \in 1..(Len(b) + Len(s)) : d[k] = IF k <= Len(b) THEN b[k] ELSE s[k - Len(b)]
  BY <1>2, <1>3, ConcatProperties
<1>5. ToSplit = d
  BY DEF ToSplit, s, b
<1> HIDE DEF d
<1>6. a + Len(d) = ReadEnd \/ a + Len(d) = L + ReadEnd
  <2>1. a + Len(d) = (a + Len(b)) + (ReadEnd - offset)
    BY <1>1, <1>2, <1>3, <1>4
  <2>2. a + Len(b) \in Nat /\ offset \in Nat /\ ReadEnd \in Nat /\ L \in Nat
    BY <1>1, <1>2
  <2>3. CASE a + Len(b) = offset
    BY <2>1, <2>2, <2>3
  <2>4. CASE a + Len(b) = L + offset
    BY <2>1, <2>2, <2>4
  <2> QED
    BY <1>2, <2>3, <2>4
<1>7. ASSUME NEW k \in 1..Len(d) PROVE d[k] = Twice[a + k]
  <2>1. CASE k <= Len(b)
    <3>1. k \in 1..Len(b) /\ k \in 1..(Len(b) + Len(s))
      BY <1>2, <1>4, <2>1
    <3> QED
      BY <1>2, <1>4, <2>1, <3>1
  <2>2. CASE k > Len(b)
    <3> DEFINE j == k - Len(b)
    <3>1. /\ j \in 1..(ReadEnd - offset) /\ k \in 1..(Len(b) + Len(s)) /\ ~(k <= Len(b))
          /\ offset + j \in 1..L /\ (a + k = offset + j \/ a + k = L + (offset + j))
      <4>1. k \in 1..(Len(b) + Len(s)) /\ k \in Nat /\ ~(k <= Len(b))
        BY <1>2, <1>4, <2>2
      <4>2. j \in 1..(ReadEnd - offset) /\ j \in Nat /\ a + k = (a + Len(b)) + j
        BY <1>1, <1>2, <1>3, <2>2, <4>1
      <4> HIDE DEF j, L
      <4>3. offset + j \in 1..L
        BY <1>1, <4>2
      <4>4. a + k = offset + j \/ a + k = L + (offset + j)
        BY <1>1, <1>2, <4>2
      <4> QED
        BY <4>1, <4>2, <4>3, <4>4
    <3>2. d[k] = s[j]
      BY <1>4, <3>1
    <3> HIDE DEF j
    <3>3. s[j] = File[offset + j]
      BY <1>3, <3>1
    <3>4. Twice[offset + j] = File[offset + j] /\ Twice[L + (offset + j)] = File[offset + j]
      BY <3>1, TwiceIs
    <3> QED
      BY <3>1, <3>2, <3>3, <3>4
  <2> QED
    BY <1>2, <1>4, <2>1, <2>2
<1>8. PieceAt(d, a)
  <2>1. a + Len(d) <= 2 * Len(File)
    BY <1>1, <1>6
  <2> QED
    BY <1>4, <1>7, <2>1 DEF PieceAt
<1> QED
  BY <1>5, <1>6, <1>8 DEF Behind

(* No step moves the feeder from behind its piece.                          *)
LEMMA BuffKept ==
    ASSUME RepeatableFile, FeederTypeOK, BuffIsPiece, [FeederNext]_feederVars
    PROVE  BuffIsPiece'
<1>1. PICK a \in Nat : Behind(h264_buff, a, offset)
  BY DEF BuffIsPiece
<1>2. CASE Read
  <2>1. offset' = ReadEnd /\ h264_buff' = Split(ToSplit).rest
    BY <1>2, ReadStep
  <2>2. Behind(ToSplit, a, ReadEnd)
    BY <1>1, PieceToSplit
  <2>3. PICK m \in 0..Len(ToSplit) : Split(ToSplit).rest = Drop(ToSplit, m)
    BY ReadIs, SplitIs
  <2>4. PieceAt(Drop(ToSplit, m), a + m) /\ (a + m) + Len(Drop(ToSplit, m)) = a + Len(ToSplit)
    BY <2>2, PieceRest DEF Behind
  <2>5. Behind(Drop(ToSplit, m), a + m, ReadEnd)
    BY <2>2, <2>4 DEF Behind
  <2>6. Behind(h264_buff', a + m, offset')
    BY <2>1, <2>3, <2>5
  <2>7. a + m \in Nat
    BY ReadIs
  <2> QED
    BY <2>6, <2>7 DEF BuffIsPiece, Behind, PieceAt
<1>3. CASE Rewind
  <2>1. offset = Len(File) /\ offset' = 0 /\ h264_buff' = h264_buff
    BY <1>3 DEF Rewind
  <2> DEFINE L == Len(File)
             b == h264_buff
  <2>2. /\ b \in Seq(Byte) /\ Len(b) \in Nat /\ Len(b) <= 4 /\ a + Len(b) <= 2 * L
        /\ \A k \in 1..Len(b) : b[k] = Twice[a + k]
        /\ a + Len(b) = L \/ a + Len(b) = L + L
    BY <1>1, <2>1 DEF Behind, PieceAt, FeederTypeOK
  <2>3. L \in Nat /\ L >= 4
    BY TwiceIs DEF RepeatableFile
  <2> HIDE DEF b
  <2>4. CASE a + Len(b) = L
    <3>1. Behind(b, a, 0)
      BY <1>1, <2>3, <2>4 DEF Behind, b
    <3> QED
      BY <2>1, <3>1 DEF BuffIsPiece, Behind, PieceAt, b
  <2>5. CASE a + Len(b) = L + L
    <3> DEFINE c == a - L
    <3>1. c \in Nat /\ a = L + c /\ c + Len(b) = L
      BY <2>2, <2>3, <2>5
    <3> HIDE DEF c
    <3>2. ASSUME NEW k \in 1..Len(b) PROVE b[k] = Twice[c + k]
      <4>1. c + k \in 1..L /\ a + k = L + (c + k)
        BY <2>2, <2>3, <3>1
      <4>2. Twice[c + k] = File[c + k] /\ Twice[L + (c + k)] = File[c + k]
        BY <4>1, TwiceIs
      <4> QED
        BY <2>2, <4>1, <4>2
    <3>3. c + Len(b) <= 2 * Len(File) /\ c + Len(b) = Len(File) + 0
      BY <2>3, <3>1
    <3>4. Behind(b, c, 0)
      BY <2>2, <3>2, <3>3 DEF Behind, PieceAt
    <3> QED
      BY <2>1, <3>1, <3>4 DEF BuffIsPiece, Behind, PieceAt, b
  <2> QED
    BY <2>2, <2>4, <2>5
<1>4. CASE Loop \/ Leave \/ Restart \/ Take \/ Stop \/ Tick \/ UNCHANGED feederVars
  <2>1. offset' = offset /\ h264_buff' = h264_buff
    BY <1>4 DEF Loop, LoopWhile, Leave, Restart, RestartAt, Stop, Tick, feederVars, bufferVars,
                Take, TakeAndClear, TakeWith
  <2> QED
    BY <2>1 DEF BuffIsPiece, Behind, PieceAt
<1> QED
  BY <1>2, <1>3, <1>4, Zenon DEF FeederNext, InnerStep

(* Of what a read cuts all but the last are units of the file.              *)
LEMMA CutsAreUnits ==
    ASSUME RepeatableFile, FeederTypeOK, BuffIsPiece,
           NEW j \in 1..(Len(Split(ToSplit).nals) - 1)
    PROVE  Contains(FileNals, Split(ToSplit).nals[j])
<1> DEFINE d == ToSplit
           nals == Split(d).nals
           left == NalsOf(Split(d).rest)
<1>1. PICK a \in Nat : Behind(h264_buff, a, offset)
  BY DEF BuffIsPiece
<1>2. PieceAt(d, a) /\ d \in Seq(Byte)
  BY <1>1, PieceToSplit DEF Behind, PieceAt
<1>3. Coded(d)
  BY <1>2, PieceCoded DEF RepeatableFile, Twice
<1> HIDE DEF d
<1>4. nals \in Seq(Seq(Byte)) /\ NalsOf(d) = nals \o left
  BY <1>2, <1>3, SplitIs
<1>5. left \in Seq(Seq(Byte))
  <2>1. PICK m \in 0..Len(d) : Split(d).rest = Drop(d, m)
    BY <1>2, SplitIs
  <2>2. Split(d).rest \in Seq(Byte)
    BY <1>2, <2>1, DropIs
  <2> QED
    BY <2>2, NalsOfIs
<1>6. j \in 1..(Len(nals) - 1)
  BY DEF d
<1> DEFINE u == Units(d)
<1>7. /\ u \in Seq(Seq(Byte)) /\ Len(NalsOf(d)) = Len(u)
      /\ \A k \in 1..Len(u) : NalsOf(d)[k] = WithCode(u[k])
  BY <1>2, NalsOfIs
<1> SUFFICES Contains(FileNals, nals[j])
  BY DEF d
<1> HIDE DEF nals, left, u
<1>8. j \in 1..(Len(u) - 1) /\ j \in 1..Len(u) /\ NalsOf(d)[j] = nals[j]
  <2>1. Len(nals \o left) = Len(nals) + Len(left) /\ (nals \o left)[j] = nals[j]
    BY <1>4, <1>5, <1>6
  <2>2. Len(u) = Len(nals) + Len(left) /\ Len(nals) \in Nat /\ Len(left) \in Nat
    BY <1>4, <1>5, <1>7, <2>1
  <2> QED
    BY <1>4, <1>6, <2>1, <2>2
<1>9. PICK n \in Nat : /\ n + 3 <= Len(d) /\ StartsAt(d, n) /\ NextFrom(d, n) # {}
                      /\ u[j] = UnitAt(d, n)
  BY <1>2, <1>8, UnitHasPlace DEF u
<1>10. PICK P \in Nat : P + 3 <= Len(File) /\ StartsAt(File, P) /\ UnitAt(File, P) = UnitAt(d, n)
  BY <1>2, <1>9, UnitOfPiece
<1>11. PICK k \in 1..Len(Units(File)) : Units(File)[k] = UnitAt(File, P)
  BY <1>10, TwiceIs, PlaceHasUnit
<1>12. FileNals[k] = WithCode(Units(File)[k]) /\ Len(FileNals) = Len(Units(File))
  BY TwiceIs, NalsOfIs DEF FileNals
<1>13. FileNals[k] = nals[j] /\ k \in 1..Len(FileNals)
  BY <1>7, <1>8, <1>9, <1>10, <1>11, <1>12
<1> QED
  BY <1>13 DEF Contains

(* In a file that may follow itself the feeder cuts units only where reads   *)
(* end, wherever they do, each time it reads the file.                       *)
THEOREM CutUnitsAreWhole ==
    ASSUME RepeatableFile
    PROVE  FeederSpec => ResumesAfterCut
<1> DEFINE Whole == \A k \in (Len(h264_nal_buff_list) + 1)..(Len(h264_nal_buff_list') - 1) :
                        Contains(FileNals, h264_nal_buff_list'[k])
<1>1. FeederInit => BuffIsPiece
  <2> SUFFICES ASSUME FeederInit PROVE BuffIsPiece
    OBVIOUS
  <2>1. h264_buff = <<>> /\ offset = 0
    BY DEF FeederInit
  <2>2. Behind(<<>>, 0, 0)
    <3>1. <<>> \in Seq(Byte) /\ Len(<<>>) = 0 /\ 0 + 0 = 0 /\ 0 <= 2 * Len(File)
      BY TwiceIs
    <3> QED
      BY <3>1 DEF Behind, PieceAt
  <2>3. 0 \in Nat
    OBVIOUS
  <2> QED
    BY <2>1, <2>2, <2>3, Zenon DEF BuffIsPiece
<1>2. FeederTypeOK /\ BuffIsPiece /\ [FeederNext]_feederVars => BuffIsPiece'
  BY BuffKept
<1>3. FeederTypeOK /\ BuffIsPiece /\ [FeederNext]_feederVars => [Whole]_feederVars
  <2> SUFFICES ASSUME FeederTypeOK, BuffIsPiece, FeederNext
               PROVE  Whole
    BY Zenon
  <2> DEFINE list == h264_nal_buff_list
  <2>1. list \in Seq(Seq(Byte)) /\ Len(list) \in Nat
    BY DEF FeederTypeOK
  <2>2. CASE Read
    <3> DEFINE nals == Split(ToSplit).nals
    <3>1. list' = list \o nals
      BY <2>2, ReadStep
    <3>2. nals \in Seq(Seq(Byte))
      BY ReadIs, SplitIs
    <3>3. \A j \in 1..(Len(nals) - 1) : Contains(FileNals, nals[j])
      BY CutsAreUnits
    <3> HIDE DEF nals
    <3>4. ASSUME NEW k \in (Len(list) + 1)..(Len(list') - 1)
          PROVE  Contains(FileNals, list'[k])
      <4>1. Len(list \o nals) = Len(list) + Len(nals) /\ Len(nals) \in Nat
        BY <2>1, <3>2
      <4>2. k \in (Len(list) + 1)..(Len(list) + Len(nals) - 1)
        BY <3>1, <4>1
      <4> DEFINE j == k - Len(list)
      <4>3. j \in 1..(Len(nals) - 1) /\ (list \o nals)[k] = nals[j]
        BY <2>1, <3>2, <4>1, <4>2
      <4> QED
        BY <3>1, <3>3, <4>3
    <3> QED
      BY <3>4
  <2>3. CASE Take
    <3>1. list # <<>> /\ list' = Tail(list)
      BY <2>3, TakenIs
    <3>2. Len(list') - 1 < Len(list) + 1 /\ Len(list') \in Nat
      BY <2>1, <3>1
    <3> QED
      BY <2>1, <3>2
  <2>4. CASE Loop \/ Rewind \/ Leave \/ Restart \/ Stop \/ Tick
    <3>1. list' = list
      BY <2>4 DEF Loop, LoopWhile, Rewind, Leave, Restart, RestartAt, Stop, Tick, bufferVars
    <3> QED
      BY <2>1, <3>1
  <2> QED
    BY <2>2, <2>3, <2>4, Zenon DEF FeederNext, InnerStep
<1> QED
  BY <1>1, <1>2, <1>3, FeederTypes, PTL DEF FeederSpec, ResumesAfterCut

=============================================================================

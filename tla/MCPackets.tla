----------------------------- MODULE MCPackets -----------------------------
(***************************************************************************)
(* TLC instance of H264Packets and Packetizers: a program that feeds one    *)
(* stream at a time, of either kind.  H.264 frames are of up to four        *)
(* pieces, which are start codes with headers and bytes that look like      *)
(* parts of a start code; of the others every size up to one that takes     *)
(* several packets, and a LATM header of three bytes.                       *)
(***************************************************************************)
EXTENDS H264Packets, Packetizers

Pieces == {<<>>, <<0, 0, 1, 65>>, <<0, 0, 0, 1, 6>>, <<0, 0, 1, 103>>,
           <<0>>, <<1, 9>>, <<0, 0, 2>>, <<9, 9, 9, 9>>, <<8, 8, 8, 8, 0>>}

MCH264Frames == {a \o b \o c \o d : a, b, c, d \in Pieces}

MCFrames == {f \in [codec : Codecs, size : 0..600, plain : BOOLEAN] : WellFormed(f)}

MCInit == Init /\ H264Init

MCNext ==
    \/ ~h264_busy /\ Next /\ UNCHANGED h264Vars
    \/ ~busy /\ H264Next /\ UNCHANGED vars

MCSpec == MCInit /\ [][MCNext]_<<vars, h264Vars>>
=============================================================================

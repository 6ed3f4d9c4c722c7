------------------------------- MODULE Feeder -------------------------------
(***************************************************************************)
(* The feeder thread: H264File_Read2SendThread (RtspService/RtspService.h  *)
(* 11-166) with the helpers of RtspService/h264.h.  It reads an H.264 file *)
(* over and over, cuts it into NAL units, gathers them into frames, and    *)
(* hands each frame to the stream when its time has come.                  *)
(***************************************************************************)
EXTENDS AnnexB

CONSTANTS
    File,       \* the bytes of the file
    ReadSizes,  \* what FILE_READ_SIZE may be
    Period,     \* clock ticks per frame: 1000 * 2 * num_units_in_tick / time_scale
    TickRange,  \* GetTickCount counts modulo this: 2^32 in the code
    Reorder,    \* how many frames later than it is sent one may be shown
    MaxClock    \* bound: how long the model runs

ASSUME FeederAssumption ==
    /\ File \in Seq(Byte) /\ Len(File) > 0
    /\ ReadSizes \subseteq Nat \ {0} /\ Period \in Nat \ {0}
    /\ TickRange \in Nat \ {0} /\ Reorder \in Nat /\ MaxClock \in Nat

VARIABLES
    FILE_READ_SIZE,         \* which never changes
    m_bVideoFile_ReadThread_Stop,
    pc,                     \* in the outer loop, in the inner one, or returned
    offset,                 \* position in the file
    h264_buff,              \* bytes read and not yet cut
    h264_nal_buff_list,     \* NAL units cut and not yet taken
    h264_frame_buff,        \* the frame's buffer: m_nBufferSize bytes,
    m_nDataSize,            \* and how many of them are data
    b_find_sps, b_find_pps,
    m_bInit,                \* the stream's Init was called
    found_frame_start,
    i_begin_time, frame_count,
    iframe_offset,          \* frame_count at the last I picture
    sent,                   \* the last call of TransportData: its bytes, how many
                            \* of them the frame had, and its time in fields
    clock,                  \* the time: GetTickCount shows it modulo TickRange
    began,                  \* the time of i_begin_time
    shown,                  \* the times sent since began and an I picture after it
    first, held             \* the frame has the units first, ..., first+held-1
                            \* of those of the file that make frames

fileVars   == <<FILE_READ_SIZE, m_bVideoFile_ReadThread_Stop>>
bufferVars == <<offset, h264_buff, h264_nal_buff_list>>
frameVars  == <<h264_frame_buff, m_nDataSize, found_frame_start, sent, first, held>>
initVars   == <<b_find_sps, b_find_pps, m_bInit>>
paceVars   == <<i_begin_time, frame_count, iframe_offset, began, shown>>
feederVars == <<fileVars, pc, bufferVars, frameVars, initVars, paceVars, clock>>

-----------------------------------------------------------------------------
SPS == 7
PPS == 8
SEI == 6
AUD == 9
Slices == {1, 2, 5}

\* h264_decode_seq_parameter_set, as far as it matters here: does the set say
\* how long a frame lasts?  One bit of it stands for the timing fields.
HasTiming(nal) == Len(nal) > 4 /\ nal[5] % 2 = 1

\* h264_find_frame_end: a slice starts a frame, and the first byte of 0x80 or
\* more, in it or in a unit after it, ends it.
Starting(nal) ==
    CASE NalType(nal) \in Slices -> TRUE
      [] NalType(nal) \in {SPS, PPS, AUD} -> FALSE
      [] OTHER -> found_frame_start

FrameEnds(nal) == Starting(nal) /\ \E k \in 4..Len(nal) : nal[k] >= 128

\* h264_decode_slice, of a slice that begins with the first macroblock: is its
\* slice_type 2, 4, 7 or 9?  A byte stands for its pic_order_cnt_lsb, which is
\* 0 if the sequence has another poc_type than 0.
Intra(nal)    == nal[5] \in {136, 138} \cup (148..151) \cup (176..191)
PicOrder(nal) == IF Len(nal) > 5 THEN nal[6] ELSE 0

HasSlice(nal) == NalType(nal) \in 1..5

\* h264_get_pts_rtp, of the unit that ends a frame, in fields of half a Period.
TimeWith(nal, count, base) ==
    IF ~HasSlice(nal) THEN 0
    ELSE IF Intra(nal) THEN 2 * count
    ELSE PicOrder(nal) + base

\* (The offset in frames added to an order in fields.)
TimeMixed(nal, count) == TimeWith(nal, count, iframe_offset)

h264_get_pts_rtp(nal, count) == TimeWith(nal, count, 2 * iframe_offset)

\* Parameter sets and SEI do not enter the frame.
Gathered(nal) == NalType(nal) \notin {SEI, SPS, PPS}

FileNals == NalsOf(File)

FileUnits == Only(FileNals, {nal \in Seq(Byte) : Gathered(nal)})

GetTickCount == clock % TickRange

DataSize(list) == FoldLeft(LAMBDA n, nal : n + Len(nal), 0, list)

FeederTypeOK ==
    /\ FILE_READ_SIZE \in ReadSizes /\ m_bVideoFile_ReadThread_Stop \in BOOLEAN
    /\ pc \in {"outer", "inner", "returned"}
    /\ offset \in 0..Len(File)
    /\ h264_buff \in Seq(Byte) /\ Len(h264_buff) <= 4
    /\ h264_nal_buff_list \in Seq(Seq(Byte))
    /\ h264_frame_buff \in Seq(Byte)
    /\ m_nDataSize \in 0..Len(h264_frame_buff)
    /\ b_find_sps \in BOOLEAN /\ b_find_pps \in BOOLEAN /\ m_bInit \in BOOLEAN
    /\ found_frame_start \in BOOLEAN
    /\ i_begin_time \in 0..(TickRange - 1) /\ frame_count \in Nat
    /\ iframe_offset \in Nat /\ shown \subseteq Nat
    /\ sent \in [bytes : Seq(Byte), size : Nat, pts : Nat]
    /\ clock \in 0..MaxClock /\ began \in 0..MaxClock
    /\ first \in Nat /\ held \in Nat

FeederInit ==
    /\ FILE_READ_SIZE \in ReadSizes
    /\ m_bVideoFile_ReadThread_Stop = FALSE
    /\ pc = "outer"
    /\ offset = 0 /\ h264_buff = <<>> /\ h264_nal_buff_list = <<>>
    /\ h264_frame_buff = <<>> /\ m_nDataSize = 0 /\ found_frame_start = FALSE
    /\ sent = [bytes |-> <<>>, size |-> 0, pts |-> 0]
    /\ b_find_sps = FALSE /\ b_find_pps = FALSE /\ m_bInit = FALSE
    /\ i_begin_time = 0 /\ frame_count = 0 /\ iframe_offset = 0
    /\ began = 0 /\ shown = {}
    /\ clock = 0
    /\ first = 0 /\ held = 0

-----------------------------------------------------------------------------
(* The outer loop.                                                          *)

Enough == DataSize(h264_nal_buff_list) >= FILE_READ_SIZE

\* The flag ends the loop.  With enough units at hand nothing is read, and a ReadFile that
\* fails adds nothing: what the last one left, of four bytes or less, is not split again.
LoopWhile(on) ==
    /\ pc = "outer"
    /\ \/ ~on /\ pc' = "returned"
       \/ on /\ pc' = "inner"
    /\ UNCHANGED <<fileVars, bufferVars, frameVars, initVars, paceVars, clock>>

\* (The flag read once, before the loop.)
LoopForEver == LoopWhile(TRUE)

Loop == LoopWhile(~m_bVideoFile_ReadThread_Stop)

Reads == pc = "outer" /\ ~m_bVideoFile_ReadThread_Stop /\ ~Enough

\* At its end the file starts again.
Rewind ==
    /\ Reads /\ offset = Len(File)
    /\ offset' = 0
    /\ UNCHANGED <<fileVars, pc, h264_buff, h264_nal_buff_list,
                   frameVars, initVars, paceVars, clock>>

\* ReadFile, AppendData and h264_split_nal.
Read ==
    /\ Reads /\ offset < Len(File)
    /\ LET end == Min({offset + FILE_READ_SIZE, Len(File)})
           cut == Split(h264_buff \o SubSeq(File, offset + 1, end))
       IN /\ offset' = end
          /\ h264_buff' = cut.rest
          /\ h264_nal_buff_list' = h264_nal_buff_list \o cut.nals
    /\ pc' = "inner"
    /\ UNCHANGED <<fileVars, frameVars, initVars, paceVars, clock>>

-----------------------------------------------------------------------------
(* The inner loop.                                                          *)

Feeding == b_find_sps /\ b_find_pps

Wrapped == GetTickCount < i_begin_time

Due == GetTickCount - i_begin_time >= frame_count * Period

\* Once frames are sent, the thread waits for the time of the next (10 ms, by
\* way of the outer loop); with nothing to take it reads.
Leave ==
    /\ pc = "inner"
    /\ \/ Feeding /\ ~Wrapped /\ ~Due
       \/ h264_nal_buff_list = <<>> /\ (Feeding => ~Wrapped /\ Due)
    /\ pc' = "outer"
    /\ UNCHANGED <<fileVars, bufferVars, frameVars, initVars, paceVars, clock>>

\* A clock that went back restarts the count at begin.
RestartAt(begin) ==
    /\ pc = "inner" /\ Feeding /\ Wrapped
    /\ i_begin_time' = begin
    /\ frame_count' = 0
    /\ began' = clock /\ shown' = {}
    /\ UNCHANGED <<fileVars, pc, iframe_offset, bufferVars, frameVars, initVars, clock>>

RestartAtZero == RestartAt(0)

Restart == RestartAt(GetTickCount)

\* The frame's buffer with a unit behind size bytes of data: it grows to what
\* is needed and no further, and keeps what lies behind.
AppendAt(size, nal) ==
    SubSeq(h264_frame_buff, 1, size) \o nal
        \o SubSeq(h264_frame_buff, size + Len(nal) + 1, Len(h264_frame_buff))

\* The first PPS after an SPS, or that PPS when the SPS is known, initialises the
\* stream.  (Not: the first SPS.)
InitAtSps(sps, pps) == ~b_find_sps /\ sps /\ pps

InitNow(sps, pps) == ~b_find_pps /\ sps /\ pps

\* A frame is sent with its time: all of the buffer, of which cleared bytes
\* remain as data.
SendFrame(nal, buffer, size, cleared) ==
    LET count   == frame_count + 1
        isIntra == HasSlice(nal) /\ Intra(nal)
        time    == h264_get_pts_rtp(nal, count)
    IN /\ sent' = [bytes |-> buffer, size |-> size, pts |-> time]
       /\ iframe_offset' = IF isIntra THEN count ELSE iframe_offset
       /\ shown' = IF isIntra \/ shown # {} THEN shown \cup {time} ELSE {}
       /\ m_nDataSize' = cleared

\* One unit is taken, and may end a frame.
TakeWith(nal, buffer, size, cleared) ==
    /\ pc = "inner"
    /\ Feeding => ~Wrapped /\ Due
    /\ LET sps   == b_find_sps \/ (NalType(nal) = SPS /\ HasTiming(nal))
           pps   == b_find_pps \/ NalType(nal) = PPS
           count == IF Gathered(nal) THEN held + 1 ELSE held
       IN /\ b_find_sps' = sps /\ b_find_pps' = pps
          /\ IF InitNow(sps, pps)
             THEN m_bInit' = TRUE /\ i_begin_time' = GetTickCount /\ began' = clock
             ELSE UNCHANGED <<m_bInit, i_begin_time, began>>
          /\ h264_frame_buff' = buffer
          /\ IF FrameEnds(nal) /\ sps /\ pps
             THEN /\ SendFrame(nal, buffer, size, cleared)
                  /\ first' = first + count /\ held' = 0
             ELSE /\ m_nDataSize' = size
                  /\ held' = count
                  /\ UNCHANGED <<sent, first, iframe_offset, shown>>
    /\ found_frame_start' = (Starting(nal) /\ ~FrameEnds(nal))
    /\ frame_count' = IF FrameEnds(nal) THEN frame_count + 1 ELSE frame_count
    /\ h264_nal_buff_list' = Tail(h264_nal_buff_list)
    /\ UNCHANGED <<fileVars, pc, offset, h264_buff, clock>>

TakeAndClear(appended, cleared) ==
    /\ h264_nal_buff_list # <<>>
    /\ LET nal == Head(h264_nal_buff_list)
       IN IF Gathered(nal)
          THEN TakeWith(nal, appended, m_nDataSize + Len(nal), cleared)
          ELSE TakeWith(nal, h264_frame_buff, m_nDataSize, cleared)

\* (The buffer not cleared after a frame.)
TakeNotCleared == TakeAndClear(AppendAt(m_nDataSize, Head(h264_nal_buff_list)), m_nDataSize)

Take == TakeAndClear(AppendAt(m_nDataSize, Head(h264_nal_buff_list)), 0)

-----------------------------------------------------------------------------
\* RtspService_t::Release, from another thread; and the passage of time.
Stop ==
    /\ m_bVideoFile_ReadThread_Stop' = TRUE
    /\ UNCHANGED <<FILE_READ_SIZE, pc, bufferVars, frameVars, initVars, paceVars, clock>>

Tick ==
    /\ clock < MaxClock
    /\ clock' = clock + 1
    /\ UNCHANGED <<fileVars, pc, bufferVars, frameVars, initVars, paceVars>>

InnerStep == Leave \/ Restart \/ Take

FeederNext == Loop \/ Rewind \/ Read \/ InnerStep \/ Stop \/ Tick

\* The feeder is a thread of the process: it runs.  (That it reads when it may
\* is not needed for what is claimed below.)
FeederSpec ==
    FeederInit /\ [][FeederNext]_feederVars /\ WF_feederVars(Loop) /\ WF_feederVars(InnerStep)

-----------------------------------------------------------------------------
(* Files, as the theorems need them.                                        *)

\* No start code has a zero behind it: the header of a unit is none.
Coded(data) == \A n \in 0..(Len(data) - 4) : StartsAt(data, n) => data[n + 4] # 0

\* A usable SPS is in front of any PPS.
SetsInFront(nals) ==
    \E k \in DOMAIN nals :
        /\ NalType(nals[k]) = SPS /\ HasTiming(nals[k])
        /\ \A j \in 1..k : NalType(nals[j]) # PPS

\* What the first read puts in the list.
FirstRead(n) == Split(SubSeq(File, 1, Min({n, Len(File)}))).nals

\* A file of which a read takes a part only has the sets in its first one.
SetsAreRead ==
    \A n \in ReadSizes : n < Len(File) /\ SetsInFront(FileNals) => SetsInFront(FirstRead(n))

\* What the k-th unit of the file is.
Usable(k) == NalType(FileNals[k]) = SPS /\ HasTiming(FileNals[k])

IsPps(k) == NalType(FileNals[k]) = PPS

\* A unit that ends a frame whatever came before it, behind both sets.
Closes(k) ==
    /\ NalType(FileNals[k]) \in Slices /\ \E j \in 4..Len(FileNals[k]) : FileNals[k][j] >= 128
    /\ \E s, p \in 1..(k - 1) : Usable(s) /\ IsPps(p)

\* What the feeder is made for: the sets are found before a frame ends, and when the
\* file has been cut nothing of it is left.
PlayableFile ==
    /\ Coded(File) /\ Split(File).rest = <<>>
    /\ \E k \in 1..Len(FileNals) : Closes(k)

\* A file that may follow itself: it begins with a start code, and its last unit does
\* not look like a part of that.
RepeatableFile ==
    /\ Len(File) > 3 /\ File[Len(File)] # 0 /\ Coded(File \o File)
    /\ StartsAt(File, 0) \/ (File[1] = 0 /\ StartsAt(File, 1))

-----------------------------------------------------------------------------
(* Of a file read in one piece, the data of the frame's buffer are units of  *)
(* the file, each one whole, in the order of the file, none lost and none    *)
(* twice, from one frame to the next and past the end of the file; and once  *)
(* frames are sent they are never more than the file has.                    *)
FrameHasItsUnits ==
    LET units == FileUnits
        n     == Len(units)
    IN FILE_READ_SIZE >= Len(File) =>
        /\ SubSeq(h264_frame_buff, 1, m_nDataSize) =
               FlattenSeq([j \in 1..held |-> units[((first + j - 1) % n) + 1]])
        /\ Feeding => held <= n

\* With the types.
FeederInv == FeederTypeOK /\ FrameHasItsUnits

(* A file longer than a read is cut only where a read ends: of the units that*)
(* a read adds, all but the last are units of the file, also the first one   *)
(* behind a unit that was cut.                                               *)
ResumesAfterCut ==
    [][\A k \in (Len(h264_nal_buff_list) + 1)..(Len(h264_nal_buff_list') - 1) :
           Contains(FileNals, h264_nal_buff_list'[k])]_feederVars

(* In a file with a usable SPS in front of its first PPS no frame is sent    *)
(* before the stream is initialised, also if that SPS is not the first.      *)
FramesAfterInit == SetsInFront(FileNals) => (sent.size > 0 => m_bInit)

(* For a file whose orders count from each I picture: from the first one     *)
(* after the count began, each frame that ends in a slice has a time of its  *)
(* own, which differs from that of its sending by no more than the frames    *)
(* are reordered.  (Up to that I picture the offset is an old one when the   *)
(* tick count has started again.)                                            *)
TimesFollowTheFrames ==
    [][frame_count' > frame_count /\ shown' # {} /\ HasSlice(Head(h264_nal_buff_list)) =>
           /\ sent'.pts \notin shown
           /\ sent'.pts \in (2 * (frame_count' - Reorder))..(2 * (frame_count' + Reorder))
      ]_feederVars

(* No frame is sent before its time, even when the clock wraps: when one     *)
(* ends, a period has passed since the count began for every frame counted.  *)
(* (The frames counted before, of a file that begins with frames, delay it.) *)
NotEarly ==
    [][frame_count' > frame_count /\ Feeding => frame_count * Period <= clock - began]_feederVars

(* The thread ends once it is told to, also while it waits for a frame's time*)
(* or reads on in a file without frames.                                    *)
StopEnds == m_bVideoFile_ReadThread_Stop ~> pc = "returned"

(* What RtspService.h says of the feeder and the code does not always do.   *)

\* Line 18: the buffer that is sent holds the NAL data of one frame.  (What
\* TransportData is given is all of the buffer, a longer frame before included.)
SendsOnlyTheFrame == Len(sent.bytes) = sent.size
=============================================================================

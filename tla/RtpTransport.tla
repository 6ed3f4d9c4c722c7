---------------------------- MODULE RtpTransport ----------------------------
(***************************************************************************)
(* The paced sender (Rtsp/RtpTransport.cpp) over its pool of buffers under *)
(* a lock (Include/VBufferT.h): the caller of Setup, Run, Stop and the     *)
(* destructor, the feeder in SetRtpData, and the sending thread.  Each     *)
(* operation of the pool holds the pool's lock, and is one step; what a    *)
(* thread does with a buffer it has taken out is not under any lock.       *)
(***************************************************************************)
EXTENDS Sums, FiniteSets, SequencesExt, FiniteSetsExt

CONSTANTS
    Buffer,     \* the RtpBuffers there can be
    NoBuffer,   \* a NULL pointer
    Sizes,      \* sizes of packets, in bytes
    MTU,        \* m_nMTU
    BandWidth,  \* m_nBandWidth, in kbit/s
    MaxPackets, \* bound: how many packets are accepted,
    MaxElapsed, \* the ticks counted since nBeginTick,
    MaxWraps    \* and how often the tick count starts again

ASSUME RtpTransportAssumption ==
    /\ NoBuffer \notin Buffer
    /\ Sizes \subseteq Nat \ {0} /\ Sizes # {} /\ MTU \in Nat /\ BandWidth \in Nat
    /\ MaxPackets \in Nat /\ MaxElapsed \in Nat /\ MaxWraps \in Nat

VARIABLES
    m_bSetup, m_bRun,
    m_pRtp,                     \* NULL, deleted, or an Rtp
    m_eStopTransport,           \* the auto-reset event is set
    pc,                         \* where each of the three threads is
    after,                      \* where the caller of Stop goes on
    m_FullBuffer, m_EmptyBuffer, m_nDataSize,   \* the pool
    made,                       \* the buffers allocated and not deleted
    held,                       \* the buffer the feeder and the sender have
    content,                    \* the packet in each buffer
    input,                      \* the packet SetRtpData is called with
    accepted,                   \* how many packets have been queued
    wire,                       \* the last packet sent
    nSendSize, elapsed,         \* bytes and ticks since nBeginTick
    wrapped,                    \* the tick count is below nBeginTick
    wraps                       \* how often it started again

poolVars    == <<m_FullBuffer, m_EmptyBuffer, m_nDataSize, made>>
controlVars == <<m_bSetup, m_bRun, m_pRtp, after>>
paceVars    == <<nSendSize, elapsed, wrapped, wraps>>
dataVars    == <<content, input, accepted, wire>>
vars == <<controlVars, m_eStopTransport, pc, poolVars, held, dataVars, paceVars>>

Threads == {"control", "feeder", "sender"}

Go(thread, place) == pc' = [pc EXCEPT ![thread] = place]

SizeOf(b) == content[b].size

NoPacket == [n |-> 0, size |-> 0]

Init ==
    /\ m_bSetup = FALSE /\ m_bRun = FALSE /\ m_pRtp = "NULL" /\ m_eStopTransport = FALSE
    /\ pc = [thread \in Threads |-> IF thread = "sender" THEN "none" ELSE "idle"]
    /\ after = "idle"
    /\ m_FullBuffer = <<>> /\ m_EmptyBuffer = <<>> /\ m_nDataSize = 0 /\ made = {}
    /\ held = [feeder |-> NoBuffer, sender |-> NoBuffer]
    /\ content = [b \in Buffer |-> NoPacket]
    /\ input = NoPacket /\ accepted = 0 /\ wire = NoPacket
    /\ nSendSize = 0 /\ elapsed = 0 /\ wrapped = FALSE /\ wraps = 0

\* Both lists of the pool are deleted; not what a thread has taken out of them.
FreeBuffer ==
    LET freed == ToSet(m_FullBuffer) \cup ToSet(m_EmptyBuffer)
    IN /\ made' = made \ freed
       /\ content' = [b \in Buffer |-> IF b \in freed THEN NoPacket ELSE content[b]]
       /\ m_FullBuffer' = <<>> /\ m_EmptyBuffer' = <<>> /\ m_nDataSize' = 0

-----------------------------------------------------------------------------
(* The caller of Setup, Run, Stop and the destructor.                       *)

\* Stop: nothing if the thread does not run; else a signal, and the wait.
CallStop(continue) ==
    /\ pc["control"] = "idle"
    /\ continue = "destroy" => pc["feeder"] = "idle"
    /\ after' = continue
    /\ IF m_bRun THEN m_eStopTransport' = TRUE /\ Go("control", "wait")
                 ELSE Go("control", continue) /\ UNCHANGED m_eStopTransport
    /\ UNCHANGED <<m_bSetup, m_bRun, m_pRtp, poolVars, held, dataVars, paceVars>>

\* WaitForSingleObject on the thread, with no limit; the handles are closed.
JoinWhen(ended) ==
    /\ pc["control"] = "wait" /\ ended
    /\ m_bRun' = FALSE
    /\ Go("control", after)
    /\ UNCHANGED <<m_bSetup, m_pRtp, m_eStopTransport, after, poolVars, held, dataVars, paceVars>>

\* (The thread is not waited for.)
JoinAtOnce == JoinWhen(TRUE)

Join == JoinWhen(pc["sender"] = "ended")

\* Setup, behind its Stop.
DeleteRtp ==
    /\ pc["control"] = "setup"
    /\ m_bSetup' = FALSE
    /\ m_pRtp' = IF m_pRtp = "NULL" THEN "NULL" ELSE "deleted"
    /\ Go("control", "new")
    /\ UNCHANGED <<m_bRun, m_eStopTransport, after, poolVars, held, dataVars, paceVars>>

\* The destructor, behind its Stop, and that of the pool.
Destroy ==
    /\ pc["control"] = "destroy"
    /\ m_pRtp' = IF m_pRtp = "NULL" THEN "NULL" ELSE "deleted"
    /\ FreeBuffer
    /\ Go("control", "gone")
    /\ UNCHANGED <<m_bSetup, m_bRun, m_eStopTransport, after, held, input, accepted, wire,
                   paceVars>>

\* new Rtp, Open and Connect, of which either may fail.
NewRtp ==
    /\ pc["control"] = "new"
    /\ m_pRtp' = "open"
    /\ m_bSetup' \in BOOLEAN
    /\ Go("control", "idle") /\ after' = "idle"
    /\ UNCHANGED <<m_bRun, m_eStopTransport, poolVars, held, dataVars, paceVars>>

\* Run: the pool is emptied, the thread is made, and then m_bRun is set.
RunFree ==
    /\ pc["control"] = "idle" /\ m_bSetup /\ ~m_bRun
    /\ FreeBuffer
    /\ Go("control", "start")
    /\ UNCHANGED <<controlVars, m_eStopTransport, held, input, accepted, wire, paceVars>>

RunThread ==
    /\ pc["control"] = "start"
    /\ m_eStopTransport' = FALSE
    /\ pc' = [pc EXCEPT !["control"] = "started", !["sender"] = "check"]
    /\ UNCHANGED <<controlVars, poolVars, held, dataVars, paceVars>>

RunFlag ==
    /\ pc["control"] = "started"
    /\ m_bRun' = TRUE
    /\ Go("control", "idle")
    /\ UNCHANGED <<m_bSetup, m_pRtp, m_eStopTransport, after, poolVars, held, dataVars, paceVars>>

-----------------------------------------------------------------------------
(* SetRtpData, called by the feeder.                                        *)

\* More than this waiting, and a packet is refused.
Limit == BandWidth * 10

\* A new buffer is never refused: the memory is enough for a full queue of the smallest
\* packets, for one that is sent and one that is filled.
ASSUME MemoryAssumption ==
    IsFiniteSet(Buffer) => Cardinality(Buffer) >= Limit \div Min(Sizes) + 2

\* A packet too big, or one too many in the queue, is dropped: nothing changes.
\* (Who deletes the object has stopped calling this.)
SetRtpDataIf(room, size) ==
    /\ pc["feeder"] = "idle" /\ after # "destroy" /\ accepted < MaxPackets
    /\ size <= MTU
    /\ room
    /\ input' = [n |-> accepted + 1, size |-> size]
    /\ Go("feeder", "get")
    /\ UNCHANGED <<controlVars, m_eStopTransport, poolVars, held, content, accepted, wire,
                   paceVars>>

\* (The limit in bits like the pace.)
SetRtpDataInBits(size) == SetRtpDataIf(m_nDataSize <= Limit * 1000, size)

SetRtpData(size) == SetRtpDataIf(m_nDataSize <= Limit, size)

\* The first empty buffer, or a new one (which one does not matter).
FeederTakes(rest) ==
    /\ pc["feeder"] = "get"
    /\ IF m_EmptyBuffer # <<>>
       THEN /\ held' = [held EXCEPT !["feeder"] = Head(m_EmptyBuffer)]
            /\ m_EmptyBuffer' = rest
            /\ UNCHANGED made
       ELSE LET b == CHOOSE b \in Buffer : b \notin made
            IN made' = made \cup {b} /\ held' = [held EXCEPT !["feeder"] = b]
               /\ UNCHANGED m_EmptyBuffer
    /\ Go("feeder", "fill")
    /\ UNCHANGED <<controlVars, m_eStopTransport, m_FullBuffer, m_nDataSize, dataVars, paceVars>>

\* (front without pop_front.)
FeederGetFront == FeederTakes(m_EmptyBuffer)

FeederGet == FeederTakes(Tail(m_EmptyBuffer))

FeederFill ==
    /\ pc["feeder"] = "fill"
    /\ content' = [content EXCEPT ![held["feeder"]] = input]
    /\ Go("feeder", "add")
    /\ UNCHANGED <<controlVars, m_eStopTransport, poolVars, held, input, accepted, wire, paceVars>>

FeederAdd ==
    /\ pc["feeder"] = "add"
    /\ m_FullBuffer' = Append(m_FullBuffer, held["feeder"])
    /\ m_nDataSize' = m_nDataSize + SizeOf(held["feeder"])
    /\ held' = [held EXCEPT !["feeder"] = NoBuffer]
    /\ accepted' = accepted + 1 /\ input' = NoPacket
    /\ Go("feeder", "idle")
    /\ UNCHANGED <<controlVars, m_eStopTransport, m_EmptyBuffer, made, content, wire, paceVars>>

-----------------------------------------------------------------------------
(* The sending thread.                                                      *)

\* The measure of the pace at its beginning.  (Its variables go with the thread.)
Measure == nSendSize' = 0 /\ elapsed' = 0 /\ wrapped' = FALSE

\* The event, which a wait that sees it clears, ends the loop.
SenderCheckWith(ends) ==
    /\ pc["sender"] = "check"
    /\ m_eStopTransport' = FALSE
    /\ IF ends THEN Go("sender", "ended") /\ Measure
               ELSE Go("sender", "pace") /\ UNCHANGED <<nSendSize, elapsed, wrapped>>
    /\ UNCHANGED <<controlVars, poolVars, held, dataVars, wraps>>

\* (While something is queued the signal is cleared and goes unheeded.)
SenderCheckDrains == SenderCheckWith(m_eStopTransport /\ m_FullBuffer = <<>>)

SenderCheck == SenderCheckWith(m_eStopTransport)

\* A tick count below nBeginTick starts the measure again.
SenderRestart ==
    /\ pc["sender"] = "pace" /\ wrapped
    /\ Measure
    /\ UNCHANGED <<controlVars, m_eStopTransport, pc, poolVars, held, dataVars, wraps>>

\* (The bytes not divided by the time.)
TooMuch == elapsed > 0 /\ nSendSize > BandWidth * 1000

\* nTransportSpeed > nBandWidth
TooFast == elapsed > 0 /\ nSendSize \div elapsed > BandWidth * 1000

\* Too fast, or nothing to send: Sleep and continue.
SenderSleep ==
    /\ pc["sender"] = "pace" /\ ~wrapped
    /\ TooFast \/ m_FullBuffer = <<>>
    /\ Go("sender", "check")
    /\ UNCHANGED <<controlVars, m_eStopTransport, poolVars, held, dataVars, paceVars>>

TakeFull(b, rest) ==
    /\ pc["sender"] = "pace" /\ ~wrapped /\ ~TooFast /\ m_FullBuffer # <<>>
    /\ held' = [held EXCEPT !["sender"] = b]
    /\ m_FullBuffer' = rest
    /\ m_nDataSize' = m_nDataSize - SizeOf(b)
    /\ Go("sender", "write")
    /\ UNCHANGED <<controlVars, m_eStopTransport, m_EmptyBuffer, made, dataVars, paceVars>>

\* (From the end of the list.)
SenderGetLast == TakeFull(Last(m_FullBuffer), Front(m_FullBuffer))

SenderGet == TakeFull(Head(m_FullBuffer), Tail(m_FullBuffer))

\* A Write that fails is reported and not tried again.
SenderWrite ==
    /\ pc["sender"] = "write"
    /\ wire' \in {wire, content[held["sender"]]}
    /\ nSendSize' = nSendSize + SizeOf(held["sender"])
    /\ Go("sender", "return")
    /\ UNCHANGED <<controlVars, m_eStopTransport, poolVars, held, content, input, accepted,
                   elapsed, wrapped, wraps>>

\* (AddEmptyBuffer clears what the buffer holds.)
SenderReturn ==
    /\ pc["sender"] = "return"
    /\ m_EmptyBuffer' = Append(m_EmptyBuffer, held["sender"])
    /\ content' = [content EXCEPT ![held["sender"]] = NoPacket]
    /\ held' = [held EXCEPT !["sender"] = NoBuffer]
    /\ Go("sender", "check")
    /\ UNCHANGED <<controlVars, m_eStopTransport, m_FullBuffer, m_nDataSize, made, input, accepted,
                   wire, paceVars>>

-----------------------------------------------------------------------------
(* Time.  The tick count starts again every 49 days; that goes unnoticed if *)
(* it has passed nBeginTick before the next look (nBeginTick being small).  *)

Tick ==
    /\ pc["sender"] \notin {"none", "ended"}
    /\ elapsed < MaxElapsed /\ ~wrapped
    /\ elapsed' = elapsed + 1
    /\ UNCHANGED <<controlVars, m_eStopTransport, pc, poolVars, held, dataVars, nSendSize, wrapped,
                   wraps>>

Wrap ==
    /\ pc["sender"] \notin {"none", "ended"}
    /\ wraps < MaxWraps
    /\ wraps' = wraps + 1
    /\ \/ wrapped' = TRUE /\ UNCHANGED elapsed
       \/ elapsed' = 0 /\ UNCHANGED wrapped
    /\ UNCHANGED <<controlVars, m_eStopTransport, pc, poolVars, held, dataVars, nSendSize>>

ControlStep ==
    \/ \E continue \in {"idle", "setup", "destroy"} : CallStop(continue)
    \/ Join \/ DeleteRtp \/ Destroy \/ NewRtp \/ RunFree \/ RunThread \/ RunFlag

FeederStep == (\E size \in Sizes : SetRtpData(size)) \/ FeederGet \/ FeederFill \/ FeederAdd

SenderStep ==
    SenderCheck \/ SenderRestart \/ SenderSleep \/ SenderGet \/ SenderWrite \/ SenderReturn

Next == ControlStep \/ FeederStep \/ SenderStep \/ Tick \/ Wrap

\* The threads of the process run, and time goes on.  (Nothing is asked of the
\* caller but that it comes back from its wait, and nothing of the feeder.)
Spec ==
    /\ Init /\ [][Next]_vars
    /\ WF_vars(Join) /\ WF_vars(SenderStep) /\ WF_vars(Tick)

-----------------------------------------------------------------------------
(* Properties.                                                              *)

Holding(thread) == IF held[thread] = NoBuffer THEN <<>> ELSE <<held[thread]>>

(* Every buffer has one owner: a list of the pool, the feeder or the sending *)
(* thread; so neither fills or sends what the other has, none is lost and    *)
(* none used after Run has emptied the pool.  The counter that the limit     *)
(* goes by is what is queued.                                                *)
OneOwner ==
    LET all == m_FullBuffer \o m_EmptyBuffer \o Holding("feeder") \o Holding("sender")
    IN /\ made \subseteq Buffer /\ ToSet(all) = made /\ Len(all) = Cardinality(made)
       /\ m_nDataSize = Total([k \in DOMAIN m_FullBuffer |-> SizeOf(m_FullBuffer[k])])

\* The last packet sent, the one about to be, and those queued.
Line ==
    <<wire>> \o [k \in 1..(IF pc["sender"] = "write" THEN 1 ELSE 0) |-> content[held["sender"]]]
             \o [k \in DOMAIN m_FullBuffer |-> content[m_FullBuffer[k]]]

(* Packets leave in the order they were accepted and each at most once, over *)
(* every Stop, Setup and Run.                                                *)
SentInOrder == \A k \in 1..(Len(Line) - 1) : Line[k].n < Line[k + 1].n

(* The queue exceeds its limit by less than a packet, though it is asked     *)
(* before the packet is added; and the pool does not grow with the stream.   *)
QueueBounded ==
    /\ m_nDataSize <= Limit + MTU
    /\ Cardinality(made) <= Limit \div Min(Sizes) + 2

(* As Stop, Setup or the destructor goes on, the sending thread has ended:   *)
(* it never meets an Rtp that is deleted, and nothing is sent in between.    *)
StoppedIsQuiet ==
    pc["sender"] \in {"check", "pace", "write", "return"} =>
        /\ m_pRtp = "open"
        /\ m_bRun \/ pc["control"] = "started"

(* Stop returns, whatever the sending thread is doing.                       *)
StopReturns == pc["control"] = "wait" ~> pc["control"] # "wait"

(* What is queued leaves while the transport runs: the pace does not hold it *)
(* back for ever, also when the tick count starts again.                     *)
QueueMoves ==
    \A n \in 1..MaxPackets :
        LET Queued == \E k \in DOMAIN m_FullBuffer : content[m_FullBuffer[k]].n = n
        IN Queued /\ m_bRun ~> ~Queued \/ ~m_bRun
=============================================================================

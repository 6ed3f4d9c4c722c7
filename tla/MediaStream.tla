----------------------------- MODULE MediaStream -----------------------------
(***************************************************************************)
(* One MediaStream object (Rtsp/MediaStream.cpp, Rtsp/MediaStreamH264.cpp) *)
(* and the threads that share it: the RtspSession threads, which call      *)
(* TransportSetup, TransportStart, TransportStop and TransportTeardown in  *)
(* whatever order their clients ask for, and the feeder thread, which calls*)
(* Init once and TransportData for every frame.  Each step is one access   *)
(* to what they share.                                                     *)
(***************************************************************************)
EXTENDS Naturals

CONSTANTS
    Session,        \* the session threads
    Feeder,         \* the thread of RtspService.h that reads the H.264 file
    NoThread,       \* "nobody": the owner of a free lock
    Address,        \* the addresses operator new can return
    NULL,           \* the null pointer
    MaxFragments,   \* bound: packets a NAL unit is split into
    MaxNals         \* bound: NAL units in a frame

Thread == Session \cup {Feeder}

ASSUME ThreadAssumption ==
    /\ Feeder \notin Session
    /\ NoThread \notin Thread

ASSUME HeapAssumption == NULL \notin Address

ASSUME BoundAssumption ==
    /\ MaxFragments \in Nat \ {0}
    /\ MaxNals \in Nat \ {0}

VARIABLES
    \* the fields of the object
    m_bInit, m_bSetup, m_bRun, m_pRtpTransport,
    m_tlockRun,     \* the thread inside the critical section
    \* the Rtp objects
    rtp,            \* what lies at each address
    peer,           \* the session each Rtp object was connected for
    \* the threads
    pc,             \* where each thread is
    ending,         \* a session's TransportStop was called by TransportTeardown
    nals,           \* NAL units of the frame the feeder still has to handle
    frags, frag,    \* packets of the current NAL unit, and the next of them
    loaded,         \* m_pRtpTransport as the feeder's call of Write read it
    wire,           \* the last packet handed to Rtp::Write
    fault           \* the process died of a wild pointer

streamVars == <<m_bInit, m_bSetup, m_bRun, m_pRtpTransport, m_tlockRun>>
heapVars   == <<rtp, peer>>
feederVars == <<nals, frags, frag, loaded, wire>>
vars == <<streamVars, heapVars, feederVars, pc, ending, fault>>

-----------------------------------------------------------------------------
RtpState == {"free", "new", "open", "connected"}

SessionPC == {"idle", "setupDelete", "setupNew", "setupOpen", "setupConnect",
              "setupDone", "startLock", "startRun", "stopLock", "stopRun",
              "teardownDelete", "teardownNull"}

FeederPC == {"idle", "nalLock", "nalCheck", "load", "write", "nalUnlock"}

Packet == [index : 1..MaxFragments, count : 1..MaxFragments,
           marker : BOOLEAN, to : Session \cup {NoThread}]

TypeOK ==
    /\ m_bInit \in BOOLEAN /\ m_bSetup \in BOOLEAN /\ m_bRun \in BOOLEAN
    /\ m_pRtpTransport \in Address \cup {NULL}
    /\ m_tlockRun \in Thread \cup {NoThread}
    /\ rtp \in [Address -> RtpState]
    /\ peer \in [Address -> Session \cup {NoThread}]
    /\ pc \in [Thread -> SessionPC \cup FeederPC]
    /\ \A s \in Session : pc[s] \in SessionPC
    /\ pc[Feeder] \in FeederPC
    /\ ending \in [Session -> BOOLEAN]
    /\ nals \in 0..MaxNals
    /\ frags \in 1..MaxFragments /\ frag \in 1..MaxFragments
    /\ loaded \in Address \cup {NULL}
    /\ wire \in Packet
    /\ fault \in BOOLEAN

Init ==
    /\ m_bInit = FALSE /\ m_bSetup = FALSE /\ m_bRun = FALSE
    /\ m_pRtpTransport = NULL
    /\ m_tlockRun = NoThread
    /\ rtp = [a \in Address |-> "free"]
    /\ peer = [a \in Address |-> NoThread]
    /\ pc = [t \in Thread |-> "idle"]
    /\ ending = [s \in Session |-> FALSE]
    /\ nals = 0 /\ frags = 1 /\ frag = 1
    /\ loaded = NULL
    /\ wire = [index |-> 1, count |-> 1, marker |-> FALSE, to |-> NoThread]
    /\ fault = FALSE

\* Thread t takes one step of the code.
Step(t, from, to) ==
    /\ ~fault
    /\ pc[t] = from
    /\ pc' = [pc EXCEPT ![t] = to]
    /\ UNCHANGED fault

\* ATLock: EnterCriticalSection and LeaveCriticalSection.  (And, to see what it
\* is there for, a lock that is never released.)
NeverUnLock(t) == m_tlockRun = t /\ UNCHANGED m_tlockRun

Lock(t)   == m_tlockRun = NoThread /\ m_tlockRun' = t
UnLock(t) == m_tlockRun = t /\ m_tlockRun' = NoThread

Dangling(p) == p # NULL /\ rtp[p] = "free"

-----------------------------------------------------------------------------
(* TransportSetup.  It takes no lock.  Without Init it returns FALSE and    *)
(* changes nothing, which is no step here.                                  *)

CallSetup(s) ==
    /\ m_bInit
    /\ Step(s, "idle", "setupDelete")
    /\ m_bSetup' = FALSE
    /\ UNCHANGED <<m_bInit, m_bRun, m_pRtpTransport, m_tlockRun>>
    /\ UNCHANGED <<heapVars, feederVars, ending>>

\* delete m_pRtpTransport: a null pointer is skipped; a second delete of the
\* same object either goes unnoticed, as here, or kills the process (Crash).
DeleteTransport(s, from, to) ==
    /\ Step(s, from, to)
    /\ rtp'  = [a \in Address |-> IF a = m_pRtpTransport THEN "free" ELSE rtp[a]]
    /\ peer' = [a \in Address |-> IF a = m_pRtpTransport THEN NoThread ELSE peer[a]]
    /\ UNCHANGED <<streamVars, feederVars, ending>>

SetupDelete(s) == DeleteTransport(s, "setupDelete", "setupNew")

\* new Rtp(m_nMTU): any address that is not in use, a freed one included.
SetupNew(s) ==
    /\ Step(s, "setupNew", "setupOpen")
    /\ \E a \in Address :
         /\ rtp[a] = "free"
         /\ rtp' = [rtp EXCEPT ![a] = "new"]
         /\ m_pRtpTransport' = a
    /\ UNCHANGED <<m_bInit, m_bSetup, m_bRun, m_tlockRun>>
    /\ UNCHANGED <<peer, feederVars, ending>>

\* (Open with its result ignored.)
SetupOpenUnchecked(s) ==
    /\ m_pRtpTransport # NULL
    /\ Step(s, "setupOpen", "setupConnect")
    /\ rtp' \in {rtp, [rtp EXCEPT ![m_pRtpTransport] = "open"]}
    /\ UNCHANGED <<streamVars, peer, feederVars, ending>>

\* Rtp::Open binds the local port; it fails on an object that is open already
\* and whenever a socket call does.  TransportSetup then returns FALSE.
SetupOpen(s) ==
    /\ m_pRtpTransport # NULL
    /\ \/ /\ rtp[m_pRtpTransport] \in {"new", "free"}
          /\ Step(s, "setupOpen", "setupConnect")
          /\ rtp' = IF Dangling(m_pRtpTransport) THEN rtp
                    ELSE [rtp EXCEPT ![m_pRtpTransport] = "open"]
       \/ Step(s, "setupOpen", "idle") /\ UNCHANGED rtp
    /\ UNCHANGED <<streamVars, peer, feederVars, ending>>

\* (Connect with its result ignored.)
SetupConnectUnchecked(s) ==
    /\ m_pRtpTransport # NULL
    /\ Step(s, "setupConnect", "setupDone")
    /\ UNCHANGED <<streamVars, heapVars, feederVars, ending>>

\* Rtp::Connect fixes the client's address; it fails on a closed object.
SetupConnect(s) ==
    /\ m_pRtpTransport # NULL
    /\ \/ /\ rtp[m_pRtpTransport] \in {"open", "connected"}
          /\ Step(s, "setupConnect", "setupDone")
          /\ rtp' = [rtp EXCEPT ![m_pRtpTransport] = "connected"]
          /\ peer' = [peer EXCEPT ![m_pRtpTransport] = s]
       \/ /\ Dangling(m_pRtpTransport)
          /\ Step(s, "setupConnect", "setupDone")
          /\ UNCHANGED heapVars
       \/ Step(s, "setupConnect", "idle") /\ UNCHANGED heapVars
    /\ UNCHANGED <<streamVars, feederVars, ending>>

SetupDone(s) ==
    /\ Step(s, "setupDone", "idle")
    /\ m_bSetup' = TRUE
    /\ UNCHANGED <<m_bInit, m_bRun, m_pRtpTransport, m_tlockRun>>
    /\ UNCHANGED <<heapVars, feederVars, ending>>

-----------------------------------------------------------------------------
(* TransportStart: m_bSetup is read before the lock is taken.               *)

CallStart(s) ==
    /\ m_bSetup
    /\ Step(s, "idle", "startLock")
    /\ UNCHANGED <<streamVars, heapVars, feederVars, ending>>

StartLock(s) ==
    /\ Step(s, "startLock", "startRun")
    /\ Lock(s)
    /\ UNCHANGED <<m_bInit, m_bSetup, m_bRun, m_pRtpTransport>>
    /\ UNCHANGED <<heapVars, feederVars, ending>>

StartRun(s) ==
    /\ Step(s, "startRun", "idle")
    /\ m_bRun' = TRUE
    /\ UnLock(s)
    /\ UNCHANGED <<m_bInit, m_bSetup, m_pRtpTransport>>
    /\ UNCHANGED <<heapVars, feederVars, ending>>

(* TransportStop, on its own or as the first half of TransportTeardown,     *)
(* which deletes the transport outside the lock and leaves m_bSetup alone.  *)

CallStop(s) ==
    /\ Step(s, "idle", "stopLock")
    /\ UNCHANGED <<streamVars, heapVars, feederVars, ending>>

CallTeardown(s) ==
    /\ Step(s, "idle", "stopLock")
    /\ ending' = [ending EXCEPT ![s] = TRUE]
    /\ UNCHANGED <<streamVars, heapVars, feederVars>>

StopLock(s) ==
    /\ Step(s, "stopLock", "stopRun")
    /\ Lock(s)
    /\ UNCHANGED <<m_bInit, m_bSetup, m_bRun, m_pRtpTransport>>
    /\ UNCHANGED <<heapVars, feederVars, ending>>

StopRun(s) ==
    /\ Step(s, "stopRun", IF ending[s] THEN "teardownDelete" ELSE "idle")
    /\ m_bRun' = FALSE
    /\ UnLock(s)
    /\ ending' = [ending EXCEPT ![s] = FALSE]
    /\ UNCHANGED <<m_bInit, m_bSetup, m_pRtpTransport>>
    /\ UNCHANGED <<heapVars, feederVars>>

TeardownDelete(s) == DeleteTransport(s, "teardownDelete", "teardownNull")

\* (The pointer left dangling.)
TeardownKeepsPointer(s) ==
    /\ Step(s, "teardownNull", "idle")
    /\ UNCHANGED <<streamVars, heapVars, feederVars, ending>>

TeardownNull(s) ==
    /\ Step(s, "teardownNull", "idle")
    /\ m_pRtpTransport' = NULL
    /\ UNCHANGED <<m_bInit, m_bSetup, m_bRun, m_tlockRun>>
    /\ UNCHANGED <<heapVars, feederVars, ending>>

-----------------------------------------------------------------------------
(* The feeder: Init, and TransportData with one critical section per NAL.   *)

FeederInit ==
    /\ Step(Feeder, "idle", "idle")
    /\ m_bInit' = TRUE
    /\ UNCHANGED <<m_bSetup, m_bRun, m_pRtpTransport, m_tlockRun>>
    /\ UNCHANGED <<heapVars, feederVars, ending>>

\* A frame of n NAL units reaches TransportData.
FeederFrame(n) ==
    /\ Step(Feeder, "idle", "nalLock")
    /\ nals' = n
    /\ UNCHANGED <<frags, frag, loaded, wire>>
    /\ UNCHANGED <<streamVars, heapVars, ending>>

NalLock ==
    /\ Step(Feeder, "nalLock", "nalCheck")
    /\ Lock(Feeder)
    /\ UNCHANGED <<m_bInit, m_bSetup, m_bRun, m_pRtpTransport>>
    /\ UNCHANGED <<heapVars, feederVars, ending>>

\* TransportH264Nal returns to the loop of TransportData; its locals are gone.
NalReturn(from) ==
    /\ Step(Feeder, from, IF nals > 1 THEN "nalLock" ELSE "idle")
    /\ UnLock(Feeder)
    /\ nals' = IF nals > 1 THEN nals - 1 ELSE 0
    /\ frags' = 1 /\ frag' = 1
    /\ UNCHANGED <<m_bInit, m_bSetup, m_bRun, m_pRtpTransport>>
    /\ UNCHANGED <<heapVars, loaded, wire, ending>>

\* Nothing is sent: m_bRun is FALSE, or the unit is short or an SPS or a PPS.
NalDrop == NalReturn("nalCheck")

\* The unit makes n packets: itself if it fits the MTU, else FU-A fragments.
NalBegin(n) ==
    /\ Step(Feeder, "nalCheck", "load")
    /\ frags' = n /\ frag' = 1
    /\ UNCHANGED <<nals, loaded, wire>>
    /\ UNCHANGED <<streamVars, heapVars, ending>>

\* That happens only while the stream runs.
NalSplit(n) == m_bRun /\ NalBegin(n)

\* m_pRtpTransport->Write(...): the pointer is read, then the call goes through
\* it.  A packet reaches the client only through a connected object.
LoadTransport ==
    /\ Step(Feeder, "load", "write")
    /\ loaded' = m_pRtpTransport
    /\ UNCHANGED <<nals, frags, frag, wire>>
    /\ UNCHANGED <<streamVars, heapVars, ending>>

Write(more) ==
    /\ loaded # NULL
    /\ Step(Feeder, "write", IF more THEN "load" ELSE "nalUnlock")
    /\ frag' = IF more THEN frag + 1 ELSE frag
    /\ wire' = [index  |-> frag,
                count  |-> frags,
                marker |-> nals = 1 /\ frag = frags,
                to     |-> IF rtp[loaded] = "connected" THEN peer[loaded] ELSE NoThread]
    /\ loaded' = NULL
    /\ UNCHANGED <<nals, frags>>
    /\ UNCHANGED <<streamVars, heapVars, ending>>

\* The loop over the fragments, and one that goes one too far.
WriteOneTooMany == Write(frag <= frags)

WritePacket == Write(frag < frags)

NalUnlock == NalReturn("nalUnlock")

-----------------------------------------------------------------------------
\* A call through a null or a freed pointer, or a second delete: undefined
\* behaviour, of which the death of the process is one outcome.
WildAccess(t) ==
    \/ pc[t] \in {"setupDelete", "teardownDelete"} /\ Dangling(m_pRtpTransport)
    \/ /\ pc[t] \in {"setupOpen", "setupConnect"}
       /\ m_pRtpTransport = NULL \/ Dangling(m_pRtpTransport)
    \/ pc[t] = "write" /\ (loaded = NULL \/ Dangling(loaded))

Crash(t) ==
    /\ ~fault
    /\ WildAccess(t)
    /\ fault' = TRUE
    /\ UNCHANGED <<streamVars, heapVars, feederVars, pc, ending>>

\* After a crash there is no process left to take a step.
Crashed == fault /\ UNCHANGED vars

Request(s) == CallSetup(s) \/ CallStart(s) \/ CallStop(s) \/ CallTeardown(s)

SetupStep(s) ==
    SetupDelete(s) \/ SetupNew(s) \/ SetupOpen(s) \/ SetupConnect(s) \/ SetupDone(s)

LockStep(s) == StartLock(s) \/ StopLock(s)

RunStep(s) == StartRun(s) \/ StopRun(s) \/ TeardownDelete(s) \/ TeardownNull(s)

FeederInput == FeederInit \/ \E n \in 1..MaxNals : FeederFrame(n)

FeederStep ==
    \/ NalLock \/ NalDrop \/ NalUnlock
    \/ \E n \in 1..MaxFragments : NalSplit(n)
    \/ LoadTransport \/ WritePacket

Next ==
    \/ \E s \in Session : Request(s) \/ SetupStep(s) \/ LockStep(s) \/ RunStep(s)
    \/ FeederInput \/ FeederStep
    \/ \E t \in Thread : Crash(t)
    \/ Crashed

Spec == Init /\ [][Next]_vars

-----------------------------------------------------------------------------
Holding == {"nalCheck", "load", "write", "nalUnlock", "startRun", "stopRun"}

\* m_tlockRun's owner is exactly the one thread inside a critical section.
LockOwner ==
    \A t \in Thread : (pc[t] \in Holding) <=> (m_tlockRun = t)

(* While the feeder splits and sends a NAL unit no session's TransportStop   *)
(* can clear m_bRun: the check on line 124 of MediaStreamH264.cpp still     *)
(* holds when the last fragment is written.                                 *)
GateHeld == pc[Feeder] \in {"load", "write", "nalUnlock"} => m_bRun

(* Between two fragments of a unit the last packet is the fragment before the*)
(* next one, of the same unit; otherwise it is the last of its unit.        *)
InFlight ==
    IF pc[Feeder] \in {"load", "write"} /\ frag > 1
    THEN wire.index = frag - 1 /\ wire.count = frags /\ frag <= frags
    ELSE wire.index = wire.count /\ frag <= frags

(* The inductive invariant: each conjunct needs those before it.            *)
Inv == TypeOK /\ LockOwner /\ GateHeld /\ InFlight

(* Whatever the sessions ask for, and in whatever order, TransportStart,    *)
(* TransportStop and TransportH264Nal behave as the three atomic operations *)
(* of StreamGate: packets only while the stream runs, units never cut.      *)
lastPacket == [index |-> wire.index, count |-> wire.count, marker |-> wire.marker]

Gate == INSTANCE StreamGate WITH gate <- m_bRun, packet <- lastPacket

GateSpec == Gate!Spec
=============================================================================

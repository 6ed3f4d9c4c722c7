------------------------- MODULE MediaStreamProofs -------------------------
(***************************************************************************)
(* For any number of sessions, addresses, NAL units and fragments: the lock*)
(* of a MediaStream is exclusive, the stream cannot stop in the middle of  *)
(* a NAL unit, and MediaStream implements StreamGate; and for clients that *)
(* take turns (OrderlyClients): no wild pointer, no leaked transport, and  *)
(* packets for the client being served only.                               *)
(***************************************************************************)
EXTENDS OrderlyClients, TLAPS

(* The types of all variables, over every step.                            *)
LEMMA TypeStep == TypeOK /\ [Next]_vars => TypeOK'
<1> SUFFICES ASSUME TypeOK, [Next]_vars PROVE TypeOK'
  OBVIOUS
<1> USE ThreadAssumption, HeapAssumption, BoundAssumption
    DEF TypeOK, Thread, SessionPC, FeederPC, RtpState, Packet, Step, Lock, UnLock
<1>1. ASSUME NEW s \in Session, Request(s) PROVE TypeOK'
  <2>1. CASE CallSetup(s)
    BY <2>1 DEF CallSetup, heapVars, feederVars
  <2>2. CASE CallStart(s)
    BY <2>2 DEF CallStart, streamVars, heapVars, feederVars
  <2>3. CASE CallStop(s)
    BY <2>3 DEF CallStop, streamVars, heapVars, feederVars
  <2>4. CASE CallTeardown(s)
    BY <2>4 DEF CallTeardown, streamVars, heapVars, feederVars
  <2> QED BY <1>1, <2>1, <2>2, <2>3, <2>4 DEF Request
<1>2. ASSUME NEW s \in Session, SetupStep(s) PROVE TypeOK'
  <2>1. CASE SetupDelete(s)
    BY <2>1 DEF SetupDelete, DeleteTransport, streamVars, feederVars
  <2>2. CASE SetupNew(s)
    BY <2>2 DEF SetupNew, feederVars
  <2>3. CASE SetupOpen(s)
    BY <2>3 DEF SetupOpen, streamVars, feederVars
  <2>4. CASE SetupConnect(s)
    BY <2>4 DEF SetupConnect, streamVars, heapVars, feederVars
  <2>5. CASE SetupDone(s)
    BY <2>5 DEF SetupDone, heapVars, feederVars
  <2> QED BY <1>2, <2>1, <2>2, <2>3, <2>4, <2>5 DEF SetupStep
<1>3. ASSUME NEW s \in Session, LockStep(s) \/ RunStep(s) PROVE TypeOK'
  <2>1. CASE StartLock(s) \/ StopLock(s)
    BY <2>1 DEF StartLock, StopLock, heapVars, feederVars
  <2>2. CASE StartRun(s)
    BY <2>2 DEF StartRun, heapVars, feederVars
  <2>5. CASE StopRun(s)
    <3>1. pc'[s] \in SessionPC /\ \A t \in Thread \ {s} : pc'[t] = pc[t]
      BY <2>5 DEF StopRun
    <3> QED BY <2>5, <3>1 DEF StopRun, heapVars, feederVars
  <2>3. CASE TeardownDelete(s)
    BY <2>3 DEF TeardownDelete, DeleteTransport, streamVars, feederVars
  <2>4. CASE TeardownNull(s)
    BY <2>4 DEF TeardownNull, heapVars, feederVars
  <2> QED BY <1>3, <2>1, <2>2, <2>3, <2>4, <2>5 DEF LockStep, RunStep
<1>4. CASE FeederInput
  <2>1. CASE FeederInit
    BY <2>1 DEF FeederInit, heapVars, feederVars
  <2>2. ASSUME NEW n \in 1..MaxNals, FeederFrame(n) PROVE TypeOK'
    BY <2>2 DEF FeederFrame, streamVars, heapVars
  <2> QED BY <1>4, <2>1, <2>2 DEF FeederInput
<1>5. CASE FeederStep
  <2>1. CASE NalLock
    BY <2>1 DEF NalLock, heapVars, feederVars
  <2>2. CASE NalDrop \/ NalUnlock
    BY <2>2 DEF NalDrop, NalUnlock, NalReturn, heapVars
  <2>3. ASSUME NEW n \in 1..MaxFragments, NalSplit(n) PROVE TypeOK'
    BY <2>3 DEF NalSplit, NalBegin, streamVars, heapVars
  <2>4. CASE LoadTransport
    BY <2>4 DEF LoadTransport, streamVars, heapVars
  <2>5. CASE WritePacket
    BY <2>5 DEF WritePacket, Write, streamVars, heapVars
  <2> QED BY <1>5, <2>1, <2>2, <2>3, <2>4, <2>5 DEF FeederStep
<1>6. ASSUME NEW t \in Thread, Crash(t) PROVE TypeOK'
  BY <1>6 DEF Crash, streamVars, heapVars, feederVars
<1>7. CASE UNCHANGED vars
  BY <1>7 DEF vars, streamVars, heapVars, feederVars
<1> QED BY <1>1, <1>2, <1>3, <1>4, <1>5, <1>6, <1>7 DEF Next, Crashed

-----------------------------------------------------------------------------
(* What a step does to LockOwner: it stays on its side of the lock, enters  *)
(* the critical section with Lock, or leaves it with UnLock.                *)
LEMMA StepKeeps ==
    ASSUME TypeOK, LockOwner, NEW t \in Thread, NEW from, NEW to, Step(t, from, to),
           from \in Holding <=> to \in Holding, UNCHANGED m_tlockRun
    PROVE  LockOwner'
  BY DEF TypeOK, LockOwner, Step

(* A step that takes m_tlockRun as it enters the critical section keeps it, *)
LEMMA StepEnters ==
    ASSUME TypeOK, LockOwner, NEW t \in Thread, NEW from, NEW to, Step(t, from, to),
           Lock(t), to \in Holding
    PROVE  LockOwner'
  BY ThreadAssumption DEF TypeOK, LockOwner, Step, Lock

(* and so does one that releases m_tlockRun as it leaves.                   *)
LEMMA StepLeaves ==
    ASSUME TypeOK, LockOwner, NEW t \in Thread, NEW from, NEW to, Step(t, from, to),
           UnLock(t), to \notin Holding
    PROVE  LockOwner'
  BY ThreadAssumption DEF TypeOK, LockOwner, Step, UnLock

(* Every step keeps LockOwner: the thread inside owns m_tlockRun.           *)
LEMMA LockStepInv == TypeOK /\ LockOwner /\ [Next]_vars => LockOwner'
<1> SUFFICES ASSUME TypeOK, LockOwner, [Next]_vars PROVE LockOwner'
  OBVIOUS
<1>1. ASSUME NEW s \in Session, Request(s) PROVE LockOwner'
  BY <1>1, StepKeeps
     DEF Request, CallSetup, CallStart, CallStop, CallTeardown, streamVars, Holding, Thread
<1>2. ASSUME NEW s \in Session, SetupStep(s) PROVE LockOwner'
  <2>1. CASE SetupDelete(s) \/ SetupNew(s) \/ SetupDone(s)
    BY <2>1, StepKeeps
       DEF SetupDelete, DeleteTransport, SetupNew, SetupDone, streamVars, Holding, Thread
  <2>2. CASE SetupOpen(s) \/ SetupConnect(s)
    BY <2>2, StepKeeps DEF SetupOpen, SetupConnect, streamVars, Holding, Thread
  <2> QED BY <1>2, <2>1, <2>2 DEF SetupStep
<1>3. ASSUME NEW s \in Session, LockStep(s) PROVE LockOwner'
  BY <1>3, StepEnters DEF LockStep, StartLock, StopLock, Holding, Thread
<1>4. ASSUME NEW s \in Session, RunStep(s) PROVE LockOwner'
  <2>1. CASE StartRun(s) \/ StopRun(s)
    BY <2>1, StepLeaves DEF StartRun, StopRun, Holding, Thread
  <2>2. CASE TeardownDelete(s) \/ TeardownNull(s)
    BY <2>2, StepKeeps
       DEF TeardownDelete, DeleteTransport, TeardownNull, streamVars, Holding, Thread
  <2> QED BY <1>4, <2>1, <2>2 DEF RunStep
<1>5. CASE FeederInput
  BY <1>5, StepKeeps DEF FeederInput, FeederInit, FeederFrame, streamVars, Holding, Thread
<1>6. CASE FeederStep
  <2>1. CASE NalLock
    BY <2>1, StepEnters DEF NalLock, Holding, Thread
  <2>2. CASE NalDrop \/ NalUnlock
    BY <2>2, StepLeaves DEF NalDrop, NalUnlock, NalReturn, Holding, Thread
  <2>3. ASSUME NEW n \in 1..MaxFragments, NalSplit(n) PROVE LockOwner'
    BY <2>3, StepKeeps DEF NalSplit, NalBegin, streamVars, Holding, Thread
  <2>4. CASE LoadTransport \/ WritePacket
    BY <2>4, StepKeeps DEF LoadTransport, WritePacket, Write, streamVars, Holding, Thread
  <2> QED BY <1>6, <2>1, <2>2, <2>3, <2>4 DEF FeederStep
<1>7. ASSUME NEW t \in Thread, Crash(t) PROVE LockOwner'
  BY <1>7 DEF Crash, streamVars, LockOwner
<1>8. CASE UNCHANGED vars
  BY <1>8 DEF vars, streamVars, LockOwner
<1> QED BY <1>1, <1>2, <1>3, <1>4, <1>5, <1>6, <1>7, <1>8 DEF Next, Crashed

-----------------------------------------------------------------------------
(* The steps that touch neither the feeder's place in the code, nor m_bRun, *)
(* nor the last packet: every session step but StartRun and StopRun.        *)
LEMMA SessionStepQuiet ==
    ASSUME TypeOK, NEW s \in Session,
           Request(s) \/ SetupStep(s) \/ LockStep(s) \/ TeardownDelete(s) \/ TeardownNull(s)
    PROVE  pc'[Feeder] = pc[Feeder] /\ UNCHANGED <<m_bRun, feederVars>>
<1> USE ThreadAssumption DEF TypeOK, Thread, Step, streamVars
<1>1. CASE Request(s)
  BY <1>1 DEF Request, CallSetup, CallStart, CallStop, CallTeardown
<1>2. CASE SetupStep(s)
  BY <1>2 DEF SetupStep, SetupDelete, DeleteTransport, SetupNew, SetupOpen,
              SetupConnect, SetupDone
<1>3. CASE LockStep(s)
  BY <1>3 DEF LockStep, StartLock, StopLock
<1>4. CASE TeardownDelete(s) \/ TeardownNull(s)
  BY <1>4 DEF TeardownDelete, DeleteTransport, TeardownNull
<1> QED BY <1>1, <1>2, <1>3, <1>4

(* Every step keeps GateHeld: only StopRun clears m_bRun, and LockOwner     *)
(* keeps it out while the feeder is inside (MediaStream.cpp 84-98).         *)
LEMMA GateStep == TypeOK /\ LockOwner /\ GateHeld /\ [Next]_vars => GateHeld'
<1> SUFFICES ASSUME TypeOK, LockOwner, GateHeld, [Next]_vars PROVE GateHeld'
  OBVIOUS
<1> USE ThreadAssumption DEF GateHeld, Thread
<1>1. ASSUME NEW s \in Session,
             Request(s) \/ SetupStep(s) \/ LockStep(s) \/ TeardownDelete(s) \/ TeardownNull(s)
      PROVE  GateHeld'
  BY <1>1, SessionStepQuiet
<1>2. ASSUME NEW s \in Session, StartRun(s) PROVE GateHeld'
  BY <1>2 DEF StartRun
\* The session holds the lock, so the feeder is outside its critical section.
<1>3. ASSUME NEW s \in Session, StopRun(s) PROVE GateHeld'
  <2>1. pc[Feeder] \notin Holding
    BY <1>3 DEF StopRun, UnLock, LockOwner
  <2>2. pc'[Feeder] = pc[Feeder]
    BY <1>3 DEF StopRun, Step, TypeOK
  <2> QED BY <2>1, <2>2 DEF Holding
<1>4. CASE FeederInput
  BY <1>4 DEF FeederInput, FeederInit, FeederFrame, Step, TypeOK, streamVars
<1>5. CASE FeederStep
  <2>1. CASE NalLock \/ NalDrop \/ NalUnlock
    BY <2>1 DEF NalLock, NalDrop, NalUnlock, NalReturn, Step, TypeOK
  <2>2. ASSUME NEW n \in 1..MaxFragments, NalSplit(n) PROVE GateHeld'
    BY <2>2 DEF NalSplit, NalBegin, streamVars
  <2>3. CASE LoadTransport \/ WritePacket
    BY <2>3 DEF LoadTransport, WritePacket, Write, Step, TypeOK, streamVars
  <2> QED BY <1>5, <2>1, <2>2, <2>3 DEF FeederStep
<1>6. ASSUME NEW t \in Thread, Crash(t) PROVE GateHeld'
  BY <1>6 DEF Crash, streamVars
<1>7. CASE UNCHANGED vars
  BY <1>7 DEF vars, streamVars
<1> QED BY <1>1, <1>2, <1>3, <1>4, <1>5, <1>6, <1>7 DEF Next, Crashed, RunStep

(* Every step keeps InFlight: the packet loop of MediaStreamH264.cpp 176-199*)
(* stays between the first fragment and the last.                           *)
LEMMA InFlightStep == TypeOK /\ InFlight /\ [Next]_vars => InFlight'
<1> SUFFICES ASSUME TypeOK, InFlight, [Next]_vars PROVE InFlight'
  OBVIOUS
<1> USE ThreadAssumption, BoundAssumption DEF InFlight, Thread, feederVars
<1>1. ASSUME NEW s \in Session,
             Request(s) \/ SetupStep(s) \/ LockStep(s) \/ TeardownDelete(s) \/ TeardownNull(s)
      PROVE  InFlight'
  BY <1>1, SessionStepQuiet
<1>2. ASSUME NEW s \in Session, StartRun(s) \/ StopRun(s) PROVE InFlight'
  <2>1. pc'[Feeder] = pc[Feeder] /\ UNCHANGED feederVars
    BY <1>2 DEF StartRun, StopRun, Step, TypeOK
  <2> QED BY <2>1
<1>3. CASE FeederInput
  BY <1>3 DEF FeederInput, FeederInit, FeederFrame, Step, TypeOK
<1>4. CASE FeederStep
  <2>1. CASE NalLock
    BY <2>1 DEF NalLock, Step, TypeOK
  <2>2. CASE NalDrop \/ NalUnlock
    BY <2>2 DEF NalDrop, NalUnlock, NalReturn, Step, TypeOK
  <2>3. ASSUME NEW n \in 1..MaxFragments, NalSplit(n) PROVE InFlight'
    BY <2>3 DEF NalSplit, NalBegin, Step, TypeOK
  <2>4. CASE LoadTransport
    BY <2>4 DEF LoadTransport, Step, TypeOK
  <2>5. CASE WritePacket
    BY <2>5 DEF WritePacket, Write, Step, TypeOK
  <2> QED BY <1>4, <2>1, <2>2, <2>3, <2>4, <2>5 DEF FeederStep
<1>5. ASSUME NEW t \in Thread, Crash(t) PROVE InFlight'
  BY <1>5 DEF Crash
<1>6. CASE UNCHANGED vars
  BY <1>6 DEF vars
<1> QED BY <1>1, <1>2, <1>3, <1>4, <1>5, <1>6 DEF Next, Crashed, RunStep

-----------------------------------------------------------------------------
(* The constructor (MediaStream.cpp 4-18) establishes the invariant.        *)
LEMMA InitInv == Init => Inv
<1> SUFFICES ASSUME Init PROVE Inv
  OBVIOUS
<1> USE ThreadAssumption, BoundAssumption DEF Init, Thread
<1>1. 1 \in 1..MaxFragments /\ 0 \in 0..MaxNals
  OBVIOUS
<1>2. wire \in Packet
  BY <1>1 DEF Packet
<1>3. \A t \in Thread : pc[t] = "idle" /\ pc[t] \in SessionPC /\ pc[t] \in FeederPC
  BY DEF SessionPC, FeederPC
<1>4. TypeOK
  BY <1>1, <1>3, <1>2 DEF TypeOK, RtpState
<1>5. LockOwner /\ GateHeld /\ InFlight
  BY <1>3 DEF LockOwner, GateHeld, InFlight, Holding
<1> QED BY <1>4, <1>5 DEF Inv

(* In every behaviour, for any number of sessions: the variables have their *)
(* types, at most one thread is inside the critical section, m_bRun stays   *)
(* TRUE for as long as TransportH264Nal sends, and fragments are contiguous.*)
THEOREM Invariance == Spec => []Inv
<1>1. Init => Inv
  BY InitInv
<1>2. Inv /\ [Next]_vars => Inv'
  BY TypeStep, LockStepInv, GateStep, InFlightStep DEF Inv
<1> QED BY <1>1, <1>2, PTL DEF Spec

(* The types alone (TypeOK of MediaStream.cpp's fields and the threads).     *)
THEOREM TypeCorrect == Spec => []TypeOK
<1>1. Inv => TypeOK
  BY DEF Inv
<1> QED BY <1>1, Invariance, PTL

(* TransportStop cannot clear m_bRun under the feeder (GateHeld).            *)
THEOREM GateIsHeld == Spec => []GateHeld
<1>1. Inv => GateHeld
  BY DEF Inv
<1> QED BY <1>1, Invariance, PTL

(* The lock of MediaStreamH264.cpp 122 and MediaStream.cpp 70, 84 excludes.  *)
THEOREM MutualExclusion == Spec => []LockOwner
<1>1. Inv => LockOwner
  BY DEF Inv
<1> QED BY <1>1, Invariance, PTL

-----------------------------------------------------------------------------
(* Every step of MediaStream is a step of StreamGate or leaves it unchanged. *)
LEMMA GateRefinesStep ==
    ASSUME Inv, [Next]_vars
    PROVE  [Gate!Next]_<<m_bRun, lastPacket>>
<1> USE DEF lastPacket, feederVars
<1> DEFINE Quiet == UNCHANGED <<m_bRun, lastPacket>>
<1>1. ASSUME NEW s \in Session,
             Request(s) \/ SetupStep(s) \/ LockStep(s) \/ TeardownDelete(s) \/ TeardownNull(s)
      PROVE  Quiet
  BY <1>1, SessionStepQuiet DEF Inv
\* A session that holds the lock sees the feeder between two units.
<1>2. ASSUME NEW s \in Session, m_tlockRun = s PROVE Gate!UnitComplete
  <2>1. pc[Feeder] \notin Holding
    BY <1>2, ThreadAssumption DEF Inv, LockOwner, Thread
  <2> QED BY <2>1 DEF Inv, InFlight, Holding, Gate!UnitComplete
<1>3. ASSUME NEW s \in Session, StartRun(s) PROVE Gate!Open
  BY <1>2, <1>3 DEF StartRun, UnLock, Gate!Open
<1>4. ASSUME NEW s \in Session, StopRun(s) PROVE Gate!Close
  BY <1>2, <1>4 DEF StopRun, UnLock, Gate!Close
<1>5. CASE FeederInput
  <2>1. Quiet
    BY <1>5 DEF FeederInput, FeederInit, FeederFrame, streamVars
  <2> QED BY <2>1
<1>6. CASE \/ NalLock \/ NalDrop \/ NalUnlock \/ LoadTransport
           \/ \E n \in 1..MaxFragments : NalSplit(n)
  <2>1. Quiet
    BY <1>6 DEF NalLock, NalDrop, NalUnlock, NalReturn, LoadTransport, NalSplit,
               NalBegin, streamVars
  <2> QED BY <2>1
<1>7. CASE WritePacket
  <2>1. lastPacket' \in Gate!Packet
    BY <1>7 DEF WritePacket, Write, Inv, TypeOK, Gate!Packet
  <2>2. m_bRun /\ UNCHANGED m_bRun
    BY <1>7 DEF WritePacket, Write, Step, Inv, GateHeld, streamVars
  <2>3. \/ Gate!UnitComplete /\ lastPacket'.index = 1
        \/ /\ ~Gate!UnitComplete
           /\ lastPacket'.index = lastPacket.index + 1
           /\ lastPacket'.count = lastPacket.count
    BY <1>7 DEF WritePacket, Write, Step, Inv, TypeOK, InFlight, Gate!UnitComplete
  <2>4. lastPacket'.marker => lastPacket'.index = lastPacket'.count
    BY <1>7 DEF WritePacket, Write
  <2>5. Gate!Send(lastPacket')
    BY <2>2, <2>3, <2>4 DEF Gate!Send
  <2> QED BY <2>1, <2>5 DEF Gate!Next
<1>8. ASSUME NEW t \in Thread, Crash(t) PROVE Quiet
  BY <1>8 DEF Crash, streamVars
<1>9. CASE UNCHANGED vars
  BY <1>9 DEF vars, streamVars
<1> QED BY <1>1, <1>3, <1>4, <1>5, <1>6, <1>7, <1>8, <1>9
        DEF Next, Crashed, RunStep, FeederStep, Gate!Next

(* MediaStream implements StreamGate for any number of sessions and any     *)
(* order of their requests: TransportStart and TransportStop act at one     *)
(* instant between whole NAL units (MediaStream.cpp 65-98, MediaStreamH264  *)
(* 120-203).                                                                *)
THEOREM ImplementsGate == Spec => GateSpec
<1>1. Init => Gate!Init
  BY DEF Init, Gate!Init, lastPacket
<1>2. Inv /\ [Next]_vars => [Gate!Next]_<<m_bRun, lastPacket>>
  BY GateRefinesStep
<1> QED BY <1>1, <1>2, Invariance, PTL DEF Spec, GateSpec, Gate!Spec

-----------------------------------------------------------------------------
(* Clients that take turns.                                                 *)

\* Orderly clients are clients: what holds of Spec holds of OrderlySpec.
LEMMA OrderlyIsNext == [OrderlyNext]_cvars => [Next]_vars
  BY DEF OrderlyNext, AskStep, AskSetup, AskPlay, AskPause, AskTeardown, Ask,
         AnswerStep, AnswerSetup, AnswerPlay, AnswerStop, AnswerTeardown, Answer,
         Inside, Vanish, Next, Request, SetupStep, LockStep, RunStep, cvars, vars

(* So MediaStream's own invariant holds under orderly clients.              *)
LEMMA OrderlyHasInv == OrderlySpec => []Inv
<1>1. OrderlyInit => Inv
  BY InitInv DEF OrderlyInit
<1>2. Inv /\ [OrderlyNext]_cvars => Inv'
  BY OrderlyIsNext, TypeStep, LockStepInv, GateStep, InFlightStep DEF Inv
<1> QED BY <1>1, <1>2, PTL DEF OrderlySpec

-----------------------------------------------------------------------------
\* OrderlyInv as the session s that has its turn sees it.
Alone(s) == \A o \in Session \ {s} : client[o] = "connected" /\ pc[o] = "idle"

NoStream == {"setupNew", "teardownNull"}

OwnerInv(s) ==
    /\ Alone(s)
    /\ Progress(s)
    /\ m_bRun => client[s] = "playing" \/ abandoned
    /\ Dangling(m_pRtpTransport) => pc[s] \in NoStream
    /\ pc[s] \in NoStream => \A a \in Address : rtp[a] = "free"
    /\ NoLeak /\ LoadedIsCurrent /\ ClientTypeOK

(* Seen from the session that has its turn, OrderlyInv is OwnerInv, which   *)
(* has no quantifier over sessions that a step of it could disturb.         *)
LEMMA OwnerView ==
    ASSUME OrderlyInv, NEW s \in Session, Alone(s)
    PROVE  OwnerInv(s)
  BY DEF OrderlyInv, OwnerInv, Alone, NoStream, RunsForAPlayer, NoDangling, AllFreed

(* What that session sees is enough for all.                                *)
LEMMA OwnerSuffices ==
    ASSUME NEW s \in Session, OwnerInv(s)
    PROVE  OrderlyInv
<1> USE DEF OwnerInv, Alone, NoStream
<1>1. \A o \in Session : Engaged(o) => o = s
  BY DEF Engaged
<1>2. OneClient
  BY <1>1 DEF OneClient
<1>3. \A o \in Session : Progress(o)
  BY DEF Progress
<1>4. NoDangling /\ AllFreed /\ RunsForAPlayer
  BY DEF NoDangling, AllFreed, RunsForAPlayer
<1> QED BY <1>2, <1>3, <1>4 DEF OrderlyInv

(* A session that has its turn or is inside a call is the only one.         *)
LEMMA EngagedAlone ==
    ASSUME OrderlyInv, NEW s \in Session, Turn(s) \/ pc[s] # "idle"
    PROVE  Alone(s)
  BY DEF OrderlyInv, OneClient, Turn, Engaged, Alone

-----------------------------------------------------------------------------
(* Every step of a session keeps OwnerInv.                                  *)
LEMMA AskOwner ==
    ASSUME Inv, NEW s \in Session, OwnerInv(s), AskStep(s)
    PROVE  OwnerInv(s)'
<1> USE ThreadAssumption, HeapAssumption
    DEF OwnerInv, Alone, NoStream, Progress, ConnectedTo, Dangling, NoLeak,
        LoadedIsCurrent, ClientTypeOK, Ask, Step, Inv, TypeOK, Thread, ClientState,
        heapVars, feederVars, clients
<1>1. CASE AskSetup(s)
  BY <1>1 DEF AskSetup, CallSetup
<1>2. CASE AskPlay(s)
  BY <1>2 DEF AskPlay, CallStart, streamVars
<1>3. CASE AskPause(s)
  BY <1>3 DEF AskPause, CallStop, streamVars
<1>4. CASE AskTeardown(s)
  BY <1>4 DEF AskTeardown, CallTeardown, streamVars
<1> QED BY <1>1, <1>2, <1>3, <1>4 DEF AskStep

(* The unlocked delete and new of TransportSetup (MediaStream.cpp 45-56)    *)
(* keep it, since the feeder is not in the middle of a Write then.          *)
LEMMA SetupOwner ==
    ASSUME Inv, NEW s \in Session, OwnerInv(s),
           SetupDelete(s) \/ SetupNew(s) \/ SetupOpen(s) \/ SetupConnect(s),
           UNCHANGED clients
    PROVE  OwnerInv(s)'
<1> USE ThreadAssumption, HeapAssumption
    DEF OwnerInv, Alone, NoStream, Progress, ConnectedTo, Dangling, NoLeak,
        LoadedIsCurrent, ClientTypeOK, Step, Inv, TypeOK, Thread, ClientState, feederVars, clients
<1>1. CASE SetupDelete(s)
  BY <1>1 DEF SetupDelete, DeleteTransport, streamVars
\* The feeder is not in the middle of a Write, unless the stream is abandoned:
\* it does not run.
<1>2. CASE SetupNew(s)
  <2>1. abandoned' \/ (pc[Feeder] # "write" /\ pc'[Feeder] # "write")
    BY <1>2 DEF SetupNew, GateHeld
  <2> QED BY <1>2, <2>1 DEF SetupNew
<1>3. CASE SetupOpen(s)
  BY <1>3 DEF SetupOpen, streamVars
<1>4. CASE SetupConnect(s)
  BY <1>4 DEF SetupConnect, streamVars, heapVars
<1> QED BY <1>1, <1>2, <1>3, <1>4

(* Taking m_tlockRun keeps it.                                             *)
LEMMA LockOwnerStep ==
    ASSUME Inv, NEW s \in Session, OwnerInv(s), LockStep(s), UNCHANGED clients
    PROVE  OwnerInv(s)'
<1> USE ThreadAssumption, HeapAssumption
    DEF OwnerInv, Alone, NoStream, Progress, ConnectedTo, Dangling, NoLeak,
        LoadedIsCurrent, ClientTypeOK, Step, Inv, TypeOK, Thread, ClientState,
        heapVars, feederVars, clients
<1> QED BY DEF LockStep, StartLock, StopLock

(* The steps that complete a request keep it, and the delete of             *)
(* TransportTeardown (MediaStream.cpp 104-105).                             *)
LEMMA AnswerOwner ==
    ASSUME Inv, NEW s \in Session, OwnerInv(s),
           AnswerStep(s) \/ (TeardownDelete(s) /\ UNCHANGED clients)
    PROVE  OwnerInv(s)'
<1> USE ThreadAssumption, HeapAssumption
    DEF OwnerInv, Alone, NoStream, Progress, ConnectedTo, Dangling, NoLeak,
        LoadedIsCurrent, ClientTypeOK, Answer, Step, Inv, TypeOK, Thread, ClientState,
        feederVars, clients
<1>1. CASE AnswerSetup(s)
  BY <1>1 DEF AnswerSetup, SetupDone, heapVars
<1>2. CASE AnswerPlay(s)
  BY <1>2 DEF AnswerPlay, StartRun, heapVars
\* The session has m_tlockRun, so the feeder is outside its critical section.
<1>3. CASE AnswerStop(s)
  <2>1. pc[Feeder] # "write" /\ pc'[Feeder] # "write"
    BY <1>3 DEF AnswerStop, StopRun, LockOwner, Holding
  <2> QED BY <1>3, <2>1 DEF AnswerStop, StopRun, heapVars
<1>4. CASE TeardownDelete(s) /\ UNCHANGED clients
  BY <1>4 DEF TeardownDelete, DeleteTransport, streamVars
<1>5. CASE AnswerTeardown(s)
  <2>1. abandoned' \/ (pc[Feeder] # "write" /\ pc'[Feeder] # "write")
    BY <1>5 DEF AnswerTeardown, TeardownNull, GateHeld
  <2> QED BY <1>5, <2>1 DEF AnswerTeardown, TeardownNull, heapVars
<1> QED BY <1>1, <1>2, <1>3, <1>4, <1>5 DEF AnswerStep

(* A client that goes away keeps it: if the stream runs on it is abandoned. *)
LEMMA VanishOwner ==
    ASSUME Inv, NEW s \in Session, OwnerInv(s), Vanish(s)
    PROVE  OwnerInv(s)'
  BY ThreadAssumption, HeapAssumption
     DEF OwnerInv, Alone, NoStream, Progress, ConnectedTo, Dangling, NoLeak, LoadedIsCurrent,
         ClientTypeOK, Inv, TypeOK, GateHeld, Thread, ClientState, Vanish, vars, streamVars,
         heapVars, feederVars

(* The feeder leaves the object and the sessions as they are.               *)
LEMMA FeederOwner ==
    ASSUME Inv, OrderlyInv, FeederInput \/ FeederStep, UNCHANGED clients
    PROVE  OrderlyInv'
<1>1. /\ UNCHANGED <<m_bRun, m_pRtpTransport, rtp, peer>>
      /\ \A s \in Session : pc'[s] = pc[s]
  BY ThreadAssumption
     DEF FeederInput, FeederInit, FeederFrame, FeederStep, NalLock, NalDrop, NalUnlock,
         NalReturn, NalSplit, NalBegin, LoadTransport, WritePacket, Write, Step, Inv,
         TypeOK, Thread, streamVars, heapVars
<1>2. LoadedIsCurrent'
  BY DEF FeederInput, FeederInit, FeederFrame, FeederStep, NalLock, NalDrop, NalUnlock,
         NalReturn, NalSplit, NalBegin, LoadTransport, WritePacket, Write, Step, Inv,
         TypeOK, Thread, streamVars, feederVars, LoadedIsCurrent, clients
<1> QED
  BY <1>1, <1>2
     DEF OrderlyInv, ClientTypeOK, OneClient, Engaged, NoDangling, Dangling, AllFreed, NoLeak,
         RunsForAPlayer, Progress, ConnectedTo, clients

(* Every step under orderly clients keeps OrderlyInv.                       *)
LEMMA OrderlyStep == Inv /\ OrderlyInv /\ [OrderlyNext]_cvars => OrderlyInv'
<1> SUFFICES ASSUME Inv, OrderlyInv, [OrderlyNext]_cvars PROVE OrderlyInv'
  OBVIOUS
<1>1. ASSUME NEW s \in Session, AskStep(s) PROVE OrderlyInv'
  <2>1. Turn(s)
    BY <1>1 DEF AskStep, AskSetup, AskPlay, AskPause, AskTeardown, Ask
  <2>2. OwnerInv(s)'
    BY <1>1, <2>1, EngagedAlone, OwnerView, AskOwner
  <2> QED BY <2>2, OwnerSuffices, PTL
<1>2. ASSUME NEW s \in Session, Inside(s) \/ AnswerStep(s) PROVE OrderlyInv'
  <2>1. pc[s] # "idle"
    BY <1>2 DEF Inside, SetupDelete, SetupNew, SetupOpen, SetupConnect, LockStep, StartLock,
                StopLock, TeardownDelete, DeleteTransport, AnswerStep, AnswerSetup, AnswerPlay,
                AnswerStop, AnswerTeardown, Answer, SetupDone, StartRun, StopRun,
                TeardownNull, Step
  <2>2. OwnerInv(s)
    BY <2>1, EngagedAlone, OwnerView
  <2>3. OwnerInv(s)'
    BY <1>2, <2>2, SetupOwner, LockOwnerStep, AnswerOwner DEF Inside
  <2> QED BY <2>3, OwnerSuffices, PTL
<1>3. CASE (FeederInput \/ FeederStep) /\ UNCHANGED clients
  BY <1>3, FeederOwner
<1>4. ASSUME NEW s \in Session, Vanish(s) PROVE OrderlyInv'
  <2>1. Alone(s)
    BY <1>4 DEF Vanish, OrderlyInv, OneClient, Engaged, Alone
  <2>2. OwnerInv(s)'
    BY <1>4, <2>1, OwnerView, VanishOwner
  <2> QED BY <2>2, OwnerSuffices, PTL
\* Neither a crash nor what follows it touches what OrderlyInv is about.
<1>5. CASE UNCHANGED <<streamVars, heapVars, feederVars, pc, ending, clients>>
  BY <1>5
     DEF streamVars, heapVars, feederVars, clients, OrderlyInv, ClientTypeOK, OneClient,
         Engaged, NoDangling, Dangling, AllFreed, NoLeak, RunsForAPlayer, LoadedIsCurrent,
         Progress, ConnectedTo
<1> QED
  BY <1>1, <1>2, <1>3, <1>4, <1>5 DEF OrderlyNext, Crash, Crashed, cvars, vars, clients

-----------------------------------------------------------------------------
(* OrderlyInv holds when the stream is made and no client has come.         *)
LEMMA OrderlyInit_Inv == OrderlyInit => OrderlyInv
<1> SUFFICES ASSUME OrderlyInit PROVE OrderlyInv
  OBVIOUS
<1> USE HeapAssumption, ThreadAssumption DEF OrderlyInit, Init, Thread
<1>1. \A s \in Session : ~Engaged(s) /\ Progress(s)
  BY DEF Engaged, Progress
<1>2. ClientTypeOK /\ OneClient /\ NoDangling /\ AllFreed /\ NoLeak
  BY <1>1 DEF ClientTypeOK, ClientState, OneClient, NoDangling, Dangling, AllFreed, NoLeak
<1>3. RunsForAPlayer /\ LoadedIsCurrent
  BY DEF RunsForAPlayer, LoadedIsCurrent
<1> QED BY <1>1, <1>2, <1>3 DEF OrderlyInv

(* In every behaviour of orderly clients: one at a time has the stream, its *)
(* transport is alive, nothing else is, and m_bRun is TRUE only for a player*)
(* (MediaStream.cpp 38-109).                                                *)
THEOREM OrderlyInvariance == OrderlySpec => []OrderlyInv
<1>1. OrderlyInit => OrderlyInv
  BY OrderlyInit_Inv
<1>2. Inv /\ OrderlyInv /\ [OrderlyNext]_cvars => OrderlyInv'
  BY OrderlyStep
<1> QED BY <1>1, <1>2, OrderlyHasInv, PTL DEF OrderlySpec

(* While the feeder is about to write, a client plays through the transport *)
(* the feeder read.                                                         *)
LEMMA PlayerHasTheStream ==
    ASSUME Inv, OrderlyInv, m_bRun, ~abandoned
    PROVE  \E s \in Session : client[s] = "playing" /\ ConnectedTo(s)
  BY DEF OrderlyInv, RunsForAPlayer, Progress

(* Between clients that take turns no thread ever calls through a null or a *)
(* deleted transport, or deletes one twice (MediaStream.cpp 45-48, 104-106),*)
(* but the feeder after a client went away while it played.                 *)
THEOREM NoWildPointer == OrderlySpec => []NoWildAccess
<1>1. Inv /\ OrderlyInv => NoWildAccess
  <2> SUFFICES ASSUME Inv, OrderlyInv, NEW t \in Thread, WildAccess(t)
               PROVE  t = Feeder /\ abandoned
    BY DEF NoWildAccess
  <2>1. CASE t \in Session
    BY <2>1 DEF WildAccess, OrderlyInv, NoDangling, OneClient, Engaged, Progress, Dangling,
                Inv, TypeOK, SessionPC
  <2>2. CASE t = Feeder
    <3>1. ASSUME pc[Feeder] = "write", ~abandoned PROVE loaded # NULL /\ ~Dangling(loaded)
      BY <3>1, PlayerHasTheStream
         DEF Inv, GateHeld, OrderlyInv, LoadedIsCurrent, ConnectedTo, Dangling
    <3> QED BY <2>2, <3>1 DEF WildAccess, Inv, TypeOK, FeederPC
  <2> QED BY <2>1, <2>2 DEF Thread
<1> QED BY <1>1, OrderlyHasInv, OrderlyInvariance, PTL

(* While the stream runs, and not for a client that is gone, its transport  *)
(* is connected to the one being served (MediaStream.cpp 38-80).            *)
THEOREM RunningStreamIsConnected == OrderlySpec => []RunningIsConnected
<1>1. Inv /\ OrderlyInv => RunningIsConnected
  BY PlayerHasTheStream DEF RunningIsConnected, ConnectedTo, Engaged
<1> QED BY <1>1, OrderlyHasInv, OrderlyInvariance, PTL

(* Every Rtp object alive is the stream's own (MediaStream.cpp 45-48, 104). *)
THEOREM NothingLeaks == OrderlySpec => []NoLeak
<1>1. OrderlyInv => NoLeak
  BY DEF OrderlyInv
<1> QED BY <1>1, OrderlyInvariance, PTL

(* Every packet leaves for the client that is being served (MediaStreamH264 *)
(* 162, 194 write through the transport that client's SETUP connected).     *)
THEOREM PacketsServeTheClient == OrderlySpec => ServesTheClient
<1>1. ASSUME Inv, OrderlyInv, WritePacket, ~abandoned
      PROVE  wire'.to \in Session /\ Engaged(wire'.to)
  <2>1. m_bRun /\ loaded = m_pRtpTransport
    BY <1>1 DEF WritePacket, Write, Step, Inv, GateHeld, OrderlyInv, LoadedIsCurrent
  <2>2. PICK s \in Session : client[s] = "playing" /\ ConnectedTo(s)
    BY <1>1, <2>1, PlayerHasTheStream
  <2>3. wire'.to = s
    BY <1>1, <2>1, <2>2 DEF WritePacket, Write, ConnectedTo
  <2> QED BY <2>2, <2>3 DEF Engaged
<1>2. Inv /\ OrderlyInv /\ [OrderlyNext]_cvars
        => [WritePacket /\ ~abandoned => wire'.to \in Session /\ Engaged(wire'.to)]_cvars
  BY <1>1
<1> QED BY <1>2, OrderlyHasInv, OrderlyInvariance, PTL DEF OrderlySpec, ServesTheClient
=============================================================================

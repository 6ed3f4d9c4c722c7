--------------------------- MODULE OrderlyClients ---------------------------
(***************************************************************************)
(* MediaStream under the clients it is written for: each one asks for SETUP,*)
(* then PLAY and PAUSE any number of times, then TEARDOWN, as              *)
(* RtspClient.cpp does, and comes only when the one before it has torn down,*)
(* or is gone: its session's thread then ends without a call of the stream  *)
(* (RtspSession.cpp 54-56), which goes on sending if it was.                *)
(***************************************************************************)
EXTENDS MediaStream

VARIABLES
    client,     \* RtspRequest::m_State of every client
    abandoned   \* the stream runs for a client that is gone

clients == <<client, abandoned>>
cvars == <<vars, clients>>

ClientState == {"connected", "ready", "playing"}

ClientTypeOK == client \in [Session -> ClientState] /\ abandoned \in BOOLEAN

\* The session whose client has the stream, if there is one.
Engaged(s) == client[s] # "connected" \/ pc[s] # "idle"

Turn(s) == \A o \in Session \ {s} : ~Engaged(o)

OrderlyInit ==
    Init /\ client = [s \in Session |-> "connected"] /\ abandoned = FALSE

\* A request the client makes in one of its states, when it is its turn.
Ask(s, states, request) ==
    /\ Turn(s)
    /\ client[s] \in states
    /\ request
    /\ UNCHANGED clients

AskSetup(s)    == Ask(s, {"connected"}, CallSetup(s))
AskPlay(s)     == Ask(s, {"ready"}, CallStart(s))
AskPause(s)    == Ask(s, {"playing"}, CallStop(s))
AskTeardown(s) == Ask(s, {"ready", "playing"}, CallTeardown(s))

\* The step that completes a request carries the client to its next state.
Answer(s, reply, state, left) ==
    /\ reply
    /\ client' = [client EXCEPT ![s] = state]
    /\ abandoned' = left

AnswerSetup(s)    == Answer(s, SetupDone(s), "ready", abandoned)
AnswerPlay(s)     == Answer(s, StartRun(s), "playing", abandoned)
AnswerStop(s)     == Answer(s, StopRun(s), "ready", FALSE)
AnswerTeardown(s) == Answer(s, TeardownNull(s), "connected", abandoned)

\* The client is gone, and its session with it: the stream is left as it is.
Vanish(s) ==
    /\ ~fault
    /\ pc[s] = "idle" /\ client[s] # "connected"
    /\ client' = [client EXCEPT ![s] = "connected"]
    /\ abandoned' = m_bRun
    /\ UNCHANGED vars

Inside(s) ==
    /\ \/ SetupDelete(s) \/ SetupNew(s) \/ SetupOpen(s) \/ SetupConnect(s)
       \/ LockStep(s)
       \/ TeardownDelete(s)
    /\ UNCHANGED clients

AskStep(s)    == AskSetup(s) \/ AskPlay(s) \/ AskPause(s) \/ AskTeardown(s)
AnswerStep(s) == AnswerSetup(s) \/ AnswerPlay(s) \/ AnswerStop(s) \/ AnswerTeardown(s)

OrderlyNext ==
    \/ \E s \in Session : AskStep(s) \/ Inside(s) \/ AnswerStep(s) \/ Vanish(s)
    \/ FeederInput /\ UNCHANGED clients
    \/ FeederStep /\ UNCHANGED clients
    \/ (Crashed \/ \E t \in Thread : Crash(t)) /\ UNCHANGED clients

OrderlySpec == OrderlyInit /\ [][OrderlyNext]_cvars

\* Every thread that can run is run.  The feeder sleeps outside the lock
\* between frames (RtspService.h 64-81), so a thread that waits for the lock
\* gets it: strong fairness of the steps that enter the critical section.
OrderlyFairSpec ==
    /\ OrderlySpec
    /\ \A s \in Session : WF_cvars(Inside(s) \/ AnswerStep(s))
    /\ \A s \in Session : SF_cvars(LockStep(s) /\ UNCHANGED clients)
    /\ WF_cvars(FeederStep /\ UNCHANGED clients)

-----------------------------------------------------------------------------
(* Between orderly clients no pointer is ever wild: TransportTeardown and   *)
(* the next TransportSetup delete the transport without a lock, but only    *)
(* when the feeder, which reads it inside the lock, cannot be using it.     *)
(* One that is gone while it plays takes that away from the feeder alone,   *)
(* and the next TransportStop gives it back.                                *)
NoWildAccess == \A t \in Thread : WildAccess(t) => t = Feeder /\ abandoned

(* While the stream runs, its transport exists, is connected, and leads to  *)
(* the one client that is being served, unless an earlier one left it so.   *)
RunningIsConnected ==
    m_bRun /\ ~abandoned =>
        /\ m_pRtpTransport # NULL
        /\ rtp[m_pRtpTransport] = "connected"
        /\ Engaged(peer[m_pRtpTransport])

(* No Rtp object, and so no socket, is ever left behind, also when a client *)
(* never tears down.                                                        *)
NoLeak == \A a \in Address : rtp[a] # "free" => m_pRtpTransport = a

(* Why the three hold.  At most one client is engaged, each place in its     *)
(* session's code fixes what the object looks like, only a playing client   *)
(* has the stream running, and the feeder's copy of the pointer is current. *)
OneClient == \A s, o \in Session : Engaged(s) /\ Engaged(o) => s = o

ConnectedTo(s) ==
    /\ m_pRtpTransport # NULL
    /\ rtp[m_pRtpTransport] = "connected"
    /\ peer[m_pRtpTransport] = s

Progress(s) ==
    /\ pc[s] \in {"setupDelete", "setupNew", "setupOpen", "setupConnect", "setupDone"}
         => client[s] = "connected"
    /\ pc[s] \in {"startLock", "startRun", "teardownDelete", "teardownNull"}
         => client[s] = "ready"
    /\ pc[s] \in {"stopLock", "stopRun"} => client[s] # "connected"
    /\ pc[s] = "setupOpen" => m_pRtpTransport # NULL /\ rtp[m_pRtpTransport] = "new"
    /\ pc[s] = "setupConnect" => m_pRtpTransport # NULL /\ rtp[m_pRtpTransport] = "open"
    /\ pc[s] = "setupDone" => ConnectedTo(s)
    /\ client[s] # "connected" /\ pc[s] # "teardownNull" => ConnectedTo(s)

NoDangling ==
    Dangling(m_pRtpTransport) => \E s \in Session : pc[s] \in {"setupNew", "teardownNull"}

AllFreed ==
    \A s \in Session : pc[s] \in {"setupNew", "teardownNull"} =>
        \A a \in Address : rtp[a] = "free"

RunsForAPlayer == m_bRun => abandoned \/ \E s \in Session : client[s] = "playing"

LoadedIsCurrent == pc[Feeder] = "write" /\ ~abandoned => loaded = m_pRtpTransport

OrderlyInv ==
    /\ ClientTypeOK /\ OneClient /\ NoDangling /\ AllFreed /\ NoLeak
    /\ RunsForAPlayer /\ LoadedIsCurrent
    /\ \A s \in Session : Progress(s)

(* A packet goes to the client that is being served: never through the      *)
(* transport an earlier client's SETUP connected, never through a closed one,*)
(* as long as no client has gone away without a word while it played.        *)
ServesTheClient ==
    [][WritePacket /\ ~abandoned => wire'.to \in Session /\ Engaged(wire'.to)]_cvars

(* Every request a client makes of the stream is answered: no thread waits  *)
(* for ever on m_tlockRun, if the process lives.                            *)
RequestsComplete == \A s \in Session : pc[s] # "idle" ~> pc[s] = "idle" \/ fault
=============================================================================

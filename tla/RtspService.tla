---------------------------- MODULE RtspService ----------------------------
(***************************************************************************)
(* The process: _tmain (RtspService/RtspService.cpp 14-67) and the service *)
(* object (RtspService/RtspService_t.cpp), with the deletions that a       *)
(* deletion brings: the transport's of its sessions and of the media       *)
(* session, the media session's of the stream.  RtspTransport, MediaStream *)
(* and Feeder have the insides of the threads, of which there is here only *)
(* when they use which object.                                             *)
(***************************************************************************)
EXTENDS Naturals

CONSTANT Client     \* each connects once at most, and has a session then

VARIABLES
    main,        \* where _tmain is
    leaving,     \* where it goes when it has deleted the transport and the service
    transport,   \* "none", "live" or "freed": RtspTransport and its media session,
    stream,      \* the media stream with the video,
    audio,       \* the one for the audio, which is in no media session,
    service,     \* and RtspService_t
    m_hVideoFile,
    feeder,      \* where H264File_Read2SendThread is
    m_bVideoFile_ReadThread_Stop,
    m_isOpen,
    listener,    \* the listen thread: "none", "runs" or "exited"
    m_isStopListenThread,
    session,     \* per client: where its session's thread is
    stopping,    \* the sessions whose destructor has signalled their event
    fault        \* a thread has used an object that was freed

objects       == <<transport, stream, audio, service>>
feederVars    == <<feeder, m_bVideoFile_ReadThread_Stop, m_hVideoFile>>
listenVars    == <<m_isOpen, listener, m_isStopListenThread>>
sessionVars   == <<session, stopping>>
serviceVars == <<main, leaving, objects, feederVars, listenVars, sessionVars, fault>>

-----------------------------------------------------------------------------
MainPC == {"start", "openService", "openTransport", "working",
           "close", "joinListener", "deleteSessions",
           "freePacket", "stopStream", "freeStream",
           "release", "joinFeeder", "freeService", "returned", "crashed"}

\* "init": in MediaStreamH264::Init; "frame": in TransportData; "nal": in
\* TransportH264Nal, which holds m_tlockRun; "stuck": waiting for what is no more.
FeederPC == {"none", "outer", "inner", "init", "frame", "nal", "stuck", "returned"}

SessionPC == {"none", "loop", "read", "call", "ended"}

ObjectState == {"none", "live", "freed"}

\* Between the two destructors of a stream: "stripped", a MediaStream whose m_Packet
\* and strings are gone; "stopped", with m_bRun FALSE and no transport either.
StreamState == ObjectState \cup {"stripped", "stopped"}

ServiceTypeOK ==
    /\ main \in MainPC /\ leaving \in {"working", "returned"}
    /\ transport \in ObjectState /\ stream \in StreamState /\ service \in ObjectState
    /\ audio \in {"none", "live"}
    /\ m_hVideoFile \in {"none", "open"} /\ feeder \in FeederPC
    /\ m_bVideoFile_ReadThread_Stop \in BOOLEAN
    /\ main = "joinFeeder" => feeder # "none"
    /\ m_isOpen \in BOOLEAN /\ listener \in {"none", "runs", "exited"}
    /\ m_isStopListenThread \in BOOLEAN
    /\ session \in [Client -> SessionPC] /\ stopping \in SUBSET Client
    /\ fault \in BOOLEAN

ServiceInit ==
    /\ main = "start" /\ leaving = "returned"
    /\ transport = "none" /\ stream = "none" /\ audio = "none" /\ service = "none"
    /\ m_hVideoFile = "none" /\ feeder = "none" /\ m_bVideoFile_ReadThread_Stop = FALSE
    /\ m_isOpen = FALSE /\ listener = "none" /\ m_isStopListenThread = FALSE
    /\ session = [c \in Client |-> "none"] /\ stopping = {}
    /\ fault = FALSE

\* When _tmain has returned the process ends, and with it every thread.
Alive == main \notin {"returned", "crashed"}

-----------------------------------------------------------------------------
(* _tmain, up to the deletions.                                             *)

Start ==
    /\ main = "start"
    /\ \/ main' = "returned" /\ UNCHANGED objects     \* ParseArg refuses
       \/ /\ main' = "openService"
          /\ transport' = "live" /\ stream' = "live" /\ audio' = "live" /\ service' = "live"
    /\ UNCHANGED <<leaving, feederVars, listenVars, sessionVars, fault>>

\* RtspService_t::Open: without the file nothing is left to release.
OpenService ==
    /\ main = "openService"
    /\ \/ main' = "close" /\ leaving' = "returned" /\ UNCHANGED feederVars
       \/ /\ main' = "openTransport"
          /\ m_hVideoFile' = "open" /\ feeder' = "outer"
          /\ UNCHANGED <<leaving, m_bVideoFile_ReadThread_Stop>>
    /\ UNCHANGED <<objects, listenVars, sessionVars, fault>>

\* When RtspTransport::Open fails, both objects are deleted, and _tmain goes on
\* to say that the service is working and to wait for a key.
OpenTransport ==
    /\ main = "openTransport"
    /\ \/ main' = "close" /\ leaving' = "working" /\ UNCHANGED listenVars
       \/ /\ main' = "working"
          /\ m_isOpen' = TRUE /\ listener' = "runs" /\ UNCHANGED m_isStopListenThread
          /\ UNCHANGED leaving
    /\ UNCHANGED <<objects, feederVars, sessionVars, fault>>

Key ==
    /\ main = "working"
    /\ main' = "close" /\ leaving' = "returned"
    /\ UNCHANGED <<objects, feederVars, listenVars, sessionVars, fault>>

-----------------------------------------------------------------------------
(* delete m_pRtspTransport: its destructor closes it, and its base class    *)
(* deletes the media session, which deletes the stream.                     *)

Close ==
    /\ main = "close" /\ transport = "live"
    /\ m_isStopListenThread' = (m_isOpen \/ m_isStopListenThread)
    /\ main' = IF m_isOpen THEN "joinListener" ELSE "freePacket"
    /\ UNCHANGED <<leaving, objects, feederVars, m_isOpen, listener, sessionVars, fault>>

\* Both objects were deleted before.
DeleteAgain ==
    /\ main = "close" /\ transport = "freed"
    /\ fault' = TRUE
    /\ main' \in {"crashed", leaving}
    /\ UNCHANGED <<leaving, objects, feederVars, listenVars, sessionVars>>

JoinListener ==
    /\ main = "joinListener" /\ listener = "exited"
    /\ main' = "deleteSessions"
    /\ UNCHANGED <<leaving, objects, feederVars, listenVars, sessionVars, fault>>

\* One session after the other is signalled and joined.
DeleteSession(c) ==
    /\ main = "deleteSessions"
    /\ \A d \in stopping : session[d] = "ended"
    /\ session[c] # "none" /\ c \notin stopping
    /\ stopping' = stopping \cup {c}
    /\ UNCHANGED <<main, leaving, objects, feederVars, listenVars, session, fault>>

ClosedWhen(joined) ==
    /\ main = "deleteSessions" /\ joined
    /\ m_isOpen' = FALSE
    /\ main' = "freePacket"
    /\ UNCHANGED <<leaving, objects, feederVars, listener, m_isStopListenThread,
                   sessionVars, fault>>

\* (The destructors do not wait for the sessions' threads.)
ClosedAtOnce == ClosedWhen(\A c \in Client : session[c] # "none" => c \in stopping)

Closed == ClosedWhen(\A c \in Client : session[c] \in {"none", "ended"})

\* ~MediaStreamH264: m_Packet and the strings go, without m_tlockRun, whoever is
\* using them; from here to its end the object is a MediaStream.
FreePacket ==
    /\ main = "freePacket"
    /\ stream' = "stripped"
    /\ \/ main' = "stopStream" /\ UNCHANGED fault
       \/ /\ feeder \in {"init", "nal"} /\ fault' = TRUE
          /\ main' \in {"stopStream", "crashed"}
    /\ UNCHANGED <<leaving, transport, audio, service, feederVars, listenVars, sessionVars>>

\* ~MediaStream: TransportTeardown waits for m_tlockRun to stop the stream.
StopStream ==
    /\ main = "stopStream" /\ feeder # "nal"
    /\ stream' = "stopped"
    /\ main' = "freeStream"
    /\ UNCHANGED <<leaving, transport, audio, service, feederVars, listenVars,
                   sessionVars, fault>>

FreeStream ==
    /\ main = "freeStream"
    /\ stream' = "freed" /\ transport' = "freed"
    /\ main' = "release"
    /\ UNCHANGED <<leaving, audio, service, feederVars, listenVars, sessionVars, fault>>

-----------------------------------------------------------------------------
(* delete g_pRtspService: the feeder is told to stop, and waited for.       *)

Release ==
    /\ main = "release"
    /\ m_bVideoFile_ReadThread_Stop' = (feeder # "none")
    /\ main' = IF feeder = "none" THEN "freeService" ELSE "joinFeeder"
    /\ UNCHANGED <<leaving, objects, feeder, m_hVideoFile, listenVars, sessionVars, fault>>

JoinWhen(joined) ==
    /\ main = "joinFeeder" /\ joined
    /\ m_hVideoFile' = "none"
    /\ main' = "freeService"
    /\ UNCHANGED <<leaving, objects, feeder, m_bVideoFile_ReadThread_Stop, listenVars,
                   sessionVars, fault>>

\* (The thread is told but not waited for.)
JoinNothing == JoinWhen(TRUE)

JoinFeeder == JoinWhen(feeder = "returned")

FreeService ==
    /\ main = "freeService"
    /\ service' = "freed"
    /\ main' = leaving
    /\ UNCHANGED <<leaving, transport, stream, audio, feederVars, listenVars, sessionVars, fault>>

MainStep ==
    \/ Start \/ OpenService \/ OpenTransport
    \/ Close \/ DeleteAgain \/ JoinListener \/ (\E c \in Client : DeleteSession(c)) \/ Closed
    \/ FreePacket \/ StopStream \/ FreeStream \/ Release \/ JoinFeeder \/ FreeService

-----------------------------------------------------------------------------
(* The other threads.                                                       *)

\* The feeder looks at the flag between two passes of its inner loop.
LoopWhile(on) ==
    /\ Alive /\ feeder = "outer"
    /\ feeder' = IF on THEN "inner" ELSE "returned"
    /\ UNCHANGED <<main, leaving, objects, m_bVideoFile_ReadThread_Stop, m_hVideoFile,
                   listenVars, sessionVars, fault>>

\* (The flag is read once, when the thread starts.)
LoopForEver == LoopWhile(TRUE)

FeederLoop == LoopWhile(~m_bVideoFile_ReadThread_Stop)

FeederLeaves ==
    /\ Alive /\ feeder = "inner"
    /\ feeder' = "outer"
    /\ UNCHANGED <<main, leaving, objects, m_bVideoFile_ReadThread_Stop, m_hVideoFile,
                   listenVars, sessionVars, fault>>

\* A use of the stream that finds what it needs.
Uses(from, next, states) ==
    /\ Alive /\ feeder = from /\ stream \in states
    /\ feeder' = next
    /\ UNCHANGED <<main, leaving, objects, m_bVideoFile_ReadThread_Stop, m_hVideoFile,
                   listenVars, sessionVars, fault>>

\* One that does not: the process ends, or the feeder goes on as if nothing were wrong,
\* or waits for ever.
Misuses(from, nexts, states) ==
    /\ Alive /\ feeder = from /\ stream \in states
    /\ fault' = TRUE
    /\ \/ feeder' \in nexts /\ UNCHANGED main
       \/ main' = "crashed" /\ UNCHANGED feeder
    /\ UNCHANGED <<leaving, objects, m_bVideoFile_ReadThread_Stop, m_hVideoFile,
                   listenVars, sessionVars>>

\* MediaStreamH264::Init has a place in that class's table of virtual functions only,
\* and sets members that ~MediaStreamH264 destroys.
FeederInit ==
    \/ Uses("inner", "init", {"live"})
    \/ Misuses("inner", {"init", "stuck"}, {"stripped", "stopped", "freed"})

InitReturn ==
    \/ Uses("init", "inner", {"live"})
    \/ Misuses("init", {"inner", "stuck"}, {"stripped", "stopped", "freed"})

\* A MediaStream's TransportData is pure virtual: to call it ends the process.
FeederFrame ==
    \/ Uses("inner", "frame", {"live"})
    \/ Misuses("inner", {}, {"stripped", "stopped"})
    \/ Misuses("inner", {"frame", "stuck"}, {"freed"})

\* TransportH264Nal is not virtual, and m_tlockRun is there until the stream is freed.
NalLock ==
    \/ Uses("frame", "nal", {"live", "stripped", "stopped"})
    \/ Misuses("frame", {"nal", "stuck"}, {"freed"})

\* A unit sent in fragments is put together in m_Packet; one sent in one packet is
\* not, and a stopped stream drops it.
NalUnlock ==
    \/ Uses("nal", "frame", {"live", "stripped", "stopped"})
    \/ Misuses("nal", {"frame"}, {"stripped"})
    \/ Misuses("nal", {"frame", "stuck"}, {"freed"})

FeederReturn ==
    /\ Alive /\ feeder = "frame"
    /\ feeder' = "inner"
    /\ UNCHANGED <<main, leaving, objects, m_bVideoFile_ReadThread_Stop, m_hVideoFile,
                   listenVars, sessionVars, fault>>

FeederStep ==
    FeederLoop \/ FeederLeaves \/ FeederInit \/ InitReturn \/ FeederFrame \/ NalLock \/ NalUnlock
    \/ FeederReturn

ListenThread ==
    /\ Alive /\ listener = "runs"
    /\ \/ /\ m_isStopListenThread
          /\ listener' = "exited" /\ m_isStopListenThread' = FALSE /\ UNCHANGED session
       \/ \E c \in Client :
            /\ ~m_isStopListenThread /\ session[c] = "none"
            /\ session' = [session EXCEPT ![c] = "loop"]
            /\ UNCHANGED <<listener, m_isStopListenThread>>
    /\ UNCHANGED <<main, leaving, objects, feederVars, m_isOpen, stopping, fault>>

SessionGoes(c, from, to) ==
    /\ Alive /\ session[c] = from
    /\ session' = [session EXCEPT ![c] = to]
    /\ UNCHANGED <<main, leaving, objects, feederVars, listenVars, stopping, fault>>

\* The thread looks at its event, which the destructor signals and, after a TEARDOWN,
\* the thread itself.
SessionLoop(c) ==
    \/ c \notin stopping /\ SessionGoes(c, "loop", "read")
    \/ SessionGoes(c, "loop", "ended")

\* GetRequests reads for as long as the client sends: RtspTransport has the lines. Then
\* a request that calls streams; another one, or none; or the client is gone.
SessionRead(c) == \E to \in {"call", "loop", "ended"} : SessionGoes(c, "read", to)

SessionReturn(c) == SessionGoes(c, "call", "loop")

SessionStep(c) == SessionLoop(c) \/ SessionRead(c) \/ SessionReturn(c)

ServiceNext == MainStep \/ Key \/ FeederStep \/ ListenThread \/ \E c \in Client : SessionStep(c)

\* Every thread that can run is run; nobody need press a key.  A pass of the
\* feeder's inner loop ends, as Feeder shows, and so does a frame; a critical section
\* is left, and is not the feeder's for ever. That a read ends is up to the client.
Fairness ==
    /\ WF_serviceVars(MainStep) /\ SF_serviceVars(StopStream)
    /\ WF_serviceVars(FeederLoop) /\ SF_serviceVars(FeederLeaves)
    /\ WF_serviceVars(InitReturn) /\ WF_serviceVars(NalUnlock) /\ SF_serviceVars(FeederReturn)
    /\ WF_serviceVars(ListenThread)
    /\ \A c \in Client : WF_serviceVars(SessionLoop(c)) /\ WF_serviceVars(SessionReturn(c))

ServiceSpec == ServiceInit /\ [][ServiceNext]_serviceVars /\ Fairness

-----------------------------------------------------------------------------
(* What there is at each place of _tmain: which objects, whether the        *)
(* transport is open, and which threads have ended.                         *)
Phases ==
    /\ transport = IF stream \in {"stripped", "stopped"} THEN "live" ELSE stream
    /\ audio = "live" <=> service # "none"
    /\ main = "start" => stream = "none"
    /\ main \in {"openService", "openTransport", "joinListener", "deleteSessions",
                 "freePacket"} => stream = "live" /\ service = "live"
    /\ main = "stopStream" => stream = "stripped"
    /\ main = "freeStream" => stream = "stopped"
    /\ stream = "stripped" => main \in {"stopStream", "crashed"}
    /\ stream = "stopped" => main \in {"freeStream", "crashed"}
    /\ main \in {"release", "joinFeeder", "freeService"} => stream = "freed"
    /\ main \in {"stopStream", "freeStream", "release", "joinFeeder", "freeService"} =>
         service = "live"
    /\ main \in {"start", "working", "close"} => stream = service
    /\ main \in {"working", "close"} => service # "none"
    /\ main = "close" /\ leaving = "working" => stream = "live"
    /\ main = "returned" => stream \in {"none", "freed"} /\ service = stream
    /\ m_isOpen => main \in {"working", "close", "joinListener", "deleteSessions"}
                   /\ stream = "live"
    /\ main \in {"joinListener", "deleteSessions"} => m_isOpen
    /\ main = "deleteSessions" \/ ~m_isOpen => listener # "runs"
    /\ ~m_isOpen => \A c \in Client : session[c] \in {"none", "ended"}
    /\ main \in {"start", "openService"} \/ service = "none" => feeder = "none"
    /\ main = "freeService" \/ service = "freed" => feeder \in {"none", "returned"}
    /\ main = "freeService" \/ service = "freed" \/ feeder = "none" => m_hVideoFile = "none"

(* The inductive invariant.                                                 *)
ServiceInv == ServiceTypeOK /\ Phases

(* A session's thread never calls a stream that is gone: the transport      *)
(* deletes its sessions before its base class deletes the media session.    *)
(* The feeder reads its flag and the stream's address in the service object,*)
(* which outlives it, whichever way _tmain takes.                           *)
ThreadsHaveTheirObjects ==
    /\ \A c \in Client : session[c] = "call" => stream = "live"
    /\ Alive /\ feeder \notin {"none", "returned"} => service = "live"

(* Objects are used behind or during their destruction in two ways only: by *)
(* the feeder between the beginning of the stream's destruction, which is   *)
(* that of m_Packet, and its own end, since _tmain deletes the transport    *)
(* first; and by _tmain that deletes both objects once more.  Of the feeder *)
(* only what the part that is gone at each place was for: the stream's lock *)
(* is good until the stream is freed, and a unit dropped needs no m_Packet. *)
FaultsOnlyThere ==
    [][fault' /\ ~fault =>
         \/ main = "freePacket" /\ feeder \in {"init", "nal"}
         \/ main = "stopStream" /\ feeder \in {"inner", "init", "nal"}
         \/ main = "freeStream" /\ feeder \in {"inner", "init"}
         \/ main \in {"release", "joinFeeder"} /\ feeder \in {"inner", "init", "frame", "nal"}
         \/ main = "close" /\ leaving = "returned" /\ ~m_isOpen]_serviceVars

(* When _tmain returns it leaves no thread that is in the middle of         *)
(* something and no open file; and of its objects only the stream for the   *)
(* audio, which it made with the others and nobody deletes.                 *)
ReturnsClean ==
    main = "returned" =>
        /\ feeder \in {"none", "returned"} /\ listener # "runs"
        /\ \A c \in Client : session[c] \in {"none", "ended"}
        /\ m_hVideoFile = "none" /\ ~m_isOpen
        /\ "live" \notin {transport, stream, service}
        /\ audio = "live" <=> service = "freed"

(* A key ends the process, if every request that a session reads has an end *)
(* (a client that sends without a pause keeps the process for ever), and if *)
(* nothing is used behind or during its destruction.                        *)
ShutdownEnds ==
    (\A c \in Client : []<>(session[c] # "read")) =>
        (main = "close" ~> main \in {"returned", "working"} \/ fault)
=============================================================================

----------------------------- MODULE RtspSession -----------------------------
(***************************************************************************)
(* What a session does with a request (Rtsp/RtspSession.cpp 98-435, with   *)
(* the parts of a URL from Rtsp/RtspResponse.cpp and the look-ups of       *)
(* Rtsp/MediaSession.cpp): it finds the media session and its streams,     *)
(* calls each stream, and answers.  Sessions share the streams.  A call of *)
(* a stream is one step here; MediaStream models its inside.               *)
(***************************************************************************)
EXTENDS Naturals, Sequences, SequencesExt

CONSTANTS
    Session,     \* the sessions, each with its client
    Worlds,      \* what the clients ask and which ports are taken, to choose from
    Name,        \* the media sessions in the list
    StreamsOf,   \* the streams of each, in order; a stream is its name
    FirstPort,   \* 8000
    LastPort,    \* 65530
    MaxUrls      \* bound: the SETUPs between two DESCRIBEs

ASSUME SessionAssumption ==
    /\ StreamsOf \in [Name -> Seq(STRING)] /\ \A n \in Name : IsInjective(StreamsOf[n])
    /\ FirstPort \in Nat /\ LastPort \in Nat /\ 0 < FirstPort /\ FirstPort < LastPort
    /\ MaxUrls \in Nat
    /\ \A w \in Worlds : DOMAIN w.asks \subseteq Session

Stream == UNION {ToSet(StreamsOf[n]) : n \in Name}

Inputs == UNION {UNION {w.asks[s] : s \in DOMAIN w.asks} : w \in Worlds}

\* The ports the scan tries.
Port == {p \in FirstPort..(LastPort - 1) : (p - FirstPort) % 2 = 0}

VARIABLES
    asks,           \* the sessions that there are, and what the client of each
                    \* may ask
    thread,         \* per session: the request it has, the streams left to
                    \* call, the port to try, the one it got, and the answer
    m_SessionName, m_SetupUrl,  \* of each session
    m_Session,      \* its RtspResponse has a session id
    m_bInit, m_bSetup, m_bRun,  \* of each stream
    bound, target,  \* its transport: the local port, and the session it sends to
    taken,          \* the ports that other programs hold
    mine,           \* the streams a session has set up since it last described
                    \* and that no other has called since
    late            \* the streams initialised while a session had its request

sessionVars == <<m_SessionName, m_SetupUrl, m_Session>>
transportVars == <<m_bSetup, m_bRun, bound, target>>
vars == <<asks, thread, sessionVars, m_bInit, transportVars, taken, mine, late>>

None == "none"

-----------------------------------------------------------------------------
(* The path of a URL is a sequence of segments: [name |-> n], or            *)
(* [track |-> k] for a segment "trackID=k".  A name is no number and has no *)
(* '/' in it, and a URL that ends in '/' is the one without it.             *)

IsTrack(segment) == "track" \in DOMAIN segment

\* GetRequestSessionName finds a name; GetRequestStreamName does.
HasSessionName(path) == path # <<>> /\ ~IsTrack(path[1])
HasStreamName(path)  == Len(path) > 1 \/ (path # <<>> /\ IsTrack(path[1]))

\* FindMediaSession finds the one the URL names.
Known(path) == HasSessionName(path) /\ path[1].name \in Name

\* QuickTime leaves the media session's name out of the URL of a SETUP.
SetupName(s, path) == IF HasSessionName(path) THEN path[1].name ELSE m_SessionName[s]

\* A track by its number, from 1; a stream by its name, which is all that is behind the
\* session's; or all of them.
StreamsNamed(name, path) ==
    LET all == IF name \in Name THEN StreamsOf[name] ELSE <<>>
        part == path[IF Len(path) > 1 THEN 2 ELSE 1]
    IN IF ~HasStreamName(path) THEN all
       ELSE IF ~IsTrack(part)
       THEN IF Len(path) = 2 /\ Contains(all, part.name) THEN <<part.name>> ELSE <<>>
       ELSE IF part.track \in DOMAIN all THEN <<all[part.track]>>
       ELSE <<>>

Idle(request, code) ==
    [pc |-> "idle", request |-> request, todo |-> <<>>, port |-> 0, server |-> 0, code |-> code]

NoRequest == [type |-> None, path |-> <<>>, client_port |-> None]

TypeOK ==
    /\ \A s \in Session :
         /\ thread[s].pc \in {"idle", "work", "ended"}
         /\ thread[s].request \in Inputs \cup {NoRequest}
         /\ thread[s].todo \in Seq(Stream)
         /\ thread[s].port \in Port \cup {0} /\ thread[s].server \in Port \cup {0}
         /\ thread[s].code \in {None, "200", "400", "404"}
         /\ \A k \in DOMAIN m_SetupUrl[s] : \E r \in Inputs : r.path = m_SetupUrl[s][k]
    /\ m_SessionName \in [Session -> Name \cup {""}]
    /\ m_Session \in [Session -> BOOLEAN]
    /\ m_bInit \in [Stream -> BOOLEAN]
    /\ m_bSetup \in [Stream -> BOOLEAN] /\ m_bRun \in [Stream -> BOOLEAN]
    /\ bound \in [Stream -> Port \cup {0}] /\ target \in [Stream -> Session \cup {None}]
    /\ \E w \in Worlds : asks = w.asks /\ taken = w.taken
    /\ mine \in [Session -> SUBSET Stream] /\ late \in [Session -> SUBSET Stream]

Init ==
    /\ thread = [s \in Session |-> Idle(NoRequest, None)]
    /\ m_SessionName = [s \in Session |-> ""]
    /\ m_SetupUrl = [s \in Session |-> <<>>]
    /\ m_Session = [s \in Session |-> FALSE]
    /\ m_bInit = [st \in Stream |-> FALSE]
    /\ m_bSetup = [st \in Stream |-> FALSE] /\ m_bRun = [st \in Stream |-> FALSE]
    /\ bound = [st \in Stream |-> 0] /\ target = [st \in Stream |-> None]
    /\ \E w \in Worlds : asks = w.asks /\ taken = w.taken
    /\ mine = [s \in Session |-> {}] /\ late = [s \in Session |-> {}]

-----------------------------------------------------------------------------
(* A request arrives.  What needs no stream is answered at once.            *)

Arrives(s, request, types) ==
    /\ thread[s].pc = "idle" /\ request.type \in types
    /\ late' = [late EXCEPT ![s] = {}]
    /\ UNCHANGED <<asks, m_bInit, transportVars, taken, m_Session>>

Answer(s, request, code) == thread' = [thread EXCEPT ![s] = Idle(request, code)]

Work(s, request, todo) ==
    thread' = [thread EXCEPT ![s] = [Idle(request, None) EXCEPT
                                        !.pc = "work", !.todo = todo, !.port = FirstPort]]

\* A GET_PARAMETER is not answered.
Simple(s, request) ==
    /\ Arrives(s, request, {"OPTIONS", "GET_PARAMETER"})
    /\ Answer(s, request, IF request.type = "OPTIONS" THEN "200" ELSE None)
    /\ UNCHANGED <<m_SessionName, m_SetupUrl, mine>>

\* The name is kept for the SETUPs to come, whose URLs are listed anew.
DescribeKeeping(s, request, name) ==
    /\ Arrives(s, request, {"DESCRIBE"})
    /\ m_SessionName' = [m_SessionName EXCEPT ![s] = name]
    /\ IF Known(request.path)
       THEN /\ Answer(s, request, "200")
            /\ m_SetupUrl' = [m_SetupUrl EXCEPT ![s] = <<>>]
            /\ mine' = [mine EXCEPT ![s] = {}]
       ELSE Answer(s, request, "404") /\ UNCHANGED <<m_SetupUrl, mine>>

\* (A DESCRIBE that fails forgets the name.)
DescribeForgets(s, request) ==
    DescribeKeeping(s, request, IF Known(request.path) THEN request.path[1].name ELSE "")

Describe(s, request) ==
    DescribeKeeping(s, request,
                    IF Known(request.path) THEN request.path[1].name ELSE m_SessionName[s])

Setup(s, request) ==
    /\ Arrives(s, request, {"SETUP"}) /\ Len(m_SetupUrl[s]) < MaxUrls
    /\ LET todo == StreamsNamed(SetupName(s, request.path), request.path)
       IN IF todo = <<>> THEN Answer(s, request, "404")
          ELSE IF request.client_port = None THEN Answer(s, request, "400")
          ELSE Work(s, request, todo)
    /\ UNCHANGED <<m_SessionName, m_SetupUrl, mine>>

\* A session ends after a TEARDOWN, also after one it refuses.
Ends(request) == IF request.type = "TEARDOWN" THEN "ended" ELSE "idle"

Refuse(s, request, code) ==
    thread' = [thread EXCEPT ![s] = [Idle(request, code) EXCEPT !.pc = Ends(request)]]

\* PLAY, PAUSE and TEARDOWN are for all streams of the media session.
Control(s, request) ==
    /\ Arrives(s, request, {"PLAY", "PAUSE", "TEARDOWN"})
    /\ IF ~HasSessionName(request.path) THEN Refuse(s, request, "400")
       ELSE IF ~Known(request.path) THEN Refuse(s, request, "404")
       ELSE Work(s, request, StreamsOf[request.path[1].name])
    /\ UNCHANGED <<m_SessionName, m_SetupUrl, mine>>

-----------------------------------------------------------------------------
(* The streams are called one after the other.                              *)

Calls(s, types) ==
    /\ thread[s].pc = "work" /\ thread[s].todo # <<>>
    /\ thread[s].request.type \in types
    /\ UNCHANGED <<asks, m_SessionName, m_Session, m_bInit, taken, late>>

Others(s, st) == [t \in Session |-> IF t = s THEN mine[t] ELSE mine[t] \ {st}]

\* A call of TransportSetup: nothing happens before Init; then the transport
\* is a new one, on the port if that is free, and for the client if it gave a
\* port that can be connected to.
Opens(st)    == m_bInit[st]
Binds(s, st) == Opens(st) /\ thread[s].port \notin taken
Connects(s, st) == Binds(s, st) /\ thread[s].request.client_port # "0"

\* The scan of StreamSetup in steps of step, for the first stream that is left.
ScanBy(s, step) ==
    /\ Calls(s, {"SETUP"})
    /\ LET st == Head(thread[s].todo)
           port == thread[s].port
           ok == Connects(s, st)
       IN /\ m_bSetup' = IF Opens(st) THEN [m_bSetup EXCEPT ![st] = ok] ELSE m_bSetup
          /\ bound' = IF Opens(st) THEN [bound EXCEPT ![st] = IF Binds(s, st) THEN port ELSE 0]
                      ELSE bound
          /\ target' = IF Opens(st) THEN [target EXCEPT ![st] = IF ok THEN s ELSE None] ELSE target
          /\ mine' = IF ok THEN [Others(s, st) EXCEPT ![s] = @ \cup {st}]
                     ELSE IF Opens(st) THEN [Others(s, st) EXCEPT ![s] = @ \ {st}]
                     ELSE mine
          /\ IF ok
             THEN /\ thread' = [thread EXCEPT ![s].todo = Tail(@), ![s].port = FirstPort,
                                              ![s].server = port]
                  /\ m_SetupUrl' = [m_SetupUrl EXCEPT ![s] = Append(@, thread[s].request.path)]
             ELSE /\ IF port + step >= LastPort
                     THEN Answer(s, thread[s].request, None)
                     ELSE thread' = [thread EXCEPT ![s].port = port + step]
                  /\ UNCHANGED m_SetupUrl
    /\ UNCHANGED m_bRun

\* (One port in two is left out; the same port is tried for ever.)
ScanSkips(s) == ScanBy(s, 4)
ScanStays(s) == ScanBy(s, 0)

Scan(s) == ScanBy(s, 2)

\* TransportStart, which refuses quietly; TransportStop; TransportTeardown.
CallOf(s, st, left) ==
    LET type == thread[s].request.type
    IN /\ Calls(s, {"PLAY", "PAUSE", "TEARDOWN"})
       /\ m_bRun' = [m_bRun EXCEPT ![st] = type = "PLAY" /\ (m_bSetup[st] \/ @)]
       /\ IF type = "TEARDOWN"
          THEN bound' = [bound EXCEPT ![st] = 0] /\ target' = [target EXCEPT ![st] = None]
          ELSE UNCHANGED <<bound, target>>
       /\ mine' = Others(s, st)
       /\ thread' = [thread EXCEPT ![s].todo = left]
       /\ UNCHANGED <<m_SetupUrl, m_bSetup>>

\* (The loop ends one stream early.)
CallAllButLast(s) == CallOf(s, Head(thread[s].todo), Tail(Front(thread[s].todo)))

Call(s) == CallOf(s, Head(thread[s].todo), Tail(thread[s].todo))

\* All streams are done: the answer.
Reply(s) ==
    /\ thread[s].pc = "work" /\ thread[s].todo = <<>>
    /\ LET request == thread[s].request
       IN /\ thread' = [thread EXCEPT ![s] = [Idle(request, "200") EXCEPT
                                                 !.pc = Ends(request), !.server = thread[s].server]]
          /\ m_Session' = [m_Session EXCEPT ![s] = @ \/ request.type = "SETUP"]
          /\ m_SetupUrl' = IF request.type = "TEARDOWN" THEN [m_SetupUrl EXCEPT ![s] = <<>>]
                           ELSE m_SetupUrl
    /\ UNCHANGED <<asks, m_SessionName, m_bInit, transportVars, taken, mine, late>>

-----------------------------------------------------------------------------
\* The client is gone; the session's thread ends, and calls no stream.
Disconnect(s) ==
    /\ thread[s].pc = "idle"
    /\ thread' = [thread EXCEPT ![s].pc = "ended"]
    /\ UNCHANGED <<asks, sessionVars, m_bInit, transportVars, taken, mine, late>>

\* The feeder initialises a stream.
FeederInit(st) ==
    /\ ~m_bInit[st]
    /\ m_bInit' = [m_bInit EXCEPT ![st] = TRUE]
    /\ late' = [s \in Session |-> late[s] \cup {st}]
    /\ UNCHANGED <<asks, thread, sessionVars, transportVars, taken, mine>>

Handle(s, r) == Simple(s, r) \/ Describe(s, r) \/ Setup(s, r) \/ Control(s, r)

ThreadStep(s) == Scan(s) \/ Call(s) \/ Reply(s)

Next ==
    \/ \E s \in DOMAIN asks :
         (\E r \in asks[s] : Handle(s, r)) \/ ThreadStep(s) \/ Disconnect(s)
    \/ \E st \in Stream : FeederInit(st)

\* A session's thread runs.
Spec == Init /\ [][Next]_vars /\ \A s \in Session : WF_vars(ThreadStep(s))

-----------------------------------------------------------------------------
Answered(s, type) ==
    thread[s].pc # "work" /\ thread[s].code = "200" /\ thread[s].request.type = type

(* What an answer of 200 says is true of every stream that the client set   *)
(* up and no other session has called since: after SETUP it is bound, the   *)
(* last one to the port in the answer, and sends to this client; after PLAY *)
(* it runs; after PAUSE and TEARDOWN it does not, and after TEARDOWN its    *)
(* transport is gone.                                                       *)
TheAnswerHolds ==
    \A s \in Session : \A st \in mine[s] :
        LET named == StreamsNamed(SetupName(s, thread[s].request.path), thread[s].request.path)
            all == IF Known(thread[s].request.path)
                   THEN ToSet(StreamsOf[thread[s].request.path[1].name]) ELSE {}
        IN /\ Answered(s, "SETUP") /\ Contains(named, st) =>
                /\ m_bSetup[st] /\ target[st] = s
                /\ st = Last(named) => bound[st] = thread[s].server
           /\ Answered(s, "PLAY") /\ st \in all => m_bRun[st] /\ target[st] = s
           /\ Answered(s, "PAUSE") /\ st \in all => ~m_bRun[st]
           /\ Answered(s, "TEARDOWN") /\ st \in all => ~m_bRun[st] /\ bound[st] = 0

(* The RTP-Info of PLAY lists the URLs of SETUPs.  They name, for a client  *)
(* that leaves the media session out of them too, every stream it has set   *)
(* up, and none that is not there.                                          *)
RtpInfoNamesTheStreams ==
    \A s \in Session :
        LET named == [k \in DOMAIN m_SetupUrl[s] |->
                        ToSet(StreamsNamed(SetupName(s, m_SetupUrl[s][k]), m_SetupUrl[s][k]))]
        IN thread[s].pc # "ended" =>
             mine[s] \subseteq UNION ToSet(named) /\ {} \notin ToSet(named)

\* With the types.
SessionInv == TypeOK /\ RtpInfoNamesTheStreams

(* A SETUP goes without an answer only when it must fail: a stream is not   *)
(* initialised in time, no port in the range is free, or the client's own   *)
(* cannot be connected to.                                                  *)
SilentOnlyWithoutPort ==
    \A s \in Session :
        thread[s].pc = "idle" /\ thread[s].request.type = "SETUP" /\ thread[s].code = None =>
          \/ thread[s].request.client_port = "0"
          \/ Port \subseteq taken
          \/ LET r == thread[s].request
             IN \E st \in ToSet(StreamsNamed(SetupName(s, r.path), r.path)) :
                    ~m_bInit[st] \/ st \in late[s]

(* The thread comes back for the next request: the scan for a port ends.    *)
RequestsEnd == \A s \in Session : thread[s].pc = "work" ~> thread[s].pc # "work"
=============================================================================

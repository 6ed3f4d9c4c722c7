------------------------- MODULE RtspSessionProofs -------------------------
(***************************************************************************)
(* Proofs about RtspSession: for any number of sessions and streams, any   *)
(* requests and any range of ports, what an answer of 200 says is true, the *)
(* RTP-Info of PLAY names the streams that were set up, and a SETUP without *)
(* an answer had to fail.                                                  *)
(***************************************************************************)
EXTENDS RtspSession, ListLemmas

-----------------------------------------------------------------------------
(* The types, of all fields of a thread at once.                            *)

Requests == Inputs \cup {NoRequest}

Paths == {r.path : r \in Inputs}

Names == Name \cup {""}

Thread ==
    [pc : {"idle", "work", "ended"}, request : Requests, todo : Seq(Stream),
     port : Port \cup {0}, server : Port \cup {0}, code : {None, "200", "400", "404"}]

SessionTypes ==
    /\ thread \in [Session -> Thread]
    /\ m_SessionName \in [Session -> Names]
    /\ m_SetupUrl \in [Session -> Seq(Paths)]
    /\ m_Session \in [Session -> BOOLEAN]
    /\ mine \in [Session -> SUBSET Stream] /\ late \in [Session -> SUBSET Stream]

StreamTypes ==
    /\ m_bInit \in [Stream -> BOOLEAN]
    /\ m_bSetup \in [Stream -> BOOLEAN] /\ m_bRun \in [Stream -> BOOLEAN]
    /\ bound \in [Stream -> Port \cup {0}] /\ target \in [Stream -> Session \cup {None}]
    /\ \E w \in Worlds : asks = w.asks /\ taken = w.taken

-----------------------------------------------------------------------------
(* What holds of one session.                                               *)

\* The streams that a path names, for a session that keeps name; and all of a media session.
NamedBy(name, path) ==
    StreamsNamed(IF HasSessionName(path) THEN path[1].name ELSE name, path)

AllOf(path) == IF Known(path) THEN ToSet(StreamsOf[path[1].name]) ELSE {}

Type(s)  == thread[s].request.type
Named(s) == NamedBy(m_SessionName[s], thread[s].request.path)
All(s)   == AllOf(thread[s].request.path)

\* The request is being worked on, or was answered with 200.
Served(s) == thread[s].pc = "work" \/ thread[s].code = "200"

\* A stream that a session set up sends to its client, until a TEARDOWN.
MineIsSetUp(s) ==
    \A st \in mine[s] : m_bSetup[st] /\ (Type(s) # "TEARDOWN" => target[st] = s)

\* What is left to call of a SETUP is the end of what it names.
Working(s) ==
    /\ thread[s].pc = "work" =>
         /\ Type(s) \in {"SETUP", "PLAY", "PAUSE", "TEARDOWN"}
         /\ Type(s) = "SETUP" =>
              /\ thread[s].port \in Port
              /\ Named(s) # <<>> /\ ToSet(thread[s].todo) \subseteq ToSet(Named(s))
              /\ thread[s].todo # <<>> => Last(thread[s].todo) = Last(Named(s))
    /\ thread[s].pc # "work" => thread[s].todo = <<>>
    /\ Type(s) = "TEARDOWN" => thread[s].pc # "idle"

\* The streams that are not left have what the answer will say.
Done(s) ==
    Served(s) => \A st \in mine[s] :
        /\ Type(s) = "SETUP" /\ thread[s].todo = <<>> /\ st = Last(Named(s)) =>
             bound[st] = thread[s].server
        /\ st \in All(s) \ ToSet(thread[s].todo) =>
             /\ Type(s) = "PLAY" => m_bRun[st]
             /\ Type(s) \in {"PAUSE", "TEARDOWN"} => ~m_bRun[st]
             /\ Type(s) = "TEARDOWN" => bound[st] = 0

Uninit(s, st) == ~m_bInit[st] \/ st \in late[s]

\* A scan comes to a port when those below were taken, unless it must fail.
Scanned(s) ==
    /\ thread[s].pc = "work" /\ Type(s) = "SETUP" /\ thread[s].todo # <<>>
    /\ thread[s].request.client_port # "0"
    => \/ Uninit(s, Head(thread[s].todo))
       \/ \A p \in Port : p < thread[s].port => p \in taken

\* RtpInfoNamesTheStreams and SilentOnlyWithoutPort, of one session.
Urls(name, urls) == {ToSet(NamedBy(name, url)) : url \in ToSet(urls)}

RtpInfo(s) ==
    thread[s].pc # "ended" =>
        /\ mine[s] \subseteq UNION Urls(m_SessionName[s], m_SetupUrl[s])
        /\ {} \notin Urls(m_SessionName[s], m_SetupUrl[s])

Silent(s) ==
    thread[s].pc = "idle" /\ Type(s) = "SETUP" /\ thread[s].code = None =>
        \/ thread[s].request.client_port = "0"
        \/ Port \subseteq taken
        \/ \E st \in ToSet(Named(s)) : Uninit(s, st)

Holds(s) ==
    MineIsSetUp(s) /\ Working(s) /\ Done(s) /\ Scanned(s) /\ RtpInfo(s) /\ Silent(s)

\* The inductive invariant: what an answer says comes about stream by stream, so it is said
\* here of a request that is still worked on, for the streams that are not left to call.
IInv == SessionTypes /\ StreamTypes /\ \A s \in Session : Holds(s)

-----------------------------------------------------------------------------
(* Streams by their names.                                                  *)

(* The streams of a media session are streams.                              *)
LEMMA StreamsOfType ==
    ASSUME NEW n \in Name
    PROVE  StreamsOf[n] \in Seq(Stream)
<1>1. StreamsOf[n] \in Seq(STRING)
  BY SessionAssumption
<1>2. \A k \in 1..Len(StreamsOf[n]) : StreamsOf[n][k] \in Stream
  BY <1>1 DEF Stream, ToSet
<1> DEFINE list == StreamsOf[n]
<1> HIDE DEF list
<1>3. list \in Seq(STRING) /\ \A k \in 1..Len(list) : list[k] \in Stream
  BY <1>1, <1>2 DEF list
<1>4. list \in Seq(Stream)
  BY <1>3
<1> QED
  BY <1>4 DEF list

(* Those that a path names are.                                             *)
LEMMA NamedType ==
    ASSUME NEW name, NEW path
    PROVE  StreamsNamed(name, path) \in Seq(Stream) /\ NamedBy(name, path) \in Seq(Stream)
<1> SUFFICES ASSUME NEW n
             PROVE  StreamsNamed(n, path) \in Seq(Stream)
  BY DEF NamedBy
<1> DEFINE all == IF n \in Name THEN StreamsOf[n] ELSE <<>>
           part == path[IF Len(path) > 1 THEN 2 ELSE 1]
<1>1. all \in Seq(Stream)
  BY StreamsOfType
<1>2. StreamsNamed(n, path) =
        IF ~HasStreamName(path) THEN all
        ELSE IF ~IsTrack(part)
        THEN IF Len(path) = 2 /\ Contains(all, part.name) THEN <<part.name>> ELSE <<>>
        ELSE IF part.track \in DOMAIN all THEN <<all[part.track]>>
        ELSE <<>>
  BY DEF StreamsNamed
<1> HIDE DEF all, part
<1>3. ASSUME Contains(all, part.name)
      PROVE  <<part.name>> \in Seq(Stream)
  <2>1. part.name \in Stream
    BY <1>1, <1>3 DEF Contains
  <2> QED
    BY <2>1
<1>4. ASSUME part.track \in DOMAIN all
      PROVE  <<all[part.track]>> \in Seq(Stream)
  <2>1. all[part.track] \in Stream
    BY <1>1, <1>4
  <2> QED
    BY <2>1
<1>5. <<>> \in Seq(Stream)
  OBVIOUS
<1> QED
  BY <1>1, <1>2, <1>3, <1>4, <1>5, Zenon

(* Without its first element a list has fewer elements and the same last    *)
(* one, if it has one.                                                      *)
LEMMA LastOfTail ==
    ASSUME NEW S, NEW s \in Seq(S), s # <<>>
    PROVE  /\ Head(s) \in S /\ Tail(s) \in Seq(S)
           /\ ToSet(s) = {Head(s)} \cup ToSet(Tail(s))
           /\ Last(s) \in ToSet(s)
           /\ IF Tail(s) = <<>> THEN Last(s) = Head(s) ELSE Last(Tail(s)) = Last(s)
<1>1. Head(s) \in S /\ Tail(s) \in Seq(S) /\ ToSet(s) = {Head(s)} \cup ToSet(Tail(s))
  BY HeadTailProperties, ToSetTail
<1> DEFINE rest == Tail(s)
<1>2. /\ Len(s) \in Nat \ {0} /\ Len(rest) = Len(s) - 1 /\ Head(s) = s[1]
      /\ \A k \in 1..(Len(s) - 1) : rest[k] = s[k + 1]
  OBVIOUS
<1>3. Last(s) \in ToSet(s)
  BY <1>2 DEF Last, ToSet
<1> HIDE DEF rest
<1>4. CASE rest = <<>>
  <2>1. Len(rest) = 0
    BY <1>4
  <2>2. Len(s) = 1
    BY <1>2, <2>1
  <2> QED
    BY <1>1, <1>2, <1>3, <1>4, <2>2 DEF Last, rest
<1>5. CASE rest # <<>>
  <2>1. rest \in Seq(S)
    BY <1>1 DEF rest
  <2>2. Len(rest) \in Nat \ {0}
    BY <1>5, <2>1
  <2>3. Len(rest) \in 1..(Len(s) - 1) /\ Len(rest) + 1 = Len(s)
    BY <1>2, <2>2
  <2>4. rest[Len(rest)] = s[Len(s)]
    BY <1>2, <2>3
  <2> QED
    BY <1>1, <1>3, <1>5, <2>4 DEF Last, rest
<1> QED
  BY <1>4, <1>5

-----------------------------------------------------------------------------
(* A session keeps what holds of it while others do something: their calls  *)
(* change streams that are not its own, or are no longer.                   *)
LEMMA OthersKeep ==
    ASSUME IInv, NEW t \in Session,
           thread'[t] = thread[t], m_SessionName'[t] = m_SessionName[t],
           m_SetupUrl'[t] = m_SetupUrl[t], mine'[t] \subseteq mine[t], taken' = taken,
           \A st \in Stream : Uninit(t, st) => Uninit(t, st)',
           \A st \in mine'[t] :
              /\ m_bSetup'[st] = m_bSetup[st] /\ m_bRun'[st] = m_bRun[st]
              /\ bound'[st] = bound[st] /\ target'[st] = target[st]
    PROVE  Holds(t)'
<1>1. Holds(t) /\ thread[t] \in Thread
  BY DEF IInv, SessionTypes
<1>2. Type(t)' = Type(t) /\ Named(t)' = Named(t) /\ All(t)' = All(t) /\ Served(t)' = Served(t)
  BY DEF Type, Named, All, Served
<1>3. MineIsSetUp(t)'
  BY <1>1, <1>2 DEF Holds, MineIsSetUp
<1>4. Working(t)'
  BY <1>1, <1>2 DEF Holds, Working
<1>5. Done(t)'
  <2> SUFFICES ASSUME Served(t)', NEW st \in mine'[t]
               PROVE  /\ (Type(t) = "SETUP" /\ thread[t].todo = <<>> /\ st = Last(Named(t)) =>
                            bound'[st] = thread[t].server)
                      /\ (st \in All(t) \ ToSet(thread[t].todo) =>
                            /\ Type(t) = "PLAY" => m_bRun'[st]
                            /\ Type(t) \in {"PAUSE", "TEARDOWN"} => ~m_bRun'[st]
                            /\ Type(t) = "TEARDOWN" => bound'[st] = 0)
    BY <1>2 DEF Done
  <2>1. Served(t) /\ st \in mine[t]
    BY <1>2
  <2>2. m_bRun'[st] = m_bRun[st] /\ bound'[st] = bound[st]
    OBVIOUS
  <2> QED
    BY <1>1, <2>1, <2>2, Zenon DEF Holds, Done
<1>6. Scanned(t)'
  <2>1. Scanned(t) /\ Working(t)
    BY <1>1 DEF Holds
  <2>2. ASSUME thread[t].todo # <<>>
        PROVE  Head(thread[t].todo) \in Stream
    BY <1>1, <2>2, LastOfTail DEF Thread
  <2> QED
    BY <1>2, <2>1, <2>2 DEF Scanned
<1>7. RtpInfo(t)'
  BY <1>1 DEF Holds, RtpInfo
<1>8. Silent(t)'
  <2>1. Silent(t)
    BY <1>1 DEF Holds
  <2>2. Named(t) \in Seq(Stream)
    BY NamedType DEF Named
  <2>3. ToSet(Named(t)) \subseteq Stream
    BY <2>2 DEF ToSet
  <2> QED
    BY <1>2, <2>1, <2>3 DEF Silent
<1> QED
  BY <1>3, <1>4, <1>5, <1>6, <1>7, <1>8 DEF Holds

-----------------------------------------------------------------------------
(* The ports of a scan.                                                     *)

(* The first one is one.                                                    *)
LEMMA FirstIsPort ==
    FirstPort \in Port /\ 0 \notin Port /\ \A p \in Port : p \in Nat /\ p >= FirstPort
<1>1. FirstPort \in Nat /\ LastPort \in Nat /\ 0 < FirstPort /\ FirstPort < LastPort
  BY SessionAssumption
<1>2. FirstPort \in FirstPort..(LastPort - 1) /\ (FirstPort - FirstPort) % 2 = 0
  BY <1>1
<1> QED
  BY <1>1, <1>2 DEF Port

(* Two further is the next one, or there is none: that all below it are     *)
(* taken comes about port by port.                                          *)
LEMMA NextPort ==
    ASSUME NEW port \in Port, NEW ports, \A p \in Port : p < port => p \in ports, port \in ports
    PROVE  /\ \A p \in Port : p < port + 2 => p \in ports
           /\ IF port + 2 >= LastPort THEN Port \subseteq ports ELSE port + 2 \in Port
<1>1. FirstPort \in Nat /\ LastPort \in Nat /\ port \in Nat /\ FirstPort <= port
      /\ port <= LastPort - 1 /\ (port - FirstPort) % 2 = 0
  BY SessionAssumption DEF Port
<1>2. ASSUME NEW p \in Port, p < port + 2
      PROVE  p \in ports
  <2>1. p \in Nat /\ FirstPort <= p /\ (p - FirstPort) % 2 = 0
    BY <1>1 DEF Port
  <2>2. p # port + 1
    BY <1>1, <2>1
  <2>3. p <= port
    BY <1>1, <1>2, <2>1, <2>2
  <2> QED
    BY <1>1, <2>1, <2>3
<1>3. CASE port + 2 >= LastPort
  <2>1. \A p \in Port : p \in Nat /\ p <= LastPort - 1
    BY <1>1 DEF Port
  <2>2. \A p \in Port : p < port + 2
    BY <1>1, <1>3, <2>1
  <2> QED
    BY <1>2, <1>3, <2>2
<1>4. CASE ~(port + 2 >= LastPort)
  <2> DEFINE next == port + 2
  <2>1. next \in FirstPort..(LastPort - 1) /\ (next - FirstPort) % 2 = 0
    BY <1>1, <1>4
  <2> HIDE DEF next
  <2>2. next \in Port
    BY <2>1 DEF Port
  <2> QED
    BY <1>2, <1>4, <2>2 DEF next
<1> QED
  BY <1>3, <1>4

-----------------------------------------------------------------------------
(* A request arrives.                                                       *)

\* What is right for a thread that has just got one.
Fresh(th, name) ==
    /\ th.pc # "work" => th.todo = <<>>
    /\ th.request.type = "TEARDOWN" => th.pc # "idle"
    /\ th.pc = "work" =>
         \/ /\ th.request.type = "SETUP" /\ th.port = FirstPort
            /\ th.todo = NamedBy(name, th.request.path) /\ th.todo # <<>>
         \/ /\ th.request.type \in {"PLAY", "PAUSE", "TEARDOWN"}
            /\ AllOf(th.request.path) \subseteq ToSet(th.todo)
    /\ th.code = "200" => th.pc = "idle" /\ th.request.type \in {"OPTIONS", "DESCRIBE"}
    /\ th.pc = "idle" /\ th.request.type = "SETUP" => th.code # None

(* The session that gets it has nothing done of it yet, and keeps what it   *)
(* had, or nothing.                                                         *)
LEMMA ArrivalKeeps ==
    ASSUME IInv, NEW s \in Session, thread[s].pc = "idle",
           NEW th \in Thread, thread' = [thread EXCEPT ![s] = th],
           NEW name \in Names, m_SessionName' = [m_SessionName EXCEPT ![s] = name],
           NEW urls \in Seq(Paths), m_SetupUrl' = [m_SetupUrl EXCEPT ![s] = urls],
           NEW own \in SUBSET Stream, mine' = [mine EXCEPT ![s] = own],
           late' = [late EXCEPT ![s] = {}],
           UNCHANGED <<asks, m_Session, m_bInit, m_bSetup, m_bRun, bound, target, taken>>,
           \/ name = m_SessionName[s] /\ urls = m_SetupUrl[s] /\ own = mine[s]
           \/ urls = <<>> /\ own = {},
           Fresh(th, name)
    PROVE  IInv'
<1>1. SessionTypes /\ StreamTypes /\ \A t \in Session : Holds(t)
  BY DEF IInv
<1>2. SessionTypes'
  BY <1>1 DEF SessionTypes
<1>3. StreamTypes'
  BY <1>1 DEF StreamTypes
<1>4. /\ thread'[s] = th /\ m_SessionName'[s] = name /\ m_SetupUrl'[s] = urls
      /\ mine'[s] = own /\ late'[s] = {}
  BY <1>1 DEF SessionTypes
<1>5. Type(s)' = th.request.type /\ Named(s)' = NamedBy(name, th.request.path)
      /\ All(s)' = AllOf(th.request.path)
  BY <1>4 DEF Type, Named, All
<1>6. Holds(s)
  BY <1>1
<1>7. MineIsSetUp(s)'
  <2>1. Type(s) # "TEARDOWN"
    BY <1>6 DEF Holds, Working
  <2>2. own \subseteq mine[s]
    OBVIOUS
  <2>3. \A st \in own : m_bSetup[st] /\ target[st] = s
    BY <1>6, <2>1, <2>2 DEF Holds, MineIsSetUp
  <2> QED
    BY <1>4, <2>3 DEF MineIsSetUp
<1>8. Working(s)'
  <2>1. FirstPort \in Port
    BY FirstIsPort
  <2> QED
    BY <1>4, <1>5, <2>1 DEF Working, Fresh
<1>9. Done(s)'
  BY <1>4, <1>5 DEF Done, Served, Fresh
<1>10. Scanned(s)'
  <2>1. FirstPort \in Nat
    BY SessionAssumption
  <2>2. ASSUME NEW p \in Port
        PROVE  ~(p < FirstPort)
    <3>1. p \in Nat /\ p >= FirstPort
      BY FirstIsPort
    <3> QED
      BY <2>1, <3>1
  <2> QED
    BY <1>4, <1>5, <2>2 DEF Scanned, Fresh
<1>11. RtpInfo(s)'
  <2>1. CASE name = m_SessionName[s] /\ urls = m_SetupUrl[s] /\ own = mine[s]
    BY <1>4, <1>6, <2>1 DEF Holds, RtpInfo
  <2>2. CASE urls = <<>> /\ own = {}
    <3>1. ToSet(<<>>) = {}
      BY DEF ToSet
    <3>2. ToSet(urls) = {}
      BY <2>2, <3>1, Zenon
    <3> QED
      BY <1>4, <2>2, <3>2 DEF RtpInfo, Urls
  <2> QED
    BY <2>1, <2>2
<1>12. Silent(s)'
  BY <1>4, <1>5 DEF Silent, Fresh
<1>13. Holds(s)'
  BY <1>7, <1>8, <1>9, <1>10, <1>11, <1>12 DEF Holds
<1>14. ASSUME NEW t \in Session, t # s
       PROVE  Holds(t)'
  <2>1. /\ thread'[t] = thread[t] /\ m_SessionName'[t] = m_SessionName[t]
        /\ m_SetupUrl'[t] = m_SetupUrl[t] /\ mine'[t] = mine[t] /\ late'[t] = late[t]
    BY <1>1, <1>14 DEF SessionTypes
  <2>2. \A st \in Stream : Uninit(t, st) => Uninit(t, st)'
    BY <2>1 DEF Uninit
  <2> QED
    BY <2>1, <2>2, OthersKeep
<1> QED
  BY <1>2, <1>3, <1>13, <1>14 DEF IInv

(* The client asks what it may.                                             *)
LEMMA AskedType ==
    ASSUME StreamTypes, NEW s \in DOMAIN asks, NEW r \in asks[s]
    PROVE  s \in Session /\ r \in Inputs /\ r \in Requests /\ r.path \in Paths
<1>1. PICK w \in Worlds : asks = w.asks
  BY DEF StreamTypes
<1>2. s \in Session
  BY <1>1, SessionAssumption
<1>3. r \in Inputs
  BY <1>1 DEF Inputs
<1> QED
  BY <1>2, <1>3 DEF Requests, Paths

(* A thread that has answered, and one that starts to work.                 *)
LEMMA IdleType ==
    ASSUME NEW r \in Requests
    PROVE  /\ \A code \in {None, "200", "400", "404"} :
                /\ Idle(r, code) \in Thread
                /\ Idle(r, code).pc = "idle" /\ Idle(r, code).todo = <<>>
                /\ Idle(r, code).request = r /\ Idle(r, code).code = code
           /\ \A pc \in {"idle", "ended"}, code \in {"400", "404"} :
                [Idle(r, code) EXCEPT !.pc = pc] \in Thread
           /\ \A todo \in Seq(Stream) :
                [Idle(r, None) EXCEPT !.pc = "work", !.todo = todo, !.port = FirstPort] \in Thread
<1>1. <<>> \in Seq(Stream) /\ FirstPort \in Port
  BY FirstIsPort
<1> QED
  BY <1>1 DEF Idle, Thread

(* The same of one answer.                                                  *)
LEMMA AnsweredType ==
    ASSUME NEW r \in Requests, NEW code \in {None, "200", "400", "404"}
    PROVE  /\ Idle(r, code) \in Thread
           /\ Idle(r, code).pc = "idle" /\ Idle(r, code).todo = <<>>
           /\ Idle(r, code).request = r /\ Idle(r, code).code = code
BY IdleType, Zenon

(* OPTIONS and GET_PARAMETER are answered at once.                          *)
LEMMA SimpleKeeps ==
    ASSUME IInv, NEW s \in DOMAIN asks, NEW r \in asks[s], Simple(s, r)
    PROVE  IInv'
<1>1. StreamTypes /\ SessionTypes
  BY DEF IInv
<1>2. s \in Session /\ r \in Requests
  BY <1>1, AskedType
<1> DEFINE code == IF r.type = "OPTIONS" THEN "200" ELSE None
           th == Idle(r, code)
<1>3. /\ th \in Thread /\ th.pc = "idle" /\ th.todo = <<>> /\ th.request = r
      /\ th.code = "200" => r.type = "OPTIONS"
  <2>1. code \in {None, "200", "400", "404"} /\ (code = "200" => r.type = "OPTIONS")
    BY DEF None
  <2> HIDE DEF code
  <2>2. /\ Idle(r, code) \in Thread
        /\ Idle(r, code).pc = "idle" /\ Idle(r, code).todo = <<>>
        /\ Idle(r, code).request = r /\ Idle(r, code).code = code
    BY <1>2, <2>1, AnsweredType
  <2> QED
    BY <2>1, <2>2, Zenon
<1>4. thread' = [thread EXCEPT ![s] = th]
  BY DEF Simple, Answer
<1> HIDE DEF th
<1>5. Fresh(th, m_SessionName[s])
  BY <1>3 DEF Fresh, Simple, Arrives
<1>6. /\ m_SessionName[s] \in Names /\ m_SessionName' = [m_SessionName EXCEPT ![s] = @]
      /\ m_SetupUrl[s] \in Seq(Paths) /\ m_SetupUrl' = [m_SetupUrl EXCEPT ![s] = @]
      /\ mine[s] \in SUBSET Stream /\ mine' = [mine EXCEPT ![s] = @]
  BY <1>1, <1>2 DEF Simple, SessionTypes
<1>7. /\ thread[s].pc = "idle" /\ late' = [late EXCEPT ![s] = {}]
      /\ UNCHANGED <<asks, m_Session, m_bInit, m_bSetup, m_bRun, bound, target, taken>>
  BY DEF Simple, Arrives, transportVars
<1> QED
  BY <1>2, <1>3, <1>4, <1>5, <1>6, <1>7, ArrivalKeeps

(* A DESCRIBE that is answered starts anew; one that is refused is nothing. *)
LEMMA DescribeKeeps ==
    ASSUME IInv, NEW s \in DOMAIN asks, NEW r \in asks[s], Describe(s, r)
    PROVE  IInv'
<1>1. StreamTypes /\ SessionTypes
  BY DEF IInv
<1>2. s \in Session /\ r \in Requests
  BY <1>1, AskedType
<1> DEFINE name == IF Known(r.path) THEN r.path[1].name ELSE m_SessionName[s]
<1>3. DescribeKeeping(s, r, name)
  BY DEF Describe
<1>4. name \in Names /\ (~Known(r.path) => name = m_SessionName[s])
  BY <1>1, <1>2, Zenon DEF Known, SessionTypes, Names
<1> HIDE DEF name
<1>5. /\ thread[s].pc = "idle" /\ late' = [late EXCEPT ![s] = {}] /\ r.type = "DESCRIBE"
      /\ UNCHANGED <<asks, m_Session, m_bInit, m_bSetup, m_bRun, bound, target, taken>>
      /\ m_SessionName' = [m_SessionName EXCEPT ![s] = name]
  BY <1>3 DEF DescribeKeeping, Arrives, transportVars
<1>6. CASE Known(r.path)
  <2> DEFINE th == Idle(r, "200")
  <2>1. th \in Thread /\ th.pc = "idle" /\ th.todo = <<>> /\ th.request = r
    BY <1>2, IdleType
  <2>2. /\ thread' = [thread EXCEPT ![s] = th] /\ mine' = [mine EXCEPT ![s] = {}]
        /\ m_SetupUrl' = [m_SetupUrl EXCEPT ![s] = <<>>]
    BY <1>3, <1>6 DEF DescribeKeeping, Answer
  <2> HIDE DEF th
  <2>3. Fresh(th, name)
    BY <1>5, <2>1 DEF Fresh
  <2>4. <<>> \in Seq(Paths) /\ {} \in SUBSET Stream
    OBVIOUS
  <2> QED
    BY <1>2, <1>4, <1>5, <2>1, <2>2, <2>3, <2>4, ArrivalKeeps
<1>7. CASE ~Known(r.path)
  <2> DEFINE th == Idle(r, "404")
  <2>1. th \in Thread /\ th.pc = "idle" /\ th.todo = <<>> /\ th.request = r
    BY <1>2, IdleType
  <2>2. thread' = [thread EXCEPT ![s] = th] /\ UNCHANGED <<mine, m_SetupUrl>>
    BY <1>3, <1>7 DEF DescribeKeeping, Answer
  <2> HIDE DEF th
  <2>3. Fresh(th, name)
    BY <1>5, <2>1 DEF Fresh
  <2>4. /\ m_SetupUrl[s] \in Seq(Paths) /\ m_SetupUrl' = [m_SetupUrl EXCEPT ![s] = @]
        /\ mine[s] \in SUBSET Stream /\ mine' = [mine EXCEPT ![s] = @]
    BY <1>1, <1>2, <2>2 DEF SessionTypes
  <2> QED
    BY <1>2, <1>4, <1>5, <1>7, <2>1, <2>2, <2>3, <2>4, ArrivalKeeps
<1> QED
  BY <1>6, <1>7

(* A SETUP starts to work on all the streams that it names.                 *)
LEMMA SetupArrives ==
    ASSUME IInv, NEW s \in DOMAIN asks, NEW r \in asks[s], Setup(s, r)
    PROVE  IInv'
<1>1. StreamTypes /\ SessionTypes
  BY DEF IInv
<1>2. s \in Session /\ r \in Requests
  BY <1>1, AskedType
<1>3. /\ m_SessionName[s] \in Names /\ m_SessionName' = [m_SessionName EXCEPT ![s] = @]
      /\ m_SetupUrl[s] \in Seq(Paths) /\ m_SetupUrl' = [m_SetupUrl EXCEPT ![s] = @]
      /\ mine[s] \in SUBSET Stream /\ mine' = [mine EXCEPT ![s] = @]
  BY <1>1, <1>2 DEF Setup, SessionTypes
<1>4. /\ thread[s].pc = "idle" /\ late' = [late EXCEPT ![s] = {}] /\ r.type = "SETUP"
      /\ UNCHANGED <<asks, m_Session, m_bInit, m_bSetup, m_bRun, bound, target, taken>>
  BY DEF Setup, Arrives, transportVars
<1> DEFINE todo == NamedBy(m_SessionName[s], r.path)
<1>5. todo \in Seq(Stream)
  BY NamedType
<1>6. todo = StreamsNamed(SetupName(s, r.path), r.path)
  BY DEF NamedBy, SetupName
<1> SUFFICES \E th \in Thread : thread' = [thread EXCEPT ![s] = th] /\ Fresh(th, m_SessionName[s])
  <2>1. PICK th \in Thread : thread' = [thread EXCEPT ![s] = th] /\ Fresh(th, m_SessionName[s])
    OBVIOUS
  <2> QED
    BY <1>2, <1>3, <1>4, <2>1, ArrivalKeeps
<1>7. ASSUME NEW code \in {"400", "404"}, Answer(s, r, code)
      PROVE  \E th \in Thread : thread' = [thread EXCEPT ![s] = th] /\ Fresh(th, m_SessionName[s])
  <2> DEFINE th == Idle(r, code)
  <2>0. code \in {None, "200", "400", "404"}
    OBVIOUS
  <2>1. /\ th \in Thread /\ th.pc = "idle" /\ th.todo = <<>> /\ th.request = r
        /\ th.code \in {"400", "404"}
    BY <1>2, <2>0, <1>7, AnsweredType
  <2>2. thread' = [thread EXCEPT ![s] = th]
    BY <1>7 DEF Answer
  <2> HIDE DEF th
  <2>3. Fresh(th, m_SessionName[s])
    BY <1>4, <2>1 DEF Fresh, None
  <2> QED
    BY <2>1, <2>2, <2>3
<1>8. ASSUME todo # <<>>, Work(s, r, todo)
      PROVE  \E th \in Thread : thread' = [thread EXCEPT ![s] = th] /\ Fresh(th, m_SessionName[s])
  <2> HIDE DEF todo
  <2> DEFINE th == [Idle(r, None) EXCEPT !.pc = "work", !.todo = todo, !.port = FirstPort]
  <2>1. th \in Thread
    BY <1>2, <1>5, IdleType
  <2>2. /\ th.pc = "work" /\ th.todo = todo /\ th.port = FirstPort /\ th.request = r
        /\ th.code = None
    BY DEF Idle
  <2>3. thread' = [thread EXCEPT ![s] = th]
    BY <1>8 DEF Work
  <2> HIDE DEF th
  <2>4. Fresh(th, m_SessionName[s])
    BY <1>4, <1>8, <2>2 DEF Fresh, None, todo
  <2> QED
    BY <2>1, <2>3, <2>4
<1>9. IF todo = <<>> THEN Answer(s, r, "404")
      ELSE IF r.client_port = None THEN Answer(s, r, "400")
      ELSE Work(s, r, todo)
  <2> HIDE DEF todo
  <2> QED
    BY <1>6 DEF Setup
<1> QED
  <2> HIDE DEF todo
  <2> QED
    BY <1>7, <1>8, <1>9

(* PLAY, PAUSE and TEARDOWN start to work on all streams of the media       *)
(* session; of a TEARDOWN that is refused, too, the session ends.           *)
LEMMA ControlArrives ==
    ASSUME IInv, NEW s \in DOMAIN asks, NEW r \in asks[s], Control(s, r)
    PROVE  IInv'
<1>1. StreamTypes /\ SessionTypes
  BY DEF IInv
<1>2. s \in Session /\ r \in Requests
  BY <1>1, AskedType
<1>3. /\ m_SessionName[s] \in Names /\ m_SessionName' = [m_SessionName EXCEPT ![s] = @]
      /\ m_SetupUrl[s] \in Seq(Paths) /\ m_SetupUrl' = [m_SetupUrl EXCEPT ![s] = @]
      /\ mine[s] \in SUBSET Stream /\ mine' = [mine EXCEPT ![s] = @]
  BY <1>1, <1>2 DEF Control, SessionTypes
<1>4. /\ thread[s].pc = "idle" /\ late' = [late EXCEPT ![s] = {}]
      /\ r.type \in {"PLAY", "PAUSE", "TEARDOWN"}
      /\ UNCHANGED <<asks, m_Session, m_bInit, m_bSetup, m_bRun, bound, target, taken>>
  BY DEF Control, Arrives, transportVars
<1> SUFFICES \E th \in Thread : thread' = [thread EXCEPT ![s] = th] /\ Fresh(th, m_SessionName[s])
  <2>1. PICK th \in Thread : thread' = [thread EXCEPT ![s] = th] /\ Fresh(th, m_SessionName[s])
    OBVIOUS
  <2> QED
    BY <1>2, <1>3, <1>4, <2>1, ArrivalKeeps
<1>5. ASSUME NEW code \in {"400", "404"}, Refuse(s, r, code)
      PROVE  \E th \in Thread : thread' = [thread EXCEPT ![s] = th] /\ Fresh(th, m_SessionName[s])
  <2> DEFINE th == [Idle(r, code) EXCEPT !.pc = Ends(r)]
  <2>1. Ends(r) \in {"idle", "ended"} /\ (r.type = "TEARDOWN" => Ends(r) = "ended")
    BY DEF Ends
  <2>2. th \in Thread
    BY <1>2, <2>1, IdleType
  <2>3. th.pc = Ends(r) /\ th.todo = <<>> /\ th.request = r /\ th.code = code
    BY DEF Idle
  <2>4. thread' = [thread EXCEPT ![s] = th]
    BY <1>5 DEF Refuse
  <2> HIDE DEF th
  <2>5. Fresh(th, m_SessionName[s])
    BY <1>4, <2>1, <2>3 DEF Fresh
  <2> QED
    BY <2>2, <2>4, <2>5
<1>6. ASSUME Known(r.path), Work(s, r, StreamsOf[r.path[1].name])
      PROVE  \E th \in Thread : thread' = [thread EXCEPT ![s] = th] /\ Fresh(th, m_SessionName[s])
  <2> DEFINE todo == StreamsOf[r.path[1].name]
  <2>1. todo \in Seq(Stream)
    BY <1>6, StreamsOfType DEF Known
  <2>2. AllOf(r.path) = ToSet(todo)
    BY <1>6 DEF AllOf
  <2>3. Work(s, r, todo)
    BY <1>6
  <2> HIDE DEF todo
  <2> DEFINE th == [Idle(r, None) EXCEPT !.pc = "work", !.todo = todo, !.port = FirstPort]
  <2>4. th \in Thread
    BY <1>2, <2>1, IdleType
  <2>5. th.pc = "work" /\ th.todo = todo /\ th.request = r /\ th.code = None
    BY DEF Idle
  <2>6. thread' = [thread EXCEPT ![s] = th]
    BY <2>3 DEF Work
  <2> HIDE DEF th
  <2>7. Fresh(th, m_SessionName[s])
    BY <1>4, <2>2, <2>5 DEF Fresh, None
  <2> QED
    BY <2>4, <2>6, <2>7
<1> QED
  BY <1>5, <1>6 DEF Control

-----------------------------------------------------------------------------
(* The streams are called.                                                  *)

(* The URL of a SETUP that is done names what it named.                     *)
LEMMA UrlsOfOneMore ==
    ASSUME NEW name, NEW urls \in Seq(Paths), NEW path \in Paths
    PROVE  Urls(name, Append(urls, path)) = Urls(name, urls) \cup {ToSet(NamedBy(name, path))}
<1>1. ToSet(Append(urls, path)) = ToSet(urls) \cup {path}
  BY ToSetAppend
<1> QED
  BY <1>1 DEF Urls

(* A try of the scan: what it changes for its own session and for others.   *)
LEMMA ScanSteps ==
    ASSUME IInv, NEW s \in Session, Scan(s)
    PROVE  LET st == Head(thread[s].todo)
               ok == Connects(s, st)
           IN /\ SessionTypes' /\ StreamTypes' /\ st \in Stream
              /\ taken' = taken /\ m_bInit' = m_bInit /\ late' = late
              /\ m_SessionName' = m_SessionName
              /\ m_SetupUrl'[s] = IF ok THEN Append(m_SetupUrl[s], thread[s].request.path)
                                  ELSE m_SetupUrl[s]
              /\ \A x \in mine'[s] \ {st} :
                    /\ x \in mine[s] /\ m_bSetup'[x] = m_bSetup[x] /\ m_bRun'[x] = m_bRun[x]
                    /\ bound'[x] = bound[x] /\ target'[x] = target[x]
              /\ st \in mine'[s] => m_bSetup'[st] /\ target'[st] = s /\ (st \in mine[s] \/ ok)
              /\ ok => bound'[st] = thread[s].port
              /\ thread'[s] =
                   IF ok THEN [thread[s] EXCEPT !.todo = Tail(thread[s].todo),
                                                !.port = FirstPort, !.server = thread[s].port]
                   ELSE IF thread[s].port + 2 >= LastPort THEN Idle(thread[s].request, None)
                   ELSE [thread[s] EXCEPT !.port = thread[s].port + 2]
              /\ \A t \in Session \ {s} : Holds(t)'
<1> DEFINE th == thread[s]
           todo == th.todo
           st == Head(todo)
           ok == Connects(s, st)
           port == th.port
           new == IF ok THEN [th EXCEPT !.todo = Tail(todo), !.port = FirstPort, !.server = port]
                  ELSE IF port + 2 >= LastPort THEN Idle(th.request, None)
                  ELSE [th EXCEPT !.port = port + 2]
<1>1. SessionTypes /\ StreamTypes /\ Holds(s)
  BY DEF IInv
<1>2. th \in Thread /\ th.request \in Requests /\ todo \in Seq(Stream)
  BY <1>1 DEF SessionTypes, Thread
<1>3. th.pc = "work" /\ todo # <<>> /\ Type(s) = "SETUP" /\ th.request.type = "SETUP"
  BY DEF Scan, ScanBy, Calls, Type
<1>4. st \in Stream /\ Tail(todo) \in Seq(Stream)
  BY <1>2, <1>3, LastOfTail
<1>5. port \in Port
  BY <1>1, <1>3 DEF Holds, Working
<1>6. th.request \in Inputs /\ th.request.path \in Paths
  BY <1>2, <1>3 DEF Requests, NoRequest, None, Paths
<1>7. /\ UNCHANGED <<asks, m_SessionName, m_Session, m_bInit, taken, late, m_bRun>>
      /\ m_bSetup' = IF Opens(st) THEN [m_bSetup EXCEPT ![st] = ok] ELSE m_bSetup
      /\ bound' = IF Opens(st) THEN [bound EXCEPT ![st] = IF Binds(s, st) THEN port ELSE 0]
                  ELSE bound
      /\ target' = IF Opens(st) THEN [target EXCEPT ![st] = IF ok THEN s ELSE None] ELSE target
      /\ mine' = IF ok THEN [Others(s, st) EXCEPT ![s] = @ \cup {st}]
                 ELSE IF Opens(st) THEN [Others(s, st) EXCEPT ![s] = @ \ {st}]
                 ELSE mine
      /\ m_SetupUrl' = IF ok THEN [m_SetupUrl EXCEPT ![s] = Append(@, th.request.path)]
                       ELSE m_SetupUrl
  BY DEF Scan, ScanBy, Calls
<1>8. thread' = [thread EXCEPT ![s] = new]
  <2>1. CASE ok
    <3>1. thread' = [thread EXCEPT ![s].todo = Tail(@), ![s].port = FirstPort, ![s].server = port]
      BY <2>1 DEF Scan, ScanBy
    <3> QED
      BY <1>1, <2>1, <3>1 DEF SessionTypes, Thread
  <2>2. CASE ~ok
    <3>1. IF port + 2 >= LastPort THEN Answer(s, th.request, None)
          ELSE thread' = [thread EXCEPT ![s].port = port + 2]
      BY <2>2 DEF Scan, ScanBy
    <3> QED
      BY <1>1, <2>2, <3>1 DEF SessionTypes, Thread, Answer
  <2> QED
    BY <2>1, <2>2
<1>9. ok \in BOOLEAN /\ (ok => Opens(st) /\ Binds(s, st)) /\ (Binds(s, st) => Opens(st))
  BY DEF Connects, Binds
<1>10. new \in Thread
  <2>1. CASE ok
    BY <1>2, <1>4, <1>5, <2>1, FirstIsPort DEF Thread
  <2>2. CASE ~ok /\ port + 2 >= LastPort
    <3>1. None \in {None, "200", "400", "404"}
      OBVIOUS
    <3> QED
      BY <1>2, <2>2, <3>1, IdleType, Zenon
  <2>3. CASE ~ok /\ ~(port + 2 >= LastPort)
    <3>1. port + 2 \in Port
      <4>1. \A p \in Port : p < port => p \in Port
        OBVIOUS
      <4> QED
        BY <1>5, <2>3, <4>1, NextPort
    <3> QED
      BY <1>2, <2>3, <3>1 DEF Thread
  <2> QED
    BY <2>1, <2>2, <2>3
<1> HIDE DEF new
<1>11. SessionTypes' /\ StreamTypes'
  <2>1. Others(s, st) \in [Session -> SUBSET Stream]
    BY <1>1 DEF SessionTypes, Others
  <2>2. mine' \in [Session -> SUBSET Stream]
    <3> HIDE DEF ok, st
    <3> QED
      BY <1>1, <1>4, <1>7, <2>1 DEF SessionTypes
  <2>3. m_SetupUrl' \in [Session -> Seq(Paths)]
    <3>1. Append(m_SetupUrl[s], th.request.path) \in Seq(Paths)
      BY <1>1, <1>6 DEF SessionTypes
    <3> HIDE DEF ok, th
    <3> QED
      BY <1>1, <1>7, <3>1 DEF SessionTypes
  <2>4. thread' \in [Session -> Thread]
    BY <1>1, <1>8, <1>10 DEF SessionTypes
  <2>5. SessionTypes'
    BY <1>1, <1>7, <2>2, <2>3, <2>4 DEF SessionTypes
  <2> HIDE DEF ok, st, port
  <2>6. m_bSetup' \in [Stream -> BOOLEAN]
    BY <1>1, <1>4, <1>7, <1>9 DEF StreamTypes
  <2>7. bound' \in [Stream -> Port \cup {0}]
    BY <1>1, <1>4, <1>5, <1>7 DEF StreamTypes
  <2>8. target' \in [Stream -> Session \cup {None}]
    BY <1>1, <1>4, <1>7 DEF StreamTypes
  <2> QED
    BY <1>1, <1>7, <2>5, <2>6, <2>7, <2>8 DEF StreamTypes
<1>12. thread'[s] = new
  BY <1>1, <1>8 DEF SessionTypes
<1>13. m_SetupUrl'[s] = IF ok THEN Append(m_SetupUrl[s], th.request.path) ELSE m_SetupUrl[s]
  <2> HIDE DEF ok
  <2> QED
    BY <1>1, <1>7 DEF SessionTypes
<1>14. \A t \in Session : Others(s, st)[t] = IF t = s THEN mine[t] ELSE mine[t] \ {st}
  BY DEF Others
<1>15. DOMAIN Others(s, st) = Session
  BY DEF Others
<1> HIDE DEF ok, st, th
<1>16. /\ mine'[s] = IF ok THEN mine[s] \cup {st} ELSE IF Opens(st) THEN mine[s] \ {st} ELSE mine[s]
       /\ \A t \in Session \ {s} : mine'[t] = IF Opens(st) THEN mine[t] \ {st} ELSE mine[t]
  BY <1>7, <1>9, <1>14, <1>15
<1>17. \A x \in Stream \ {st} :
          m_bSetup'[x] = m_bSetup[x] /\ bound'[x] = bound[x] /\ target'[x] = target[x]
  BY <1>1, <1>7 DEF StreamTypes
<1>18. \A x \in mine'[s] \ {st} :
          /\ x \in mine[s] /\ m_bSetup'[x] = m_bSetup[x] /\ m_bRun'[x] = m_bRun[x]
          /\ bound'[x] = bound[x] /\ target'[x] = target[x]
  <2>1. mine'[s] \subseteq Stream
    BY <1>11 DEF SessionTypes
  <2> QED
    BY <1>7, <1>16, <1>17, <2>1
<1>19. ok => m_bSetup'[st] /\ target'[st] = s /\ bound'[st] = port
  BY <1>1, <1>4, <1>7, <1>9 DEF StreamTypes
<1>20. st \in mine'[s] => m_bSetup'[st] /\ target'[st] = s /\ (st \in mine[s] \/ ok)
  <2>1. CASE ok
    BY <1>19, <2>1
  <2>2. CASE ~ok /\ Opens(st)
    BY <1>16, <2>2
  <2>3. CASE ~ok /\ ~Opens(st)
    <3>1. st \in mine[s] => m_bSetup[st] /\ target[st] = s
      BY <1>1, <1>3 DEF Holds, MineIsSetUp
    <3> QED
      BY <1>7, <1>16, <2>3, <3>1
  <2> QED
    BY <2>1, <2>2, <2>3
<1>21. ASSUME NEW t \in Session \ {s}
       PROVE  Holds(t)'
  <2>1. t \in Session /\ t # s
    OBVIOUS
  <2>2. thread'[t] = thread[t] /\ m_SetupUrl'[t] = m_SetupUrl[t]
    BY <1>1, <1>7, <1>8, <2>1 DEF SessionTypes
  <2>3. mine'[t] \subseteq mine[t] /\ (Opens(st) => st \notin mine'[t])
    BY <1>16
  <2>4. ASSUME NEW x \in mine'[t]
        PROVE  /\ m_bSetup'[x] = m_bSetup[x] /\ m_bRun'[x] = m_bRun[x]
               /\ bound'[x] = bound[x] /\ target'[x] = target[x]
    <3>1. CASE Opens(st)
      <4>1. x \in Stream \ {st}
        BY <1>11, <2>1, <2>3, <3>1 DEF SessionTypes
      <4> QED
        BY <1>7, <1>17, <4>1
    <3>2. CASE ~Opens(st)
      BY <1>7, <1>9, <3>2
    <3> QED
      BY <3>1, <3>2
  <2>5. \A x \in Stream : Uninit(t, x) => Uninit(t, x)'
    BY <1>7 DEF Uninit
  <2>6. m_SessionName'[t] = m_SessionName[t] /\ taken' = taken
    BY <1>7
  <2> QED
    BY <2>1, <2>2, <2>3, <2>4, <2>5, <2>6, OthersKeep
<1> QED
  BY <1>4, <1>7, <1>11, <1>12, <1>13, <1>18, <1>19, <1>20, <1>21 DEF ok, st, th, new

(* A try keeps the invariant: it gets the stream its port, or tries the     *)
(* next one, or gives up.                                                   *)
LEMMA ScanKeeps ==
    ASSUME IInv, NEW s \in Session, Scan(s)
    PROVE  IInv'
<1> DEFINE th == thread[s]
           todo == th.todo
           st == Head(todo)
           ok == Connects(s, st)
           port == th.port
           left == Tail(todo)
           ends == port + 2 >= LastPort
           named == Named(s)
<1>1. /\ SessionTypes' /\ StreamTypes' /\ st \in Stream
      /\ taken' = taken /\ m_bInit' = m_bInit /\ late' = late
      /\ m_SessionName' = m_SessionName
      /\ m_SetupUrl'[s] = IF ok THEN Append(m_SetupUrl[s], th.request.path) ELSE m_SetupUrl[s]
      /\ \A x \in mine'[s] \ {st} :
            /\ x \in mine[s] /\ m_bSetup'[x] = m_bSetup[x] /\ m_bRun'[x] = m_bRun[x]
            /\ bound'[x] = bound[x] /\ target'[x] = target[x]
      /\ st \in mine'[s] => m_bSetup'[st] /\ target'[st] = s /\ (st \in mine[s] \/ ok)
      /\ ok => bound'[st] = port
      /\ thread'[s] = IF ok THEN [th EXCEPT !.todo = left, !.port = FirstPort, !.server = port]
                      ELSE IF ends THEN Idle(th.request, None)
                      ELSE [th EXCEPT !.port = port + 2]
      /\ \A t \in Session \ {s} : Holds(t)'
  BY ScanSteps
<1>2. /\ SessionTypes /\ StreamTypes
      /\ MineIsSetUp(s) /\ Working(s) /\ Scanned(s) /\ RtpInfo(s)
  BY DEF IInv, Holds
<1>3. th \in Thread /\ todo \in Seq(Stream) /\ th.request \in Requests
  BY <1>2 DEF SessionTypes, Thread
<1>4. th.pc = "work" /\ todo # <<>> /\ th.request.type = "SETUP"
  BY DEF Scan, ScanBy, Calls
<1>5. /\ port \in Port /\ named # <<>> /\ ToSet(todo) \subseteq ToSet(named)
      /\ Last(todo) = Last(named)
  BY <1>2, <1>4 DEF Working, Type
<1>6. /\ left \in Seq(Stream) /\ ToSet(todo) = {st} \cup ToSet(left)
      /\ IF left = <<>> THEN Last(todo) = st ELSE Last(left) = Last(todo)
  BY <1>3, <1>4, LastOfTail
<1>7. th.request \in Inputs /\ th.request.path \in Paths
  BY <1>3, <1>4 DEF Requests, NoRequest, None, Paths
<1>8. named = NamedBy(m_SessionName[s], th.request.path) /\ named \in Seq(Stream)
  BY NamedType DEF Named
<1>9. thread'[s].request = th.request
  BY <1>1, <1>3 DEF Thread, Idle
<1>10. Type(s)' = "SETUP" /\ Named(s)' = named
  BY <1>1, <1>4, <1>8, <1>9 DEF Type, Named
<1>11. ASSUME ok
       PROVE  /\ thread'[s].pc = "work" /\ thread'[s].todo = left
              /\ thread'[s].port = FirstPort /\ thread'[s].server = port
  BY <1>1, <1>3, <1>4, <1>11 DEF Thread
<1>12. ASSUME ~ok, ends
       PROVE  thread'[s].pc = "idle" /\ thread'[s].todo = <<>> /\ thread'[s].code = None
  BY <1>1, <1>12 DEF Idle
<1>13. ASSUME ~ok, ~ends
       PROVE  thread'[s].pc = "work" /\ thread'[s].todo = todo /\ thread'[s].port = port + 2
  BY <1>1, <1>3, <1>4, <1>13 DEF Thread
\* Unless the SETUP must fail, the port that was tried is taken.
<1>14. ASSUME ~ok, th.request.client_port # "0", ~Uninit(s, st)
       PROVE  /\ \A p \in Port : p < port + 2 => p \in taken
              /\ IF port + 2 >= LastPort THEN Port \subseteq taken ELSE port + 2 \in Port
  <2>1. port \in taken
    BY <1>14 DEF Connects, Binds, Opens, Uninit
  <2>2. \A p \in Port : p < port => p \in taken
    BY <1>2, <1>4, <1>14 DEF Scanned, Type
  <2> HIDE DEF port
  <2> QED
    BY <1>5, <2>1, <2>2, NextPort
<1>15. ~ends => port + 2 \in Port
  <2> HIDE DEF port
  <2>1. \A p \in Port : p < port => p \in Port
    OBVIOUS
  <2> QED
    BY <1>5, <2>1, NextPort DEF ends
<1>16. \A x : Uninit(s, x)' <=> Uninit(s, x)
  BY <1>1 DEF Uninit
<1> HIDE DEF th, todo, st, ok, port, left, ends, named
<1>17. MineIsSetUp(s)'
  <2> SUFFICES ASSUME NEW x \in mine'[s] PROVE m_bSetup'[x] /\ target'[x] = s
    BY DEF MineIsSetUp
  <2>1. CASE x = st
    BY <1>1, <2>1
  <2>2. CASE x # st
    <3>1. x \in mine[s] /\ m_bSetup'[x] = m_bSetup[x] /\ target'[x] = target[x]
      BY <1>1, <2>2
    <3>2. m_bSetup[x] /\ target[x] = s
      BY <1>2, <1>4, <3>1 DEF MineIsSetUp, Type, th
    <3> QED
      BY <3>1, <3>2
  <2> QED
    BY <2>1, <2>2
<1>18. Working(s)'
  <2>1. CASE ok
    BY <1>5, <1>6, <1>10, <1>11, <2>1, FirstIsPort DEF Working
  <2>2. CASE ~ok /\ ends
    BY <1>10, <1>12, <2>2 DEF Working
  <2>3. CASE ~ok /\ ~ends
    BY <1>5, <1>10, <1>13, <1>15, <2>3 DEF Working
  <2> QED
    BY <2>1, <2>2, <2>3
<1>19. Done(s)'
  <2>1. CASE ok
    <3> SUFFICES ASSUME left = <<>> PROVE bound'[Last(named)] = port
      BY <1>10, <1>11, <2>1 DEF Done
    <3> QED
      BY <1>1, <1>5, <1>6, <2>1
  <2>2. CASE ~ok /\ ends
    BY <1>12, <2>2 DEF Done, Served, None
  <2>3. CASE ~ok /\ ~ends
    BY <1>4, <1>10, <1>13, <2>3 DEF Done, todo
  <2> QED
    BY <2>1, <2>2, <2>3
<1>20. Scanned(s)'
  <2>1. CASE ok
    <3>1. \A p \in Port : ~(p < FirstPort)
      <4> SUFFICES ASSUME NEW p \in Port PROVE ~(p < FirstPort)
        OBVIOUS
      <4>1. p \in Nat /\ p >= FirstPort /\ FirstPort \in Nat
        BY FirstIsPort, SessionAssumption
      <4> QED
        BY <4>1
    <3> QED
      BY <1>11, <2>1, <3>1 DEF Scanned
  <2>2. CASE ~ok /\ ends
    BY <1>12, <2>2 DEF Scanned
  <2>3. CASE ~ok /\ ~ends
    <3>1. Head(thread'[s].todo) = st
      BY <1>13, <2>3 DEF st
    <3> QED
      BY <1>1, <1>9, <1>13, <1>14, <1>16, <2>3, <3>1 DEF Scanned
  <2> QED
    BY <2>1, <2>2, <2>3
<1>21. RtpInfo(s)'
  <2> DEFINE urls == Urls(m_SessionName[s], m_SetupUrl[s])
  <2>1. mine[s] \subseteq UNION urls /\ {} \notin urls
    BY <1>2, <1>4 DEF RtpInfo, th
  <2>2. Urls(m_SessionName[s], m_SetupUrl[s])' =
          IF ok THEN urls \cup {ToSet(named)} ELSE urls
    <3>1. m_SetupUrl[s] \in Seq(Paths)
      BY <1>2 DEF SessionTypes
    <3>2. ASSUME NEW new, m_SetupUrl'[s] = new
          PROVE  Urls(m_SessionName[s], m_SetupUrl[s])' = Urls(m_SessionName[s], new)
      BY <1>1, <3>2
    <3>3. Urls(m_SessionName[s], Append(m_SetupUrl[s], th.request.path)) = urls \cup {ToSet(named)}
      BY <1>7, <1>8, <3>1, UrlsOfOneMore
    <3> QED
      BY <1>1, <3>2, <3>3
  <2>3. st \in ToSet(named) /\ ToSet(named) # {}
    BY <1>5, <1>6
  <2>4. mine'[s] \subseteq mine[s] \cup {st} /\ (~ok => mine'[s] \subseteq mine[s])
    BY <1>1
  <2> HIDE DEF urls
  <2> QED
    BY <2>1, <2>2, <2>3, <2>4 DEF RtpInfo
<1>22. Silent(s)'
  <2>1. CASE ok
    BY <1>11, <2>1 DEF Silent
  <2>2. CASE ~ok /\ ends
    <3>1. st \in ToSet(named)
      BY <1>5, <1>6
    <3> QED
      BY <1>1, <1>9, <1>10, <1>14, <1>16, <2>2, <3>1 DEF Silent, ends
  <2>3. CASE ~ok /\ ~ends
    BY <1>13, <2>3 DEF Silent
  <2> QED
    BY <2>1, <2>2, <2>3
<1>23. Holds(s)'
  BY <1>17, <1>18, <1>19, <1>20, <1>21, <1>22 DEF Holds
<1> QED
  BY <1>1, <1>23 DEF IInv

(* PLAY, PAUSE and TEARDOWN of one stream, which others no longer have.     *)
LEMMA CallKeeps ==
    ASSUME IInv, NEW s \in Session, Call(s)
    PROVE  IInv'
<1> DEFINE th == thread[s]
           todo == th.todo
           st == Head(todo)
           left == Tail(todo)
           type == th.request.type
           new == [th EXCEPT !.todo = left]
<1>1. /\ SessionTypes /\ StreamTypes
      /\ MineIsSetUp(s) /\ Working(s) /\ Done(s) /\ RtpInfo(s)
  BY DEF IInv, Holds
<1>2. th \in Thread /\ todo \in Seq(Stream)
  BY <1>1 DEF SessionTypes, Thread
<1>3. th.pc = "work" /\ todo # <<>> /\ type \in {"PLAY", "PAUSE", "TEARDOWN"}
  BY DEF Call, CallOf, Calls
<1>4. st \in Stream /\ left \in Seq(Stream) /\ ToSet(todo) = {st} \cup ToSet(left)
  BY <1>2, <1>3, LastOfTail
<1>5. /\ UNCHANGED <<asks, m_SessionName, m_Session, m_bInit, taken, late, m_SetupUrl, m_bSetup>>
      /\ m_bRun' = [m_bRun EXCEPT ![st] = type = "PLAY" /\ (m_bSetup[st] \/ @)]
      /\ IF type = "TEARDOWN"
         THEN bound' = [bound EXCEPT ![st] = 0] /\ target' = [target EXCEPT ![st] = None]
         ELSE UNCHANGED <<bound, target>>
      /\ mine' = Others(s, st)
  BY DEF Call, CallOf, Calls
<1>6. thread' = [thread EXCEPT ![s] = new]
  <2>1. thread' = [thread EXCEPT ![s].todo = left]
    BY DEF Call, CallOf
  <2> QED
    BY <1>1, <2>1 DEF SessionTypes, Thread
<1>7. new \in Thread
  BY <1>2, <1>4 DEF Thread
<1>8. new.pc = "work" /\ new.todo = left /\ new.request = th.request
  BY <1>2, <1>3 DEF Thread
<1> HIDE DEF new
<1>9. thread'[s] = new /\ \A t \in Session \ {s} : thread'[t] = thread[t]
  BY <1>1, <1>6 DEF SessionTypes
<1>10. /\ mine'[s] = mine[s] /\ \A t \in Session \ {s} : mine'[t] = mine[t] \ {st}
  BY <1>5 DEF Others
<1>11. SessionTypes' /\ StreamTypes'
  <2>1. mine' \in [Session -> SUBSET Stream]
    BY <1>1, <1>5 DEF SessionTypes, Others
  <2>2. thread' \in [Session -> Thread]
    BY <1>1, <1>6, <1>7 DEF SessionTypes
  <2>3. SessionTypes'
    BY <1>1, <1>5, <2>1, <2>2 DEF SessionTypes
  <2> HIDE DEF st, type
  <2>4. m_bRun' \in [Stream -> BOOLEAN]
    <3> DEFINE runs == type = "PLAY" /\ (m_bSetup[st] \/ m_bRun[st])
    <3>1. m_bRun' = [m_bRun EXCEPT ![st] = runs] /\ runs \in BOOLEAN
      BY <1>5
    <3> HIDE DEF runs
    <3> QED
      BY <1>1, <3>1 DEF StreamTypes
  <2>5. bound' \in [Stream -> Port \cup {0}]
    BY <1>1, <1>5 DEF StreamTypes
  <2>6. target' \in [Stream -> Session \cup {None}]
    BY <1>1, <1>5 DEF StreamTypes
  <2> QED
    BY <1>1, <1>5, <2>3, <2>4, <2>5, <2>6 DEF StreamTypes
<1>12. Type(s)' = type /\ Type(s) = type /\ All(s)' = All(s)
  BY <1>8, <1>9 DEF Type, All
<1> HIDE DEF st, type, th, todo, left
<1>13. \A x \in Stream \ {st} :
          m_bRun'[x] = m_bRun[x] /\ bound'[x] = bound[x] /\ target'[x] = target[x]
  BY <1>1, <1>5 DEF StreamTypes
<1>14. /\ type = "PLAY" /\ m_bSetup[st] => m_bRun'[st]
       /\ type # "PLAY" => ~m_bRun'[st]
       /\ type = "TEARDOWN" => bound'[st] = 0
  BY <1>1, <1>4, <1>5 DEF StreamTypes
<1>15. mine[s] \subseteq Stream
  BY <1>1 DEF SessionTypes
<1>16. MineIsSetUp(s)'
  <2> SUFFICES ASSUME NEW x \in mine[s]
               PROVE  m_bSetup'[x] /\ (type # "TEARDOWN" => target'[x] = s)
    BY <1>10, <1>12 DEF MineIsSetUp
  <2>1. m_bSetup[x] /\ (type # "TEARDOWN" => target[x] = s)
    BY <1>1, <1>12 DEF MineIsSetUp
  <2> QED
    BY <1>5, <2>1
<1>17. Working(s)'
  BY <1>3, <1>8, <1>9, <1>12 DEF Working
<1>18. Done(s)'
  <2> SUFFICES ASSUME NEW x \in mine[s], x \in All(s), x \notin ToSet(left)
               PROVE  /\ type = "PLAY" => m_bRun'[x]
                      /\ type \in {"PAUSE", "TEARDOWN"} => ~m_bRun'[x]
                      /\ type = "TEARDOWN" => bound'[x] = 0
    <3>1. type # "SETUP"
      BY <1>3
    <3> QED
      BY <1>8, <1>9, <1>10, <1>12, <3>1 DEF Done
  <2>1. CASE x = st
    <3>1. m_bSetup[st]
      BY <1>1, <2>1 DEF MineIsSetUp
    <3> QED
      BY <1>3, <1>14, <2>1, <3>1
  <2>2. CASE x # st
    <3>1. m_bRun'[x] = m_bRun[x] /\ bound'[x] = bound[x]
      BY <1>13, <1>15, <2>2
    <3>2. x \notin ToSet(todo)
      BY <1>4, <2>2
    <3>3. /\ type = "PLAY" => m_bRun[x]
          /\ type \in {"PAUSE", "TEARDOWN"} => ~m_bRun[x]
          /\ type = "TEARDOWN" => bound[x] = 0
      BY <1>1, <1>3, <1>12, <3>2 DEF Done, Served, th, todo
    <3> QED
      BY <3>1, <3>3, Zenon
  <2> QED
    BY <2>1, <2>2
<1>19. Scanned(s)' /\ Silent(s)'
  BY <1>3, <1>8, <1>9, <1>12 DEF Scanned, Silent
<1>20. RtpInfo(s)'
  BY <1>1, <1>3, <1>5, <1>10 DEF RtpInfo, th
<1>21. Holds(s)'
  BY <1>16, <1>17, <1>18, <1>19, <1>20 DEF Holds
<1>22. ASSUME NEW t \in Session, t # s
       PROVE  Holds(t)'
  <2>1. /\ thread'[t] = thread[t] /\ m_SessionName'[t] = m_SessionName[t] /\ taken' = taken
        /\ m_SetupUrl'[t] = m_SetupUrl[t] /\ mine'[t] \subseteq mine[t] /\ mine'[t] = mine[t] \ {st}
    BY <1>5, <1>9, <1>10, <1>22
  <2>2. mine[t] \subseteq Stream
    BY <1>1 DEF SessionTypes
  <2>3. \A x \in mine'[t] :
           /\ m_bSetup'[x] = m_bSetup[x] /\ m_bRun'[x] = m_bRun[x]
           /\ bound'[x] = bound[x] /\ target'[x] = target[x]
    BY <1>5, <1>13, <2>1, <2>2
  <2>4. \A x \in Stream : Uninit(t, x) => Uninit(t, x)'
    BY <1>5 DEF Uninit
  <2> QED
    BY <2>1, <2>3, <2>4, OthersKeep
<1> QED
  BY <1>11, <1>21, <1>22 DEF IInv

-----------------------------------------------------------------------------
(* The end of a request, and of a session.                                  *)

(* All is done that the answer says.                                        *)
LEMMA ReplyKeeps ==
    ASSUME IInv, NEW s \in Session, Reply(s)
    PROVE  IInv'
<1> DEFINE th == thread[s]
           new == [Idle(th.request, "200") EXCEPT !.pc = Ends(th.request), !.server = th.server]
<1>1. /\ SessionTypes /\ StreamTypes
      /\ MineIsSetUp(s) /\ Working(s) /\ Done(s) /\ RtpInfo(s)
  BY DEF IInv, Holds
<1>2. th \in Thread
  BY <1>1 DEF SessionTypes
<1>3. /\ th.pc = "work" /\ th.todo = <<>> /\ thread' = [thread EXCEPT ![s] = new]
      /\ m_Session' = [m_Session EXCEPT ![s] = @ \/ th.request.type = "SETUP"]
      /\ m_SetupUrl' = IF th.request.type = "TEARDOWN" THEN [m_SetupUrl EXCEPT ![s] = <<>>]
                       ELSE m_SetupUrl
      /\ UNCHANGED <<asks, m_SessionName, m_bInit, m_bSetup, m_bRun, bound, target, taken,
                     mine, late>>
  BY DEF Reply, transportVars
<1>4. Ends(th.request) = IF th.request.type = "TEARDOWN" THEN "ended" ELSE "idle"
  BY DEF Ends
<1>5. /\ new \in Thread /\ new.pc = Ends(th.request) /\ new.todo = <<>>
      /\ new.request = th.request /\ new.code = "200" /\ new.server = th.server
  <2>1. <<>> \in Seq(Stream) /\ Ends(th.request) \in {"idle", "ended"}
    BY <1>4
  <2> QED
    BY <1>2, <2>1 DEF Thread, Idle
<1> HIDE DEF new
<1>6. thread'[s] = new
  BY <1>1, <1>3 DEF SessionTypes
<1>7. Type(s)' = Type(s) /\ Named(s)' = Named(s) /\ All(s)' = All(s)
  BY <1>3, <1>5, <1>6 DEF Type, Named, All
<1>8. SessionTypes' /\ StreamTypes'
  <2>1. thread' \in [Session -> Thread]
    BY <1>1, <1>3, <1>5 DEF SessionTypes
  <2>2. m_SetupUrl' \in [Session -> Seq(Paths)]
    <3>1. <<>> \in Seq(Paths)
      OBVIOUS
    <3> QED
      BY <1>1, <1>3, <3>1 DEF SessionTypes
  <2>3. m_Session' \in [Session -> BOOLEAN]
    <3> DEFINE has == m_Session[s] \/ th.request.type = "SETUP"
    <3>1. has \in BOOLEAN /\ m_Session' = [m_Session EXCEPT ![s] = has]
      BY <1>3
    <3> HIDE DEF has
    <3> QED
      BY <1>1, <3>1 DEF SessionTypes
  <2> QED
    BY <1>1, <1>3, <2>1, <2>2, <2>3 DEF SessionTypes, StreamTypes
<1>9. MineIsSetUp(s)'
  BY <1>1, <1>3, <1>7 DEF MineIsSetUp
<1>10. Working(s)'
  BY <1>4, <1>5, <1>6, <1>7 DEF Working, Type
<1>11. Done(s)'
  <2> SUFFICES ASSUME NEW x \in mine[s]
               PROVE  /\ Type(s) = "SETUP" /\ x = Last(Named(s)) => bound[x] = th.server
                      /\ x \in All(s) \ ToSet(<<>>) =>
                           /\ Type(s) = "PLAY" => m_bRun[x]
                           /\ Type(s) \in {"PAUSE", "TEARDOWN"} => ~m_bRun[x]
                           /\ Type(s) = "TEARDOWN" => bound[x] = 0
    BY <1>3, <1>5, <1>6, <1>7 DEF Done
  <2> QED
    BY <1>1, <1>3 DEF Done, Served
<1>12. Scanned(s)' /\ Silent(s)'
  BY <1>4, <1>5, <1>6 DEF Scanned, Silent, None
<1>13. RtpInfo(s)'
  <2>1. CASE th.request.type = "TEARDOWN"
    BY <1>4, <1>5, <1>6, <2>1 DEF RtpInfo
  <2>2. CASE th.request.type # "TEARDOWN"
    BY <1>1, <1>3, <2>2 DEF RtpInfo
  <2> QED
    BY <2>1, <2>2
<1>14. Holds(s)'
  BY <1>9, <1>10, <1>11, <1>12, <1>13 DEF Holds
<1>15. ASSUME NEW t \in Session, t # s
       PROVE  Holds(t)'
  <2>1. thread'[t] = thread[t] /\ m_SetupUrl'[t] = m_SetupUrl[t]
    BY <1>1, <1>3, <1>15 DEF SessionTypes
  <2>2. \A x \in Stream : Uninit(t, x) => Uninit(t, x)'
    BY <1>3 DEF Uninit
  <2> QED
    BY <1>3, <2>1, <2>2, OthersKeep
<1> QED
  BY <1>8, <1>14, <1>15 DEF IInv

(* The client is gone.                                                      *)
LEMMA DisconnectKeeps ==
    ASSUME IInv, NEW s \in Session, Disconnect(s)
    PROVE  IInv'
<1> DEFINE th == thread[s]
           new == [th EXCEPT !.pc = "ended"]
<1>1. /\ SessionTypes /\ StreamTypes
      /\ MineIsSetUp(s) /\ Working(s) /\ Done(s)
  BY DEF IInv, Holds
<1>2. th \in Thread /\ th.pc = "idle"
  BY <1>1 DEF SessionTypes, Disconnect
<1>3. UNCHANGED <<asks, m_SessionName, m_SetupUrl, m_Session, m_bInit, m_bSetup, m_bRun, bound,
                  target, taken, mine, late>>
  BY DEF Disconnect, sessionVars, transportVars
<1>4. thread' = [thread EXCEPT ![s] = new]
  <2>1. thread' = [thread EXCEPT ![s].pc = "ended"]
    BY DEF Disconnect
  <2> QED
    BY <1>1, <2>1 DEF SessionTypes, Thread
<1>5. /\ new \in Thread /\ new.pc = "ended" /\ new.todo = th.todo
      /\ new.request = th.request /\ new.code = th.code /\ new.server = th.server
  BY <1>2 DEF Thread
<1> HIDE DEF new
<1>6. thread'[s] = new
  BY <1>1, <1>4 DEF SessionTypes
<1>7. Type(s)' = Type(s) /\ Named(s)' = Named(s) /\ All(s)' = All(s)
  BY <1>3, <1>5, <1>6 DEF Type, Named, All
<1>8. SessionTypes' /\ StreamTypes'
  BY <1>1, <1>3, <1>4, <1>5 DEF SessionTypes, StreamTypes
<1>9. MineIsSetUp(s)'
  BY <1>1, <1>3, <1>7 DEF MineIsSetUp
<1>10. Working(s)'
  BY <1>1, <1>2, <1>5, <1>6 DEF Working
<1>11. Done(s)'
  <2> SUFFICES ASSUME th.code = "200", NEW x \in mine[s]
               PROVE  /\ Type(s) = "SETUP" /\ th.todo = <<>> /\ x = Last(Named(s)) =>
                           bound[x] = th.server
                      /\ x \in All(s) \ ToSet(th.todo) =>
                           /\ Type(s) = "PLAY" => m_bRun[x]
                           /\ Type(s) \in {"PAUSE", "TEARDOWN"} => ~m_bRun[x]
                           /\ Type(s) = "TEARDOWN" => bound[x] = 0
    BY <1>3, <1>5, <1>6, <1>7 DEF Done, Served
  <2> QED
    BY <1>1 DEF Done, Served
<1>12. Scanned(s)' /\ Silent(s)' /\ RtpInfo(s)'
  BY <1>5, <1>6 DEF Scanned, Silent, RtpInfo
<1>13. Holds(s)'
  BY <1>9, <1>10, <1>11, <1>12 DEF Holds
<1>14. ASSUME NEW t \in Session, t # s
       PROVE  Holds(t)'
  <2>1. thread'[t] = thread[t]
    BY <1>1, <1>4, <1>14 DEF SessionTypes
  <2>2. \A x \in Stream : Uninit(t, x) => Uninit(t, x)'
    BY <1>3 DEF Uninit
  <2> QED
    BY <1>3, <2>1, <2>2, OthersKeep
<1> QED
  BY <1>8, <1>13, <1>14 DEF IInv

(* A stream that is initialised is late for the requests that there are.    *)
LEMMA FeederInitKeeps ==
    ASSUME IInv, NEW st \in Stream, FeederInit(st)
    PROVE  IInv'
<1>1. SessionTypes /\ StreamTypes
  BY DEF IInv
<1>2. /\ m_bInit' = [m_bInit EXCEPT ![st] = TRUE]
      /\ late' = [s \in Session |-> late[s] \cup {st}]
      /\ UNCHANGED <<asks, thread, m_SessionName, m_SetupUrl, m_Session, m_bSetup, m_bRun, bound,
                     target, taken, mine>>
  BY DEF FeederInit, sessionVars, transportVars
<1>3. SessionTypes' /\ StreamTypes'
  BY <1>1, <1>2 DEF SessionTypes, StreamTypes
<1>4. ASSUME NEW t \in Session
      PROVE  Holds(t)'
  <2>1. late'[t] = late[t] \cup {st}
    BY <1>2
  <2>2. \A x \in Stream : Uninit(t, x) => Uninit(t, x)'
    BY <1>1, <1>2, <2>1 DEF Uninit, StreamTypes
  <2> QED
    BY <1>2, <2>2, OthersKeep
<1> QED
  BY <1>3, <1>4 DEF IInv

-----------------------------------------------------------------------------
(* All steps, and the theorems.                                             *)

LEMMA InitHolds == Init => IInv
<1> SUFFICES ASSUME Init PROVE IInv
  OBVIOUS
<1>1. <<>> \in Seq(Stream) /\ <<>> \in Seq(Paths)
  OBVIOUS
<1>2. m_SessionName \in [Session -> Names]
  BY Zenon DEF Init, Names
<1>3. Idle(NoRequest, None) \in Thread
  BY <1>1 DEF Idle, Thread, Requests
<1>4. thread = [s \in Session |-> Idle(NoRequest, None)]
  BY DEF Init
<1>5. /\ m_SetupUrl = [s \in Session |-> <<>>] /\ m_Session = [s \in Session |-> FALSE]
      /\ mine = [s \in Session |-> {}] /\ late = [s \in Session |-> {}]
      /\ m_bInit = [st \in Stream |-> FALSE] /\ m_bSetup = [st \in Stream |-> FALSE]
      /\ m_bRun = [st \in Stream |-> FALSE] /\ bound = [st \in Stream |-> 0]
      /\ target = [st \in Stream |-> None] /\ \E w \in Worlds : asks = w.asks /\ taken = w.taken
  BY DEF Init
<1>6. SessionTypes
  BY <1>1, <1>2, <1>3, <1>4, <1>5 DEF SessionTypes
<1>7. StreamTypes
  BY <1>5 DEF StreamTypes
<1>8. ASSUME NEW s \in Session
      PROVE  Holds(s)
  <2>1. mine[s] = {} /\ m_SetupUrl[s] = <<>>
    BY <1>5
  <2>2. thread[s].pc = "idle" /\ thread[s].todo = <<>> /\ Type(s) = "none"
    BY <1>4 DEF Idle, NoRequest, None, Type
  <2>3. ToSet(<<>>) = {}
    BY DEF ToSet
  <2>4. Urls(m_SessionName[s], m_SetupUrl[s]) = {}
    BY <2>1, <2>3 DEF Urls
  <2>5. MineIsSetUp(s) /\ Working(s) /\ Done(s) /\ Scanned(s) /\ Silent(s)
    BY <2>1, <2>2 DEF MineIsSetUp, Working, Done, Scanned, Silent
  <2>6. RtpInfo(s)
    BY <2>1, <2>4 DEF RtpInfo
  <2> QED
    BY <2>5, <2>6 DEF Holds
<1> QED
  BY <1>6, <1>7, <1>8 DEF IInv

(* Every step keeps the invariant.                                          *)
LEMMA StepKeeps == IInv /\ [Next]_vars => IInv'
<1> SUFFICES ASSUME IInv, [Next]_vars PROVE IInv'
  OBVIOUS
<1>1. ASSUME NEW s \in DOMAIN asks, NEW r \in asks[s], Handle(s, r)
      PROVE  IInv'
  BY <1>1, SimpleKeeps, DescribeKeeps, SetupArrives, ControlArrives DEF Handle
<1>2. ASSUME NEW s \in DOMAIN asks
      PROVE  s \in Session
  <2>1. PICK w \in Worlds : asks = w.asks
    BY DEF IInv, StreamTypes
  <2> QED
    BY <2>1, SessionAssumption
<1>3. ASSUME NEW s \in DOMAIN asks, ThreadStep(s) \/ Disconnect(s)
      PROVE  IInv'
  BY <1>2, <1>3, ScanKeeps, CallKeeps, ReplyKeeps, DisconnectKeeps DEF ThreadStep
<1>4. ASSUME NEW st \in Stream, FeederInit(st)
      PROVE  IInv'
  BY <1>4, FeederInitKeeps
<1>5. CASE UNCHANGED vars
  <2>1. UNCHANGED <<asks, thread, m_SessionName, m_SetupUrl, m_Session, m_bInit, m_bSetup,
                    m_bRun, bound, target, taken, mine, late>>
    BY <1>5 DEF vars, sessionVars, transportVars
  <2>2. SessionTypes' /\ StreamTypes'
    BY <2>1 DEF IInv, SessionTypes, StreamTypes
  <2>3. \A s \in Session : Holds(s)'
    BY <2>1 DEF IInv, Holds, MineIsSetUp, Working, Done, Scanned, RtpInfo, Silent, Type, Named,
                All, Served, Uninit
  <2> QED
    BY <2>2, <2>3 DEF IInv
<1> QED
  BY <1>1, <1>3, <1>4, <1>5 DEF Next

(* The inductive invariant holds always.                                    *)
THEOREM IInvariance == Spec => []IInv
BY InitHolds, StepKeeps, PTL DEF Spec

(* What an answer of 200 says is true of the streams that the client set up *)
(* and no other session called since.                                       *)
THEOREM AnswersHold == Spec => []TheAnswerHolds
<1>1. IInv => TheAnswerHolds
  <2> SUFFICES ASSUME IInv, NEW s \in Session, NEW st \in mine[s],
                      thread[s].pc # "work", thread[s].code = "200"
               PROVE  /\ Type(s) = "SETUP" /\ Contains(Named(s), st) =>
                           /\ m_bSetup[st] /\ target[st] = s
                           /\ st = Last(Named(s)) => bound[st] = thread[s].server
                      /\ Type(s) = "PLAY" /\ st \in All(s) => m_bRun[st] /\ target[st] = s
                      /\ Type(s) = "PAUSE" /\ st \in All(s) => ~m_bRun[st]
                      /\ Type(s) = "TEARDOWN" /\ st \in All(s) => ~m_bRun[st] /\ bound[st] = 0
    BY DEF TheAnswerHolds, Answered, Type, Named, All, NamedBy, SetupName, AllOf
  <2>1. MineIsSetUp(s) /\ Working(s) /\ Done(s)
    BY DEF IInv, Holds
  <2>2. thread[s].todo = <<>>
    BY <2>1 DEF Working
  <2>3. ToSet(<<>>) = {}
    BY DEF ToSet
  <2>4. m_bSetup[st] /\ (Type(s) # "TEARDOWN" => target[st] = s)
    BY <2>1 DEF MineIsSetUp
  <2>5. /\ Type(s) = "SETUP" /\ st = Last(Named(s)) => bound[st] = thread[s].server
        /\ st \in All(s) =>
             /\ Type(s) = "PLAY" => m_bRun[st]
             /\ Type(s) \in {"PAUSE", "TEARDOWN"} => ~m_bRun[st]
             /\ Type(s) = "TEARDOWN" => bound[st] = 0
    BY <2>1, <2>2, <2>3 DEF Done, Served
  <2> HIDE DEF Type
  <2> QED
    BY <2>4, <2>5
<1> QED
  BY <1>1, IInvariance, PTL

(* The RTP-Info of PLAY names every stream that the client has set up, and  *)
(* none that is not there; with the types.                                  *)
THEOREM SessionsKeepTheirUrls == Spec => []SessionInv
<1>1. IInv => TypeOK
  <2> SUFFICES ASSUME IInv PROVE TypeOK
    OBVIOUS
  <2>1. SessionTypes /\ StreamTypes
    BY DEF IInv
  <2>2. m_SessionName \in [Session -> Name \cup {""}]
    BY <2>1, Zenon DEF SessionTypes, Names
  <2>3. ASSUME NEW s \in Session, NEW k \in DOMAIN m_SetupUrl[s]
        PROVE  \E r \in Inputs : r.path = m_SetupUrl[s][k]
    <3>1. m_SetupUrl[s] \in Seq(Paths)
      BY <2>1 DEF SessionTypes
    <3>2. m_SetupUrl[s][k] \in Paths
      BY <3>1
    <3> QED
      BY <3>2 DEF Paths
  <2>4. \A s \in Session :
          /\ thread[s].pc \in {"idle", "work", "ended"}
          /\ thread[s].request \in Inputs \cup {NoRequest}
          /\ thread[s].todo \in Seq(Stream)
          /\ thread[s].port \in Port \cup {0} /\ thread[s].server \in Port \cup {0}
          /\ thread[s].code \in {None, "200", "400", "404"}
    BY <2>1 DEF SessionTypes, Thread, Requests
  <2>5. /\ m_Session \in [Session -> BOOLEAN] /\ m_bInit \in [Stream -> BOOLEAN]
        /\ m_bSetup \in [Stream -> BOOLEAN] /\ m_bRun \in [Stream -> BOOLEAN]
        /\ bound \in [Stream -> Port \cup {0}] /\ target \in [Stream -> Session \cup {None}]
        /\ \E w \in Worlds : asks = w.asks /\ taken = w.taken
        /\ mine \in [Session -> SUBSET Stream] /\ late \in [Session -> SUBSET Stream]
    BY <2>1, Zenon DEF SessionTypes, StreamTypes
  <2> QED
    BY <2>2, <2>3, <2>4, <2>5, Zenon DEF TypeOK
<1>2. IInv => RtpInfoNamesTheStreams
  <2> SUFFICES ASSUME IInv, NEW s \in Session, thread[s].pc # "ended"
               PROVE  LET named == [k \in DOMAIN m_SetupUrl[s] |->
                            ToSet(StreamsNamed(SetupName(s, m_SetupUrl[s][k]), m_SetupUrl[s][k]))]
                      IN mine[s] \subseteq UNION ToSet(named) /\ {} \notin ToSet(named)
    BY DEF RtpInfoNamesTheStreams
  <2> DEFINE urls == m_SetupUrl[s]
             named == [k \in DOMAIN urls |-> ToSet(StreamsNamed(SetupName(s, urls[k]), urls[k]))]
  <2>1. \A url : StreamsNamed(SetupName(s, url), url) = NamedBy(m_SessionName[s], url)
    BY DEF SetupName, NamedBy
  <2> DEFINE set(url) == ToSet(NamedBy(m_SessionName[s], url))
  <2>2. named = [k \in DOMAIN urls |-> set(urls[k])]
    BY <2>1
  <2>3. Urls(m_SessionName[s], urls) = {set(url) : url \in ToSet(urls)}
    BY DEF Urls
  <2> HIDE DEF named, set, urls
  <2>4. Urls(m_SessionName[s], urls) = ToSet(named)
    <3>1. ToSet(urls) = {urls[k] : k \in DOMAIN urls}
      BY DEF ToSet
    <3>2. ToSet(named) = {set(urls[k]) : k \in DOMAIN urls}
      BY <2>2 DEF ToSet
    <3> QED
      BY <2>3, <3>1, <3>2
  <2> USE DEF named, urls
  <2>5. RtpInfo(s)
    BY DEF IInv, Holds
  <2> QED
    BY <2>4, <2>5 DEF RtpInfo
<1> QED
  BY <1>1, <1>2, IInvariance, PTL DEF SessionInv

(* A SETUP that is not answered had to fail.                                *)
THEOREM SilentOnlyWhenItMustFail == Spec => []SilentOnlyWithoutPort
<1>1. IInv => SilentOnlyWithoutPort
  <2> SUFFICES ASSUME IInv, NEW s \in Session PROVE Silent(s)
    BY DEF SilentOnlyWithoutPort, Silent, Type, Named, NamedBy, SetupName, Uninit
  <2> QED
    BY DEF IInv, Holds
<1> QED
  BY <1>1, IInvariance, PTL
=============================================================================

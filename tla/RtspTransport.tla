---------------------------- MODULE RtspTransport ----------------------------
(***************************************************************************)
(* RtspTransport (Rtsp/RtspTransport.cpp) and the life of its RtspSession  *)
(* objects (Rtsp/RtspSession.cpp 16-95): the thread that calls Open and    *)
(* Close, the listen thread that reaps closed sessions and accepts new     *)
(* ones, and one thread per session that serves its client's requests.     *)
(* A session is named by the client it serves; a client connects once.     *)
(***************************************************************************)
EXTENDS Naturals, Sequences, SequencesExt

CONSTANTS
    Client,
    Limits,         \* the maxConnects that Open is called with
    MaxInbox        \* bound: the lines a socket's receive buffer holds

ASSUME TransportAssumption == Limits \in SUBSET Nat /\ MaxInbox \in Nat

VARIABLES
    \* RtspTransport
    m_isOpen,
    m_MaxConnects,
    m_Socket,             \* "none", "listening", or "stale": left by Open or by memory
    m_isStopListenThread, \* the auto-reset event: signalled or not
    m_RtspSessionList,
    caller,               \* where the thread inside Open or Close is
    listener,             \* where the listen thread is
    ptr,                  \* the index of the listen thread's and of Close's loop
    \* RtspSession
    object,               \* "none", "live" or "deleted"
    session,              \* where the session's thread is
    m_isStopProcessThread,\* its auto-reset event
    request,              \* the first line of m_Requests: the request it reads or serves
    torn,                 \* it has served a TEARDOWN
    \* the clients and the network
    backlog,              \* connections the kernel has completed, not accepted
    conn,                 \* a client's connection
    inbox                 \* lines sent and not read

opening == <<m_isOpen, m_MaxConnects, m_Socket>>
transportVars == <<opening, m_isStopListenThread, m_RtspSessionList,
                   caller, listener, ptr>>
sessionVars == <<object, session, m_isStopProcessThread, request, torn>>
clientVars  == <<backlog, conn, inbox>>
vars == <<transportVars, sessionVars, clientVars>>

-----------------------------------------------------------------------------
\* A first line: a TEARDOWN, or another, one that GetRequestType refuses included.
Request == {"teardown", "other"}

\* What Rtsp::Read takes off the socket: a line, or as much of one as comes within
\* 0.5 s of the last byte; the empty line ends a request.
Line == Request \cup {"empty"}

\* "closed": the client has closed its end; "unserved": accepted, no session.
Conn == {"idle", "up", "closed", "unserved"}

CallerPC   == {"idle", "join", "delete", "joinSession", "clear"}
ListenerPC == {"none", "wait", "reap", "accept", "exited"}
SessionPC  == {"none", "loop", "read", "dispatch", "exited"}

TypeOK ==
    /\ m_isOpen \in BOOLEAN
    /\ m_MaxConnects \in Limits \cup {0}
    /\ m_Socket \in {"none", "listening", "stale"}
    /\ m_isStopListenThread \in BOOLEAN
    /\ m_RtspSessionList \in Seq(Client)
    /\ caller \in CallerPC
    /\ listener \in ListenerPC
    /\ ptr \in Nat
    /\ object \in [Client -> {"none", "live", "deleted"}]
    /\ session \in [Client -> SessionPC]
    /\ m_isStopProcessThread \in [Client -> BOOLEAN]
    /\ request \in [Client -> Request \cup {"none"}]
    /\ torn \in [Client -> BOOLEAN]
    /\ backlog \in Seq(Client)
    /\ conn \in [Client -> Conn]
    /\ inbox \in [Client -> Seq(Line)]

Init ==
    /\ m_isOpen = FALSE /\ m_MaxConnects = 0 /\ m_isStopListenThread = FALSE
    /\ m_Socket \in {"none", "stale"}      \* the constructor does not set it
    /\ m_RtspSessionList = <<>>
    /\ caller = "idle" /\ listener = "none" /\ ptr = 0
    /\ object = [c \in Client |-> "none"]
    /\ session = [c \in Client |-> "none"]
    /\ m_isStopProcessThread = [c \in Client |-> FALSE]
    /\ request = [c \in Client |-> "none"]
    /\ torn = [c \in Client |-> FALSE]
    /\ backlog = <<>>
    /\ conn = [c \in Client |-> "idle"]
    /\ inbox = [c \in Client |-> <<>>]

Listed == {m_RtspSessionList[k] : k \in 1..Len(m_RtspSessionList)}

-----------------------------------------------------------------------------
(* Open and Close, called by one thread.                                    *)

\* The listen thread starts; m_isOpen is set when it already runs.
OpenSucceeds ==
    /\ caller = "idle" /\ ~m_isOpen
    /\ m_MaxConnects' \in Limits
    /\ m_isOpen' = TRUE /\ m_Socket' = "listening"
    /\ m_isStopListenThread' = FALSE
    /\ listener' = "wait"
    /\ UNCHANGED <<m_RtspSessionList, caller, ptr, sessionVars, clientVars>>

\* socket, bind or listen fails, behind the closing of a socket left before:
\* Close returns at once because m_isOpen is still FALSE, so a socket that was
\* created stays open.
OpenFails ==
    /\ caller = "idle" /\ ~m_isOpen
    /\ m_MaxConnects' \in Limits
    /\ m_Socket' \in {"none", "stale"}
    /\ UNCHANGED <<m_isOpen, m_isStopListenThread, m_RtspSessionList, caller, listener,
                   ptr, sessionVars, clientVars>>

CloseSignal ==
    /\ caller = "idle" /\ m_isOpen
    /\ m_isStopListenThread' = TRUE
    /\ caller' = "join"
    /\ UNCHANGED <<opening, m_RtspSessionList, listener, ptr,
                   sessionVars, clientVars>>

\* (Close that does not wait for the listen thread.)
CloseDoesNotWait ==
    /\ caller = "join"
    /\ caller' = "delete" /\ ptr' = 0
    /\ UNCHANGED <<opening, m_isStopListenThread, m_RtspSessionList, listener,
                   sessionVars, clientVars>>

\* WaitForSingleObject on the listen thread; its handle is then closed.
CloseJoin ==
    /\ caller = "join"
    /\ listener = "exited"
    /\ caller' = "delete" /\ ptr' = 0 /\ listener' = "none"
    /\ UNCHANGED <<opening, m_isStopListenThread, m_RtspSessionList,
                   sessionVars, clientVars>>

\* delete m_RtspSessionList[_iPtr]: the destructor signals the session's thread
\* and waits for it, however long its client keeps it.
SignalWith(event) ==
    /\ caller = "delete"
    /\ IF ptr < Len(m_RtspSessionList)
       THEN /\ caller' = "joinSession"
            /\ m_isStopProcessThread' =
                 [m_isStopProcessThread EXCEPT ![m_RtspSessionList[ptr + 1]] = event]
       ELSE caller' = "clear" /\ UNCHANGED m_isStopProcessThread
    /\ UNCHANGED <<opening, m_isStopListenThread, m_RtspSessionList, listener,
                   ptr, object, session, request, torn, clientVars>>

DeleteUnsignalled == SignalWith(FALSE)

DeleteSignal == SignalWith(TRUE)

DeleteWhen(joined) ==
    /\ caller = "joinSession"
    /\ joined
    /\ object' = [object EXCEPT ![m_RtspSessionList[ptr + 1]] = "deleted"]
    /\ caller' = "delete" /\ ptr' = ptr + 1
    /\ UNCHANGED <<opening, m_isStopListenThread, m_RtspSessionList, listener,
                   session, m_isStopProcessThread, request, torn, clientVars>>

DeleteAtOnce == DeleteWhen(TRUE)

DeleteJoin == DeleteWhen(session[m_RtspSessionList[ptr + 1]] = "exited")

CloseClear ==
    /\ caller = "clear"
    /\ m_RtspSessionList' = <<>>
    /\ m_isOpen' = FALSE /\ m_Socket' = "none" /\ UNCHANGED m_MaxConnects
    /\ caller' = "idle" /\ ptr' = 0
    /\ backlog' = <<>>
    /\ conn' = [c \in Client |-> IF Contains(backlog, c) THEN "closed" ELSE conn[c]]
    /\ UNCHANGED <<m_isStopListenThread, listener, sessionVars, inbox>>

CallerStep == CloseJoin \/ DeleteSignal \/ DeleteJoin \/ CloseClear

-----------------------------------------------------------------------------
(* The listen thread.                                                       *)

\* WaitForSingleObject on the auto-reset event, for 100 ms.
ListenWait ==
    /\ listener = "wait"
    /\ IF m_isStopListenThread
       THEN listener' = "exited" /\ m_isStopListenThread' = FALSE /\ UNCHANGED ptr
       ELSE /\ listener' = "reap" /\ ptr' = 0
            /\ UNCHANGED m_isStopListenThread
    /\ UNCHANGED <<opening, m_RtspSessionList, caller, sessionVars, clientVars>>

\* A closed session is deleted; then list and next are the list and the index.
ReapWith(list, next) ==
    /\ listener = "reap"
    /\ ptr < Len(m_RtspSessionList)
    /\ LET c == m_RtspSessionList[ptr + 1] IN
         /\ session[c] = "exited"
         /\ object' = [object EXCEPT ![c] = "deleted"]
         /\ m_isStopProcessThread' = [m_isStopProcessThread EXCEPT ![c] = TRUE]
    /\ m_RtspSessionList' = list
    /\ ptr' = next
    /\ UNCHANGED <<opening, m_isStopListenThread, caller, listener,
                   session, request, torn, clientVars>>

Erased == RemoveAt(m_RtspSessionList, ptr + 1)

\* (The session not erased.)
ReapKeeps == ReapWith(m_RtspSessionList, ptr + 1)

\* It is erased, and i-- and the loop's i++, both modulo 2^32, leave the index
\* on the session that moved up.
ReapClosed == ReapWith(Erased, ptr)

ReapSkip ==
    /\ listener = "reap"
    /\ ptr < Len(m_RtspSessionList)
    /\ session[m_RtspSessionList[ptr + 1]] # "exited"
    /\ ptr' = ptr + 1
    /\ UNCHANGED <<opening, m_isStopListenThread, m_RtspSessionList, caller,
                   listener, sessionVars, clientVars>>

ReapDone ==
    /\ listener = "reap"
    /\ ptr >= Len(m_RtspSessionList)
    /\ listener' = "accept"
    /\ UNCHANGED <<opening, m_isStopListenThread, m_RtspSessionList, caller,
                   ptr, sessionVars, clientVars>>

\* No connection is pending.
AcceptNothing ==
    /\ listener = "accept"
    /\ backlog = <<>>
    /\ listener' = "wait"
    /\ UNCHANGED <<opening, m_isStopListenThread, m_RtspSessionList, caller,
                   ptr, sessionVars, clientVars>>

\* The list is full: the accepted socket is neither served nor closed.
AcceptFull ==
    /\ listener = "accept"
    /\ backlog # <<>>
    /\ Len(m_RtspSessionList) >= m_MaxConnects
    /\ conn' = [conn EXCEPT ![Head(backlog)] = "unserved"]
    /\ backlog' = Tail(backlog)
    /\ listener' = "wait"
    /\ UNCHANGED <<opening, m_isStopListenThread, m_RtspSessionList, caller,
                   ptr, sessionVars, inbox>>

\* new RtspSession starts the session's thread; then it enters the list.
AcceptSession ==
    /\ listener = "accept"
    /\ backlog # <<>>
    /\ Len(m_RtspSessionList) < m_MaxConnects
    /\ LET c == Head(backlog) IN
         /\ object' = [object EXCEPT ![c] = "live"]
         /\ session' = [session EXCEPT ![c] = "loop"]
         /\ m_isStopProcessThread' = [m_isStopProcessThread EXCEPT ![c] = FALSE]
         /\ m_RtspSessionList' = Append(m_RtspSessionList, c)
    /\ backlog' = Tail(backlog)
    /\ listener' = "wait"
    /\ UNCHANGED <<opening, m_isStopListenThread, caller, ptr,
                   request, torn, conn, inbox>>

ListenerStep ==
    \/ ListenWait \/ ReapClosed \/ ReapSkip \/ ReapDone
    \/ AcceptNothing \/ AcceptFull \/ AcceptSession

-----------------------------------------------------------------------------
(* RtspSessionThread of the session that serves client c.                   *)

\* WaitForSingleObject on the auto-reset event, without waiting.
SessionLoop(c) ==
    /\ session[c] = "loop"
    /\ session' = [session EXCEPT ![c] = IF m_isStopProcessThread[c] THEN "exited" ELSE "read"]
    /\ m_isStopProcessThread' = [m_isStopProcessThread EXCEPT ![c] = FALSE]
    /\ request' = [request EXCEPT ![c] = IF m_isStopProcessThread[c] THEN @ ELSE "none"]
    /\ UNCHANGED <<transportVars, object, torn, clientVars>>

\* GetRequests reads line by line, for as long as lines come: the thread looks at
\* nothing else meanwhile. Only the first line says what the request is.
ReadLine(c) ==
    /\ session[c] = "read"
    /\ inbox[c] # <<>> /\ Head(inbox[c]) # "empty"
    /\ request' = [request EXCEPT ![c] = IF @ = "none" THEN Head(inbox[c]) ELSE @]
    /\ inbox' = [inbox EXCEPT ![c] = Tail(@)]
    /\ UNCHANGED <<transportVars, object, session, m_isStopProcessThread, torn, backlog, conn>>

\* The empty line, or 0.5 s without a byte, ends it; GetRequestType refuses none.
ReadEnd(c) ==
    /\ session[c] = "read"
    /\ \/ /\ inbox[c] # <<>> /\ Head(inbox[c]) = "empty"
          /\ inbox' = [inbox EXCEPT ![c] = Tail(@)]
       \/ /\ inbox[c] = <<>> /\ conn[c] = "up"
          /\ UNCHANGED inbox
    /\ session' = [session EXCEPT ![c] = IF request[c] = "none" THEN "loop" ELSE "dispatch"]
    /\ UNCHANGED <<transportVars, object, m_isStopProcessThread, request, torn, backlog, conn>>

\* The connection is closed and all it brought is read: the thread goes to gone.
ReadClosed(c, gone) ==
    /\ session[c] = "read"
    /\ inbox[c] = <<>> /\ conn[c] = "closed"
    /\ session' = [session EXCEPT ![c] = gone]
    /\ UNCHANGED <<transportVars, object, m_isStopProcessThread, request, torn, clientVars>>

ReadWith(c, gone) == ReadLine(c) \/ ReadEnd(c) \/ ReadClosed(c, gone)

ReadPastClose(c) == ReadWith(c, "loop")

SessionRead(c) == ReadWith(c, "exited")

\* After a TEARDOWN, answered or refused, the thread signals its own event.
DispatchWith(c, stops) ==
    /\ session[c] = "dispatch"
    /\ session' = [session EXCEPT ![c] = "loop"]
    /\ m_isStopProcessThread' = [m_isStopProcessThread EXCEPT ![c] = stops \/ @]
    /\ torn' = [torn EXCEPT ![c] = (request[c] = "teardown") \/ @]
    /\ UNCHANGED <<transportVars, object, request, clientVars>>

DispatchGoesOn(c) == DispatchWith(c, FALSE)

SessionDispatch(c) == DispatchWith(c, request[c] = "teardown")

SessionStep(c) == SessionLoop(c) \/ SessionRead(c) \/ SessionDispatch(c)

-----------------------------------------------------------------------------
(* The clients.                                                             *)

Connect(c) ==
    /\ conn[c] = "idle"
    /\ m_Socket = "listening"
    /\ conn' = [conn EXCEPT ![c] = "up"]
    /\ backlog' = Append(backlog, c)
    /\ UNCHANGED <<transportVars, sessionVars, inbox>>

\* As many lines as it likes, for ever: what is full is the receive buffer.
Send(c, l) ==
    /\ conn[c] = "up"
    /\ Len(inbox[c]) < MaxInbox
    /\ inbox' = [inbox EXCEPT ![c] = Append(@, l)]
    /\ UNCHANGED <<transportVars, sessionVars, backlog, conn>>

Disconnect(c) ==
    /\ conn[c] = "up"
    /\ conn' = [conn EXCEPT ![c] = "closed"]
    /\ UNCHANGED <<transportVars, sessionVars, backlog, inbox>>

ClientStep(c) == Connect(c) \/ Disconnect(c) \/ \E l \in Line : Send(c, l)

Next ==
    \/ OpenSucceeds \/ OpenFails \/ CloseSignal \/ CallerStep
    \/ ListenerStep
    \/ \E c \in Client : SessionStep(c) \/ ClientStep(c)

Spec == Init /\ [][Next]_vars

\* Every thread that can run is run by the operating system.
Fairness ==
    /\ WF_vars(CallerStep)
    /\ WF_vars(ListenerStep)
    /\ \A c \in Client : WF_vars(SessionStep(c))

FairSpec == Spec /\ Fairness

-----------------------------------------------------------------------------
Running(c) == session[c] \in {"loop", "read", "dispatch"}

(* A session's thread uses its RtspSession object until it returns: nobody, *)
(* neither the listen thread nor Close, deletes the object under it.        *)
ThreadHasObject == \A c \in Client : Running(c) => object[c] = "live"

\* With the types: the part of the invariant that every deletion must keep.
TransportInv == TypeOK /\ ThreadHasObject

(* The list is what is left to delete: no session is lost, listed twice, or *)
(* left in the list after its deletion, save while Close walks the list.    *)
ListIsComplete ==
    /\ \A j, k \in 1..Len(m_RtspSessionList) :
         m_RtspSessionList[j] = m_RtspSessionList[k] => j = k
    /\ \A c \in Client : object[c] = "live" => c \in Listed
    /\ \A k \in 1..Len(m_RtspSessionList) :
         (object[m_RtspSessionList[k]] = "deleted") <=>
            (caller \in {"delete", "joinSession", "clear"} /\ k <= ptr)

(* When Close has returned, no thread of this transport is left running and *)
(* every session it ever made is deleted.                                   *)
ClosedIsQuiet ==
    ~m_isOpen => /\ listener = "none"
                 /\ \A c \in Client : ~Running(c) /\ object[c] # "live"

(* A session serves no request after a TEARDOWN, though the event that says *)
(* so is also the one its destructor uses.                                  *)
NothingAfterTeardown ==
    [][\A c \in Client : torn[c] => session'[c] \notin {"read", "dispatch"}]_vars

\* Every request that is read has an end: no client keeps lines coming for ever
\* without an empty line or a pause of 0.5 s. GetRequests itself has no bound.
ReadsEnd == \A c \in Client : []<>(session[c] # "read")

(* Close returns, at whatever place of their loops, serving or reading, the *)
(* sessions are when it is called, if every request read has an end: a      *)
(* client that does not pause keeps Close in the join of its session.       *)
CloseReturns == ReadsEnd => (caller # "idle" ~> ~m_isOpen)

(* A client that is gone costs nothing for long: its session is deleted     *)
(* (if Close does not hang on another client that sends without a pause).   *)
DisconnectedIsReaped ==
    ReadsEnd => \A c \in Client :
        (object[c] = "live" /\ conn[c] = "closed") ~> object[c] = "deleted"
=============================================================================

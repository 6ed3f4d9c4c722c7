------------------------ MODULE RtspTransportProofs ------------------------
(***************************************************************************)
(* Proofs about RtspTransport, for any clients, limits and lines sent: every *)
(* session is deleted once, not under its thread, none is forgotten, and   *)
(* none goes on behind a TEARDOWN.                                         *)
(***************************************************************************)
EXTENDS RtspTransport, SequenceTheorems, TLAPS

Closing == caller \in {"delete", "joinSession", "clear"}

\* Where Open, Close and the listen thread can be at a time: Close walks the list
\* behind the end of the listen thread only.
Turns ==
    /\ caller # "idle" => m_isOpen
    /\ Closing => listener = "none" /\ ptr <= Len(m_RtspSessionList)
    /\ caller = "joinSession" => ptr < Len(m_RtspSessionList)
    /\ caller = "clear" => ptr = Len(m_RtspSessionList)
    /\ ~m_isOpen => listener = "none" /\ m_RtspSessionList = <<>>

\* A client is in at most one of the backlog and the list, and there once.
Waiting ==
    /\ \A j, k \in 1..Len(backlog) : backlog[j] = backlog[k] => j = k
    /\ \A k \in 1..Len(backlog) : object[backlog[k]] = "none" /\ conn[backlog[k]] # "idle"
    /\ \A c \in Client : conn[c] = "idle" => object[c] = "none"

\* What a session's thread does, by what has become of its object.
Lives ==
    \A c \in Client :
        /\ object[c] = "none" <=> session[c] = "none"
        /\ object[c] = "deleted" => session[c] = "exited"
        /\ torn[c] => session[c] \in {"loop", "exited"}
        /\ torn[c] /\ session[c] = "loop" => m_isStopProcessThread[c]

\* Of the listed sessions none is left unmade.
ListedAreMade == \A k \in 1..Len(m_RtspSessionList) : object[m_RtspSessionList[k]] # "none"

ListInv == ListIsComplete /\ ListedAreMade

IInv == TypeOK /\ Turns /\ Waiting /\ Lives /\ ListInv

USE DEF CallerPC, ListenerPC, SessionPC, Conn, Request, Line

-----------------------------------------------------------------------------
(* At the beginning nothing is open and nobody has come.                    *)
LEMMA IInit == Init => IInv
<1> SUFFICES ASSUME Init PROVE IInv
  OBVIOUS
<1> USE DEF Init
<1>1. TypeOK
  <2>1. m_isOpen \in BOOLEAN /\ m_isStopListenThread \in BOOLEAN
    BY Zenon
  <2>2. m_MaxConnects \in Limits \cup {0} /\ ptr \in Nat
    OBVIOUS
  <2> QED
    BY <2>1, <2>2 DEF TypeOK
<1>2. Turns /\ Waiting /\ Lives
  BY DEF Turns, Closing, Waiting, Lives
<1>3. ListInv
  BY DEF ListInv, ListIsComplete, ListedAreMade, Listed
<1> QED
  BY <1>1, <1>2, <1>3 DEF IInv

(* The types of all variables, over the steps of the thread in Open or      *)
(* Close and of the listen thread.                                          *)
LEMMA CallerTypes ==
    ASSUME TypeOK, OpenSucceeds \/ OpenFails \/ CloseSignal \/ CallerStep
    PROVE  TypeOK'
<1> USE DEF TypeOK, opening, transportVars, sessionVars, clientVars
<1>1. CASE OpenSucceeds
  BY <1>1 DEF OpenSucceeds
<1>2. CASE OpenFails
  BY <1>2 DEF OpenFails
<1>3. CASE CloseSignal
  BY <1>3 DEF CloseSignal
<1>4. CASE CloseJoin
  BY <1>4 DEF CloseJoin
<1>5. CASE DeleteSignal
  BY <1>5 DEF DeleteSignal, SignalWith
<1>6. CASE DeleteJoin
  <2>1. ptr' \in Nat
    BY <1>6 DEF DeleteJoin, DeleteWhen
  <2>2. object' \in [Client -> {"none", "live", "deleted"}]
    BY <1>6 DEF DeleteJoin, DeleteWhen
  <2>3. /\ caller' = "delete"
        /\ UNCHANGED <<opening, m_isStopListenThread, m_RtspSessionList, listener, session,
                       m_isStopProcessThread, request, torn, clientVars>>
    BY <1>6 DEF DeleteJoin, DeleteWhen
  <2> QED
    BY <2>1, <2>2, <2>3
<1>7. CASE CloseClear
  <2>1. m_isOpen' \in BOOLEAN /\ UNCHANGED m_isStopListenThread
    BY <1>7, Zenon DEF CloseClear
  <2>2. ptr' \in Nat /\ m_RtspSessionList' \in Seq(Client) /\ backlog' \in Seq(Client)
    BY <1>7 DEF CloseClear
  <2>3. conn' \in [Client -> Conn]
    BY <1>7 DEF CloseClear, Contains
  <2>4. /\ caller' = "idle" /\ m_Socket' = "none"
        /\ UNCHANGED <<m_MaxConnects, listener, sessionVars, inbox>>
    BY <1>7 DEF CloseClear
  <2> QED
    BY <2>1, <2>2, <2>3, <2>4
<1> QED
  BY <1>1, <1>2, <1>3, <1>4, <1>5, <1>6, <1>7 DEF CallerStep

(* What is left of a list when one of it is erased.                         *)
LEMMA RemoveAtProperties ==
    ASSUME NEW S, NEW s \in Seq(S), NEW i \in 1..Len(s)
    PROVE  /\ RemoveAt(s, i) \in Seq(S)
           /\ Len(RemoveAt(s, i)) = Len(s) - 1
           /\ \A k \in 1..(Len(s) - 1) : RemoveAt(s, i)[k] = IF k < i THEN s[k] ELSE s[k + 1]
<1> DEFINE before == SubSeq(s, 1, i - 1)
           behind == SubSeq(s, i + 1, Len(s))
<1>1. before \in Seq(S) /\ Len(before) = i - 1 /\ \A k \in 1..(i - 1) : before[k] = s[k]
  BY SubSeqProperties
<1>2. /\ behind \in Seq(S) /\ Len(behind) = Len(s) - i
      /\ \A k \in 1..(Len(s) - i) : behind[k] = s[i + k]
  BY SubSeqProperties
<1>3. RemoveAt(s, i) = before \o behind
  BY DEF RemoveAt
<1> QED
  <2> HIDE DEF before, behind
  <2>1. /\ before \o behind \in Seq(S)
        /\ Len(before \o behind) = Len(before) + Len(behind)
        /\ \A k \in 1..(Len(before) + Len(behind)) :
             (before \o behind)[k] = IF k <= Len(before) THEN before[k]
                                     ELSE behind[k - Len(before)]
    BY <1>1, <1>2, ConcatProperties
  <2>2. Len(s) \in Nat
    BY LenProperties
  <2>3. ASSUME NEW k \in 1..(Len(s) - 1)
        PROVE  (before \o behind)[k] = IF k < i THEN s[k] ELSE s[k + 1]
    <3>1. CASE k < i
      BY <1>1, <1>2, <2>1, <2>2, <3>1
    <3>2. CASE ~(k < i)
      <4>1. (before \o behind)[k] = behind[k - (i - 1)] /\ k - (i - 1) \in 1..(Len(s) - i)
        BY <1>1, <1>2, <2>1, <2>2, <3>2
      <4>2. behind[k - (i - 1)] = s[i + (k - (i - 1))] /\ i + (k - (i - 1)) = k + 1
        BY <1>2, <2>2, <4>1
      <4> QED
        BY <3>2, <4>1, <4>2
    <3> QED
      BY <3>1, <3>2
  <2> QED
    BY <1>1, <1>2, <1>3, <2>1, <2>2, <2>3

(* Over the steps of the listen thread.                                    *)
LEMMA ListenerTypes ==
    ASSUME TypeOK, ListenerStep
    PROVE  TypeOK'
<1> USE DEF TypeOK, opening, transportVars, sessionVars, clientVars
<1>1. CASE ListenWait
  <2>1. m_isStopListenThread' \in BOOLEAN
    BY <1>1, Zenon DEF ListenWait
  <2>2. ptr' \in Nat
    BY <1>1 DEF ListenWait
  <2>3. listener' \in ListenerPC
    BY <1>1 DEF ListenWait
  <2>4. UNCHANGED <<opening, m_RtspSessionList, caller, sessionVars, clientVars>>
    BY <1>1 DEF ListenWait
  <2> QED
    BY <2>1, <2>2, <2>3, <2>4
<1>2. CASE ReapClosed
  <2>1. m_RtspSessionList' \in Seq(Client) /\ ptr' \in Nat
    BY <1>2, RemoveAtProperties DEF ReapClosed, ReapWith, Erased
  <2>2. object' \in [Client -> {"none", "live", "deleted"}]
    BY <1>2 DEF ReapClosed, ReapWith
  <2>3. m_isStopProcessThread' \in [Client -> BOOLEAN]
    BY <1>2 DEF ReapClosed, ReapWith
  <2>4. UNCHANGED <<opening, m_isStopListenThread, caller, listener,
                    session, request, torn, clientVars>>
    BY <1>2 DEF ReapClosed, ReapWith
  <2> QED
    BY <2>1, <2>2, <2>3, <2>4
<1>3. CASE ReapSkip
  <2>1. ptr' \in Nat
    BY <1>3 DEF ReapSkip
  <2>2. UNCHANGED <<opening, m_isStopListenThread, m_RtspSessionList, caller,
                    listener, sessionVars, clientVars>>
    BY <1>3 DEF ReapSkip
  <2> QED
    BY <2>1, <2>2
<1>4. CASE ReapDone \/ AcceptNothing
  <2>1. /\ listener' \in ListenerPC
        /\ UNCHANGED <<opening, m_isStopListenThread, m_RtspSessionList, caller,
                       ptr, sessionVars, clientVars>>
    BY <1>4 DEF ReapDone, AcceptNothing
  <2> QED
    BY <2>1
<1>5. CASE AcceptFull
  <2>1. backlog' \in Seq(Client)
    BY <1>5 DEF AcceptFull
  <2>2. /\ conn' \in [Client -> Conn] /\ listener' = "wait"
        /\ UNCHANGED <<opening, m_isStopListenThread, m_RtspSessionList, caller,
                       ptr, sessionVars, inbox>>
    BY <1>5 DEF AcceptFull
  <2> QED
    BY <2>1, <2>2
<1>6. CASE AcceptSession
  <2>1. backlog' \in Seq(Client) /\ m_RtspSessionList' \in Seq(Client)
    BY <1>6 DEF AcceptSession
  <2>2. /\ object' \in [Client -> {"none", "live", "deleted"}]
        /\ session' \in [Client -> SessionPC] /\ listener' = "wait"
    BY <1>6 DEF AcceptSession
  <2>3. m_isStopProcessThread' \in [Client -> BOOLEAN]
    BY <1>6 DEF AcceptSession
  <2>4. UNCHANGED <<opening, m_isStopListenThread, caller, ptr, request, torn, conn, inbox>>
    BY <1>6 DEF AcceptSession
  <2> QED
    BY <2>1, <2>2, <2>3, <2>4
<1> QED
  BY <1>1, <1>2, <1>3, <1>4, <1>5, <1>6 DEF ListenerStep

(* Over the steps of a session's thread.                                    *)
LEMMA SessionTypes ==
    ASSUME TypeOK, NEW c \in Client, SessionStep(c)
    PROVE  TypeOK'
<1> USE DEF TypeOK, opening, transportVars, sessionVars, clientVars
<1>1. CASE SessionLoop(c)
  <2>1. session' \in [Client -> SessionPC]
    BY <1>1 DEF SessionLoop
  <2>2. m_isStopProcessThread' \in [Client -> BOOLEAN]
    BY <1>1 DEF SessionLoop
  <2>3. request' \in [Client -> Request \cup {"none"}]
    BY <1>1 DEF SessionLoop
  <2>4. UNCHANGED <<transportVars, object, torn, clientVars>>
    BY <1>1 DEF SessionLoop
  <2> QED
    BY <2>1, <2>2, <2>3, <2>4
<1>2. CASE SessionRead(c)
  <2>1. inbox[c] # <<>> => Head(inbox[c]) \in Line /\ Tail(inbox[c]) \in Seq(Line)
    BY HeadTailProperties
  <2>2. CASE ReadLine(c)
    <3>1. inbox' \in [Client -> Seq(Line)]
      BY <2>1, <2>2 DEF ReadLine
    <3>2. request' \in [Client -> Request \cup {"none"}]
      BY <2>1, <2>2 DEF ReadLine
    <3>3. UNCHANGED <<transportVars, object, session, m_isStopProcessThread, torn, backlog, conn>>
      BY <2>2 DEF ReadLine
    <3> QED
      BY <3>1, <3>2, <3>3
  <2>3. CASE ReadEnd(c)
    <3>1. inbox' \in [Client -> Seq(Line)]
      BY <2>1, <2>3 DEF ReadEnd
    <3>2. session' \in [Client -> SessionPC]
      BY <2>3 DEF ReadEnd
    <3>3. UNCHANGED <<transportVars, object, m_isStopProcessThread, request, torn, backlog, conn>>
      BY <2>3 DEF ReadEnd
    <3> QED
      BY <3>1, <3>2, <3>3
  <2>4. CASE ReadClosed(c, "exited")
    <3>1. session' \in [Client -> SessionPC]
      BY <2>4 DEF ReadClosed
    <3>2. UNCHANGED <<transportVars, object, m_isStopProcessThread, request, torn, clientVars>>
      BY <2>4 DEF ReadClosed
    <3> QED
      BY <3>1, <3>2
  <2> QED
    BY <1>2, <2>2, <2>3, <2>4 DEF SessionRead, ReadWith, ReadLine, ReadEnd, ReadClosed
<1>3. CASE SessionDispatch(c)
  <2>1. session' \in [Client -> SessionPC]
    BY <1>3 DEF SessionDispatch, DispatchWith
  <2>2. m_isStopProcessThread' \in [Client -> BOOLEAN] /\ torn' \in [Client -> BOOLEAN]
    BY <1>3 DEF SessionDispatch, DispatchWith
  <2>3. UNCHANGED <<transportVars, object, request, clientVars>>
    BY <1>3 DEF SessionDispatch, DispatchWith
  <2> QED
    BY <2>1, <2>2, <2>3
<1> QED
  BY <1>1, <1>2, <1>3 DEF SessionStep

(* Over the steps of a client.                                              *)
LEMMA ClientTypes ==
    ASSUME TypeOK, NEW c \in Client, ClientStep(c)
    PROVE  TypeOK'
<1> USE DEF TypeOK, opening, transportVars, sessionVars, clientVars
<1>1. CASE Connect(c)
  <2>1. backlog' \in Seq(Client)
    BY <1>1, AppendProperties DEF Connect
  <2>2. conn' \in [Client -> Conn] /\ UNCHANGED <<transportVars, sessionVars, inbox>>
    BY <1>1 DEF Connect
  <2> QED
    BY <2>1, <2>2
<1>3. CASE Disconnect(c)
  <2>1. /\ conn' \in [Client -> Conn]
        /\ UNCHANGED <<transportVars, sessionVars, backlog, inbox>>
    BY <1>3 DEF Disconnect
  <2> QED
    BY <2>1
<1>2. ASSUME NEW l \in Line, Send(c, l)
      PROVE  TypeOK'
  <2>1. inbox' \in [Client -> Seq(Line)]
    BY <1>2 DEF Send
  <2>2. UNCHANGED <<transportVars, sessionVars, backlog, conn>>
    BY <1>2 DEF Send
  <2> QED
    BY <2>1, <2>2
<1> QED
  BY <1>1, <1>2, <1>3 DEF ClientStep

-----------------------------------------------------------------------------
(* Close and the listen thread keep to their turns.                         *)
LEMMA TurnsStep ==
    ASSUME TypeOK, Turns, Next
    PROVE  Turns'
<1> USE DEF TypeOK, Turns, Closing, opening, transportVars
<1>1. CASE OpenSucceeds \/ OpenFails
  BY <1>1 DEF OpenSucceeds, OpenFails
<1>2. CASE CloseSignal \/ CloseJoin \/ CloseClear
  BY <1>2 DEF CloseSignal, CloseJoin, CloseClear
<1>3. CASE DeleteSignal
  BY <1>3 DEF DeleteSignal, SignalWith
<1>4. CASE DeleteJoin
  BY <1>4 DEF DeleteJoin, DeleteWhen
<1>5. CASE ListenWait \/ ReapSkip \/ ReapDone \/ AcceptNothing \/ AcceptFull
  BY <1>5 DEF ListenWait, ReapSkip, ReapDone, AcceptNothing, AcceptFull
<1>6. CASE ReapClosed
  BY <1>6 DEF ReapClosed, ReapWith
<1>7. CASE AcceptSession
  BY <1>7 DEF AcceptSession
<1>8. CASE \E c \in Client : SessionStep(c) \/ ClientStep(c)
  BY <1>8 DEF SessionStep, SessionLoop, SessionRead, ReadWith,
              ReadLine, ReadEnd, ReadClosed, SessionDispatch, DispatchWith,
              ClientStep, Connect, Disconnect, Send
<1> QED
  BY <1>1, <1>2, <1>3, <1>4, <1>5, <1>6, <1>7, <1>8 DEF Next, CallerStep, ListenerStep

(* A session's object goes behind its thread, and a session that has served *)
(* a TEARDOWN has its event set.                                            *)
LEMMA LivesStep ==
    ASSUME IInv, Next
    PROVE  Lives'
<1> USE DEF IInv, TypeOK, Lives, sessionVars, transportVars
<1>1. CASE OpenSucceeds \/ OpenFails \/ CloseSignal \/ CloseJoin \/ CloseClear
  BY <1>1 DEF OpenSucceeds, OpenFails, CloseSignal, CloseJoin, CloseClear
<1>2. CASE DeleteSignal
  BY <1>2 DEF DeleteSignal, SignalWith
<1>3. CASE DeleteJoin
  <2>1. m_RtspSessionList[ptr + 1] \in Client
    BY <1>3 DEF DeleteJoin, DeleteWhen, Turns
  <2> QED
    BY <1>3, <2>1 DEF DeleteJoin, DeleteWhen
<1>4. CASE ListenWait \/ ReapSkip \/ ReapDone \/ AcceptNothing \/ AcceptFull
  BY <1>4 DEF ListenWait, ReapSkip, ReapDone, AcceptNothing, AcceptFull
<1>5. CASE ReapClosed
  <2>1. m_RtspSessionList[ptr + 1] \in Client
    BY <1>5 DEF ReapClosed, ReapWith
  <2> QED
    BY <1>5, <2>1 DEF ReapClosed, ReapWith
<1>6. CASE AcceptSession
  <2>1. Head(backlog) \in Client /\ object[Head(backlog)] = "none"
    BY <1>6 DEF AcceptSession, Waiting
  <2> QED
    BY <1>6, <2>1 DEF AcceptSession
<1>7. ASSUME NEW c \in Client, SessionStep(c)
      PROVE  Lives'
  <2>1. CASE SessionLoop(c)
    BY <2>1 DEF SessionLoop
  <2>2. CASE SessionRead(c)
    BY <2>2 DEF SessionRead, ReadWith, ReadLine, ReadEnd, ReadClosed
  <2>3. CASE SessionDispatch(c)
    BY <2>3 DEF SessionDispatch, DispatchWith
  <2> QED
    BY <1>7, <2>1, <2>2, <2>3 DEF SessionStep
<1>8. CASE \E c \in Client : ClientStep(c)
  BY <1>8 DEF ClientStep, Connect, Disconnect, Send
<1> QED
  BY <1>1, <1>2, <1>3, <1>4, <1>5, <1>6, <1>7, <1>8 DEF Next, CallerStep, ListenerStep

(* Who waits in the backlog has no session yet.                             *)
LEMMA WaitingStep ==
    ASSUME IInv, Next
    PROVE  Waiting'
<1> USE DEF Waiting, sessionVars, transportVars, clientVars
<1>t. /\ backlog \in Seq(Client) /\ m_RtspSessionList \in Seq(Client) /\ ptr \in Nat
      /\ object \in [Client -> {"none", "live", "deleted"}] /\ conn \in [Client -> Conn]
      /\ Len(backlog) \in Nat /\ Len(m_RtspSessionList) \in Nat
      /\ \A k \in 1..Len(backlog) : backlog[k] \in Client
  BY DEF IInv, TypeOK
<1>w. Waiting
  BY DEF IInv
<1>1. CASE OpenSucceeds \/ OpenFails \/ CloseSignal \/ CloseJoin \/ DeleteSignal
  BY <1>t, <1>w, <1>1 DEF OpenSucceeds, OpenFails, CloseSignal, CloseJoin, DeleteSignal, SignalWith
<1>2. CASE CloseClear
  BY <1>t, <1>w, <1>2 DEF CloseClear, Contains
<1>3. CASE DeleteJoin
  <2>1. /\ m_RtspSessionList[ptr + 1] \in Client
        /\ object[m_RtspSessionList[ptr + 1]] # "none"
    BY <1>t, <1>w, <1>3 DEF DeleteJoin, DeleteWhen, IInv, Turns, ListInv, ListedAreMade
  <2> QED
    BY <1>t, <1>w, <1>3, <2>1 DEF DeleteJoin, DeleteWhen
<1>4. CASE ListenWait \/ ReapSkip \/ ReapDone \/ AcceptNothing
  BY <1>t, <1>w, <1>4 DEF ListenWait, ReapSkip, ReapDone, AcceptNothing
<1>5. CASE ReapClosed
  <2>1. /\ m_RtspSessionList[ptr + 1] \in Client
        /\ object[m_RtspSessionList[ptr + 1]] # "none"
    BY <1>t, <1>w, <1>5 DEF ReapClosed, ReapWith, IInv, ListInv, ListedAreMade
  <2> QED
    BY <1>t, <1>w, <1>5, <2>1 DEF ReapClosed, ReapWith
<1>6. CASE AcceptFull \/ AcceptSession
  <2>1. /\ Head(backlog) = backlog[1] /\ Len(Tail(backlog)) = Len(backlog) - 1
        /\ \A k \in 1..(Len(backlog) - 1) : Tail(backlog)[k] = backlog[k + 1]
    BY <1>t, <1>6, HeadTailProperties DEF AcceptFull, AcceptSession
  <2>2. ASSUME NEW k \in 1..Len(Tail(backlog))
        PROVE  Tail(backlog)[k] # Head(backlog)
    <3>1. k \in 1..(Len(backlog) - 1) /\ k + 1 \in 1..Len(backlog) /\ 1 \in 1..Len(backlog)
          /\ k + 1 # 1
      BY <1>t, <2>1
    <3> QED
      BY <1>w, <2>1, <3>1
  <2>3. /\ Len(backlog') = Len(backlog) - 1 /\ Head(backlog) \in Client
        /\ \A k \in 1..Len(backlog') : /\ k + 1 \in 1..Len(backlog)
                                      /\ backlog'[k] = backlog[k + 1]
                                      /\ backlog'[k] # Head(backlog)
    <3>1. backlog' = Tail(backlog) /\ backlog # <<>>
      BY <1>6 DEF AcceptFull, AcceptSession
    <3>2. Len(backlog) > 0
      BY <1>t, <3>1
    <3> QED
      BY <1>t, <2>1, <2>2, <3>1, <3>2
  <2>4. \A c \in Client : c # Head(backlog) => object'[c] = object[c] /\ conn'[c] = conn[c]
    BY <1>t, <1>6 DEF AcceptFull, AcceptSession
  <2>5. conn'[Head(backlog)] # "idle" /\ conn' \in [Client -> Conn]
    <3>1. conn[backlog[1]] # "idle"
      BY <1>t, <1>w, <1>6 DEF AcceptFull, AcceptSession
    <3> QED
      BY <1>t, <1>6, <2>1, <2>3, <3>1 DEF AcceptFull, AcceptSession
  <2>6. \A j, k \in 1..Len(backlog') : backlog'[j] = backlog'[k] => j = k
    <3> SUFFICES ASSUME NEW j \in 1..Len(backlog'), NEW k \in 1..Len(backlog'),
                        backlog'[j] = backlog'[k]
                 PROVE  j = k
      OBVIOUS
    <3>1. j + 1 = k + 1
      BY <1>w, <2>3
    <3> QED
      BY <1>t, <2>3, <3>1
  <2>7. ASSUME NEW k \in 1..Len(backlog')
        PROVE  object'[backlog'[k]] = "none" /\ conn'[backlog'[k]] # "idle"
    <3>1. /\ k + 1 \in 1..Len(backlog) /\ backlog'[k] = backlog[k + 1]
          /\ backlog'[k] # Head(backlog)
      BY <2>3
    <3>2. backlog[k + 1] \in Client
      BY <1>t, <3>1
    <3>3. object[backlog[k + 1]] = "none" /\ conn[backlog[k + 1]] # "idle"
      BY <1>w, <3>1
    <3>4. object'[backlog[k + 1]] = object[backlog[k + 1]]
          /\ conn'[backlog[k + 1]] = conn[backlog[k + 1]]
      BY <2>4, <3>1, <3>2
    <3> QED
      BY <3>1, <3>3, <3>4
  <2>8. \A c \in Client : conn'[c] = "idle" => object'[c] = "none"
    BY <1>w, <2>4, <2>5
  <2> QED
    BY <2>6, <2>7, <2>8
<1>7. CASE \E c \in Client : SessionStep(c)
  BY <1>t, <1>w, <1>7 DEF SessionStep, SessionLoop, SessionRead, ReadWith,
                          ReadLine, ReadEnd, ReadClosed, SessionDispatch,
                          DispatchWith
<1>8. ASSUME NEW c \in Client, ClientStep(c)
      PROVE  Waiting'
  <2>1. CASE Connect(c)
    <3>1. \A k \in 1..Len(backlog) : backlog[k] # c
      BY <1>t, <1>w, <2>1 DEF Connect
    <3> QED
      BY <1>t, <1>w, <2>1, <3>1, AppendProperties DEF Connect
  <2>2. CASE Disconnect(c) \/ \E l \in Line : Send(c, l)
    BY <1>t, <1>w, <2>2 DEF Disconnect, Send
  <2> QED
    BY <1>8, <2>1, <2>2 DEF ClientStep
<1> QED
  BY <1>1, <1>2, <1>3, <1>4, <1>5, <1>6, <1>7, <1>8 DEF Next, CallerStep, ListenerStep

(* What is in the list is alive, once; Close deletes it in order.           *)
LEMMA ListStep ==
    ASSUME IInv, Next
    PROVE  ListInv'
<1> USE DEF ListInv, ListIsComplete, ListedAreMade, Listed, Closing, sessionVars, transportVars,
            opening
<1>t. /\ m_RtspSessionList \in Seq(Client) /\ ptr \in Nat /\ Len(m_RtspSessionList) \in Nat
      /\ object \in [Client -> {"none", "live", "deleted"}]
      /\ \A k \in 1..Len(m_RtspSessionList) : m_RtspSessionList[k] \in Client
      /\ Turns
  BY DEF IInv, TypeOK
<1>l. ListInv
  BY DEF IInv
<1>1. CASE OpenSucceeds \/ OpenFails \/ CloseSignal
  BY <1>t, <1>l, <1>1 DEF OpenSucceeds, OpenFails, CloseSignal
<1>2. CASE CloseJoin
  BY <1>t, <1>l, <1>2 DEF CloseJoin
<1>3. CASE DeleteSignal
  BY <1>t, <1>l, <1>3 DEF DeleteSignal, SignalWith
<1>4. CASE DeleteJoin
  BY <1>t, <1>l, <1>4 DEF DeleteJoin, DeleteWhen, Turns
<1>5. CASE CloseClear
  BY <1>t, <1>l, <1>5 DEF CloseClear, Turns
<1>6. CASE ListenWait \/ ReapSkip \/ ReapDone \/ AcceptNothing \/ AcceptFull
  BY <1>t, <1>l, <1>6 DEF ListenWait, ReapSkip, ReapDone, AcceptNothing, AcceptFull, Turns
<1>7. CASE ReapClosed
  <2> DEFINE c == m_RtspSessionList[ptr + 1]
  <2>1. c \in Client /\ ptr + 1 \in 1..Len(m_RtspSessionList) /\ ~Closing
        /\ object' = [object EXCEPT ![c] = "deleted"] /\ UNCHANGED caller
    BY <1>t, <1>7 DEF ReapClosed, ReapWith, Turns
  <2>2. /\ Len(m_RtspSessionList') = Len(m_RtspSessionList) - 1
        /\ \A k \in 1..(Len(m_RtspSessionList) - 1) :
             m_RtspSessionList'[k] = IF k < ptr + 1 THEN m_RtspSessionList[k]
                                     ELSE m_RtspSessionList[k + 1]
    BY <1>t, <1>7, <2>1, RemoveAtProperties DEF ReapClosed, ReapWith, Erased
  <2>3. ASSUME NEW j \in 1..Len(m_RtspSessionList'), NEW k \in 1..Len(m_RtspSessionList'),
               m_RtspSessionList'[j] = m_RtspSessionList'[k]
        PROVE  j = k
    <3> DEFINE at(n) == IF n < ptr + 1 THEN n ELSE n + 1
    <3>1. /\ j \in 1..(Len(m_RtspSessionList) - 1) /\ k \in 1..(Len(m_RtspSessionList) - 1)
          /\ Len(m_RtspSessionList) \in Nat /\ ptr \in Nat
      BY <1>t, <2>1, <2>2
    <3>2. /\ m_RtspSessionList'[j] = m_RtspSessionList[at(j)]
          /\ m_RtspSessionList'[k] = m_RtspSessionList[at(k)]
      BY <2>2, <3>1
    <3>3. at(j) \in 1..Len(m_RtspSessionList) /\ at(k) \in 1..Len(m_RtspSessionList)
      BY <3>1
    <3> HIDE DEF at
    <3>4. at(j) = at(k)
      BY <1>l, <2>3, <3>2, <3>3
    <3> QED
      BY <3>1, <3>4 DEF at
  <2>4. ASSUME NEW d \in Client, object'[d] = "live"
        PROVE  \E k \in 1..Len(m_RtspSessionList') : m_RtspSessionList'[k] = d
    <3>1. object[d] = "live" /\ d # c
      BY <1>t, <2>1, <2>4
    <3>2. PICK k \in 1..Len(m_RtspSessionList) : m_RtspSessionList[k] = d
      BY <1>l, <3>1
    <3>3. CASE k < ptr + 1
      BY <1>t, <2>1, <2>2, <3>2, <3>3
    <3>4. CASE k > ptr + 1
      <4>1. k - 1 \in 1..(Len(m_RtspSessionList) - 1) /\ ~(k - 1 < ptr + 1) /\ (k - 1) + 1 = k
        BY <1>t, <3>4
      <4>2. m_RtspSessionList'[k - 1] = d
        BY <2>2, <3>2, <4>1
      <4> QED
        BY <2>2, <4>1, <4>2
    <3> QED
      BY <1>t, <3>1, <3>2, <3>3, <3>4
  <2>5. ASSUME NEW k \in 1..Len(m_RtspSessionList')
        PROVE  object'[m_RtspSessionList'[k]] = "live"
    <3>1. PICK i \in 1..Len(m_RtspSessionList) :
            i # ptr + 1 /\ m_RtspSessionList'[k] = m_RtspSessionList[i]
      <4>1. k \in 1..(Len(m_RtspSessionList) - 1) /\ k + 1 \in 1..Len(m_RtspSessionList)
        BY <1>t, <2>2
      <4>2. CASE k < ptr + 1
        BY <1>t, <2>2, <4>1, <4>2
      <4>3. CASE ~(k < ptr + 1)
        BY <1>t, <2>2, <4>1, <4>3
      <4> QED
        BY <4>2, <4>3
    <3>2. m_RtspSessionList[i] \in Client /\ m_RtspSessionList[i] # c
      BY <1>t, <1>l, <2>1, <3>1
    <3>3. object[m_RtspSessionList[i]] = "live"
      BY <1>t, <1>l, <2>1, <3>2
    <3> QED
      BY <1>t, <2>1, <3>1, <3>2, <3>3
  <2> QED
    BY <2>1, <2>3, <2>4, <2>5
<1>8. CASE AcceptSession
  <2> DEFINE c == Head(backlog)
  <2>1. /\ c \in Client /\ object[c] = "none" /\ ~Closing /\ UNCHANGED caller
        /\ object' = [object EXCEPT ![c] = "live"]
        /\ m_RtspSessionList' = Append(m_RtspSessionList, c)
    BY <1>t, <1>8 DEF AcceptSession, IInv, TypeOK, Waiting, Turns
  <2>2. \A k \in 1..Len(m_RtspSessionList) : m_RtspSessionList[k] # c
    BY <1>t, <1>l, <2>1
  <2> QED
    BY <1>t, <1>l, <2>1, <2>2
<1>9. CASE \E c \in Client : SessionStep(c) \/ ClientStep(c)
  <2>1. UNCHANGED <<transportVars, object>>
    BY <1>9 DEF SessionStep, SessionLoop, SessionRead, ReadWith,
                ReadLine, ReadEnd, ReadClosed, SessionDispatch, DispatchWith,
                ClientStep, Connect, Disconnect, Send
  <2> QED
    BY <1>l, <2>1
<1> QED
  BY <1>1, <1>2, <1>3, <1>4, <1>5, <1>6, <1>7, <1>8, <1>9 DEF Next, CallerStep, ListenerStep

-----------------------------------------------------------------------------
(* The invariant, over every behaviour.                                     *)
THEOREM IInvariance == Spec => []IInv
<1>1. IInv /\ [Next]_vars => IInv'
  <2> SUFFICES ASSUME IInv, [Next]_vars PROVE IInv'
    OBVIOUS
  <2>1. CASE Next
    <3>1. TypeOK'
      BY <2>1, CallerTypes, ListenerTypes, SessionTypes, ClientTypes DEF IInv, Next
    <3> QED
      BY <2>1, <3>1, TurnsStep, WaitingStep, LivesStep, ListStep DEF IInv
  <2>2. CASE UNCHANGED vars
    BY <2>2 DEF vars, transportVars, opening, sessionVars, clientVars, IInv, TypeOK, Turns,
                Closing, Waiting, Lives, ListInv, ListIsComplete, ListedAreMade, Listed
  <2> QED
    BY <2>1, <2>2
<1> QED
  BY <1>1, IInit, PTL DEF Spec

(* No session's object is deleted under its thread, by the listen thread or *)
(* by Close, and the types hold.                                            *)
THEOREM ThreadsKeepTheirObjects == Spec => []TransportInv
<1>1. IInv => TransportInv
  BY DEF IInv, TypeOK, Lives, TransportInv, ThreadHasObject, Running
<1> QED
  BY <1>1, IInvariance, PTL

(* No session is lost from the list, in it twice, or in it when deleted.    *)
THEOREM ListStaysComplete == Spec => []ListIsComplete
<1>1. IInv => ListIsComplete
  BY DEF IInv, ListInv
<1> QED
  BY <1>1, IInvariance, PTL

(* Close leaves no thread and no session behind.                            *)
THEOREM CloseLeavesNothing == Spec => []ClosedIsQuiet
<1>1. IInv => ClosedIsQuiet
  <2> SUFFICES ASSUME IInv, ~m_isOpen
               PROVE  listener = "none" /\ \A c \in Client : ~Running(c) /\ object[c] # "live"
    BY DEF ClosedIsQuiet
  <2>1. listener = "none" /\ Listed = {}
    BY DEF IInv, Turns, Listed
  <2>2. \A c \in Client : object[c] # "live"
    BY <2>1 DEF IInv, ListInv, ListIsComplete
  <2>3. \A c \in Client : ~Running(c)
    BY <2>2 DEF IInv, TypeOK, Lives, Running
  <2> QED
    BY <2>1, <2>2, <2>3
<1> QED
  BY <1>1, IInvariance, PTL

(* A session that has served a TEARDOWN reads and serves nothing more,      *)
(* whoever else uses its event.                                             *)
THEOREM TeardownIsTheLast == Spec => NothingAfterTeardown
<1>1. IInv /\ IInv' /\ [Next]_vars =>
        [\A c \in Client : torn[c] => session'[c] \notin {"read", "dispatch"}]_vars
  <2> SUFFICES ASSUME IInv, IInv', Next, NEW c \in Client, torn[c]
               PROVE  session'[c] \notin {"read", "dispatch"}
    OBVIOUS
  <2>1. torn'[c]
    BY DEF IInv, TypeOK, Next, CallerStep, ListenerStep, OpenSucceeds, OpenFails, CloseSignal,
           CloseJoin, DeleteSignal, SignalWith, DeleteJoin, DeleteWhen, CloseClear, ListenWait,
           ReapClosed, ReapWith, ReapSkip, ReapDone, AcceptNothing, AcceptFull, AcceptSession,
           SessionStep, SessionLoop, SessionRead, ReadWith,
           ReadLine, ReadEnd, ReadClosed, SessionDispatch, DispatchWith,
           ClientStep, Connect, Disconnect, Send, sessionVars
  <2> QED
    BY <2>1 DEF IInv, Lives
<1> QED
  BY <1>1, IInvariance, PTL DEF Spec, NothingAfterTeardown
=============================================================================

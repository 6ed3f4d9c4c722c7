---------------------------- MODULE RtspExchange ----------------------------
(***************************************************************************)
(* Requests and replies on the control connection: Rtsp::Read and Write    *)
(* (Rtsp/Rtsp.cpp 21-96) under the server's loop (RtspResponse.cpp         *)
(* 143-259, RtspSession.cpp 43-155) and the client's calls                 *)
(* (RtspRequest.cpp 46-295).  A read that waits for half a second gives    *)
(* up, and both ends take that for the end of a message.  The server may   *)
(* refuse a request or say nothing to it, and it leaves after a TEARDOWN.  *)
(***************************************************************************)
EXTENDS Naturals, Sequences, SequencesExt

CONSTANTS
    MaxAsks,    \* bound: the requests the client makes
    Kinds,      \* what each of them is
    Worlds      \* timely: bytes under way arrive before a read gives up;
                \* onePiece: a description arrives as a whole;
                \* garbage: what the uninitialised c of Rtsp::Read may hold

Kind == {"options", "describe", "setup", "play", "pause", "teardown"}

ASSUME ExchangeAssumption ==
    /\ MaxAsks \in Nat /\ Kinds \in [1..MaxAsks -> Kind]
    /\ \A w \in Worlds : w.timely \in BOOLEAN /\ w.onePiece \in BOOLEAN

Describes == {k \in 1..MaxAsks : Kinds[k] = "describe"}

End == {"client", "server"}

\* The states of the client, of which each request needs one and brings it to one.
stateInit == 0
stateConnected == 1
stateReady == 2
statePlaying == 3
statePause == 4

Needs(kind) ==
    CASE kind = "play" -> stateReady
      [] kind = "pause" -> statePlaying
      [] OTHER -> stateConnected

\* What the server does with a request.
How == {"ok", "error", "silent"}

VARIABLES
    world,   \* one of Worlds
    wire,    \* the bytes sent to each end and not read by it
    reader,  \* the Rtsp::Read of each end, and the lines of the message so far
    m_CSeq,  \* of each end
    server,  \* the session: in its loop, out of it, deleted with its socket
    client,  \* where the client is
    m_State, \* what it may ask for
    asked,   \* how many requests it has made
    result,  \* what the last one came to
    numbers, \* the CSeq of each request made
    served   \* the requests served, their CSeq and how they were, in order

vars == <<world, wire, reader, m_CSeq, server, client, m_State, asked, result, numbers, served>>

-----------------------------------------------------------------------------
(* A byte stands for all of a part of a line that is cut nowhere.           *)

Byte(kind, n) == [kind |-> kind, n |-> n]

CR == Byte("cr", 0)
LF == Byte("lf", 0)

Body == <<Byte("body", 1), CR, LF>>

\* SendRequest and SendResponse; the description follows the reply.  (A field that the
\* properties do not tell apart is no line of its own.)
RequestBytes(k, cseq) ==
    <<Byte("method", k), Byte("url", k), CR, LF, Byte("cseq", cseq), CR, LF, CR, LF>>

AnswerBytes(k, cseq, how) ==
    <<Byte(how, k), CR, LF, Byte("cseq", cseq), CR, LF>>
        \o (IF how = "ok" /\ k \in Describes
            THEN <<Byte("length", k), CR, LF, CR, LF>> \o Body
            ELSE <<CR, LF>>)

ReplyBytes(k, cseq, how) == IF how = "silent" THEN <<>> ELSE AnswerBytes(k, cseq, how)

\* Which lines have a byte of a kind, and the number in one of them.
With(lines, kind) ==
    {k \in DOMAIN lines : \E j \in DOMAIN lines[k] : lines[k][j].kind = kind}

NumberIn(line, kind) == line[CHOOSE j \in DOMAIN line : line[j].kind = kind].n

Bytes == [kind : {"method", "url", "cseq", "ok", "error", "length", "body", "cr", "lf"},
          n : 0..MaxAsks]

\* The variables of Rtsp::Read and those of its caller.
Reader == [pc : {"char", "newline", "done"}, str : Seq(Bytes), c : Bytes \cup world.garbage,
           lines : Seq(Seq(Bytes) \ {<<>>})]

TypeOK ==
    /\ world \in Worlds
    /\ wire \in [End -> Seq(Bytes)]
    /\ reader \in [End -> Reader]
    /\ m_CSeq \in [End -> 0..MaxAsks]
    /\ server \in {"loop", "ended", "closed"}
    /\ client \in {"idle", "wait", "body"} /\ m_State \in stateInit..statePause
    /\ asked \in 0..MaxAsks
    /\ result \in [ok : BOOLEAN, answer : 0..MaxAsks, body : Seq(Bytes)]
    /\ numbers \in Seq(1..MaxAsks) /\ Len(numbers) = asked
    /\ served \in Seq((1..MaxAsks) \X (0..MaxAsks) \X How)

NoResult == [ok |-> FALSE, answer |-> 0, body |-> <<>>]

Line(c, lines) == [pc |-> "char", str |-> <<>>, c |-> c, lines |-> lines]

Init ==
    /\ world \in Worlds
    /\ wire = [e \in End |-> <<>>]
    /\ reader \in [End -> {Line(c, <<>>) : c \in world.garbage}]
    /\ m_CSeq = [e \in End |-> 0]
    /\ server = "loop" /\ client = "idle" /\ m_State = stateConnected
    /\ asked = 0 /\ result = NoResult
    /\ numbers = <<>> /\ served = <<>>

-----------------------------------------------------------------------------
(* Rtsp::Read, one Socket::Read at a time.  An end reads while it waits for *)
(* a message.  The network loses nothing and keeps the order, but a byte    *)
(* may arrive too late for a read.                                          *)

Reading(e) ==
    /\ IF e = "client" THEN client = "wait" ELSE server = "loop"
    /\ UNCHANGED <<world, m_CSeq, server, client, m_State, asked, result, numbers, served>>

Receive(e) == wire[e] # <<>> /\ wire' = [wire EXCEPT ![e] = Tail(@)]

\* An empty line, sent or not, ends the message; behind another the next is read.
LineRead(e, str) ==
    IF str = <<>>
    THEN reader' = [reader EXCEPT ![e].pc = "done"]
    ELSE \E c \in world.garbage :
            reader' = [reader EXCEPT ![e] = Line(c, Append(reader[e].lines, str))]

\* The end of a line is CR with one more byte, or LF.
ReadChar(e) ==
    /\ Reading(e) /\ reader[e].pc = "char" /\ Receive(e)
    /\ LET c == Head(wire[e])
       IN \/ c = LF /\ LineRead(e, reader[e].str)
          \/ c = CR /\ reader' = [reader EXCEPT ![e].pc = "newline", ![e].c = c]
          \/ /\ c \notin {CR, LF}
             /\ reader' = [reader EXCEPT ![e].str = Append(@, c), ![e].c = c]

\* (The byte behind CR is left.)
ReadNewlineLeft(e) ==
    /\ Reading(e) /\ reader[e].pc = "newline"
    /\ LineRead(e, reader[e].str)
    /\ UNCHANGED wire

ReadNewline(e) ==
    /\ Reading(e) /\ reader[e].pc = "newline" /\ Receive(e)
    /\ LineRead(e, reader[e].str)

ServerIdle == reader["server"].str = <<>> /\ reader["server"].lines = <<>>

\* A timely network lets a read give up only when nothing is to come.
Nothing(e) ==
    world.timely =>
        /\ wire[e] = <<>>
        /\ e = "client" /\ server = "loop" => wire["server"] = <<>> /\ ServerIdle

\* What has been read counts as a line; if that is nothing, c was never set.
Timeout(e) ==
    /\ Reading(e) /\ Nothing(e)
    /\ \/ /\ reader[e].pc = "char" /\ reader[e].c = CR
          /\ reader' = [reader EXCEPT ![e].pc = "newline"]
       \/ /\ reader[e].pc = "char" /\ reader[e].c # CR
          /\ LineRead(e, reader[e].str)
       \/ /\ reader[e].pc = "newline"
          /\ LineRead(e, reader[e].str)
    /\ UNCHANGED wire

\* A read of a connection that the server has closed fails, and so does the message; of
\* the line there was, nothing is left.
ReadFails ==
    /\ Reading("client") /\ reader["client"].pc # "done"
    /\ server = "closed" /\ wire["client"] = <<>>
    /\ reader' = [reader EXCEPT !["client"].pc = "done", !["client"].str = <<>>]
    /\ UNCHANGED wire

-----------------------------------------------------------------------------
(* The server: GetRequests, GetRequestType and the handlers.                *)

\* The CSeq of a request without one is 0.
CSeqOf(lines) ==
    IF With(lines, "cseq") = {} THEN 0 ELSE NumberIn(lines[Min(With(lines, "cseq"))], "cseq")

\* What may come of request k.  One cut before its URL names no session: it is refused,
\* unless it is an OPTIONS or a SETUP, which takes the name of the last DESCRIBE.  A
\* DESCRIBE of a session without streams and a SETUP that finds no port are silent.
Outcomes(k, lines) ==
    {how \in How :
        /\ Kinds[k] = "options" => how = "ok"
        /\ Kinds[k] \notin {"options", "setup"} /\ 1 \notin With(lines, "url") => how = "error"
        /\ how = "silent" => Kinds[k] \in {"describe", "setup"}}

\* A request of a known type is served, and answered with cseq.  A TEARDOWN, refused or
\* not, is the last one.
ServeWith(cseq) ==
    /\ server = "loop" /\ reader["server"].pc = "done"
    /\ LET lines == reader["server"].lines
       IN /\ m_CSeq' = [m_CSeq EXCEPT !["server"] = CSeqOf(lines)]
          /\ IF 1 \in With(lines, "method")
             THEN LET k == NumberIn(lines[1], "method")
                  IN /\ \E how \in Outcomes(k, lines) :
                          /\ wire' = [wire EXCEPT !["client"] = @ \o ReplyBytes(k, cseq, how)]
                          /\ served' = Append(served, <<k, cseq, how>>)
                     /\ server' = IF Kinds[k] = "teardown" THEN "ended" ELSE "loop"
             ELSE UNCHANGED <<wire, served, server>>
    /\ \E c \in world.garbage : reader' = [reader EXCEPT !["server"] = Line(c, <<>>)]
    /\ UNCHANGED <<world, client, m_State, asked, result, numbers>>

\* (The CSeq of the request before.)
ServeLastCSeq == ServeWith(m_CSeq["server"])

Serve == ServeWith(CSeqOf(reader["server"].lines))

\* The listen thread deletes the session, and its socket with it.
HangUp ==
    /\ server = "ended" /\ server' = "closed"
    /\ UNCHANGED <<world, wire, reader, m_CSeq, client, m_State, asked, result, numbers, served>>

\* A connection closed with requests unread is reset: what the client has not read is lost.
Reset ==
    /\ server = "closed" /\ wire["server"] # <<>>
    /\ wire' = [wire EXCEPT !["client"] = <<>>]
    /\ UNCHANGED <<world, reader, m_CSeq, server, client, m_State, asked, result, numbers, served>>

-----------------------------------------------------------------------------
(* The client: SendRequest, GetResponses, GetDescribe.                      *)

Ask ==
    /\ client = "idle" /\ asked < MaxAsks /\ m_State >= Needs(Kinds[asked + 1])
    /\ asked' = asked + 1
    /\ m_CSeq' = [m_CSeq EXCEPT !["client"] = @ + 1]
    /\ wire' = [wire EXCEPT !["server"] = @ \o RequestBytes(asked + 1, m_CSeq["client"] + 1)]
    /\ client' = "wait"
    /\ result' = NoResult
    /\ numbers' = Append(numbers, m_CSeq["client"] + 1)
    /\ UNCHANGED <<world, reader, server, m_State, served>>

\* What is behind the answer to a request of a kind.
Reached(kind) ==
    CASE kind = "setup" -> stateReady
      [] kind = "play" -> statePlaying
      [] kind = "pause" -> statePause
      [] kind = "teardown" -> stateInit
      [] OTHER -> m_State

\* The number in a first line with a byte of a kind.
Said(lines, kind) == IF 1 \in With(lines, kind) THEN NumberIn(lines[1], kind) ELSE 0

\* A CSeq in the reply that is not the request's replaces it, with a warning.
\* The client believes what the first line says.
TakeReplyThen(else) ==
    /\ client = "wait" /\ reader["client"].pc = "done"
    /\ LET lines == reader["client"].lines
           got == With(lines, "cseq")
           ok == 1 \in With(lines, "ok")
       IN /\ m_CSeq' = [m_CSeq EXCEPT !["client"] =
                            IF got = {} THEN @ ELSE NumberIn(lines[Max(got)], "cseq")]
          /\ result' = [result EXCEPT !.ok = ok /\ asked \notin Describes,
                                      !.answer = IF ok THEN Said(lines, "ok")
                                                 ELSE Said(lines, "error")]
          /\ m_State' = IF ok THEN Reached(Kinds[asked]) ELSE m_State
          /\ client' = IF ok /\ asked \in Describes /\ With(lines, "length") # {}
                       THEN "body" ELSE else
    /\ \E c \in world.garbage : reader' = [reader EXCEPT !["client"] = Line(c, <<>>)]
    /\ UNCHANGED <<world, wire, server, asked, numbers, served>>

\* (The client stays where it is if it got no line.)
TakeReplyOrWait == TakeReplyThen(IF reader["client"].lines = <<>> THEN "wait" ELSE "idle")

TakeReply == TakeReplyThen("idle")

\* One recv for all of the description; how much it brought, if anything, is compared
\* with itself.  (If it failed the code writes a zero in front of its buffer, line 193;
\* what that does to the heap is left out.)
ReadBody ==
    /\ client = "body"
    /\ \E n \in 0..Min({Len(Body), Len(wire["client"])}) :
         /\ n = 0 => Nothing("client")
         /\ world.onePiece => n \in {0, Len(Body)}
         /\ result' = [result EXCEPT !.ok = TRUE, !.body = SubSeq(wire["client"], 1, n)]
         /\ wire' = [wire EXCEPT !["client"] = SubSeq(@, n + 1, Len(@))]
    /\ client' = "idle"
    /\ UNCHANGED <<world, reader, m_CSeq, server, m_State, asked, numbers, served>>

-----------------------------------------------------------------------------
ReadStep(e) == ReadChar(e) \/ ReadNewline(e) \/ Timeout(e)

ServerStep == ReadStep("server") \/ Serve \/ HangUp
ClientStep == ReadStep("client") \/ ReadFails \/ TakeReply \/ ReadBody

Next == ServerStep \/ ClientStep \/ Ask \/ Reset

\* Both ends are threads that run.
Spec == Init /\ [][Next]_vars /\ WF_vars(ServerStep) /\ WF_vars(ClientStep)

-----------------------------------------------------------------------------
(* Whatever the network does, no request is served twice, they are served   *)
(* in the order they were made, and an answer carries the CSeq of its own   *)
(* request or none (0), never that of another.                              *)
AnsweredOnce ==
    /\ \A j, k \in DOMAIN served : j < k => served[j][1] < served[k][1]
    /\ \A j \in DOMAIN served : served[j][2] \in {0, numbers[served[j][1]]}

\* With the types.
ExchangeInv == TypeOK /\ AnsweredOnce

\* How request k was served.
Was(k, how) == \E j \in DOMAIN served : served[j][1] = k /\ served[j][3] = how

(* If bytes arrive in time, a description whole, and no read takes what is  *)
(* left in c for a CR, a request comes to what the server made of it: it    *)
(* succeeds if the server answered it with 200 and at no other time, what   *)
(* the client has is the answer to this request, or nothing if the server   *)
(* said nothing to it or was gone, the client keeps its count, and a        *)
(* DESCRIBE that succeeds has all of the description.                       *)
TheAnswerFits ==
    /\ world.timely /\ world.onePiece /\ CR \notin world.garbage
    /\ client = "idle" /\ asked > 0
    => /\ result.ok <=> Was(asked, "ok")
       /\ result.answer = IF Was(asked, "ok") \/ Was(asked, "error") THEN asked ELSE 0
       /\ m_CSeq["client"] = asked
       /\ result.ok /\ asked \in Describes => result.body = Body

(* A request comes back, whatever the network and the server do.            *)
AsksEnd == client # "idle" ~> client = "idle"

(* RtspRequest.cpp lines 187 to 192: a description that is shorter than the *)
(* reply said is an error.                                                  *)
BodyIsWhole == client = "idle" /\ asked \in Describes /\ result.ok => Len(result.body) = Len(Body)
=============================================================================

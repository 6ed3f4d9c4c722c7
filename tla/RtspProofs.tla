----------------------------- MODULE RtspProofs -----------------------------
(***************************************************************************)
(* Proofs about RtspExchange, for any number of requests and in all worlds:*)
(* bytes that come too late, reads that give up in the middle of a line or *)
(* of a message, and anything in the variable that was never set; and in   *)
(* the worlds where none of that happens, that each request comes to what  *)
(* the server made of it.                                                  *)
(* Behind them those about RtspService, the process, for any set of        *)
(* clients.                                                                *)
(***************************************************************************)
EXTENDS RtspExchange, RtspService, ListLemmas

\* How much of the requests the server has read: each takes nine bytes.
Position == 9 * asked - Len(wire["server"])

\* What is under way to the server is the rest of the requests.
RequestsUnderWay ==
    /\ Len(wire["server"]) <= 9 * asked
    /\ \A k \in 1..asked, p \in 1..9 :
         9 * (k - 1) + p > Position =>
           wire["server"][(9 * (k - 1) + p) - Position] = RequestBytes(k, numbers[k])[p]

\* What the server may have of request k as long as it has not answered it, and then.
OfRequest(k) ==
    {Byte("url", k), Byte("cseq", numbers[k])}
        \cup (IF \E j \in DOMAIN served : served[j][1] = k THEN {} ELSE {Byte("method", k)})

\* A message of the server is of one request, whatever cuts it short: when p bytes of
\* that have been read,
MessageOf(k, p) ==
    /\ reader["server"].str \in Seq(OfRequest(k))
    /\ reader["server"].lines \in Seq(Seq(OfRequest(k)))
    /\ p \in {4, 7, 8, 9} => reader["server"].str = <<>>
    /\ p \in {3, 6} /\ reader["server"].pc = "char" => reader["server"].str = <<>>
    /\ p \notin {3, 6} /\ reader["server"].pc = "newline" => reader["server"].str = <<>>
    /\ p = 8 => reader["server"].pc \in {"newline", "done"} \/ reader["server"].lines = <<>>
    /\ p = 9 => reader["server"].pc = "done" \/ reader["server"].lines = <<>>

ServerReads ==
    /\ Position = 0 => reader["server"].str = <<>> /\ reader["server"].lines = <<>>
    /\ \A k \in 1..asked, p \in 1..9 : Position = 9 * (k - 1) + p => MessageOf(k, p)
    /\ reader["server"].pc = "done" => reader["server"].str = <<>>
    /\ reader["server"].pc = "char" /\ reader["server"].str # <<>> => reader["server"].c # CR

\* Only what has been read is answered.
Answered ==
    \A j \in DOMAIN served :
        served[j][1] \in 1..asked /\ 9 * (served[j][1] - 1) < Position

\* The numbers of the replies are those of requests.
Counted == {b \in Bytes : b.kind = "cseq" => b.n <= asked}

ClientCounts ==
    /\ \A k \in 1..asked : numbers[k] <= asked
    /\ m_CSeq["client"] <= asked
    /\ wire["client"] \in Seq(Counted)
    /\ reader["client"].str \in Seq(Counted) /\ reader["client"].lines \in Seq(Seq(Counted))

IInv == TypeOK /\ RequestsUnderWay /\ ServerReads /\ Answered /\ AnsweredOnce /\ ClientCounts

-----------------------------------------------------------------------------
(* Bytes, lines and numbers.                                                *)

(* The lines with a byte of a kind have a first and a last.                 *)
LEMMA FirstAndLast ==
    ASSUME NEW T, NEW lines \in Seq(T), NEW kind, With(lines, kind) # {}
    PROVE  /\ Min(With(lines, kind)) \in With(lines, kind)
           /\ Max(With(lines, kind)) \in With(lines, kind)
<1> DEFINE S == With(lines, kind)
           n == Len(lines)
           D == {n - x : x \in S}
<1>1. n \in Nat /\ S \subseteq 1..n /\ S # {}
  BY DEF With
<1> HIDE DEF S, n
<1>2. \E m \in S : \A x \in S : m <= x
  BY <1>1, SmallestExists
<1>3. \E m \in S : \A x \in S : m >= x
  <2>1. \A x \in S : n - x \in Nat
    BY <1>1
  <2> HIDE DEF S
  <2>0. D \subseteq Nat /\ D # {}
    BY <1>1, <2>1
  <2>2. PICK d \in D : \A y \in D : d <= y
    <3> HIDE DEF D
    <3> QED
      BY <2>0, SmallestExists
  <2>3. PICK m \in S : d = n - m
    BY <2>2
  <2>4. ASSUME NEW x \in S PROVE m >= x
    <3>1. n - x \in D
      OBVIOUS
    <3>2. n - m <= n - x
      BY <2>2, <2>3, <3>1
    <3>3. m \in Nat /\ x \in Nat
      BY <1>1
    <3> QED
      BY <1>1, <3>2, <3>3
  <2> QED
    BY <2>4
<1> QED
  BY <1>2, <1>3 DEF Min, Max, S

(* The number in a line with a byte of a kind is that of such a byte.       *)
LEMMA NumberOfOne ==
    ASSUME NEW T, NEW lines \in Seq(Seq(T)), NEW kind, NEW k \in With(lines, kind)
    PROVE  \E b \in T : b.kind = kind /\ NumberIn(lines[k], kind) = b.n
<1> DEFINE line == lines[k]
           j == CHOOSE j \in DOMAIN line : line[j].kind = kind
<1>1. line \in Seq(T) /\ \E i \in DOMAIN line : line[i].kind = kind
  BY DEF With
<1>2. j \in DOMAIN line /\ line[j].kind = kind
  BY <1>1
<1>3. line[j] \in T
  BY <1>1, <1>2
<1>4. NumberIn(line, kind) = line[j].n
  BY DEF NumberIn
<1> HIDE DEF j, line
<1> QED
  BY <1>2, <1>3, <1>4 DEF line

-----------------------------------------------------------------------------
(* Rtsp::Read.                                                              *)

\* What it does with the line that it has: nothing in it ends the message.
Ends(e) ==
    /\ reader[e].str = <<>>
    /\ reader'[e].pc = "done" /\ reader'[e].str = <<>>
    /\ reader'[e].lines = reader[e].lines

Adds(e) ==
    /\ reader[e].str # <<>>
    /\ reader'[e].pc = "char" /\ reader'[e].str = <<>>
    /\ reader'[e].lines = Append(reader[e].lines, reader[e].str)

\* It has met a CR, or takes what is in c for one.
Returns(e) ==
    /\ reader'[e].pc = "newline" /\ reader'[e].str = reader[e].str
    /\ reader'[e].lines = reader[e].lines

\* It reads a byte of a line.
Extends(e, b) ==
    /\ reader'[e].pc = "char" /\ reader'[e].str = Append(reader[e].str, b)
    /\ reader'[e].c = b /\ reader'[e].lines = reader[e].lines

OnlyReads(e) ==
    /\ e \in End /\ reader[e].pc # "done"
    /\ IF e = "client" THEN client = "wait" ELSE server = "loop"
    /\ reader' \in [End -> Reader]
    /\ \A d \in End \ {e} : reader'[d] = reader[d]
    /\ UNCHANGED <<world, m_CSeq, server, client, m_State, asked, result, numbers, served>>

(* A line read ends the message or is added to it.                          *)
LEMMA LineReadDoes ==
    ASSUME TypeOK, NEW e \in End, LineRead(e, reader[e].str), world' = world
    PROVE  /\ Ends(e) \/ Adds(e)
           /\ reader' \in [End -> Reader]
           /\ \A d \in End \ {e} : reader'[d] = reader[d]
<1> USE DEF TypeOK
<1>1. reader[e] \in Reader /\ reader \in [End -> Reader]
  OBVIOUS
<1>2. CASE reader[e].str = <<>>
  <2>1. reader' = [reader EXCEPT ![e].pc = "done"]
    BY <1>2 DEF LineRead
  <2>2. [reader[e] EXCEPT !.pc = "done"] \in Reader
    BY <1>1 DEF Reader
  <2>3. /\ reader'[e] = [reader[e] EXCEPT !.pc = "done"] /\ reader' \in [End -> Reader]
        /\ \A d \in End \ {e} : reader'[d] = reader[d]
    BY <1>1, <2>1, <2>2
  <2> QED
    BY <1>1, <1>2, <2>3 DEF Ends, Reader
<1>3. CASE reader[e].str # <<>>
  <2>1. PICK c \in world.garbage :
            reader' = [reader EXCEPT ![e] = Line(c, Append(reader[e].lines, reader[e].str))]
    BY <1>3 DEF LineRead
  <2> DEFINE line == Line(c, Append(reader[e].lines, reader[e].str))
  <2>2. line \in Reader
    <3>1. Append(reader[e].lines, reader[e].str) \in Seq(Seq(Bytes) \ {<<>>})
      BY <1>1, <1>3 DEF Reader
    <3>2. <<>> \in Seq(Bytes)
      OBVIOUS
    <3> QED
      BY <3>1, <3>2 DEF Line, Reader
  <2>3. /\ line.pc = "char" /\ line.str = <<>>
        /\ line.lines = Append(reader[e].lines, reader[e].str)
    BY DEF Line
  <2> HIDE DEF line
  <2>4. /\ reader'[e] = line /\ reader' \in [End -> Reader]
        /\ \A d \in End \ {e} : reader'[d] = reader[d]
    BY <1>1, <2>1, <2>2 DEF line
  <2> QED
    BY <1>3, <2>3, <2>4 DEF Adds
<1> QED
  BY <1>2, <1>3

(* What one step of Rtsp::Read does.                                        *)
LEMMA ReadCharDoes ==
    ASSUME TypeOK, NEW e \in End, ReadChar(e)
    PROVE  /\ OnlyReads(e) /\ Receive(e) /\ reader[e].pc = "char"
           /\ \/ Head(wire[e]) = LF /\ (Ends(e) \/ Adds(e))
              \/ Head(wire[e]) = CR /\ Returns(e)
              \/ Head(wire[e]) \notin {CR, LF} /\ Extends(e, Head(wire[e]))
<1> DEFINE b == Head(wire[e])
<1>1. reader[e] \in Reader /\ reader \in [End -> Reader]
  BY DEF TypeOK
<1>2. /\ Receive(e) /\ reader[e].pc = "char"
      /\ IF e = "client" THEN client = "wait" ELSE server = "loop"
      /\ UNCHANGED <<world, m_CSeq, server, client, m_State, asked, result, numbers, served>>
  BY DEF ReadChar, Reading
<1>3. wire[e] \in Seq(Bytes) /\ wire[e] # <<>> /\ b \in Bytes
  BY <1>2 DEF Receive, TypeOK
<1> SUFFICES /\ reader' \in [End -> Reader]
             /\ \A d \in End \ {e} : reader'[d] = reader[d]
             /\ \/ b = LF /\ (Ends(e) \/ Adds(e))
                \/ b = CR /\ Returns(e)
                \/ b \notin {CR, LF} /\ Extends(e, b)
  BY <1>1, <1>2 DEF OnlyReads
<1>4. CASE b = LF /\ LineRead(e, reader[e].str)
  BY <1>2, <1>4, LineReadDoes
<1>5. CASE b = CR /\ reader' = [reader EXCEPT ![e].pc = "newline", ![e].c = b]
  <2> HIDE DEF b
  <2>1. [reader[e] EXCEPT !.pc = "newline", !.c = b] \in Reader
    BY <1>1, <1>3 DEF Reader
  <2>2. /\ reader'[e] = [reader[e] EXCEPT !.pc = "newline", !.c = b] /\ reader' \in [End -> Reader]
        /\ \A d \in End \ {e} : reader'[d] = reader[d]
    BY <1>1, <1>5, <2>1
  <2> QED
    BY <1>1, <1>5, <2>2 DEF Returns, Reader
<1>6. CASE b \notin {CR, LF} /\ reader' = [reader EXCEPT ![e].str = Append(@, b), ![e].c = b]
  <2> HIDE DEF b
  <2>1. [reader[e] EXCEPT !.str = Append(@, b), !.c = b] \in Reader
    <3>1. Append(reader[e].str, b) \in Seq(Bytes)
      BY <1>1, <1>3 DEF Reader
    <3> QED
      BY <1>1, <1>3, <3>1 DEF Reader
  <2>2. /\ reader'[e] = [reader[e] EXCEPT !.str = Append(@, b), !.c = b]
        /\ reader' \in [End -> Reader]
        /\ \A d \in End \ {e} : reader'[d] = reader[d]
    BY <1>1, <1>6, <2>1
  <2> QED
    BY <1>1, <1>2, <1>6, <2>2 DEF Extends, Reader
<1> QED
  BY <1>4, <1>5, <1>6 DEF ReadChar

LEMMA ReadNewlineDoes ==
    ASSUME TypeOK, NEW e \in End, ReadNewline(e)
    PROVE  /\ OnlyReads(e) /\ Receive(e) /\ reader[e].pc = "newline"
           /\ Ends(e) \/ Adds(e)
BY LineReadDoes DEF ReadNewline, Reading, OnlyReads

LEMMA TimeoutDoes ==
    ASSUME TypeOK, NEW e \in End, Timeout(e)
    PROVE  /\ OnlyReads(e) /\ wire' = wire
           /\ \/ reader[e].pc = "char" /\ reader[e].c = CR /\ Returns(e)
              \/ reader[e].pc = "char" /\ reader[e].c # CR /\ (Ends(e) \/ Adds(e))
              \/ reader[e].pc = "newline" /\ (Ends(e) \/ Adds(e))
<1>1. reader[e] \in Reader /\ reader \in [End -> Reader]
  BY DEF TypeOK
<1>2. /\ wire' = wire /\ IF e = "client" THEN client = "wait" ELSE server = "loop"
      /\ UNCHANGED <<world, m_CSeq, server, client, m_State, asked, result, numbers, served>>
  BY DEF Timeout, Reading
<1>3. CASE /\ reader[e].pc = "char" /\ reader[e].c = CR
           /\ reader' = [reader EXCEPT ![e].pc = "newline"]
  <2>1. [reader[e] EXCEPT !.pc = "newline"] \in Reader
    BY <1>1 DEF Reader
  <2>2. /\ reader'[e] = [reader[e] EXCEPT !.pc = "newline"] /\ reader' \in [End -> Reader]
        /\ \A d \in End \ {e} : reader'[d] = reader[d]
    BY <1>1, <1>3, <2>1
  <2> QED
    BY <1>1, <1>2, <1>3, <2>2 DEF Returns, Reader, OnlyReads
<1>4. CASE /\ reader[e].pc = "char" /\ reader[e].c # CR
           /\ LineRead(e, reader[e].str)
  BY <1>2, <1>4, LineReadDoes DEF OnlyReads
<1>5. CASE reader[e].pc = "newline" /\ LineRead(e, reader[e].str)
  BY <1>2, <1>5, LineReadDoes DEF OnlyReads
<1> QED
  BY <1>3, <1>4, <1>5 DEF Timeout

-----------------------------------------------------------------------------
(* The requests under way.                                                  *)

(* What has been read ends in one byte of one request, or is nothing.       *)
LEMMA PlaceOf ==
    ASSUME NEW a \in Nat, NEW n \in Nat, n < 9 * a
    PROVE  \E k \in 1..a, p \in 1..9 : n + 1 = 9 * (k - 1) + p
<1> DEFINE q == n \div 9
           r == n % 9
<1>1. q \in Nat /\ r \in 0..8 /\ n = 9 * q + r
  OBVIOUS
<1> HIDE DEF q, r
<1>2. q + 1 \in 1..a /\ r + 1 \in 1..9
  BY <1>1
<1>3. n + 1 = 9 * ((q + 1) - 1) + (r + 1)
  BY <1>1
<1> QED
  BY <1>2, <1>3

LEMMA OneLess ==
    ASSUME NEW a \in Nat, NEW l \in Nat, l > 0, l <= 9 * a
    PROVE  /\ 9 * a - l \in Nat /\ 9 * a - l < 9 * a
           /\ 9 * a - (l - 1) = (9 * a - l) + 1
OBVIOUS

LEMMA RequestHasNine ==
    ASSUME NEW k, NEW cseq
    PROVE  /\ RequestBytes(k, cseq)
                \in Seq({Byte("method", k), Byte("url", k), CR, LF, Byte("cseq", cseq)})
           /\ Len(RequestBytes(k, cseq)) = 9
BY DEF RequestBytes

(* The server reads the requests byte by byte.                              *)
LEMMA NextByte ==
    ASSUME TypeOK, RequestsUnderWay, Receive("server"), asked' = asked, numbers' = numbers
    PROVE  /\ RequestsUnderWay'
           /\ Position \in Nat /\ Position' = Position + 1
           /\ \E k \in 1..asked, p \in 1..9 :
                /\ Position' = 9 * (k - 1) + p
                /\ Head(wire["server"]) = RequestBytes(k, numbers[k])[p]
<1> DEFINE w == wire["server"]
<1>1. w \in Seq(Bytes) /\ w # <<>> /\ wire'["server"] = Tail(w)
  BY DEF Receive, TypeOK, End
<1>2. asked \in Nat /\ Len(w) <= 9 * asked /\ Len(w) \in Nat /\ Len(w) > 0
  BY <1>1 DEF RequestsUnderWay, TypeOK
<1>3. /\ wire'["server"] \in Seq(Bytes) /\ Len(wire'["server"]) = Len(w) - 1
      /\ \A i \in 1..(Len(w) - 1) : wire'["server"][i] = w[i + 1]
      /\ Head(w) = w[1]
  BY <1>1
<1>4. Position = 9 * asked - Len(w) /\ Position' = 9 * asked - (Len(w) - 1)
  BY <1>3 DEF Position
<1> DEFINE n == Position
           n1 == Position'
<1>5. n \in Nat /\ n1 = n + 1 /\ n < 9 * asked
  <2> HIDE DEF n, n1, w
  <2>1. n = 9 * asked - Len(w) /\ n1 = 9 * asked - (Len(w) - 1)
    BY <1>4 DEF n, n1, w
  <2> QED
    BY <1>2, <2>1, OneLess
<1>6. \A k \in 1..asked, p \in 1..9 :
        9 * (k - 1) + p > n => w[(9 * (k - 1) + p) - n] = RequestBytes(k, numbers[k])[p]
  BY DEF RequestsUnderWay
<1>7. PICK k \in 1..asked, p \in 1..9 : n1 = 9 * (k - 1) + p
  <2> HIDE DEF n, n1
  <2> QED
    BY <1>2, <1>5, PlaceOf
<1>8. Head(w) = RequestBytes(k, numbers[k])[p]
  <2> HIDE DEF n, n1, w
  <2>1. 9 * (k - 1) + p > n /\ (9 * (k - 1) + p) - n = 1
    BY <1>5, <1>7
  <2> QED
    BY <1>3, <1>6, <2>1
<1>9. ASSUME NEW i \in 1..asked, NEW j \in 1..9, 9 * (i - 1) + j > n1
      PROVE  wire'["server"][(9 * (i - 1) + j) - n1] = RequestBytes(i, numbers[i])[j]
  <2> DEFINE x == 9 * (i - 1) + j
  <2>1. x \in Nat /\ x <= 9 * asked
    BY <1>2
  <2> HIDE DEF n, n1, w
  <2>2. w[x - n] = RequestBytes(i, numbers[i])[j]
    BY <1>5, <1>6, <1>9, <2>1
  <2>3. x - n1 \in 1..(Len(w) - 1) /\ (x - n1) + 1 = x - n
    <3>1. n = 9 * asked - Len(w)
      BY <1>4 DEF n, w
    <3> HIDE DEF x
    <3>2. x > n1
      BY <1>9 DEF x
    <3> QED
      BY <1>2, <1>5, <2>1, <3>1, <3>2
  <2> HIDE DEF x
  <2>4. wire'["server"][x - n1] = RequestBytes(i, numbers[i])[j]
    BY <1>3, <2>2, <2>3
  <2> QED
    BY <2>4 DEF x
<1>10. RequestsUnderWay'
  <2>1. Len(wire'["server"]) <= 9 * asked
    BY <1>2, <1>3
  <2> QED
    BY <1>9, <2>1 DEF RequestsUnderWay
<1> QED
  BY <1>5, <1>7, <1>8, <1>10

-----------------------------------------------------------------------------
(* The server reads one message of one request at a time.                   *)

\* What the server has when the next byte it gets is byte p of request k.
Before(k, p) ==
    /\ reader["server"].str \in Seq(OfRequest(k))
    /\ reader["server"].lines \in Seq(Seq(OfRequest(k)))
    /\ p \in {1, 5, 8, 9} => reader["server"].str = <<>>
    /\ p = 1 => reader["server"].lines = <<>> /\ Byte("method", k) \in OfRequest(k)
    /\ p \notin {4, 7} /\ reader["server"].pc = "newline" => reader["server"].str = <<>>
    /\ p \in {4, 7} /\ reader["server"].pc = "char" => reader["server"].str = <<>>
    /\ p = 9 => reader["server"].pc = "newline" \/ reader["server"].lines = <<>>

LEMMA OnePlace ==
    ASSUME NEW k \in Nat, NEW i \in Nat, NEW p \in 1..9, NEW j \in 1..9,
           9 * (k - 1) + p = 9 * (i - 1) + j
    PROVE  k = i /\ p = j
OBVIOUS

LEMMA BeforeByte ==
    ASSUME TypeOK, ServerReads, Answered, Position \in Nat, reader["server"].pc # "done",
           NEW k \in 1..asked, NEW p \in 1..9, Position + 1 = 9 * (k - 1) + p
    PROVE  Before(k, p)
<1>1. asked \in Nat /\ k \in Nat /\ reader["server"] \in Reader /\ DOMAIN served = 1..Len(served)
  BY DEF TypeOK, End
<1>2. CASE p = 1
  <2>1. reader["server"].str = <<>> /\ reader["server"].lines = <<>>
    <3>1. CASE k = 1
      <4>1. Position = 0
        BY <1>2, <3>1
      <4> QED
        BY <4>1 DEF ServerReads
    <3>2. CASE k # 1
      <4>1. k - 1 \in 1..asked /\ Position = 9 * ((k - 1) - 1) + 9
        BY <1>1, <1>2, <3>2
      <4>2. MessageOf(k - 1, 9)
        BY <4>1 DEF ServerReads
      <4> QED
        BY <4>2 DEF MessageOf
    <3> QED
      BY <3>1, <3>2
  <2>2. \A j \in DOMAIN served : served[j][1] # k
    <3> SUFFICES ASSUME NEW j \in DOMAIN served PROVE served[j][1] # k
      OBVIOUS
    <3>1. 9 * (served[j][1] - 1) < Position /\ Position = 9 * (k - 1)
      BY <1>2 DEF Answered
    <3> QED
      BY <1>1, <3>1
  <2>3. Byte("method", k) \in OfRequest(k)
    BY <2>2 DEF OfRequest
  <2> QED
    BY <1>2, <2>1, <2>3 DEF Before
<1>3. CASE p # 1
  <2>1. p - 1 \in 1..9 /\ Position = 9 * (k - 1) + (p - 1)
    BY <1>1, <1>3
  <2>2. MessageOf(k, p - 1)
    BY <2>1 DEF ServerReads
  <2>3. /\ p \in {5, 8, 9} <=> p - 1 \in {4, 7, 8}
        /\ p \in {4, 7} <=> p - 1 \in {3, 6}
        /\ p = 9 <=> p - 1 = 8
    OBVIOUS
  <2>4. p \in {1, 5, 8, 9} => p - 1 \in {4, 7, 8, 9}
    BY <1>3, <2>3
  <2>5. reader["server"].pc \in {"char", "newline"}
    BY <1>1 DEF Reader
  <2> QED
    BY <1>3, <2>2, <2>3, <2>4, <2>5 DEF MessageOf, Before
<1> QED
  BY <1>2, <1>3

(* The bytes of a request, by their places.                                 *)
LEMMA ByteAt ==
    ASSUME NEW k, NEW cseq, NEW p \in 1..9
    PROVE  /\ p \in {4, 7, 9} <=> RequestBytes(k, cseq)[p] = LF
           /\ p \in {3, 6, 8} <=> RequestBytes(k, cseq)[p] = CR
           /\ p = 1 => RequestBytes(k, cseq)[p] = Byte("method", k)
           /\ p = 2 => RequestBytes(k, cseq)[p] = Byte("url", k)
           /\ p = 5 => RequestBytes(k, cseq)[p] = Byte("cseq", cseq)
BY DEF RequestBytes, Byte, CR, LF

\* What a read may have done with byte b.
CharRead(b) ==
    /\ reader["server"].pc = "char"
    /\ \/ b = LF /\ (Ends("server") \/ Adds("server"))
       \/ b = CR /\ Returns("server")
       \/ b \notin {CR, LF} /\ Extends("server", b)

LineEnded == Ends("server") \/ Adds("server")

LEMMA AfterChar ==
    ASSUME NEW k, NEW p \in 1..9, Before(k, p), OfRequest(k)' = OfRequest(k),
           CharRead(RequestBytes(k, numbers[k])[p])
    PROVE  MessageOf(k, p)'
<1> DEFINE b == RequestBytes(k, numbers[k])[p]
           X == OfRequest(k)
           r == reader["server"]
           q == reader'["server"]
<1>1. /\ p \in {4, 7, 9} <=> b = LF
      /\ p \in {3, 6, 8} <=> b = CR
      /\ p = 1 => b = Byte("method", k)
      /\ p = 2 => b = Byte("url", k)
      /\ p = 5 => b = Byte("cseq", numbers[k])
  BY ByteAt
<1>2. /\ r.str \in Seq(X) /\ r.lines \in Seq(Seq(X)) /\ r.pc = "char"
      /\ p \in {1, 5, 8, 9} => r.str = <<>>
      /\ p = 1 => r.lines = <<>> /\ Byte("method", k) \in X
      /\ p \in {4, 7} => r.str = <<>>
      /\ p = 9 => r.lines = <<>>
  BY DEF Before, CharRead
<1>3. /\ Byte("url", k) \in X /\ Byte("cseq", numbers[k]) \in X
  BY DEF OfRequest
<1>4. \/ b = LF /\ (Ends("server") \/ Adds("server"))
      \/ b = CR /\ Returns("server")
      \/ b \notin {CR, LF} /\ Extends("server", b)
  BY DEF CharRead
<1> SUFFICES /\ q.str \in Seq(X) /\ q.lines \in Seq(Seq(X))
             /\ p \in {4, 7, 8, 9} => q.str = <<>>
             /\ p \in {3, 6} /\ q.pc = "char" => q.str = <<>>
             /\ p \notin {3, 6} /\ q.pc = "newline" => q.str = <<>>
             /\ p = 8 => q.pc \in {"newline", "done"} \/ q.lines = <<>>
             /\ p = 9 => q.pc = "done" \/ q.lines = <<>>
  BY DEF MessageOf
<1>5. CASE b = LF /\ (Ends("server") \/ Adds("server"))
  <2>1. q.pc = "done" /\ q.str = <<>> /\ q.lines = r.lines
    BY <1>1, <1>2, <1>5 DEF Ends, Adds
  <2> HIDE DEF X, q, r, b
  <2> QED
    BY <1>2, <2>1
<1>6. CASE b = CR /\ Returns("server")
  <2>1. q.pc = "newline" /\ q.str = r.str /\ q.lines = r.lines
    BY <1>6 DEF Returns
  <2>2. p \in {3, 6, 8}
    BY <1>1, <1>6
  <2> HIDE DEF X, q, r, b
  <2> QED
    BY <1>2, <2>1, <2>2
<1>7. CASE b \notin {CR, LF} /\ Extends("server", b)
  <2>1. q.pc = "char" /\ q.str = Append(r.str, b) /\ q.lines = r.lines
    BY <1>7 DEF Extends
  <2>2. p \in {1, 2, 5}
    BY <1>1, <1>7
  <2> HIDE DEF X, q, r
  <2>3. b \in X
    <3> HIDE DEF b
    <3> QED
      BY <1>1, <1>2, <1>3, <2>2
  <2> HIDE DEF b
  <2>4. Append(r.str, b) \in Seq(X)
    BY <1>2, <2>3
  <2> QED
    BY <1>2, <2>1, <2>2, <2>4
<1> QED
  BY <1>4, <1>5, <1>6, <1>7

LEMMA AfterNewline ==
    ASSUME NEW k, NEW p \in 1..9, Before(k, p), OfRequest(k)' = OfRequest(k),
           reader["server"].pc = "newline", LineEnded
    PROVE  MessageOf(k, p)'
<1> DEFINE X == OfRequest(k)
           r == reader["server"]
           q == reader'["server"]
<1>1. /\ r.str \in Seq(X) /\ r.lines \in Seq(Seq(X))
      /\ p \notin {4, 7} => r.str = <<>>
  BY DEF Before
<1> SUFFICES /\ q.str \in Seq(X) /\ q.lines \in Seq(Seq(X))
             /\ q.str = <<>> /\ (q.pc = "done" \/ p \in {4, 7})
  BY DEF MessageOf
<1>2. CASE Ends("server")
  BY <1>1, <1>2 DEF Ends
<1>3. CASE Adds("server")
  <2>1. r.str # <<>> /\ q.str = <<>> /\ q.lines = Append(r.lines, r.str)
    BY <1>3 DEF Adds
  <2> HIDE DEF X, q, r
  <2> QED
    BY <1>1, <2>1
<1> QED
  BY <1>2, <1>3 DEF LineEnded

(* A read that gives up takes what there is for the line.                   *)
LEMMA AfterTimeout ==
    ASSUME NEW k, NEW p \in 1..9, MessageOf(k, p), OfRequest(k)' = OfRequest(k),
           ServerReads, reader["server"].pc # "done",
           \/ reader["server"].pc = "char" /\ reader["server"].c = CR /\ Returns("server")
           \/ LineEnded
    PROVE  MessageOf(k, p)'
<1> DEFINE X == OfRequest(k)
           r == reader["server"]
           q == reader'["server"]
<1>1. /\ r.str \in Seq(X) /\ r.lines \in Seq(Seq(X))
      /\ p \in {4, 7, 8, 9} => r.str = <<>>
      /\ p = 8 => r.pc = "newline" \/ r.lines = <<>>
      /\ p = 9 => r.lines = <<>>
  BY DEF MessageOf
<1> SUFFICES /\ q.str \in Seq(X) /\ q.lines \in Seq(Seq(X))
             /\ q.str = <<>>
             /\ p = 8 => q.pc \in {"newline", "done"} \/ q.lines = <<>>
             /\ p = 9 => q.pc = "done" \/ q.lines = <<>>
  BY DEF MessageOf
<1>2. CASE r.pc = "char" /\ r.c = CR /\ Returns("server")
  <2>1. r.str = <<>>
    BY <1>2 DEF ServerReads
  <2>2. q.pc = "newline" /\ q.str = r.str /\ q.lines = r.lines
    BY <1>2 DEF Returns
  <2> HIDE DEF X, q, r
  <2> QED
    BY <1>1, <2>1, <2>2
<1>3. CASE Ends("server")
  <2>1. q.pc = "done" /\ q.str = <<>> /\ q.lines = r.lines
    BY <1>3 DEF Ends
  <2> HIDE DEF X, q, r
  <2> QED
    BY <1>1, <2>1
<1>4. CASE Adds("server")
  <2>1. r.str # <<>> /\ q.str = <<>> /\ q.lines = Append(r.lines, r.str)
    BY <1>4 DEF Adds
  <2> HIDE DEF X, q, r
  <2> QED
    BY <1>1, <2>1
<1> QED
  BY <1>2, <1>3, <1>4 DEF LineEnded

-----------------------------------------------------------------------------
(* Each step keeps the invariant.                                           *)

LEMMA ReadTypes ==
    ASSUME TypeOK, NEW e \in End, OnlyReads(e), wire' = wire \/ Receive(e)
    PROVE  TypeOK' /\ \A d \in End \ {e} : wire'[d] = wire[d]
<1>1. wire' \in [End -> Seq(Bytes)] /\ \A d \in End \ {e} : wire'[d] = wire[d]
  <2>1. wire \in [End -> Seq(Bytes)]
    BY DEF TypeOK
  <2>2. CASE Receive(e)
    <3>1. Tail(wire[e]) \in Seq(Bytes)
      BY <2>1, <2>2 DEF Receive
    <3> QED
      BY <2>1, <2>2, <3>1 DEF Receive
  <2> QED
    BY <2>1, <2>2
<1>2. Reader' = Reader
  BY DEF OnlyReads, Reader
<1> QED
  BY <1>1, <1>2 DEF TypeOK, OnlyReads

\* What the client's side of the invariant needs of the server's.
ServerSide == RequestsUnderWay /\ ServerReads /\ Answered /\ AnsweredOnce

LEMMA ServerAlone ==
    ASSUME ServerSide, wire'["server"] = wire["server"], reader'["server"] = reader["server"],
           UNCHANGED <<asked, numbers, served>>
    PROVE  ServerSide'
<1>1. Position' = Position /\ RequestsUnderWay'
  BY DEF Position, RequestsUnderWay, ServerSide
<1>2. \A k, p : MessageOf(k, p)' <=> MessageOf(k, p)
  BY DEF MessageOf, OfRequest
<1>3. ServerReads'
  BY <1>1, <1>2 DEF ServerReads, ServerSide
<1>4. Answered' /\ AnsweredOnce'
  BY <1>1 DEF Answered, AnsweredOnce, ServerSide
<1> QED
  BY <1>1, <1>3, <1>4 DEF ServerSide

LEMMA ServerReadSteps ==
    ASSUME TypeOK, ServerSide, ReadStep("server")
    PROVE  TypeOK' /\ ServerSide' /\ OnlyReads("server") /\ wire'["client"] = wire["client"]
<1> DEFINE e == "server"
<1>1. e \in End
  BY DEF End
<1>2. \/ /\ OnlyReads(e) /\ Receive(e) /\ CharRead(Head(wire[e]))
      \/ /\ OnlyReads(e) /\ Receive(e) /\ reader[e].pc = "newline" /\ LineEnded
      \/ /\ OnlyReads(e) /\ wire' = wire
         /\ \/ reader[e].pc = "char" /\ reader[e].c = CR /\ Returns(e)
            \/ reader[e].pc = "char" /\ reader[e].c # CR /\ LineEnded
            \/ reader[e].pc = "newline" /\ LineEnded
  BY <1>1, ReadCharDoes, ReadNewlineDoes, TimeoutDoes DEF ReadStep, CharRead, LineEnded
<1>3. /\ OnlyReads(e) /\ reader[e].pc # "done"
      /\ UNCHANGED <<world, m_CSeq, server, client, m_State, asked, result, numbers, served>>
  BY <1>2 DEF OnlyReads
<1>4. TypeOK' /\ wire'["client"] = wire["client"]
  BY <1>1, <1>2, ReadTypes DEF End
<1>5. \A k : OfRequest(k)' = OfRequest(k)
  BY <1>3 DEF OfRequest
<1>6. /\ reader'[e].pc = "done" => reader'[e].str = <<>>
      /\ reader'[e].pc = "char" /\ reader'[e].str # <<>> => reader'[e].c # CR
  BY <1>2 DEF CharRead, LineEnded, Ends, Adds, Returns, Extends
<1>7. CASE Receive(e)
  <2>1. PICK k \in 1..asked, p \in 1..9 :
           /\ RequestsUnderWay' /\ Position \in Nat /\ Position' = Position + 1
           /\ Position' = 9 * (k - 1) + p
           /\ Head(wire[e]) = RequestBytes(k, numbers[k])[p]
    BY <1>3, <1>7, NextByte DEF ServerSide
  <2>2. Before(k, p)
    BY <1>3, <2>1, BeforeByte DEF ServerSide
  <2>3. CharRead(Head(wire[e])) \/ (reader[e].pc = "newline" /\ LineEnded)
    <3>1. wire[e] # <<>> /\ wire[e] \in Seq(Bytes) /\ wire'[e] = Tail(wire[e])
      BY <1>1, <1>7 DEF Receive, TypeOK
    <3>2. Len(wire'[e]) # Len(wire[e])
      BY <3>1
    <3> QED
      BY <1>2, <3>2
  <2>4. MessageOf(k, p)'
    BY <1>5, <2>1, <2>2, <2>3, AfterChar, AfterNewline
  <2>5. asked' = asked /\ asked \in Nat /\ k \in Nat
    BY <1>3 DEF TypeOK
  <2>6. ASSUME NEW i \in 1..asked, NEW j \in 1..9, Position' = 9 * (i - 1) + j
        PROVE  MessageOf(i, j)'
    <3>1. i = k /\ j = p
      BY <2>1, <2>5, <2>6, OnePlace
    <3> QED
      BY <2>4, <3>1
  <2>7. ServerReads'
    <3>1. Position' # 0
      BY <2>1
    <3> QED
      BY <1>6, <2>5, <2>6, <3>1 DEF ServerReads
  <2>8. Answered' /\ AnsweredOnce'
    <3>1. ASSUME NEW j \in DOMAIN served
          PROVE  served[j][1] \in 1..asked /\ 9 * (served[j][1] - 1) < Position'
      <4>1. served[j][1] \in 1..asked /\ 9 * (served[j][1] - 1) < Position
        BY DEF Answered, ServerSide
      <4> QED
        BY <2>1, <2>5, <4>1
    <3> QED
      BY <1>3, <3>1 DEF Answered, AnsweredOnce, ServerSide
  <2> QED
    BY <1>3, <1>4, <2>1, <2>7, <2>8 DEF ServerSide
<1>8. CASE wire' = wire
  <2>1. \/ reader[e].pc = "char" /\ reader[e].c = CR /\ Returns(e)
        \/ LineEnded
    <3>1. ~Receive(e)
      <4>1. wire[e] \in Seq(Bytes)
        BY <1>1 DEF TypeOK
      <4> QED
        BY <1>1, <1>8, <4>1 DEF Receive, TypeOK
    <3> QED
      BY <1>2, <3>1
  <2>2. Position' = Position /\ RequestsUnderWay'
    BY <1>3, <1>8 DEF Position, RequestsUnderWay, ServerSide
  <2>3. Position = 0 => reader'[e].str = <<>> /\ reader'[e].lines = <<>>
    BY <2>1 DEF LineEnded, Ends, Adds, Returns, ServerReads, ServerSide
  <2>4. ASSUME NEW k \in 1..asked, NEW p \in 1..9, Position = 9 * (k - 1) + p
        PROVE  MessageOf(k, p)'
    <3>1. MessageOf(k, p)
      BY <2>4 DEF ServerReads, ServerSide
    <3> QED
      BY <1>3, <1>5, <2>1, <3>1, AfterTimeout DEF ServerSide
  <2>5. ServerReads'
    BY <1>3, <1>6, <2>2, <2>3, <2>4 DEF ServerReads
  <2>6. Answered' /\ AnsweredOnce'
    BY <1>3, <2>2 DEF Answered, AnsweredOnce, ServerSide
  <2> QED
    BY <1>3, <1>4, <2>2, <2>5, <2>6 DEF ServerSide
<1> QED
  BY <1>2, <1>7, <1>8

LEMMA LinesOf ==
    ASSUME TypeOK, NEW e \in End
    PROVE  reader[e].lines \in Seq(Seq(Bytes)) /\ reader[e].str \in Seq(Bytes)
BY DEF TypeOK, Reader

(* A byte of a kind is a number up to MaxAsks.                              *)
LEMMA NumberType ==
    ASSUME NEW lines \in Seq(Seq(Bytes)), NEW kind, NEW k \in With(lines, kind)
    PROVE  NumberIn(lines[k], kind) \in 0..MaxAsks
<1>1. PICK b \in Bytes : NumberIn(lines[k], kind) = b.n
  BY NumberOfOne
<1> QED
  BY <1>1 DEF Bytes

\* The reader of an end that begins a message.
Fresh(e) ==
    /\ \E c \in world.garbage : reader' = [reader EXCEPT ![e] = Line(c, <<>>)]
    /\ world' = world

LEMMA FreshReader ==
    ASSUME TypeOK, NEW e \in End, Fresh(e)
    PROVE  /\ reader' \in [End -> Reader'] /\ \A d \in End \ {e} : reader'[d] = reader[d]
           /\ reader'[e].pc = "char" /\ reader'[e].str = <<>> /\ reader'[e].lines = <<>>
<1>1. PICK c \in world.garbage : reader' = [reader EXCEPT ![e] = Line(c, <<>>)]
  BY DEF Fresh
<1>2. Line(c, <<>>) \in Reader
  <2>1. <<>> \in Seq(Bytes) /\ <<>> \in Seq(Seq(Bytes) \ {<<>>})
    OBVIOUS
  <2> QED
    BY <2>1 DEF Line, Reader
<1>3. Reader' = Reader
  BY DEF Fresh, Reader
<1>4. /\ Line(c, <<>>).pc = "char" /\ Line(c, <<>>).str = <<>> /\ Line(c, <<>>).lines = <<>>
  BY DEF Line
<1> QED
  BY <1>1, <1>2, <1>3, <1>4 DEF TypeOK

(* The bytes of a reply are bytes, and its number is one of those counted.  *)
LEMMA ReplyIsCounted ==
    ASSUME NEW k \in 0..MaxAsks, NEW cseq \in 0..MaxAsks, cseq <= asked, ExchangeAssumption,
           NEW how \in How
    PROVE  ReplyBytes(k, cseq, how) \in Seq(Counted)
<1> DEFINE C == Counted
<1>1. 0 \in 0..MaxAsks
  BY DEF ExchangeAssumption
<1>2. /\ CR \in C /\ LF \in C /\ Byte("cseq", cseq) \in C /\ Byte("length", k) \in C
      /\ how # "silent" => Byte(how, k) \in C
  BY <1>1 DEF Counted, Bytes, Byte, CR, LF, How
<1>3. Byte("body", 1) \in C \/ k \notin Describes
  BY DEF Counted, Bytes, Byte, ExchangeAssumption, Describes
<1> HIDE DEF C
<1>4. /\ how # "silent" => <<Byte(how, k), CR, LF, Byte("cseq", cseq), CR, LF>> \in Seq(C)
      /\ <<CR, LF>> \in Seq(C) /\ <<>> \in Seq(C)
  BY <1>2
<1>5. CASE how = "ok" /\ k \in Describes
  <2>1. Body \in Seq(C) /\ <<Byte("length", k), CR, LF, CR, LF>> \in Seq(C)
    BY <1>2, <1>3, <1>5 DEF Body
  <2>2. <<Byte("length", k), CR, LF, CR, LF>> \o Body \in Seq(C)
    BY <2>1
  <2> QED
    BY <1>4, <1>5, <2>2 DEF ReplyBytes, AnswerBytes, C
<1>6. CASE how # "silent" /\ ~(how = "ok" /\ k \in Describes)
  BY <1>4, <1>6 DEF ReplyBytes, AnswerBytes, C
<1>7. CASE how = "silent"
  BY <1>4, <1>7 DEF ReplyBytes, C
<1> QED
  BY <1>5, <1>6, <1>7

LEMMA NotMore ==
    ASSUME NEW a \in Nat, NEW l \in Nat, l <= 9 * a
    PROVE  9 * a - l \in Nat /\ 9 * a - l <= 9 * a
OBVIOUS

(* What the server answers is a request that it has not answered, and later *)
(* than those that it has; the number is that of the request or none.       *)
LEMMA AnswersNext ==
    ASSUME TypeOK, ServerSide, NEW lines, lines = reader["server"].lines,
           1 \in With(lines, "method")
    PROVE  /\ NumberIn(lines[1], "method") \in 1..asked
           /\ 9 * (NumberIn(lines[1], "method") - 1) < Position
           /\ CSeqOf(lines) \in {0, numbers[NumberIn(lines[1], "method")]}
           /\ \A j \in DOMAIN served : served[j][1] < NumberIn(lines[1], "method")
<1> DEFINE number == NumberIn(lines[1], "method")
<1>1. lines \in Seq(Seq(Bytes)) /\ asked \in Nat /\ wire["server"] \in Seq(Bytes)
  BY LinesOf DEF TypeOK, End
<1>2. lines # <<>>
  BY <1>1 DEF With
<1>3. Position \in Nat /\ Position # 0 /\ Position <= 9 * asked
  <2>1. Position # 0
    BY <1>2 DEF ServerReads, ServerSide
  <2>2. Len(wire["server"]) \in Nat /\ Len(wire["server"]) <= 9 * asked
    BY <1>1 DEF RequestsUnderWay, ServerSide
  <2>3. 9 * asked - Len(wire["server"]) \in Nat /\ 9 * asked - Len(wire["server"]) <= 9 * asked
    <3> DEFINE l == Len(wire["server"])
    <3> HIDE DEF l
    <3> QED
      BY <1>1, <2>2, NotMore DEF l
  <2> QED
    BY <2>1, <2>3 DEF Position
<1>4. PICK k \in 1..asked, p \in 1..9 : Position = 9 * (k - 1) + p
  <2> DEFINE m == Position - 1
  <2>1. m \in Nat /\ m < 9 * asked /\ m + 1 = Position
    BY <1>1, <1>3
  <2> HIDE DEF m
  <2>2. \E k \in 1..asked, p \in 1..9 : m + 1 = 9 * (k - 1) + p
    BY <1>1, <2>1, PlaceOf
  <2> QED
    BY <2>1, <2>2
<1>5. lines \in Seq(Seq(OfRequest(k)))
  BY <1>4 DEF ServerReads, MessageOf, ServerSide
<1>6. number = k /\ \A j \in DOMAIN served : served[j][1] # k
  <2>1. PICK b \in OfRequest(k) : b.kind = "method" /\ number = b.n
    BY <1>5, NumberOfOne
  <2>2. b = Byte("method", k) /\ \A j \in DOMAIN served : served[j][1] # k
    BY <2>1 DEF OfRequest, Byte
  <2> QED
    BY <2>1, <2>2 DEF Byte
<1>7. \A j \in DOMAIN served : served[j][1] < k
  <2> SUFFICES ASSUME NEW j \in DOMAIN served PROVE served[j][1] < k
    OBVIOUS
  <2>1. served[j][1] \in 1..asked /\ 9 * (served[j][1] - 1) < Position
    BY DEF Answered, ServerSide
  <2>2. 9 * (served[j][1] - 1) < 9 * (k - 1) + 9
    BY <1>1, <1>4, <2>1
  <2> QED
    BY <1>1, <1>6, <2>1, <2>2
<1>8. CSeqOf(lines) \in {0, numbers[k]}
  <2>1. CASE With(lines, "cseq") = {}
    BY <2>1 DEF CSeqOf
  <2>2. CASE With(lines, "cseq") # {}
    <3> DEFINE m == Min(With(lines, "cseq"))
    <3>1. m \in With(lines, "cseq")
      BY <1>1, <2>2, FirstAndLast
    <3> HIDE DEF m
    <3>2. PICK b \in OfRequest(k) : b.kind = "cseq" /\ NumberIn(lines[m], "cseq") = b.n
      BY <1>5, <3>1, NumberOfOne
    <3>3. b.n = numbers[k]
      BY <3>2 DEF OfRequest, Byte
    <3> QED
      BY <2>2, <3>2, <3>3 DEF CSeqOf, m
  <2> QED
    BY <2>1, <2>2
<1> HIDE DEF number
<1>9. 9 * (k - 1) < Position
  BY <1>1, <1>4
<1> QED
  BY <1>6, <1>7, <1>8, <1>9 DEF number

LEMMA ServeSteps ==
    ASSUME ExchangeAssumption, IInv, Serve
    PROVE  IInv'
<1> DEFINE lines == reader["server"].lines
           cseq == CSeqOf(lines)
           k == NumberIn(lines[1], "method")
<1>1. /\ Fresh("server") /\ UNCHANGED <<world, client, m_State, asked, result, numbers>>
      /\ m_CSeq' = [m_CSeq EXCEPT !["server"] = cseq] /\ server' \in {"loop", "ended"}
      /\ IF 1 \in With(lines, "method")
         THEN \E how \in Outcomes(k, lines) :
                  /\ wire' = [wire EXCEPT !["client"] = @ \o ReplyBytes(k, cseq, how)]
                  /\ served' = Append(served, <<k, cseq, how>>)
         ELSE UNCHANGED <<wire, served>>
  BY DEF Serve, ServeWith, Fresh
<1>2. TypeOK /\ ServerSide /\ ClientCounts
  BY DEF IInv, ServerSide
<1>3. /\ reader' \in [End -> Reader'] /\ reader'["client"] = reader["client"]
      /\ reader'["server"].pc = "char"
      /\ reader'["server"].str = <<>> /\ reader'["server"].lines = <<>>
  BY <1>1, <1>2, FreshReader DEF End
<1>4. lines \in Seq(Seq(Bytes))
  BY <1>2, LinesOf DEF End
<1>5. cseq \in 0..MaxAsks
  <2>1. CASE With(lines, "cseq") = {}
    BY <2>1 DEF CSeqOf, ExchangeAssumption
  <2>2. CASE With(lines, "cseq") # {}
    <3> HIDE DEF lines
    <3>1. Min(With(lines, "cseq")) \in With(lines, "cseq")
      BY <1>4, <2>2, FirstAndLast
    <3> QED
      BY <1>4, <2>2, <3>1, NumberType DEF CSeqOf
  <2> QED
    BY <2>1, <2>2
<1> HIDE DEF cseq, k
<1>6. Position' = Position /\ RequestsUnderWay'
  <2>1. wire'["server"] = wire["server"]
    BY <1>1, <1>2 DEF TypeOK, End
  <2> QED
    BY <1>1, <1>2, <2>1 DEF Position, RequestsUnderWay, ServerSide
<1>7. ServerReads'
  <2>1. \A i, p : MessageOf(i, p)'
    BY <1>3 DEF MessageOf
  <2> QED
    BY <1>3, <2>1 DEF ServerReads
<1>8. /\ served' \in Seq((1..MaxAsks) \X (0..MaxAsks) \X How) /\ Answered' /\ AnsweredOnce'
      /\ wire'["server"] \in Seq(Bytes) /\ wire'["client"] \in Seq(Bytes) /\ DOMAIN wire' = End
      /\ wire'["client"] \in Seq(Counted)
  <2>1. /\ wire \in [End -> Seq(Bytes)] /\ wire["client"] \in Seq(Counted)
        /\ served \in Seq((1..MaxAsks) \X (0..MaxAsks) \X How) /\ Answered /\ AnsweredOnce
        /\ asked \in Nat /\ asked <= MaxAsks /\ numbers \in Seq(1..MaxAsks) /\ Len(numbers) = asked
        /\ MaxAsks \in Nat
    BY <1>2 DEF ServerSide, TypeOK, ClientCounts, ExchangeAssumption
  <2>2. CASE 1 \notin With(lines, "method")
    BY <1>1, <1>6, <2>1, <2>2 DEF Answered, AnsweredOnce, End
  <2>3. CASE 1 \in With(lines, "method")
    <3>1. /\ k \in 1..asked /\ 9 * (k - 1) < Position
          /\ cseq \in {0, numbers[k]} /\ \A j \in DOMAIN served : served[j][1] < k
      BY <1>2, <2>3, AnswersNext DEF cseq, k
    <3>2. k \in 1..MaxAsks /\ cseq <= asked /\ k \in 0..MaxAsks
      BY <1>2, <2>1, <3>1 DEF ClientCounts
    <3>3. PICK how \in How :
             /\ wire' = [wire EXCEPT !["client"] = @ \o ReplyBytes(k, cseq, how)]
             /\ served' = Append(served, <<k, cseq, how>>)
      BY <1>1, <2>3 DEF Outcomes
    <3>4. ReplyBytes(k, cseq, how) \in Seq(Counted)
      BY <1>5, <3>2, ReplyIsCounted
    <3>5. /\ wire'["client"] = wire["client"] \o ReplyBytes(k, cseq, how)
          /\ wire'["server"] = wire["server"] /\ DOMAIN wire' = End
      BY <2>1, <3>3 DEF End
    <3>6. wire'["client"] \in Seq(Counted) /\ Counted \subseteq Bytes
      BY <2>1, <3>4, <3>5 DEF Counted
    <3>7. wire'["client"] \in Seq(Bytes)
      BY <3>6
    <3>8. served' \in Seq((1..MaxAsks) \X (0..MaxAsks) \X How)
      BY <1>5, <2>1, <3>2, <3>3
    <3> DEFINE n == Len(served)
    <3>9. /\ n \in Nat /\ DOMAIN served = 1..n /\ DOMAIN served' = 1..(n + 1)
          /\ \A j \in 1..n : served'[j] = served[j]
          /\ served'[n + 1] = <<k, cseq, how>>
      BY <2>1, <3>3
    <3> HIDE DEF n
    <3>10. \A j \in 1..n : served[j] \in (1..MaxAsks) \X (0..MaxAsks) \X How
      BY <2>1, <3>9
    <3>11. Answered'
      <4>1. ASSUME NEW j \in 1..(n + 1)
            PROVE  served'[j][1] \in 1..asked /\ 9 * (served'[j][1] - 1) < Position
        <5>1. CASE j \in 1..n
          BY <2>1, <3>9, <5>1 DEF Answered
        <5>2. CASE j = n + 1
          BY <3>1, <3>9, <5>2
        <5> QED
          BY <3>9, <5>1, <5>2
      <4> QED
        BY <1>1, <1>6, <3>9, <4>1 DEF Answered
    <3>12. ASSUME NEW i \in DOMAIN served', NEW j \in DOMAIN served', i < j
           PROVE  served'[i][1] < served'[j][1]
      <4>1. CASE j \in 1..n
        <5>1. i \in 1..n
          BY <3>9, <3>12, <4>1
        <5> QED
          BY <2>1, <3>9, <3>12, <4>1, <5>1 DEF AnsweredOnce
      <4>2. CASE j = n + 1
        <5>1. i \in 1..n
          BY <3>9, <3>12, <4>2
        <5> QED
          BY <3>1, <3>9, <4>2, <5>1
      <4> QED
        BY <3>9, <4>1, <4>2
    <3>13. ASSUME NEW j \in DOMAIN served'
           PROVE  served'[j][2] \in {0, numbers[served'[j][1]]}
      <4>1. CASE j \in 1..n
        BY <2>1, <3>9, <4>1 DEF AnsweredOnce
      <4>2. CASE j = n + 1
        BY <3>1, <3>9, <4>2
      <4> QED
        BY <3>9, <4>1, <4>2
    <3>14. AnsweredOnce'
      BY <1>1, <3>12, <3>13 DEF AnsweredOnce
    <3> QED
      BY <2>1, <3>5, <3>6, <3>7, <3>8, <3>11, <3>14 DEF End
  <2> QED
    BY <2>2, <2>3
<1>9. TypeOK'
  <2>1. wire' \in [End -> Seq(Bytes)]
    <3>1. wire' = [e \in End |-> wire'[e]]
      BY <1>1, <1>2 DEF TypeOK
    <3> QED
      BY <1>8, <3>1 DEF End
  <2>2. m_CSeq' \in [End -> 0..MaxAsks]
    BY <1>1, <1>2, <1>5 DEF TypeOK
  <2> QED
    BY <1>1, <1>2, <1>3, <1>8, <2>1, <2>2 DEF TypeOK
<1>10. ClientCounts'
  <2>1. Counted' = Counted /\ m_CSeq'["client"] = m_CSeq["client"]
    BY <1>1, <1>2 DEF Counted, TypeOK, End
  <2> QED
    BY <1>1, <1>2, <1>3, <1>8, <2>1 DEF ClientCounts
<1> QED
  BY <1>6, <1>7, <1>8, <1>9, <1>10 DEF IInv

(* Two lists end to end.                                                    *)
EndToEnd(u, s, t) ==
    /\ Len(s) \in Nat /\ Len(t) \in Nat /\ Len(u) = Len(s) + Len(t)
    /\ \A i \in 1..Len(s) : u[i] = s[i]
    /\ \A i \in 1..Len(t) : u[Len(s) + i] = t[i]

LEMMA JoinedEndToEnd ==
    ASSUME NEW S, NEW s \in Seq(S), NEW t \in Seq(S)
    PROVE  EndToEnd(s \o t, s, t)
<1>1. Len(s) \in Nat /\ Len(t) \in Nat
  OBVIOUS
<1>2. Len(s \o t) = Len(s) + Len(t)
  BY ConcatProperties
<1>3. ASSUME NEW i \in 1..Len(s) PROVE (s \o t)[i] = s[i]
  OBVIOUS
<1>4. ASSUME NEW i \in 1..Len(t) PROVE (s \o t)[Len(s) + i] = t[i]
  <2>1. /\ Len(s) + i \in 1..(Len(s) + Len(t)) /\ (Len(s) + i) - Len(s) = i
        /\ ~(Len(s) + i <= Len(s))
    BY <1>1
  <2> QED
    BY <2>1, ConcatProperties
<1> QED
  BY <1>1, <1>2, <1>3, <1>4 DEF EndToEnd

LEMMA AskSteps ==
    ASSUME ExchangeAssumption, IInv, Ask
    PROVE  IInv'
<1> DEFINE k0 == asked + 1
           cseq == m_CSeq["client"] + 1
           rest == wire["server"]
           more == RequestBytes(k0, cseq)
<1>1. /\ asked < MaxAsks /\ asked' = k0 /\ m_CSeq' = [m_CSeq EXCEPT !["client"] = cseq]
      /\ wire' = [wire EXCEPT !["server"] = rest \o more] /\ client' = "wait"
      /\ result' = NoResult /\ numbers' = Append(numbers, cseq)
      /\ UNCHANGED <<world, reader, server, m_State, served>>
  BY DEF Ask
<1>2. TypeOK /\ ServerSide /\ ClientCounts
  BY DEF IInv, ServerSide
<1>3. /\ asked \in Nat /\ k0 \in 1..MaxAsks /\ MaxAsks \in Nat
      /\ cseq \in 1..MaxAsks /\ cseq <= k0 /\ rest \in Seq(Bytes)
      /\ m_CSeq \in [End -> 0..MaxAsks] /\ wire \in [End -> Seq(Bytes)]
      /\ numbers \in Seq(1..MaxAsks)
  <2>1. /\ asked \in 0..MaxAsks /\ MaxAsks \in Nat /\ m_CSeq["client"] \in 0..MaxAsks
        /\ m_CSeq["client"] <= asked
    BY <1>2 DEF TypeOK, ExchangeAssumption, ClientCounts, End
  <2> QED
    BY <1>1, <1>2, <2>1 DEF TypeOK, End
<1>4. more \in Seq(Bytes) /\ Len(more) = 9
  <2> HIDE DEF k0, cseq
  <2>1. {Byte("method", k0), Byte("url", k0), CR, LF, Byte("cseq", cseq)} \subseteq Bytes
    BY <1>3 DEF Bytes, Byte, CR, LF
  <2>2. /\ more \in Seq({Byte("method", k0), Byte("url", k0), CR, LF, Byte("cseq", cseq)})
        /\ Len(more) = 9
    BY RequestHasNine
  <2> HIDE DEF more
  <2> QED
    BY <2>1, <2>2
<1>5. /\ wire'["server"] = rest \o more /\ wire'["client"] = wire["client"]
      /\ wire' \in [End -> Seq(Bytes)]
      /\ m_CSeq'["client"] = cseq /\ m_CSeq' \in [End -> 0..MaxAsks]
  <2> HIDE DEF cseq, k0, more, rest
  <2> QED
    BY <1>1, <1>3, <1>4 DEF End
<1>6. /\ Len(wire'["server"]) = Len(rest) + 9 /\ Len(rest) \in Nat
      /\ \A i \in 1..Len(rest) : wire'["server"][i] = rest[i]
      /\ \A i \in 1..9 : wire'["server"][Len(rest) + i] = more[i]
  <2> HIDE DEF rest, more, k0, cseq
  <2>1. /\ rest \in Seq(Bytes) /\ more \in Seq(Bytes) /\ Len(more) = 9
        /\ wire'["server"] = rest \o more
    BY <1>3, <1>4, <1>5
  <2>2. EndToEnd(wire'["server"], rest, more)
    BY <2>1, JoinedEndToEnd
  <2> QED
    BY <2>1, <2>2 DEF EndToEnd
<1>7. /\ numbers' \in Seq(1..MaxAsks) /\ Len(numbers') = k0 /\ numbers'[k0] = cseq
      /\ \A k \in 1..asked : numbers'[k] = numbers[k]
  <2>1. Len(numbers) = asked
    BY <1>2 DEF TypeOK
  <2> HIDE DEF cseq
  <2> QED
    BY <1>1, <1>3, <2>1
<1>8. Position' = Position /\ Position = 9 * asked - Len(rest) /\ Len(rest) <= 9 * asked
  <2>1. Len(rest) <= 9 * asked
    BY <1>2 DEF ServerSide, RequestsUnderWay
  <2> DEFINE l == Len(rest)
  <2>2. 9 * (asked + 1) - (l + 9) = 9 * asked - l
    <3> HIDE DEF l
    <3>1. l \in Nat
      BY <1>6 DEF l
    <3> QED
      BY <1>3, <3>1
  <2> QED
    BY <1>1, <1>6, <2>1, <2>2 DEF Position
<1> DEFINE n == Position
           l == Len(rest)
<1>9. n \in Nat /\ l \in Nat /\ n = 9 * asked - l /\ l <= 9 * asked /\ n <= 9 * asked
  <2> HIDE DEF rest
  <2>1. n = 9 * asked - l /\ l \in Nat /\ l <= 9 * asked
    BY <1>6, <1>8
  <2> HIDE DEF l, n
  <2> QED
    BY <1>3, <2>1, NotMore
<1>10. ASSUME NEW k \in 1..k0, NEW p \in 1..9, 9 * (k - 1) + p > n
       PROVE  wire'["server"][(9 * (k - 1) + p) - n] = RequestBytes(k, numbers'[k])[p]
  <2> DEFINE x == (9 * (k - 1) + p) - n
  <2> HIDE DEF n, l, cseq
  <2>1. CASE k \in 1..asked
    <3>1. x \in 1..l
      BY <1>3, <1>9, <1>10, <2>1
    <3>2. rest[x] = RequestBytes(k, numbers[k])[p]
      BY <1>2, <1>10, <2>1 DEF ServerSide, RequestsUnderWay, n
    <3> HIDE DEF x, rest
    <3>3. wire'["server"][x] = rest[x]
      BY <1>6, <3>1 DEF l
    <3> QED
      BY <1>7, <2>1, <3>2, <3>3 DEF x
  <2>2. CASE k = k0
    <3>1. x = l + p
      BY <1>3, <1>9, <2>2
    <3> HIDE DEF x, rest, more
    <3>2. wire'["server"][x] = more[p]
      BY <1>6, <3>1 DEF l
    <3> QED
      BY <1>7, <2>2, <3>2 DEF x, more
  <2> QED
    BY <1>3, <2>1, <2>2
<1>11. RequestsUnderWay'
  <2>1. l + 9 <= 9 * k0
    BY <1>3, <1>9
  <2> HIDE DEF k0, cseq, more
  <2>2. Len(wire'["server"]) <= 9 * asked'
    BY <1>1, <1>6, <2>1
  <2>3. ASSUME NEW k \in 1..asked', NEW p \in 1..9, 9 * (k - 1) + p > Position'
        PROVE  wire'["server"][(9 * (k - 1) + p) - Position'] = RequestBytes(k, numbers'[k])[p]
    <3>1. k \in 1..k0 /\ Position' = n /\ 9 * (k - 1) + p > n
      BY <1>1, <1>8, <2>3
    <3> QED
      BY <1>10, <3>1
  <2> QED
    BY <2>2, <2>3 DEF RequestsUnderWay
<1> HIDE DEF l, n, cseq, more, rest
<1>12. ServerReads'
  <2>1. ASSUME NEW k \in 1..asked, NEW p, MessageOf(k, p)
        PROVE  MessageOf(k, p)'
    <3>1. OfRequest(k)' = OfRequest(k)
      BY <1>1, <1>7 DEF OfRequest
    <3> QED
      BY <1>1, <2>1, <3>1 DEF MessageOf
  <2>2. ASSUME NEW k \in 1..k0, NEW p \in 1..9, Position = 9 * (k - 1) + p
        PROVE  MessageOf(k, p)'
    <3>1. k \in 1..asked
      BY <1>3, <1>9, <2>2 DEF n
    <3> QED
      BY <1>2, <2>1, <2>2, <3>1 DEF ServerSide, ServerReads
  <2> HIDE DEF k0
  <2> QED
    BY <1>1, <1>2, <1>8, <2>2 DEF ServerSide, ServerReads
<1>13. Answered' /\ AnsweredOnce'
  <2>1. \A j \in DOMAIN served : served[j][1] \in 1..asked
    BY <1>2 DEF ServerSide, Answered
  <2>2. 1..asked \subseteq 1..k0
    BY <1>3
  <2>3. Answered'
    BY <1>1, <1>2, <1>8, <2>1, <2>2 DEF ServerSide, Answered
  <2>4. \A j \in DOMAIN served : numbers'[served[j][1]] = numbers[served[j][1]]
    BY <1>7, <2>1
  <2> QED
    BY <1>1, <1>2, <2>3, <2>4 DEF ServerSide, AnsweredOnce
<1>14. TypeOK'
  <2>1. Reader' = Reader
    BY <1>1 DEF Reader
  <2>2. result' \in [ok : BOOLEAN, answer : 0..MaxAsks, body : Seq(Bytes)]
    BY <1>1, <1>3 DEF NoResult
  <2> QED
    BY <1>1, <1>2, <1>3, <1>5, <1>7, <2>1, <2>2 DEF TypeOK
<1>15. ClientCounts'
  <2>1. Counted \subseteq Counted'
    BY <1>1, <1>3 DEF Counted, Bytes
  <2>2. /\ wire["client"] \in Seq(Counted) /\ reader["client"].str \in Seq(Counted)
        /\ reader["client"].lines \in Seq(Seq(Counted))
    BY <1>2 DEF ClientCounts
  <2>3. /\ wire["client"] \in Seq(Counted') /\ reader["client"].str \in Seq(Counted')
        /\ reader["client"].lines \in Seq(Seq(Counted'))
    <3> DEFINE C == Counted
               D == Counted'
    <3> HIDE DEF C, D
    <3> SUFFICES ASSUME C \subseteq D,
                        wire["client"] \in Seq(C), reader["client"].str \in Seq(C),
                        reader["client"].lines \in Seq(Seq(C))
                 PROVE  /\ wire["client"] \in Seq(D) /\ reader["client"].str \in Seq(D)
                        /\ reader["client"].lines \in Seq(Seq(D))
      BY <2>1, <2>2 DEF C, D
    <3>1. Seq(C) \subseteq Seq(D)
      OBVIOUS
    <3>2. Seq(Seq(C)) \subseteq Seq(Seq(D))
      BY <3>1
    <3> QED
      BY <3>1, <3>2
  <2>4. ASSUME NEW k \in 1..k0 PROVE numbers'[k] <= k0
    <3>1. CASE k \in 1..asked
      <4>1. numbers[k] <= asked /\ numbers[k] \in 1..MaxAsks
        BY <1>2, <1>3, <3>1 DEF ClientCounts, TypeOK
      <4> QED
        BY <1>3, <1>7, <3>1, <4>1
    <3>2. CASE k = k0
      BY <1>3, <1>7, <3>2
    <3> QED
      BY <1>3, <3>1, <3>2
  <2> HIDE DEF k0
  <2> QED
    BY <1>1, <1>3, <1>5, <2>3, <2>4 DEF ClientCounts
<1> QED
  BY <1>11, <1>12, <1>13, <1>14, <1>15 DEF IInv

LEMMA ClientReadSteps ==
    ASSUME IInv, ReadStep("client")
    PROVE  IInv'
<1> DEFINE e == "client"
           C == Counted
<1>1. e \in End /\ TypeOK /\ ServerSide /\ ClientCounts
  BY DEF End, IInv, ServerSide
<1>2. /\ OnlyReads(e) /\ (wire' = wire \/ Receive(e))
      /\ \/ Receive(e) /\ Extends(e, Head(wire[e]))
         \/ Returns(e)
         \/ Ends(e)
         \/ Adds(e)
  BY <1>1, ReadCharDoes, ReadNewlineDoes, TimeoutDoes DEF ReadStep
<1>3. TypeOK' /\ wire'["server"] = wire["server"]
  BY <1>1, <1>2, ReadTypes DEF End
<1>4. /\ UNCHANGED <<m_CSeq, asked, numbers, served>> /\ reader'["server"] = reader["server"]
  BY <1>2 DEF OnlyReads, End
<1>5. ServerSide'
  BY <1>1, <1>3, <1>4, ServerAlone
<1>6. /\ wire[e] \in Seq(C) /\ reader[e].str \in Seq(C) /\ reader[e].lines \in Seq(Seq(C))
  BY <1>1 DEF ClientCounts
<1> DEFINE w == wire[e]
           r == reader[e]
           q == reader'[e]
<1>7. wire'[e] \in Seq(C)
  <2>1. wire'[e] = w \/ (w # <<>> /\ wire'[e] = Tail(w))
    BY <1>1, <1>2 DEF Receive, TypeOK
  <2>2. w \in Seq(C)
    BY <1>6
  <2> HIDE DEF C, w
  <2>3. w # <<>> => Tail(w) \in Seq(C)
    BY <2>2
  <2> QED
    BY <2>1, <2>2, <2>3
<1>8. q.str \in Seq(C) /\ q.lines \in Seq(Seq(C))
  <2>1. CASE Receive(e) /\ Extends(e, Head(wire[e]))
    <3>1. w # <<>> /\ q.str = Append(r.str, Head(w)) /\ q.lines = r.lines
      BY <2>1 DEF Receive, Extends
    <3> HIDE DEF C, w, r, q
    <3>2. Head(w) \in C
      BY <1>6, <3>1 DEF w
    <3> QED
      BY <1>6, <3>1, <3>2 DEF r
  <2>2. CASE Returns(e) \/ Ends(e)
    BY <1>6, <2>2 DEF Returns, Ends
  <2>3. CASE Adds(e)
    <3>1. q.str = <<>> /\ q.lines = Append(r.lines, r.str)
      BY <2>3 DEF Adds
    <3> HIDE DEF C, w, r, q
    <3> QED
      BY <1>6, <3>1 DEF r
  <2> QED
    BY <1>2, <2>1, <2>2, <2>3
<1>9. ClientCounts'
  <2>1. Counted' = Counted
    BY <1>4 DEF Counted
  <2> QED
    BY <1>1, <1>4, <1>7, <1>8, <2>1 DEF ClientCounts
<1> QED
  BY <1>3, <1>5, <1>9 DEF IInv, ServerSide

LEMMA TakeReplySteps ==
    ASSUME ExchangeAssumption, IInv, TakeReply
    PROVE  IInv'
<1> DEFINE lines == reader["client"].lines
           got == With(lines, "cseq")
           number == NumberIn(lines[Max(got)], "cseq")
           ok == 1 \in With(lines, "ok")
           answer == IF ok THEN Said(lines, "ok") ELSE Said(lines, "error")
<1>1. /\ Fresh("client") /\ UNCHANGED <<world, wire, server, asked, numbers, served>>
      /\ m_CSeq' = [m_CSeq EXCEPT !["client"] = IF got = {} THEN @ ELSE number]
      /\ result' = [result EXCEPT !.ok = ok /\ asked \notin Describes, !.answer = answer]
      /\ client' \in {"body", "idle"}
      /\ m_State' \in {m_State, stateInit, stateReady, statePlaying, statePause}
  BY DEF TakeReply, TakeReplyThen, Fresh, Reached
<1>2. TypeOK /\ ServerSide /\ ClientCounts
  BY DEF IInv, ServerSide
<1>3. /\ reader' \in [End -> Reader'] /\ reader'["server"] = reader["server"]
      /\ reader'["client"].str = <<>> /\ reader'["client"].lines = <<>>
  BY <1>1, <1>2, FreshReader DEF End
<1>4. lines \in Seq(Seq(Bytes)) /\ lines \in Seq(Seq(Counted))
  BY <1>2, LinesOf DEF End, ClientCounts
<1>5. got # {} => number \in 0..MaxAsks /\ number <= asked
  <2> SUFFICES ASSUME got # {} PROVE number \in 0..MaxAsks /\ number <= asked
    OBVIOUS
  <2> DEFINE m == Max(got)
  <2>1. m \in With(lines, "cseq")
    <3> HIDE DEF lines
    <3> QED
      BY <1>4, FirstAndLast
  <2> HIDE DEF m, lines
  <2>2. PICK b \in Counted : b.kind = "cseq" /\ NumberIn(lines[m], "cseq") = b.n
    BY <1>4, <2>1, NumberOfOne
  <2>3. b.n \in 0..MaxAsks /\ b.n <= asked
    BY <2>2 DEF Counted, Bytes
  <2> QED
    BY <2>2, <2>3 DEF m
<1>6. answer \in 0..MaxAsks /\ m_State' \in stateInit..statePause
  <2>1. ASSUME NEW kind PROVE Said(lines, kind) \in 0..MaxAsks
    <3> HIDE DEF lines
    <3> QED
      BY <1>4, NumberType DEF Said, ExchangeAssumption
  <2>2. m_State' \in stateInit..statePause
    BY <1>1, <1>2 DEF TypeOK, stateInit, stateReady, statePlaying, statePause
  <2> QED
    BY <2>1, <2>2
<1> HIDE DEF got, number, ok, answer, lines
<1>7. /\ m_CSeq \in [End -> 0..MaxAsks] /\ m_CSeq["client"] <= asked
      /\ result \in [ok : BOOLEAN, answer : 0..MaxAsks, body : Seq(Bytes)] /\ 0 \in 0..MaxAsks
  BY <1>2 DEF TypeOK, ClientCounts, ExchangeAssumption
<1>8. m_CSeq' \in [End -> 0..MaxAsks] /\ m_CSeq'["client"] <= asked
  <2> DEFINE x == IF got = {} THEN m_CSeq["client"] ELSE number
  <2>1. x \in 0..MaxAsks /\ x <= asked
    BY <1>5, <1>7 DEF End
  <2>2. m_CSeq' = [m_CSeq EXCEPT !["client"] = x]
    BY <1>1
  <2> HIDE DEF x
  <2> QED
    BY <1>7, <2>1, <2>2 DEF End
<1>9. result' \in [ok : BOOLEAN, answer : 0..MaxAsks, body : Seq(Bytes)]
  <2> DEFINE y == ok /\ asked \notin Describes
  <2>1. y \in BOOLEAN
    OBVIOUS
  <2>2. result' = [result EXCEPT !.ok = y, !.answer = answer]
    BY <1>1
  <2> HIDE DEF y
  <2> QED
    BY <1>6, <1>7, <2>1, <2>2
<1>10. TypeOK'
  BY <1>1, <1>2, <1>3, <1>6, <1>8, <1>9 DEF TypeOK
<1>11. ServerSide'
  BY <1>1, <1>2, <1>3, ServerAlone
<1>12. ClientCounts'
  <2>1. Counted' = Counted
    BY <1>1 DEF Counted
  <2> QED
    BY <1>1, <1>2, <1>3, <1>8, <2>1 DEF ClientCounts
<1> QED
  BY <1>10, <1>11, <1>12 DEF IInv, ServerSide

LEMMA ReadBodySteps ==
    ASSUME IInv, ReadBody
    PROVE  IInv'
<1> DEFINE w == wire["client"]
<1>1. PICK n \in 0..Min({Len(Body), Len(w)}) :
         /\ result' = [result EXCEPT !.ok = TRUE, !.body = SubSeq(w, 1, n)]
         /\ wire' = [wire EXCEPT !["client"] = SubSeq(w, n + 1, Len(w))]
  BY DEF ReadBody
<1>2. /\ client' = "idle"
      /\ UNCHANGED <<world, reader, m_CSeq, server, m_State, asked, numbers, served>>
  BY DEF ReadBody
<1>3. TypeOK /\ ServerSide /\ ClientCounts
  BY DEF IInv, ServerSide
<1>4. w \in Seq(Bytes) /\ w \in Seq(Counted) /\ Len(w) \in Nat
  BY <1>3 DEF TypeOK, ClientCounts, End
<1>5. n \in Nat /\ n <= Len(w)
  <2>1. Len(Body) \in Nat
    BY DEF Body
  <2>2. Min({Len(Body), Len(w)}) \in Nat /\ Min({Len(Body), Len(w)}) <= Len(w)
    <3> DEFINE a == Len(Body)
               l == Len(w)
    <3>1. a \in Nat /\ l \in Nat
      BY <1>4, <2>1
    <3> HIDE DEF a, l
    <3>2. \E m \in {a, l} : \A x \in {a, l} : m <= x
      BY <3>1
    <3>3. /\ Min({a, l}) \in {a, l} /\ \A x \in {a, l} : Min({a, l}) <= x
      BY <3>2 DEF Min
    <3>4. Min({a, l}) \in Nat /\ Min({a, l}) <= l
      BY <3>1, <3>3
    <3> QED
      BY <3>4 DEF a, l
  <2> HIDE DEF w
  <2> QED
    BY <1>4, <2>1, <2>2
<1> HIDE DEF w
<1>6. \A S : w \in Seq(S) => SubSeq(w, 1, n) \in Seq(S) /\ SubSeq(w, n + 1, Len(w)) \in Seq(S)
  <2> SUFFICES ASSUME NEW S, w \in Seq(S)
               PROVE  SubSeq(w, 1, n) \in Seq(S) /\ SubSeq(w, n + 1, Len(w)) \in Seq(S)
    OBVIOUS
  <2>1. \A i \in 1..Len(w) : w[i] \in S
    OBVIOUS
  <2>2. SubSeq(w, 1, n) \in Seq(S)
    BY <1>4, <1>5, <2>1
  <2>3. SubSeq(w, n + 1, Len(w)) \in Seq(S)
    BY <1>4, <1>5, <2>1
  <2> QED
    BY <2>2, <2>3
<1>7. /\ SubSeq(w, 1, n) \in Seq(Bytes) /\ SubSeq(w, n + 1, Len(w)) \in Seq(Bytes)
      /\ SubSeq(w, n + 1, Len(w)) \in Seq(Counted)
  BY <1>4, <1>6
<1>8. /\ wire' \in [End -> Seq(Bytes)] /\ wire'["server"] = wire["server"]
      /\ wire'["client"] \in Seq(Counted)
  <2>1. wire \in [End -> Seq(Bytes)]
    BY <1>3 DEF TypeOK
  <2> DEFINE rest == SubSeq(w, n + 1, Len(w))
  <2>2. wire' = [wire EXCEPT !["client"] = rest] /\ rest \in Seq(Bytes) /\ rest \in Seq(Counted)
    BY <1>1, <1>7 DEF w
  <2> HIDE DEF rest
  <2> QED
    BY <2>1, <2>2 DEF End
<1>9. result' \in [ok : BOOLEAN, answer : 0..MaxAsks, body : Seq(Bytes)]
  <2>1. result \in [ok : BOOLEAN, answer : 0..MaxAsks, body : Seq(Bytes)]
    BY <1>3 DEF TypeOK
  <2> DEFINE body == SubSeq(w, 1, n)
  <2>2. result' = [result EXCEPT !.ok = TRUE, !.body = body] /\ body \in Seq(Bytes)
    BY <1>1, <1>7 DEF w
  <2> HIDE DEF body
  <2> QED
    BY <2>1, <2>2
<1>10. TypeOK'
  <2>1. Reader' = Reader
    BY <1>2 DEF Reader
  <2> QED
    BY <1>2, <1>3, <1>8, <1>9, <2>1 DEF TypeOK
<1>11. ServerSide'
  BY <1>2, <1>3, <1>8, ServerAlone
<1>12. ClientCounts'
  <2>1. Counted' = Counted
    BY <1>2 DEF Counted
  <2> QED
    BY <1>2, <1>3, <1>8, <2>1 DEF ClientCounts
<1> QED
  BY <1>10, <1>11, <1>12 DEF IInv, ServerSide

(* A read that fails keeps the lines, and leaves the rest.                  *)
LEMMA ReadFailsSteps ==
    ASSUME IInv, ReadFails
    PROVE  IInv'
<1> DEFINE e == "client"
<1>1. e \in End /\ TypeOK /\ ServerSide /\ ClientCounts
  BY DEF End, IInv, ServerSide
<1>2. /\ reader' = [reader EXCEPT ![e].pc = "done", ![e].str = <<>>] /\ wire' = wire
      /\ UNCHANGED <<world, m_CSeq, server, client, m_State, asked, result, numbers, served>>
  BY DEF ReadFails, Reading
<1>3. reader[e] \in Reader /\ reader \in [End -> Reader] /\ Reader' = Reader
  BY <1>1, <1>2 DEF TypeOK, Reader
<1>4. [reader[e] EXCEPT !.pc = "done", !.str = <<>>] \in Reader
  <2>1. <<>> \in Seq(Bytes)
    OBVIOUS
  <2> QED
    BY <1>3, <2>1 DEF Reader
<1>5. /\ reader' \in [End -> Reader'] /\ reader'["server"] = reader["server"]
      /\ reader'[e] = [reader[e] EXCEPT !.pc = "done", !.str = <<>>]
  BY <1>1, <1>2, <1>3, <1>4 DEF End
<1>6. reader'[e].str = <<>> /\ reader'[e].lines = reader[e].lines
  BY <1>3, <1>5 DEF Reader
<1>7. TypeOK'
  BY <1>1, <1>2, <1>5 DEF TypeOK
<1>8. ServerSide'
  BY <1>1, <1>2, <1>5, ServerAlone
<1>9. ClientCounts'
  <2>1. Counted' = Counted
    BY <1>2 DEF Counted
  <2>2. <<>> \in Seq(Counted)
    OBVIOUS
  <2> QED
    BY <1>1, <1>2, <1>6, <2>1, <2>2 DEF ClientCounts
<1> QED
  BY <1>7, <1>8, <1>9 DEF IInv, ServerSide

(* The end of a connection loses what the client has not read, or nothing.  *)
LEMMA ConnectionEnds ==
    ASSUME IInv, HangUp \/ Reset
    PROVE  IInv'
<1>1. TypeOK /\ ServerSide /\ ClientCounts
  BY DEF IInv, ServerSide
<1>2. /\ server' = "closed" /\ (wire' = wire \/ wire' = [wire EXCEPT !["client"] = <<>>])
      /\ UNCHANGED <<world, reader, m_CSeq, client, m_State, asked, result, numbers, served>>
  BY DEF HangUp, Reset
<1>3. /\ wire' \in [End -> Seq(Bytes)] /\ wire'["server"] = wire["server"]
      /\ wire'["client"] \in Seq(Counted)
  <2>1. <<>> \in Seq(Bytes) /\ <<>> \in Seq(Counted)
    OBVIOUS
  <2>2. wire \in [End -> Seq(Bytes)] /\ wire["client"] \in Seq(Counted)
    BY <1>1 DEF TypeOK, ClientCounts
  <2> QED
    BY <1>2, <2>1, <2>2 DEF End
<1>4. TypeOK'
  <2>1. Reader' = Reader
    BY <1>2 DEF Reader
  <2> QED
    BY <1>1, <1>2, <1>3, <2>1 DEF TypeOK
<1>5. ServerSide'
  BY <1>1, <1>2, <1>3, ServerAlone
<1>6. ClientCounts'
  <2>1. Counted' = Counted
    BY <1>2 DEF Counted
  <2> QED
    BY <1>1, <1>2, <1>3, <2>1 DEF ClientCounts
<1> QED
  BY <1>4, <1>5, <1>6 DEF IInv, ServerSide

-----------------------------------------------------------------------------
(* The server has read whole bytes of the requests in their order, and what *)
(* it keeps while it reads a message is of one request, whatever cuts the   *)
(* message short; it has answered only what it has read.                    *)
THEOREM ServerReadsInOrder == Spec => []IInv
<1> USE ExchangeAssumption
<1>1. Init => IInv
  <2> SUFFICES ASSUME Init PROVE IInv
    OBVIOUS
  <2>1. /\ asked = 0 /\ numbers = <<>> /\ served = <<>> /\ wire = [e \in End |-> <<>>]
        /\ m_CSeq = [e \in End |-> 0] /\ client = "idle" /\ result = NoResult
        /\ server = "loop" /\ m_State = stateConnected
        /\ world \in Worlds /\ reader \in [End -> {Line(c, <<>>) : c \in world.garbage}]
    BY DEF Init
  <2>2. \A e \in End : /\ reader[e] \in Reader /\ reader[e].pc = "char" /\ reader[e].str = <<>>
                       /\ reader[e].lines = <<>>
    <3> SUFFICES ASSUME NEW e \in End
                 PROVE  /\ reader[e] \in Reader /\ reader[e].pc = "char" /\ reader[e].str = <<>>
                        /\ reader[e].lines = <<>>
      OBVIOUS
    <3>1. PICK c \in world.garbage : reader[e] = Line(c, <<>>)
      BY <2>1
    <3>2. <<>> \in Seq(Bytes) /\ <<>> \in Seq(Seq(Bytes) \ {<<>>})
      OBVIOUS
    <3> QED
      BY <3>1, <3>2 DEF Line, Reader
  <2>3. 0 \in 0..MaxAsks /\ MaxAsks \in Nat
    BY DEF ExchangeAssumption
  <2>4. /\ <<>> \in Seq(Bytes) /\ <<>> \in Seq(1..MaxAsks) /\ Len(<<>>) = 0
        /\ <<>> \in Seq((1..MaxAsks) \X (0..MaxAsks) \X How)
        /\ <<>> \in Seq(Counted) /\ <<>> \in Seq(Seq(Counted))
    OBVIOUS
  <2>5. TypeOK
    <3>1. /\ wire \in [End -> Seq(Bytes)] /\ m_CSeq \in [End -> 0..MaxAsks]
          /\ result \in [ok : BOOLEAN, answer : 0..MaxAsks, body : Seq(Bytes)]
      BY <2>1, <2>3, <2>4 DEF NoResult
    <3>2. reader \in [End -> Reader]
      BY <2>1, <2>2
    <3> QED
      BY <2>1, <2>3, <2>4, <3>1, <3>2 DEF TypeOK, stateInit, stateConnected, statePause
  <2>6. Position = 0 /\ Len(wire["server"]) = 0
    <3>1. wire["server"] = <<>> /\ wire["client"] = <<>> /\ m_CSeq["client"] = 0
      BY <2>1 DEF End
    <3>2. Len(wire["server"]) = 0 /\ 9 * asked = 0
      BY <2>1, <3>1
    <3> QED
      BY <3>2 DEF Position
  <2>7. RequestsUnderWay
    BY <2>1, <2>6 DEF RequestsUnderWay
  <2>8. ServerReads
    BY <2>1, <2>2, <2>6 DEF ServerReads, End
  <2>9. Answered /\ AnsweredOnce
    BY <2>1 DEF Answered, AnsweredOnce
  <2>10. ClientCounts
    <3>1. wire["client"] = <<>> /\ m_CSeq["client"] = 0 /\ "client" \in End
      BY <2>1 DEF End
    <3>2. reader["client"].str = <<>> /\ reader["client"].lines = <<>>
      BY <2>2, <3>1
    <3>3. 1..asked = {}
      BY <2>1
    <3> QED
      BY <2>1, <2>4, <3>1, <3>2, <3>3 DEF ClientCounts
  <2> QED
    BY <2>5, <2>7, <2>8, <2>9, <2>10 DEF IInv
<1>2. IInv /\ [Next]_vars => IInv'
  <2> SUFFICES ASSUME IInv, [Next]_vars PROVE IInv'
    OBVIOUS
  <2>1. CASE ReadStep("server")
    <3>1. TypeOK /\ ServerSide /\ ClientCounts
      BY DEF IInv, ServerSide
    <3>2. TypeOK' /\ ServerSide' /\ OnlyReads("server") /\ wire'["client"] = wire["client"]
      BY <2>1, <3>1, ServerReadSteps
    <3>3. /\ UNCHANGED <<m_CSeq, asked, numbers>> /\ reader'["client"] = reader["client"]
      BY <3>2 DEF OnlyReads, End
    <3>4. ClientCounts'
      <4>1. Counted' = Counted
        BY <3>3 DEF Counted
      <4> QED
        BY <3>1, <3>2, <3>3, <4>1 DEF ClientCounts
    <3> QED
      BY <3>2, <3>4 DEF IInv, ServerSide
  <2>2. CASE Serve
    BY <2>2, ServeSteps
  <2>3. CASE ReadStep("client")
    BY <2>3, ClientReadSteps
  <2>4. CASE TakeReply
    BY <2>4, TakeReplySteps
  <2>5. CASE ReadBody
    BY <2>5, ReadBodySteps
  <2>6. CASE Ask
    BY <2>6, AskSteps
  <2>7. CASE ReadFails
    BY <2>7, ReadFailsSteps
  <2>8. CASE HangUp \/ Reset
    BY <2>8, ConnectionEnds
  <2>9. CASE UNCHANGED vars
    <3>1. /\ UNCHANGED <<world, wire, reader, m_CSeq, server, client, m_State>>
          /\ UNCHANGED <<asked, result, numbers, served>>
      BY <2>9 DEF vars
    <3>2. ServerSide'
      BY <3>1, ServerAlone DEF IInv, ServerSide
    <3>3. TypeOK' /\ ClientCounts'
      BY <3>1 DEF IInv, TypeOK, Reader, ClientCounts, Counted
    <3> QED
      BY <3>2, <3>3 DEF IInv, ServerSide
  <2> QED
    BY <2>1, <2>2, <2>3, <2>4, <2>5, <2>6, <2>7, <2>8, <2>9 DEF Next, ServerStep, ClientStep
<1> QED
  BY <1>1, <1>2, PTL DEF Spec

(* No request is served twice, they are served in the order they were made, *)
(* and answers carry the number of their own request or none, however many  *)
(* requests there are, of whatever kinds, and however late bytes come, in   *)
(* every world.                                                             *)
THEOREM RequestsAreAnsweredOnce == Spec => []ExchangeInv
<1>1. IInv => ExchangeInv
  BY DEF IInv, ExchangeInv
<1> QED
  BY <1>1, ServerReadsInOrder, PTL

-----------------------------------------------------------------------------
(* The connection in a world in time: TheAnswerFits.                        *)

\* The world of TheAnswerFits.
InTime == world.timely /\ world.onePiece /\ CR \notin world.garbage

\* What Rtsp::Read and its caller have of a message.
Got(pc, str, lines) == [pc |-> pc, str |-> str, lines |-> lines]

GotBy(e) == Got(reader[e].pc, reader[e].str, reader[e].lines)

NoLine == Got("char", <<>>, <<>>)

\* What that is before the first byte of a request, and behind each.
RequestStates(k) ==
    LET m == <<Byte("method", k)>>
        l == <<Byte("method", k), Byte("url", k)>>
        n == <<Byte("cseq", k)>>
    IN <<NoLine, Got("char", m, <<>>), Got("char", l, <<>>), Got("newline", l, <<>>),
         Got("char", <<>>, <<l>>), Got("char", n, <<l>>), Got("newline", n, <<l>>),
         Got("char", <<>>, <<l, n>>), Got("newline", <<>>, <<l, n>>),
         Got("done", <<>>, <<l, n>>)>>

\* A reply that brings the description, and what an end has of a reply, up to its empty
\* line.
Brings(k, how) == how = "ok" /\ k \in Describes

ReplyStates(k, how) ==
    LET a == <<Byte(how, k)>>
        n == <<Byte("cseq", k)>>
        d == <<Byte("length", k)>>
    IN IF Brings(k, how)
       THEN <<NoLine, Got("char", a, <<>>), Got("newline", a, <<>>),
              Got("char", <<>>, <<a>>), Got("char", n, <<a>>), Got("newline", n, <<a>>),
              Got("char", <<>>, <<a, n>>), Got("char", d, <<a, n>>), Got("newline", d, <<a, n>>),
              Got("char", <<>>, <<a, n, d>>), Got("newline", <<>>, <<a, n, d>>),
              Got("done", <<>>, <<a, n, d>>)>>
       ELSE <<NoLine, Got("char", a, <<>>), Got("newline", a, <<>>),
              Got("char", <<>>, <<a>>), Got("char", n, <<a>>), Got("newline", n, <<a>>),
              Got("char", <<>>, <<a, n>>), Got("newline", <<>>, <<a, n>>),
              Got("done", <<>>, <<a, n>>)>>

\* What is left of a list behind its first n elements.
Rest(m, n) == SubSeq(m, n + 1, Len(m))

\* An end is somewhere in these bytes.
IsRead(e, bytes, states) ==
    \E p \in 0..(Len(states) - 1) : wire[e] = Rest(bytes, p) /\ GotBy(e) = states[p + 1]

\* The server has nothing to do but to give up a read now and then, or is not there.
ServerWaits ==
    /\ wire["server"] = <<>>
    /\ GotBy("server") \in {NoLine, Got("done", <<>>, <<>>)}
    /\ reader["server"].pc = "char" => reader["server"].c # CR

ServerRests == ServerWaits \/ server # "loop"

\* A message that is begun is given up as a whole, if it has to be.
Begun == GotBy("client") = NoLine /\ reader["client"].c # CR

NothingBack == wire["client"] = <<>> /\ Begun

\* How the last request was served: not yet, or in one way.
Unserved == \A how \in How : ~Was(asked, how)

WasOnly(how) == \A h \in How : Was(asked, h) <=> h = how

\* The server reads the request, once it has served the empty message that it was at.
RequestIsRead ==
    /\ NothingBack /\ Unserved /\ server = "loop"
    /\ \/ IsRead("server", RequestBytes(asked, asked), RequestStates(asked))
       \/ /\ wire["server"] = RequestBytes(asked, asked)
          /\ GotBy("server") = Got("done", <<>>, <<>>)

ReplyIsRead(how) ==
    /\ ServerWaits /\ WasOnly(how)
    /\ IsRead("client", AnswerBytes(asked, asked, how), ReplyStates(asked, how))

\* The server says nothing to it.
NoReply ==
    /\ ServerRests /\ ~Was(asked, "ok") /\ ~Was(asked, "error")
    /\ wire["client"] = <<>> /\ (Begun \/ GotBy("client") = Got("done", <<>>, <<>>))

ResultFits ==
    /\ result.ok <=> Was(asked, "ok")
    /\ result.answer = IF Was(asked, "ok") \/ Was(asked, "error") THEN asked ELSE 0
    /\ result.ok /\ asked \in Describes => result.body = Body

\* The client waits, is answered or not, or reads the description.
InTimePhase ==
    /\ m_CSeq["client"] = asked
    /\ client = "idle" => ServerRests /\ NothingBack /\ (asked > 0 => ResultFits)
    /\ client = "wait" =>
           /\ asked > 0
           /\ RequestIsRead \/ (\E how \in {"ok", "error"} : ReplyIsRead(how)) \/ NoReply
    /\ client = "body" =>
           /\ ServerWaits /\ asked \in Describes /\ WasOnly("ok") /\ result.answer = asked
           /\ wire["client"] = Body /\ Begun

\* The inductive invariant of a world in time: one request at a time is read, answered
\* and its answer read, each by one end while the other waits.
InTimeInv == InTime => InTimePhase

\* What a byte makes of what it has.
After(s, b) ==
    IF s.pc = "newline" \/ b = LF
    THEN IF s.str = <<>> THEN Got("done", <<>>, s.lines)
         ELSE Got("char", <<>>, Append(s.lines, s.str))
    ELSE IF b = CR THEN Got("newline", s.str, s.lines)
    ELSE Got("char", Append(s.str, b), s.lines)

\* These are what bytes make of nothing, up to the end of the message.
Follows(bytes, states) ==
    /\ Len(states) \in Nat /\ Len(states) - 1 \in 1..Len(bytes)
    /\ states[1] = NoLine /\ states[Len(states)].pc = "done"
    /\ \A p \in 1..(Len(states) - 1) : states[p + 1] = After(states[p], bytes[p])

(* A byte read makes of what an end has what After says.                    *)
LEMMA ReadsOn ==
    ASSUME TypeOK, NEW e \in End, ReadChar(e) \/ ReadNewline(e)
    PROVE  OnlyReads(e) /\ Receive(e) /\ GotBy(e)' = After(GotBy(e), Head(wire[e]))
<1> DEFINE b == Head(wire[e])
<1>1. CASE ReadChar(e)
  <2>1. /\ OnlyReads(e) /\ Receive(e) /\ reader[e].pc = "char"
        /\ \/ b = LF /\ (Ends(e) \/ Adds(e))
           \/ b = CR /\ Returns(e)
           \/ b \notin {CR, LF} /\ Extends(e, b)
    BY <1>1, ReadCharDoes
  <2>2. CR # LF
    BY DEF CR, LF, Byte
  <2> HIDE DEF b
  <2>3. GotBy(e)' = After(GotBy(e), b)
    BY <2>1, <2>2 DEF GotBy, Got, After, Ends, Adds, Returns, Extends
  <2> QED
    BY <2>1, <2>3 DEF b
<1>2. CASE ReadNewline(e)
  <2>1. OnlyReads(e) /\ Receive(e) /\ reader[e].pc = "newline" /\ (Ends(e) \/ Adds(e))
    BY <1>2, ReadNewlineDoes
  <2> HIDE DEF b
  <2>2. GotBy(e)' = After(GotBy(e), b)
    BY <2>1 DEF GotBy, Got, After, Ends, Adds
  <2> QED
    BY <2>1, <2>2 DEF b
<1> QED
  BY <1>1, <1>2

(* What is left of a list, and what is left behind one element more.        *)
LEMMA RestIs ==
    ASSUME NEW S, NEW m \in Seq(S), NEW n \in 0..Len(m)
    PROVE  /\ Rest(m, n) \in Seq(S) /\ Len(Rest(m, n)) = Len(m) - n
           /\ \A k \in 1..(Len(m) - n) : Rest(m, n)[k] = m[n + k]
<1>1. n + 1 \in Int /\ Len(m) \in Int /\ \A k \in (n + 1)..Len(m) : m[k] \in S
  OBVIOUS
<1>2. /\ SubSeq(m, n + 1, Len(m)) \in Seq(S)
      /\ Len(SubSeq(m, n + 1, Len(m))) = IF n + 1 <= Len(m) THEN Len(m) - (n + 1) + 1 ELSE 0
      /\ \A k \in 1..(Len(m) - (n + 1) + 1) : SubSeq(m, n + 1, Len(m))[k] = m[(n + 1) + k - 1]
  BY <1>1, SubSeqProperties
<1>3. Len(m) - (n + 1) + 1 = Len(m) - n /\ \A k \in Nat : (n + 1) + k - 1 = n + k
  OBVIOUS
<1> DEFINE r == SubSeq(m, n + 1, Len(m))
<1>4. Len(r) = Len(m) - n
  BY <1>1, <1>2
<1>5. ASSUME NEW k \in 1..(Len(m) - n) PROVE r[k] = m[n + k]
  <2>1. k \in Nat /\ k \in 1..(Len(m) - (n + 1) + 1)
    BY <1>3
  <2>2. r[k] = m[(n + 1) + k - 1]
    BY <1>2, <2>1
  <2> QED
    BY <1>3, <2>1, <2>2
<1> QED
  BY <1>2, <1>4, <1>5 DEF Rest

LEMMA RestTail ==
    ASSUME NEW S, NEW m \in Seq(S), NEW p \in 0..(Len(m) - 1)
    PROVE  /\ Rest(m, p) # <<>> /\ Head(Rest(m, p)) = m[p + 1]
           /\ Tail(Rest(m, p)) = Rest(m, p + 1)
<1> DEFINE l == Len(m)
           rest == Rest(m, p)
           next == Rest(m, p + 1)
<1>1. l \in Nat /\ p \in 0..l /\ p + 1 \in 0..l /\ l - p \in Nat \ {0}
      /\ 1 \in 1..(l - p) /\ (l - p) - 1 = l - (p + 1)
  OBVIOUS
<1>2. /\ rest \in Seq(S) /\ Len(rest) = l - p
      /\ \A k \in 1..(l - p) : rest[k] = m[p + k]
  BY <1>1, RestIs
<1>3. /\ next \in Seq(S) /\ Len(next) = l - (p + 1)
      /\ \A k \in 1..(l - (p + 1)) : next[k] = m[(p + 1) + k]
  BY <1>1, RestIs
<1> HIDE DEF l, rest, next
<1>5. rest # <<>> /\ Head(rest) = m[p + 1]
  BY <1>1, <1>2
<1>6. Tail(rest) = next
  <2>1. /\ Tail(rest) \in Seq(S) /\ Len(Tail(rest)) = Len(rest) - 1
        /\ \A k \in 1..(Len(rest) - 1) : Tail(rest)[k] = rest[k + 1]
    BY <1>2, <1>5
  <2>2. Len(Tail(rest)) = Len(next)
    BY <1>1, <1>2, <1>3, <2>1
  <2>3. ASSUME NEW k \in 1..Len(Tail(rest))
        PROVE  Tail(rest)[k] = next[k]
    <3>1. /\ k \in 1..(Len(rest) - 1) /\ k + 1 \in 1..(l - p) /\ k \in 1..(l - (p + 1))
          /\ p + (k + 1) = (p + 1) + k
      BY <1>1, <1>2, <1>3, <2>1
    <3> QED
      BY <1>2, <1>3, <2>1, <3>1
  <2> QED
    BY <1>3, <2>1, <2>2, <2>3, SeqEqual
<1> QED
  BY <1>5, <1>6 DEF rest, next

(* A message in time is read on to its end.                                 *)
LEMMA ReadsMessage ==
    ASSUME TypeOK, InTime, NEW e \in End, ReadStep(e),
           NEW bytes \in Seq(Bytes), NEW states, Follows(bytes, states),
           IsRead(e, bytes, states)
    PROVE  /\ OnlyReads(e) /\ Receive(e)
           /\ \E p \in 0..(Len(states) - 1) :
                  wire'[e] = Rest(bytes, p) /\ GotBy(e)' = states[p + 1]
<1>1. PICK p \in 0..(Len(states) - 1) : wire[e] = Rest(bytes, p) /\ GotBy(e) = states[p + 1]
  BY DEF IsRead
<1>2. /\ Len(states) \in Nat /\ Len(states) - 1 \in 1..Len(bytes)
      /\ states[Len(states)].pc = "done"
  BY DEF Follows
<1>3. GotBy(e).pc = reader[e].pc /\ reader[e].pc # "done"
  BY DEF GotBy, Got, ReadStep, ReadChar, ReadNewline, Timeout
<1>4. p \in 0..(Len(bytes) - 1) /\ p + 1 \in 1..(Len(states) - 1)
      /\ p + 1 \in 0..(Len(states) - 1)
  <2>1. p + 1 # Len(states)
    BY <1>1, <1>2, <1>3
  <2> QED
    BY <1>2, <2>1
<1>5. /\ wire[e] # <<>> /\ Head(wire[e]) = bytes[p + 1]
      /\ Tail(wire[e]) = Rest(bytes, p + 1)
  BY <1>1, <1>4, RestTail
<1>6. ReadChar(e) \/ ReadNewline(e)
  BY <1>5 DEF ReadStep, Timeout, Nothing, InTime
<1>7. OnlyReads(e) /\ Receive(e) /\ GotBy(e)' = After(GotBy(e), Head(wire[e]))
  BY <1>6, ReadsOn
<1>8. wire'[e] = Rest(bytes, p + 1)
  BY <1>5, <1>7 DEF Receive, TypeOK
<1>9. states[(p + 1) + 1] = After(states[p + 1], bytes[p + 1])
  BY <1>4 DEF Follows
<1>10. GotBy(e)' = states[(p + 1) + 1]
  BY <1>1, <1>5, <1>7, <1>9
<1> QED
  BY <1>4, <1>7, <1>8, <1>10

(* The bytes of a text are not those that end a line.                       *)
LEMMA KindsDiffer ==
    ASSUME NEW kind, NEW k, kind \notin {"cr", "lf"}
    PROVE  Byte(kind, k) # CR /\ Byte(kind, k) # LF
BY DEF Byte, CR, LF

(* What a byte does, by what it is and where.                               *)
LEMMA AfterByte ==
    ASSUME NEW b, b # CR, b # LF, NEW str, NEW lines
    PROVE  After(Got("char", str, lines), b) = Got("char", Append(str, b), lines)
BY DEF After, Got

LEMMA AfterCR ==
    ASSUME NEW str, NEW lines
    PROVE  After(Got("char", str, lines), CR) = Got("newline", str, lines)
<1>1. CR # LF
  BY DEF CR, LF, Byte
<1> QED
  BY <1>1 DEF After, Got

LEMMA AfterLine ==
    ASSUME NEW b, NEW str, str # <<>>, NEW lines
    PROVE  After(Got("newline", str, lines), b) = Got("char", <<>>, Append(lines, str))
BY DEF After, Got

LEMMA AfterMessage ==
    ASSUME NEW b, NEW lines
    PROVE  After(Got("newline", <<>>, lines), b) = Got("done", <<>>, lines)
BY DEF After, Got

(* Short lists.                                                             *)
LEMMA Appended ==
    ASSUME NEW a, NEW b, NEW c
    PROVE  /\ Append(<<>>, a) = <<a>> /\ Append(<<a>>, b) = <<a, b>>
           /\ Append(<<a, b>>, c) = <<a, b, c>>
           /\ <<a>> # <<>> /\ <<a, b>> # <<>>
<1>1. Append(<<>>, a) = <<a>>
  OBVIOUS
<1> DEFINE S == {a, b, c}
<1>2. Append(<<a>>, b) = <<a, b>>
  <2>1. <<a>> \in Seq(S) /\ <<a, b>> \in Seq(S) /\ b \in S
    OBVIOUS
  <2> DEFINE x == Append(<<a>>, b)
  <2>2. x \in Seq(S) /\ Len(x) = 2 /\ x[1] = a /\ x[2] = b
    BY <2>1
  <2>3. Len(<<a, b>>) = 2 /\ <<a, b>>[1] = a /\ <<a, b>>[2] = b
    OBVIOUS
  <2> HIDE DEF x, S
  <2>4. \A i \in 1..2 : i = 1 \/ i = 2
    OBVIOUS
  <2> QED
    BY <2>1, <2>2, <2>3, <2>4, SeqEqual DEF x
<1>3. Append(<<a, b>>, c) = <<a, b, c>>
  <2>1. <<a, b>> \in Seq(S) /\ <<a, b, c>> \in Seq(S) /\ c \in S
    OBVIOUS
  <2> DEFINE x == Append(<<a, b>>, c)
  <2>2. x \in Seq(S) /\ Len(x) = 3 /\ x[1] = a /\ x[2] = b /\ x[3] = c
    BY <2>1
  <2>3. Len(<<a, b, c>>) = 3 /\ <<a, b, c>>[1] = a /\ <<a, b, c>>[2] = b /\ <<a, b, c>>[3] = c
    OBVIOUS
  <2> HIDE DEF x, S
  <2>4. \A i \in 1..3 : i = 1 \/ i = 2 \/ i = 3
    OBVIOUS
  <2> QED
    BY <2>1, <2>2, <2>3, <2>4, SeqEqual DEF x
<1>4. <<a>> # <<>> /\ <<a, b>> # <<>>
  OBVIOUS
<1> QED
  BY <1>1, <1>2, <1>3, <1>4

(* Entry p + 1 of a table is what byte p makes of entry p: here a request.  *)
LEMMA RequestFollows ==
    ASSUME NEW k
    PROVE  /\ Follows(RequestBytes(k, k), RequestStates(k))
           /\ Len(RequestStates(k)) = 10
           /\ RequestStates(k)[10] =
                Got("done", <<>>, << <<Byte("method", k), Byte("url", k)>>, <<Byte("cseq", k)>> >>)
<1> DEFINE m == Byte("method", k)
           u == Byte("url", k)
           n == Byte("cseq", k)
           b == RequestBytes(k, k)
           s == RequestStates(k)
<1>1. /\ m # CR /\ m # LF /\ u # CR /\ u # LF /\ n # CR /\ n # LF /\ CR # LF
  BY KindsDiffer DEF CR, LF, Byte
<1>2. b = <<m, u, CR, LF, n, CR, LF, CR, LF>>
  BY DEF RequestBytes
<1>3. s = <<NoLine, Got("char", <<m>>, <<>>), Got("char", <<m, u>>, <<>>),
            Got("newline", <<m, u>>, <<>>),
            Got("char", <<>>, << <<m, u>> >>), Got("char", <<n>>, << <<m, u>> >>),
            Got("newline", <<n>>, << <<m, u>> >>), Got("char", <<>>, << <<m, u>>, <<n>> >>),
            Got("newline", <<>>, << <<m, u>>, <<n>> >>), Got("done", <<>>, << <<m, u>>, <<n>> >>)>>
  BY DEF RequestStates
<1> HIDE DEF m, u, n, b, s
<1>4. Len(b) = 9 /\ Len(s) = 10 /\ s[1] = NoLine /\ s[10] = Got("done", <<>>, << <<m, u>>, <<n>> >>)
  BY <1>2, <1>3
<1> DEFINE l == <<m, u>>
           w == <<n>>
<1>5. /\ Append(<<>>, m) = <<m>> /\ Append(<<m>>, u) = l /\ Append(<<>>, n) = w
      /\ Append(<<>>, l) = <<l>> /\ Append(<<l>>, w) = <<l, w>> /\ l # <<>> /\ w # <<>>
  BY Appended
<1>6. /\ s[1] = Got("char", <<>>, <<>>) /\ b[1] = m
      /\ s[2] = Got("char", <<m>>, <<>>) /\ b[2] = u
      /\ s[3] = Got("char", l, <<>>) /\ b[3] = CR
      /\ s[4] = Got("newline", l, <<>>) /\ b[4] = LF
      /\ s[5] = Got("char", <<>>, <<l>>) /\ b[5] = n
      /\ s[6] = Got("char", w, <<l>>) /\ b[6] = CR
      /\ s[7] = Got("newline", w, <<l>>) /\ b[7] = LF
      /\ s[8] = Got("char", <<>>, <<l, w>>) /\ b[8] = CR
      /\ s[9] = Got("newline", <<>>, <<l, w>>) /\ b[9] = LF
      /\ s[10] = Got("done", <<>>, <<l, w>>)
  BY <1>2, <1>3 DEF NoLine
<1> HIDE DEF l, w
<1>7. /\ s[2] = After(s[1], b[1]) /\ s[3] = After(s[2], b[2]) /\ s[4] = After(s[3], b[3])
      /\ s[5] = After(s[4], b[4]) /\ s[6] = After(s[5], b[5]) /\ s[7] = After(s[6], b[6])
      /\ s[8] = After(s[7], b[7]) /\ s[9] = After(s[8], b[8]) /\ s[10] = After(s[9], b[9])
  <2>1. s[2] = After(s[1], b[1])
    <3>1. After(Got("char", <<>>, <<>>), m) = Got("char", Append(<<>>, m), <<>>)
      BY <1>1, AfterByte, Zenon
    <3> QED
      BY <1>5, <1>6, <3>1, Zenon
  <2>2. s[3] = After(s[2], b[2])
    <3>1. After(Got("char", <<m>>, <<>>), u) = Got("char", Append(<<m>>, u), <<>>)
      BY <1>1, AfterByte, Zenon
    <3> QED
      BY <1>5, <1>6, <3>1, Zenon
  <2>3. s[4] = After(s[3], b[3])
    BY <1>6, AfterCR
  <2>4. s[5] = After(s[4], b[4])
    <3>1. After(Got("newline", l, <<>>), LF) = Got("char", <<>>, Append(<<>>, l))
      <4>1. l # <<>>
        BY <1>5
      <4> QED
        BY <4>1, AfterLine
    <3> QED
      BY <1>5, <1>6, <3>1, Zenon
  <2>5. s[6] = After(s[5], b[5])
    <3>1. After(Got("char", <<>>, <<l>>), n) = Got("char", Append(<<>>, n), <<l>>)
      BY <1>1, AfterByte, Zenon
    <3> QED
      BY <1>5, <1>6, <3>1, Zenon
  <2>6. s[7] = After(s[6], b[6])
    BY <1>6, AfterCR
  <2>7. s[8] = After(s[7], b[7])
    <3>1. After(Got("newline", w, <<l>>), LF) = Got("char", <<>>, Append(<<l>>, w))
      <4>1. w # <<>>
        BY <1>5
      <4> QED
        BY <4>1, AfterLine
    <3> QED
      BY <1>5, <1>6, <3>1, Zenon
  <2>8. s[9] = After(s[8], b[8])
    BY <1>6, AfterCR
  <2>9. s[10] = After(s[9], b[9])
    BY <1>6, AfterMessage
  <2> QED
    BY <2>1, <2>2, <2>3, <2>4, <2>5, <2>6, <2>7, <2>8, <2>9
<1>10. ASSUME NEW p \in 1..9 PROVE s[p + 1] = After(s[p], b[p])
  <2>1. p = 1 \/ p = 2 \/ p = 3 \/ p = 4 \/ p = 5 \/ p = 6 \/ p = 7 \/ p = 8 \/ p = 9
    OBVIOUS
  <2> QED
    BY <1>7, <2>1
<1>11. Follows(b, s)
  <2>1. s[10].pc = "done"
    BY <1>4 DEF Got
  <2> QED
    BY <1>4, <1>10, <2>1 DEF Follows
<1> QED
  BY <1>4, <1>11 DEF b, s, m, u, n

(* The bytes of a reply, by number.                                         *)
LEMMA ReplyIs ==
    ASSUME NEW k, NEW how \in {"ok", "error"}
    PROVE  LET b == AnswerBytes(k, k, how)
           IN /\ b[1] = Byte(how, k) /\ b[2] = CR /\ b[3] = LF
              /\ b[4] = Byte("cseq", k) /\ b[5] = CR /\ b[6] = LF
              /\ ~Brings(k, how) =>
                     Len(b) = 8 /\ b[7] = CR /\ b[8] = LF /\ Rest(b, 7 + 1) = <<>>
              /\ Brings(k, how) =>
                     /\ Len(b) = 14 /\ b[7] = Byte("length", k) /\ b[8] = CR /\ b[9] = LF
                     /\ b[10] = CR /\ b[11] = LF /\ Rest(b, 10 + 1) = Body
<1> DEFINE b == AnswerBytes(k, k, how)
           x == <<Byte(how, k), CR, LF, Byte("cseq", k), CR, LF>>
           d == <<Byte("length", k), CR, LF, CR, LF>>
           S == {Byte(how, k), Byte("cseq", k), Byte("length", k), Byte("body", 1), CR, LF}
<1>1. /\ x \in Seq(S) /\ Len(x) = 6 /\ x[1] = Byte(how, k) /\ x[2] = CR /\ x[3] = LF
      /\ x[4] = Byte("cseq", k) /\ x[5] = CR /\ x[6] = LF
  OBVIOUS
<1>2. /\ <<CR, LF>> \in Seq(S) /\ Len(<<CR, LF>>) = 2 /\ <<CR, LF>>[1] = CR /\ <<CR, LF>>[2] = LF
  OBVIOUS
<1>3. /\ d \in Seq(S) /\ Len(d) = 5 /\ d[1] = Byte("length", k) /\ d[2] = CR /\ d[3] = LF
      /\ d[4] = CR /\ d[5] = LF
  OBVIOUS
<1>4. Body \in Seq(S) /\ Len(Body) = 3
  BY DEF Body
<1>5. b = x \o (IF Brings(k, how) THEN d \o Body ELSE <<CR, LF>>)
  BY DEF AnswerBytes, Brings
<1> HIDE DEF b, x, d, S
<1>6. CASE ~Brings(k, how)
  <2> DEFINE y == <<CR, LF>>
  <2>1. b = x \o y
    BY <1>5, <1>6
  <2>2. y \in Seq(S) /\ Len(y) = 2 /\ y[1] = CR /\ y[2] = LF
    BY <1>2
  <2> HIDE DEF y
  <2>3. EndToEnd(b, x, y)
    BY <1>1, <2>1, <2>2, JoinedEndToEnd
  <2>4. Len(b) = 8
    BY <1>1, <2>2, <2>3 DEF EndToEnd
  <2>5. /\ b[1] = x[1] /\ b[2] = x[2] /\ b[3] = x[3] /\ b[4] = x[4] /\ b[5] = x[5] /\ b[6] = x[6]
    BY <1>1, <2>3 DEF EndToEnd
  <2>6. b[6 + 1] = y[1] /\ b[6 + 2] = y[2]
    BY <1>1, <2>2, <2>3 DEF EndToEnd
  <2>7. b \in Seq(S) /\ 7 + 1 \in 0..Len(b) /\ Len(b) - (7 + 1) = 0
    BY <1>1, <2>1, <2>2, <2>4
  <2>8. Rest(b, 7 + 1) \in Seq(S) /\ Len(Rest(b, 7 + 1)) = 0
    BY <2>7, RestIs
  <2>9. Rest(b, 7 + 1) = <<>>
    BY <2>8
  <2> QED
    BY <1>1, <1>6, <2>2, <2>4, <2>5, <2>6, <2>9 DEF b
<1>7. CASE Brings(k, how)
  <2> DEFINE y == d \o Body
  <2>1. b = x \o y
    BY <1>5, <1>7
  <2>2. y \in Seq(S) /\ EndToEnd(y, d, Body)
    BY <1>3, <1>4, JoinedEndToEnd
  <2> HIDE DEF y
  <2>3. EndToEnd(b, x, y)
    BY <1>1, <2>1, <2>2, JoinedEndToEnd
  <2>4. Len(y) = 8 /\ Len(b) = 14
    BY <1>1, <1>3, <1>4, <2>2, <2>3 DEF EndToEnd
  <2>5. /\ b[1] = x[1] /\ b[2] = x[2] /\ b[3] = x[3] /\ b[4] = x[4] /\ b[5] = x[5] /\ b[6] = x[6]
    BY <1>1, <2>3 DEF EndToEnd
  <2>6. /\ b[6 + 1] = y[1] /\ b[6 + 2] = y[2] /\ b[6 + 3] = y[3] /\ b[6 + 4] = y[4]
        /\ b[6 + 5] = y[5] /\ b[6 + 6] = y[6] /\ b[6 + 7] = y[7] /\ b[6 + 8] = y[8]
    BY <1>1, <2>3, <2>4 DEF EndToEnd
  <2>7. /\ y[1] = d[1] /\ y[2] = d[2] /\ y[3] = d[3] /\ y[4] = d[4] /\ y[5] = d[5]
        /\ y[5 + 1] = Body[1] /\ y[5 + 2] = Body[2] /\ y[5 + 3] = Body[3]
    BY <1>3, <1>4, <2>2 DEF EndToEnd
  <2>8. b \in Seq(S) /\ 10 + 1 \in 0..Len(b) /\ Len(b) - (10 + 1) = 3
    BY <1>1, <2>1, <2>2, <2>4
  <2> DEFINE r == Rest(b, 10 + 1)
  <2>9. r \in Seq(S) /\ Len(r) = 3 /\ \A j \in 1..3 : r[j] = b[(10 + 1) + j]
    BY <2>8, RestIs
  <2> HIDE DEF r
  <2>10. r[1] = Body[1] /\ r[2] = Body[2] /\ r[3] = Body[3]
    BY <2>6, <2>7, <2>9
  <2>11. r = Body
    <3>1. \A j \in 1..Len(r) : j = 1 \/ j = 2 \/ j = 3
      BY <2>9
    <3> QED
      BY <1>4, <2>9, <2>10, <3>1, SeqEqual
  <2> QED
    BY <1>1, <1>3, <1>7, <2>4, <2>5, <2>6, <2>7, <2>11 DEF b, r
<1> QED
  BY <1>6, <1>7

(* The same of a reply, with and without a description.                     *)
LEMMA ReplyFollows ==
    ASSUME NEW k, NEW how \in {"ok", "error"}
    PROVE  /\ Follows(AnswerBytes(k, k, how), ReplyStates(k, how))
           /\ ~Brings(k, how) =>
                  /\ Len(ReplyStates(k, how)) = 9
                  /\ ReplyStates(k, how)[9] =
                        Got("done", <<>>, << <<Byte(how, k)>>, <<Byte("cseq", k)>> >>)
           /\ Brings(k, how) =>
                  /\ Len(ReplyStates(k, how)) = 12
                  /\ ReplyStates(k, how)[12] =
                        Got("done", <<>>,
                            << <<Byte(how, k)>>, <<Byte("cseq", k)>>, <<Byte("length", k)>> >>)
<1> DEFINE a == Byte(how, k)
           n == Byte("cseq", k)
           g == Byte("length", k)
           x == <<a>>
           w == <<n>>
           v == <<g>>
           b == AnswerBytes(k, k, how)
           s == ReplyStates(k, how)
<1>2. /\ b[1] = a /\ b[2] = CR /\ b[3] = LF /\ b[4] = n /\ b[5] = CR /\ b[6] = LF
      /\ ~Brings(k, how) => Len(b) = 8 /\ b[7] = CR /\ b[8] = LF
      /\ Brings(k, how) =>
             Len(b) = 14 /\ b[7] = g /\ b[8] = CR /\ b[9] = LF /\ b[10] = CR /\ b[11] = LF
  BY ReplyIs
<1>3. a # CR /\ a # LF /\ n # CR /\ n # LF /\ g # CR /\ g # LF
  BY KindsDiffer
<1>4. /\ Append(<<>>, a) = x /\ Append(<<>>, n) = w /\ Append(<<>>, g) = v
      /\ Append(<<>>, x) = <<x>> /\ Append(<<x>>, w) = <<x, w>>
      /\ Append(<<x, w>>, v) = <<x, w, v>> /\ x # <<>> /\ w # <<>> /\ v # <<>>
  BY Appended
<1> HIDE DEF a, n, g, b, s, x, w, v
<1>5. CASE ~Brings(k, how)
  <2>1. s = <<Got("char", <<>>, <<>>),
              Got("char", x, <<>>),
              Got("newline", x, <<>>),
              Got("char", <<>>, <<x>>),
              Got("char", w, <<x>>),
              Got("newline", w, <<x>>),
              Got("char", <<>>, <<x, w>>),
              Got("newline", <<>>, <<x, w>>),
              Got("done", <<>>, <<x, w>>)>>
    BY <1>5, Zenon DEF s, ReplyStates, NoLine, x, w, v, a, n, g
  <2>2. /\ s[1] = Got("char", <<>>, <<>>) /\ b[1] = a
        /\ s[2] = Got("char", x, <<>>) /\ b[2] = CR
        /\ s[3] = Got("newline", x, <<>>) /\ b[3] = LF
        /\ s[4] = Got("char", <<>>, <<x>>) /\ b[4] = n
        /\ s[5] = Got("char", w, <<x>>) /\ b[5] = CR
        /\ s[6] = Got("newline", w, <<x>>) /\ b[6] = LF
        /\ s[7] = Got("char", <<>>, <<x, w>>) /\ b[7] = CR
        /\ s[8] = Got("newline", <<>>, <<x, w>>) /\ b[8] = LF
        /\ s[9] = Got("done", <<>>, <<x, w>>)
    BY <1>2, <1>5, <2>1
  <2>3. Len(s) = 9 /\ Len(b) = 8
    BY <1>2, <1>5, <2>1
  <2>4. s[2] = After(s[1], b[1])
    <3>1. After(Got("char", <<>>, <<>>), a) = Got("char", Append(<<>>, a), <<>>)
      BY <1>3, AfterByte, Zenon
    <3> QED
      BY <1>4, <2>2, <3>1, Zenon
  <2>5. s[3] = After(s[2], b[2])
    BY <2>2, AfterCR
  <2>6. s[4] = After(s[3], b[3])
    <3>1. After(Got("newline", x, <<>>), LF) = Got("char", <<>>, Append(<<>>, x))
      <4>1. x # <<>>
        BY <1>4
      <4> QED
        BY <4>1, AfterLine
    <3> QED
      BY <1>4, <2>2, <3>1, Zenon
  <2>7. s[5] = After(s[4], b[4])
    <3>1. After(Got("char", <<>>, <<x>>), n) = Got("char", Append(<<>>, n), <<x>>)
      BY <1>3, AfterByte, Zenon
    <3> QED
      BY <1>4, <2>2, <3>1, Zenon
  <2>8. s[6] = After(s[5], b[5])
    BY <2>2, AfterCR
  <2>9. s[7] = After(s[6], b[6])
    <3>1. After(Got("newline", w, <<x>>), LF) = Got("char", <<>>, Append(<<x>>, w))
      <4>1. w # <<>>
        BY <1>4
      <4> QED
        BY <4>1, AfterLine
    <3> QED
      BY <1>4, <2>2, <3>1, Zenon
  <2>10. s[8] = After(s[7], b[7])
    BY <2>2, AfterCR
  <2>11. s[9] = After(s[8], b[8])
    BY <2>2, AfterMessage
  <2>12. ASSUME NEW p \in 1..8 PROVE s[p + 1] = After(s[p], b[p])
    <3>1. \/ p = 1 \/ p = 2 \/ p = 3 \/ p = 4 \/ p = 5 \/ p = 6
          \/ p = 7 \/ p = 8
      OBVIOUS
    <3> QED
      BY <3>1, <2>4, <2>5, <2>6, <2>7, <2>8, <2>9, <2>10, <2>11
  <2>13. s[1] = NoLine /\ s[9].pc = "done"
    BY <2>2 DEF NoLine, Got
  <2>14. Follows(b, s)
    BY <2>3, <2>12, <2>13 DEF Follows
  <2> QED
    BY <1>5, <2>2, <2>3, <2>14 DEF b, s, x, w, v, a, n, g
<1>6. CASE Brings(k, how)
  <2>1. s = <<Got("char", <<>>, <<>>),
              Got("char", x, <<>>),
              Got("newline", x, <<>>),
              Got("char", <<>>, <<x>>),
              Got("char", w, <<x>>),
              Got("newline", w, <<x>>),
              Got("char", <<>>, <<x, w>>),
              Got("char", v, <<x, w>>),
              Got("newline", v, <<x, w>>),
              Got("char", <<>>, <<x, w, v>>),
              Got("newline", <<>>, <<x, w, v>>),
              Got("done", <<>>, <<x, w, v>>)>>
    BY <1>6, Zenon DEF s, ReplyStates, NoLine, x, w, v, a, n, g
  <2>2. /\ s[1] = Got("char", <<>>, <<>>) /\ b[1] = a
        /\ s[2] = Got("char", x, <<>>) /\ b[2] = CR
        /\ s[3] = Got("newline", x, <<>>) /\ b[3] = LF
        /\ s[4] = Got("char", <<>>, <<x>>) /\ b[4] = n
        /\ s[5] = Got("char", w, <<x>>) /\ b[5] = CR
        /\ s[6] = Got("newline", w, <<x>>) /\ b[6] = LF
        /\ s[7] = Got("char", <<>>, <<x, w>>) /\ b[7] = g
        /\ s[8] = Got("char", v, <<x, w>>) /\ b[8] = CR
        /\ s[9] = Got("newline", v, <<x, w>>) /\ b[9] = LF
        /\ s[10] = Got("char", <<>>, <<x, w, v>>) /\ b[10] = CR
        /\ s[11] = Got("newline", <<>>, <<x, w, v>>) /\ b[11] = LF
        /\ s[12] = Got("done", <<>>, <<x, w, v>>)
    BY <1>2, <1>6, <2>1
  <2>3. Len(s) = 12 /\ Len(b) = 14
    BY <1>2, <1>6, <2>1
  <2>4. s[2] = After(s[1], b[1])
    <3>1. After(Got("char", <<>>, <<>>), a) = Got("char", Append(<<>>, a), <<>>)
      BY <1>3, AfterByte, Zenon
    <3> QED
      BY <1>4, <2>2, <3>1, Zenon
  <2>5. s[3] = After(s[2], b[2])
    BY <2>2, AfterCR
  <2>6. s[4] = After(s[3], b[3])
    <3>1. After(Got("newline", x, <<>>), LF) = Got("char", <<>>, Append(<<>>, x))
      <4>1. x # <<>>
        BY <1>4
      <4> QED
        BY <4>1, AfterLine
    <3> QED
      BY <1>4, <2>2, <3>1, Zenon
  <2>7. s[5] = After(s[4], b[4])
    <3>1. After(Got("char", <<>>, <<x>>), n) = Got("char", Append(<<>>, n), <<x>>)
      BY <1>3, AfterByte, Zenon
    <3> QED
      BY <1>4, <2>2, <3>1, Zenon
  <2>8. s[6] = After(s[5], b[5])
    BY <2>2, AfterCR
  <2>9. s[7] = After(s[6], b[6])
    <3>1. After(Got("newline", w, <<x>>), LF) = Got("char", <<>>, Append(<<x>>, w))
      <4>1. w # <<>>
        BY <1>4
      <4> QED
        BY <4>1, AfterLine
    <3> QED
      BY <1>4, <2>2, <3>1, Zenon
  <2>10. s[8] = After(s[7], b[7])
    <3>1. After(Got("char", <<>>, <<x, w>>), g) = Got("char", Append(<<>>, g), <<x, w>>)
      BY <1>3, AfterByte, Zenon
    <3> QED
      BY <1>4, <2>2, <3>1, Zenon
  <2>11. s[9] = After(s[8], b[8])
    BY <2>2, AfterCR
  <2>12. s[10] = After(s[9], b[9])
    <3>1. After(Got("newline", v, <<x, w>>), LF) = Got("char", <<>>, Append(<<x, w>>, v))
      <4>1. v # <<>>
        BY <1>4
      <4> QED
        BY <4>1, AfterLine
    <3> QED
      BY <1>4, <2>2, <3>1, Zenon
  <2>13. s[11] = After(s[10], b[10])
    BY <2>2, AfterCR
  <2>14. s[12] = After(s[11], b[11])
    BY <2>2, AfterMessage
  <2>15. ASSUME NEW p \in 1..11 PROVE s[p + 1] = After(s[p], b[p])
    <3>1. \/ p = 1 \/ p = 2 \/ p = 3 \/ p = 4 \/ p = 5 \/ p = 6
          \/ p = 7 \/ p = 8 \/ p = 9 \/ p = 10 \/ p = 11
      OBVIOUS
    <3> QED
      BY <3>1, <2>4, <2>5, <2>6, <2>7, <2>8, <2>9, <2>10, <2>11, <2>12, <2>13, <2>14
  <2>16. s[1] = NoLine /\ s[12].pc = "done"
    BY <2>2 DEF NoLine, Got
  <2>17. Follows(b, s)
    BY <2>3, <2>15, <2>16 DEF Follows
  <2> QED
    BY <1>6, <2>2, <2>3, <2>17 DEF b, s, x, w, v, a, n, g
<1> QED
  BY <1>5, <1>6

(* What is found in the lines of a request and of a reply.                  *)
LEMMA OneWith ==
    ASSUME NEW lines, NEW kind, NEW k, With(lines, kind) = {k}
    PROVE  Min(With(lines, kind)) = k /\ Max(With(lines, kind)) = k
<1>1. Min({k}) = k
  BY DEF Min
<1>2. Max({k}) = k
  BY DEF Max
<1> QED
  BY <1>1, <1>2

LEMMA RequestSays ==
    ASSUME NEW k
    PROVE  LET lines == << <<Byte("method", k), Byte("url", k)>>, <<Byte("cseq", k)>> >>
           IN /\ 1 \in With(lines, "method") /\ NumberIn(lines[1], "method") = k
              /\ CSeqOf(lines) = k
<1> DEFINE l == <<Byte("method", k), Byte("url", k)>>
           n == <<Byte("cseq", k)>>
           lines == <<l, n>>
<1>1. /\ l[1].kind = "method" /\ l[1].n = k /\ l[2].kind = "url" /\ DOMAIN l = {1, 2}
      /\ n[1].kind = "cseq" /\ n[1].n = k /\ DOMAIN n = {1}
  BY DEF Byte
<1> HIDE DEF l, n
<1>2. DOMAIN lines = {1, 2} /\ lines[1] = l /\ lines[2] = n
  OBVIOUS
<1> HIDE DEF lines
<1>3. 1 \in With(lines, "method") /\ With(lines, "cseq") = {2}
  BY <1>1, <1>2 DEF With
<1>4. NumberIn(l, "method") = k
  <2>1. \A j \in DOMAIN l : l[j].kind = "method" <=> j = 1
    BY <1>1
  <2>2. (CHOOSE j \in DOMAIN l : l[j].kind = "method") = 1
    BY <1>1, <2>1
  <2> QED
    BY <1>1, <2>2 DEF NumberIn
<1>5. NumberIn(n, "cseq") = k
  BY <1>1 DEF NumberIn
<1>6. Min(With(lines, "cseq")) = 2
  BY <1>3, OneWith
<1>7. CSeqOf(lines) = k
  BY <1>2, <1>3, <1>5, <1>6 DEF CSeqOf
<1> QED
  BY <1>2, <1>3, <1>4, <1>7 DEF lines, l, n

LEMMA ReplySays ==
    ASSUME NEW k, NEW how \in {"ok", "error"}, NEW lines,
           \/ lines = << <<Byte(how, k)>>, <<Byte("cseq", k)>> >>
           \/ lines = << <<Byte(how, k)>>, <<Byte("cseq", k)>>, <<Byte("length", k)>> >>
    PROVE  /\ Said(lines, how) = k
           /\ 1 \in With(lines, "ok") <=> how = "ok"
           /\ With(lines, "cseq") = {2} /\ NumberIn(lines[2], "cseq") = k
           /\ Max(With(lines, "cseq")) = 2
           /\ lines = << <<Byte(how, k)>>, <<Byte("cseq", k)>>, <<Byte("length", k)>> >> =>
                  With(lines, "length") # {}
<1> DEFINE a == <<Byte(how, k)>>
           n == <<Byte("cseq", k)>>
           g == <<Byte("length", k)>>
<1>1. /\ a[1].kind = how /\ a[1].n = k /\ DOMAIN a = {1}
      /\ n[1].kind = "cseq" /\ n[1].n = k /\ DOMAIN n = {1}
      /\ g[1].kind = "length" /\ DOMAIN g = {1}
  BY DEF Byte
<1>2. lines = <<a, n>> \/ lines = <<a, n, g>>
  OBVIOUS
<1> HIDE DEF a, n, g
<1>3. /\ lines[1] = a /\ lines[2] = n
      /\ DOMAIN lines = {1, 2} \/ (DOMAIN lines = {1, 2, 3} /\ lines[3] = g)
      /\ lines = <<a, n, g>> => DOMAIN lines = {1, 2, 3} /\ lines[3] = g
  BY <1>2
<1>4. /\ 1 \in With(lines, how) /\ With(lines, "cseq") = {2}
      /\ 1 \in With(lines, "ok") <=> how = "ok"
  BY <1>1, <1>3 DEF With
<1>5. lines = <<a, n, g>> => With(lines, "length") # {}
  <2>1. lines = <<a, n, g>> => 3 \in With(lines, "length")
    BY <1>1, <1>3 DEF With
  <2> QED
    BY <2>1
<1>6. NumberIn(a, how) = k /\ NumberIn(n, "cseq") = k
  BY <1>1 DEF NumberIn
<1>7. Max(With(lines, "cseq")) = 2
  BY <1>4, OneWith
<1> QED
  BY <1>3, <1>4, <1>5, <1>6, <1>7 DEF a, n, g, Said

(* The server gives up a read of nothing.                                   *)
LEMMA WaitingServer ==
    ASSUME TypeOK, ServerWaits, ReadStep("server")
    PROVE  ServerWaits' /\ OnlyReads("server") /\ wire' = wire
<1>1. "server" \in End /\ reader["server"].str = <<>>
  BY DEF End, ServerWaits, GotBy, Got, NoLine
<1>2. Timeout("server") /\ reader["server"].pc # "done"
  BY DEF ReadStep, ReadChar, ReadNewline, Receive, ServerWaits, Timeout
<1>3. /\ OnlyReads("server") /\ wire' = wire
      /\ \/ reader["server"].pc = "char" /\ reader["server"].c = CR /\ Returns("server")
         \/ reader["server"].pc = "char" /\ reader["server"].c # CR
            /\ (Ends("server") \/ Adds("server"))
         \/ reader["server"].pc = "newline" /\ (Ends("server") \/ Adds("server"))
  BY <1>1, <1>2, TimeoutDoes
<1>4. reader["server"].pc = "char" /\ reader["server"].lines = <<>> /\ reader["server"].c # CR
  BY <1>2 DEF ServerWaits, GotBy, Got, NoLine
<1>5. Ends("server")
  BY <1>1, <1>3, <1>4 DEF Adds
<1>6. GotBy("server")' = Got("done", <<>>, <<>>) /\ reader'["server"].pc = "done"
  BY <1>4, <1>5 DEF Ends, GotBy
<1> QED
  BY <1>3, <1>6 DEF ServerWaits

(* An end that begins a message begins it in time.                          *)
LEMMA BeginsInTime ==
    ASSUME TypeOK, InTime, NEW e \in End, Fresh(e)
    PROVE  /\ GotBy(e)' = NoLine /\ reader'[e].c # CR /\ reader'[e].pc = "char"
           /\ \A d \in End \ {e} : reader'[d] = reader[d]
<1>1. PICK c \in world.garbage : reader' = [reader EXCEPT ![e] = Line(c, <<>>)]
  BY DEF Fresh
<1>2. reader'[e] = Line(c, <<>>) /\ \A d \in End \ {e} : reader'[d] = reader[d]
  BY <1>1 DEF TypeOK
<1>3. c # CR
  BY DEF InTime
<1> QED
  BY <1>2, <1>3 DEF Line, GotBy, NoLine

(* Nothing is left of a message, or all of it.                              *)
LEMMA RestOfAll ==
    ASSUME NEW S, NEW m \in Seq(S)
    PROVE  Rest(m, 0) = m
<1>1. 0 \in 0..Len(m) /\ Len(m) - 0 = Len(m) /\ \A k \in 1..Len(m) : 0 + k = k
  OBVIOUS
<1>2. /\ Rest(m, 0) \in Seq(S) /\ Len(Rest(m, 0)) = Len(m) - 0
      /\ \A k \in 1..(Len(m) - 0) : Rest(m, 0)[k] = m[0 + k]
  BY <1>1, RestIs
<1> DEFINE r == Rest(m, 0)
<1> HIDE DEF r
<1>3. r \in Seq(S) /\ Len(r) = Len(m)
  BY <1>1, <1>2 DEF r
<1>4. \A k \in 1..Len(r) : r[k] = m[k]
  BY <1>1, <1>2, <1>3 DEF r
<1> QED
  BY <1>3, <1>4, SeqEqual DEF r

(* Requests and replies are of bytes.                                     *)
LEMMA MessagesAreBytes ==
    ASSUME NEW k \in 1..MaxAsks
    PROVE  /\ RequestBytes(k, k) \in Seq(Bytes)
           /\ \A how \in {"ok", "error"} : AnswerBytes(k, k, how) \in Seq(Bytes)
<1>1. /\ Byte("method", k) \in Bytes /\ Byte("url", k) \in Bytes /\ Byte("cseq", k) \in Bytes
      /\ Byte("ok", k) \in Bytes /\ Byte("error", k) \in Bytes /\ Byte("length", k) \in Bytes
      /\ Byte("body", 1) \in Bytes /\ CR \in Bytes /\ LF \in Bytes
  <2>1. 0 \in 0..MaxAsks /\ 1 \in 0..MaxAsks /\ k \in 0..MaxAsks
    BY ExchangeAssumption DEF ExchangeAssumption
  <2> QED
    BY <2>1 DEF Byte, CR, LF, Bytes
<1>2. RequestBytes(k, k) \in Seq(Bytes)
  BY <1>1 DEF RequestBytes
<1>3. ASSUME NEW how \in {"ok", "error"} PROVE AnswerBytes(k, k, how) \in Seq(Bytes)
  <2> HIDE DEF CR, LF, Byte, Bytes
  <2>1. /\ <<Byte(how, k), CR, LF, Byte("cseq", k), CR, LF>> \in Seq(Bytes)
        /\ <<Byte("length", k), CR, LF, CR, LF>> \in Seq(Bytes)
        /\ Body \in Seq(Bytes) /\ <<CR, LF>> \in Seq(Bytes)
    BY <1>1 DEF Body
  <2>2. <<Byte("length", k), CR, LF, CR, LF>> \o Body \in Seq(Bytes)
    BY <2>1
  <2> QED
    BY <2>1, <2>2 DEF AnswerBytes
<1> QED
  BY <1>2, <1>3

(* What the server does while it has no request changes nothing of the rest.*)
LEMMA PhaseKept ==
    ASSUME InTimePhase, ServerWaits => ServerWaits', ServerRests => ServerRests',
           wire'["client"] = wire["client"], reader'["client"] = reader["client"],
           m_CSeq'["client"] = m_CSeq["client"],
           UNCHANGED <<client, asked, result, served>>, ~(client = "wait" /\ RequestIsRead)
    PROVE  InTimePhase'
<1>1. GotBy("client")' = GotBy("client")
  BY DEF GotBy
<1>2. Begun => Begun'
  BY <1>1 DEF Begun
<1>3. NothingBack => NothingBack'
  BY <1>2 DEF NothingBack
<1>5. ASSUME NEW how, WasOnly(how) PROVE WasOnly(how)'
  BY <1>5 DEF WasOnly, Was
<1>6. ASSUME NEW how \in {"ok", "error"}, ReplyIsRead(how) PROVE ReplyIsRead(how)'
  <2>1. WasOnly(how)'
    BY <1>5, <1>6 DEF ReplyIsRead
  <2>2. IsRead("client", AnswerBytes(asked, asked, how), ReplyStates(asked, how))'
    BY <1>1, <1>6 DEF ReplyIsRead, IsRead
  <2> QED
    BY <1>6, <2>1, <2>2 DEF ReplyIsRead
<1>7. NoReply => NoReply'
  BY <1>1, <1>2 DEF NoReply, Was
<1>8. ResultFits => ResultFits'
  BY DEF ResultFits, Was
<1>9. WasOnly("ok") => WasOnly("ok")'
  BY <1>5
<1>10. CASE client = "idle"
  BY <1>3, <1>8, <1>10 DEF InTimePhase
<1>11. CASE client = "wait"
  BY <1>6, <1>7, <1>11 DEF InTimePhase
<1>12. CASE client = "body"
  BY <1>2, <1>9, <1>12 DEF InTimePhase
<1>13. CASE client \notin {"idle", "wait", "body"}
  BY <1>13 DEF InTimePhase
<1> QED
  BY <1>10, <1>11, <1>12, <1>13

(* A server in its loop reads the request or waits.                         *)
LEMMA RequestOrWait ==
    ASSUME TypeOK, InTimePhase, server = "loop"
    PROVE  \/ client = "wait" /\ RequestIsRead
           \/ ~(client = "wait" /\ RequestIsRead) /\ ServerWaits
BY DEF InTimePhase, TypeOK, ReplyIsRead, NoReply, ServerRests

(* A request is one of those that may be made.                              *)
LEMMA AskedIs ==
    ASSUME TypeOK, asked > 0
    PROVE  asked \in 1..MaxAsks
BY ExchangeAssumption DEF TypeOK, ExchangeAssumption

(* The server reads.                                                        *)
LEMMA ServerReadsInTime ==
    ASSUME TypeOK, InTime, InTimePhase, ReadStep("server")
    PROVE  InTimePhase'
<1> server = "loop"
  BY DEF ReadStep, ReadChar, ReadNewline, Timeout, Reading
<1>1. CASE ~(client = "wait" /\ RequestIsRead) /\ ServerWaits
  <2>1. ServerWaits' /\ OnlyReads("server") /\ wire' = wire
    BY <1>1, WaitingServer
  <2>2. reader'["client"] = reader["client"]
    BY <2>1 DEF OnlyReads, End
  <2>3. UNCHANGED <<m_CSeq, client, asked, result, served>> /\ ServerRests'
    BY <2>1 DEF OnlyReads, ServerRests
  <2> QED
    BY <1>1, <2>1, <2>2, <2>3, PhaseKept
<1>2. CASE client = "wait" /\ RequestIsRead
  <2>1. asked \in 1..MaxAsks /\ "server" \in End /\ NothingBack /\ asked > 0
    BY <1>2, AskedIs DEF InTimePhase, End, RequestIsRead
  <2>2. PICK k : k = asked
    OBVIOUS
  <2>3. RequestBytes(k, k) \in Seq(Bytes) /\ Follows(RequestBytes(k, k), RequestStates(k))
    BY <2>1, <2>2, MessagesAreBytes, RequestFollows
  <2>4. IsRead("server", RequestBytes(k, k), RequestStates(k))
    <3>1. GotBy("server") # Got("done", <<>>, <<>>)
      BY DEF ReadStep, ReadChar, ReadNewline, Timeout, GotBy, Got
    <3> QED
      BY <1>2, <2>2, <3>1 DEF RequestIsRead
  <2>5. /\ OnlyReads("server") /\ Receive("server")
        /\ \E p \in 0..(Len(RequestStates(k)) - 1) :
              /\ wire'["server"] = Rest(RequestBytes(k, k), p)
              /\ GotBy("server")' = RequestStates(k)[p + 1]
    BY <2>1, <2>3, <2>4, ReadsMessage
  <2>6. /\ UNCHANGED <<m_CSeq, client, asked, result, served, server>>
        /\ reader'["client"] = reader["client"] /\ wire'["client"] = wire["client"]
    BY <2>5 DEF OnlyReads, Receive, End, TypeOK
  <2>7. NothingBack' /\ Unserved'
    BY <1>2, <2>1, <2>6 DEF NothingBack, Begun, GotBy, RequestIsRead, Unserved, Was
  <2>8. IsRead("server", RequestBytes(asked, asked), RequestStates(asked))'
    BY <2>2, <2>5, <2>6 DEF IsRead
  <2>9. RequestIsRead'
    BY <2>6, <2>7, <2>8 DEF RequestIsRead
  <2> QED
    BY <1>2, <2>1, <2>6, <2>9 DEF InTimePhase
<1> QED
  BY <1>1, <1>2, RequestOrWait

(* A request not served before is served in the way it is now, and in no    *)
(* other.                                                                   *)
LEMMA ServedNow ==
    ASSUME TypeOK, Unserved, NEW how \in How, NEW cseq,
           served' = Append(served, <<asked, cseq, how>>), asked' = asked
    PROVE  WasOnly(how)'
<1> DEFINE last == <<asked, cseq, how>>
<1>1. PICK S : served \in Seq(S)
  BY DEF TypeOK
<1>2. /\ Len(served') = Len(served) + 1 /\ Len(served) \in Nat
      /\ \A j \in 1..Len(served) : served'[j] = served[j]
      /\ served'[Len(served) + 1] = last
  <2> HIDE DEF last
  <2>1. served' = Append(served, last)
    BY DEF last
  <2>2. served \in Seq(S \cup {last}) /\ last \in S \cup {last}
    BY <1>1
  <2> DEFINE T == S \cup {last}
           s == served
  <2> HIDE DEF T
  <2>3. s \in Seq(T) /\ last \in T
    BY <2>2 DEF T
  <2> HIDE DEF s
  <2>4. /\ Len(Append(s, last)) = Len(s) + 1 /\ Len(s) \in Nat
        /\ \A j \in 1..Len(s) : Append(s, last)[j] = s[j]
        /\ Append(s, last)[Len(s) + 1] = last
    BY <2>3
  <2> QED
    BY <2>1, <2>4 DEF s
<1>3. last[1] = asked /\ last[3] = how
  OBVIOUS
<1> HIDE DEF last
<1>4. DOMAIN served = 1..Len(served) /\ DOMAIN served' = 1..(Len(served) + 1)
  <2>1. served \in Seq(S \cup {last}) /\ last \in S \cup {last} /\ served' = Append(served, last)
    BY <1>1 DEF last
  <2>2. served' \in Seq(S \cup {last})
    BY <2>1
  <2> QED
    BY <1>2, <2>1, <2>2
<1>5. ASSUME NEW h \in How PROVE Was(asked, h)' <=> h = how
  <2>1. h = how => Was(asked, h)'
    <3>1. Len(served) + 1 \in DOMAIN served'
      BY <1>2, <1>4
    <3> QED
      BY <1>2, <1>3, <3>1 DEF Was
  <2>2. ASSUME Was(asked, h)' PROVE h = how
    <3>1. PICK j \in DOMAIN served' : served'[j][1] = asked /\ served'[j][3] = h
      BY <2>2 DEF Was
    <3>2. j # Len(served) + 1 => j \in DOMAIN served /\ served'[j] = served[j]
      BY <1>2, <1>4
    <3>3. j = Len(served) + 1
      <4>1. j \in DOMAIN served => ~(served[j][1] = asked /\ served[j][3] = h)
        BY DEF Unserved, Was
      <4> QED
        BY <3>1, <3>2, <4>1
    <3> QED
      BY <1>2, <1>3, <3>1, <3>3
  <2> QED
    BY <2>1, <2>2
<1> QED
  BY <1>5 DEF WasOnly

(* The server serves the request, or passes over an empty message.          *)
LEMMA ServesInTime ==
    ASSUME TypeOK, InTime, InTimePhase, Serve
    PROVE  InTimePhase'
<1> DEFINE lines == reader["server"].lines
           cseq == CSeqOf(lines)
           k0 == NumberIn(lines[1], "method")
<1>1. /\ Fresh("server") /\ UNCHANGED <<world, client, asked, result, numbers>>
      /\ server = "loop" /\ reader["server"].pc = "done"
      /\ m_CSeq' = [m_CSeq EXCEPT !["server"] = cseq]
      /\ IF 1 \in With(lines, "method")
         THEN \E how \in How :
                 /\ wire' = [wire EXCEPT !["client"] = @ \o ReplyBytes(k0, cseq, how)]
                 /\ served' = Append(served, <<k0, cseq, how>>)
         ELSE UNCHANGED <<wire, served, server>>
  BY DEF Serve, ServeWith, Fresh, Outcomes
<1>2. /\ GotBy("server")' = NoLine /\ reader'["server"].c # CR
      /\ reader'["client"] = reader["client"]
  BY <1>1, BeginsInTime DEF End
<1>3. m_CSeq'["client"] = m_CSeq["client"]
  BY <1>1 DEF TypeOK, End
<1> HIDE DEF cseq, k0
<1>4. CASE ~(client = "wait" /\ RequestIsRead) /\ ServerWaits
  <2>1. lines = <<>>
    BY <1>1, <1>4 DEF ServerWaits, GotBy, Got, NoLine
  <2>2. 1 \notin With(lines, "method")
    BY <2>1 DEF With
  <2>3. wire' = wire /\ served' = served
    BY <1>1, <2>2
  <2>4. ServerWaits' /\ ServerRests'
    BY <1>2, <1>4, <2>3 DEF ServerWaits, ServerRests
  <2> QED
    BY <1>1, <1>2, <1>3, <1>4, <2>3, <2>4, PhaseKept
<1>5. CASE client = "wait" /\ RequestIsRead
  <2>1. asked \in 1..MaxAsks /\ NothingBack /\ asked > 0 /\ Unserved
    BY <1>5, AskedIs DEF InTimePhase, RequestIsRead
  <2>2. PICK k : k = asked
    OBVIOUS
  <2>3. /\ RequestBytes(k, k) \in Seq(Bytes)
        /\ Follows(RequestBytes(k, k), RequestStates(k)) /\ Len(RequestStates(k)) = 10
    BY <2>1, <2>2, MessagesAreBytes, RequestFollows
  <2>4. Begun'
    BY <1>2, <2>1 DEF NothingBack, Begun, GotBy
  <2>5. CASE /\ wire["server"] = RequestBytes(k, k)
             /\ GotBy("server") = Got("done", <<>>, <<>>)
    <3>1. lines = <<>>
      BY <2>5 DEF GotBy, Got
    <3>2. 1 \notin With(lines, "method")
      BY <3>1 DEF With
    <3>3. UNCHANGED <<wire, served, server>>
      BY <1>1, <3>2
    <3>4. wire'["server"] = Rest(RequestBytes(k, k), 0)
      BY <2>3, <2>5, <3>3, RestOfAll
    <3>5. 0 \in 0..(Len(RequestStates(k)) - 1) /\ RequestStates(k)[0 + 1] = NoLine
      BY <2>3 DEF Follows
    <3>6. IsRead("server", RequestBytes(asked, asked), RequestStates(asked))'
      BY <1>1, <1>2, <2>2, <3>4, <3>5 DEF IsRead
    <3>7. NothingBack' /\ Unserved' /\ server' = "loop"
      BY <1>1, <2>1, <2>4, <3>3 DEF NothingBack, Unserved, Was
    <3>8. RequestIsRead'
      BY <3>6, <3>7 DEF RequestIsRead
    <3> QED
      BY <1>1, <1>3, <1>5, <2>1, <3>8 DEF InTimePhase
  <2>6. CASE IsRead("server", RequestBytes(k, k), RequestStates(k))
    <3>1. PICK p \in 0..(Len(RequestStates(k)) - 1) :
              /\ wire["server"] = Rest(RequestBytes(k, k), p)
              /\ GotBy("server") = RequestStates(k)[p + 1]
      BY <2>6 DEF IsRead
    <3>2. p = 9
      <4>1. GotBy("server").pc = "done"
        BY <1>1 DEF GotBy, Got
      <4>2. ASSUME p # 9 PROVE FALSE
        <5>1. p + 1 \in 1..9 /\ p \in 0..8
          BY <2>3, <3>1, <4>2
        <5>2. RequestStates(k)[p + 1].pc # "done"
          BY <5>1 DEF RequestStates, Got, NoLine
        <5> QED
          BY <3>1, <4>1, <5>2
      <4> QED
        BY <4>2
    <3>3. lines = << <<Byte("method", k), Byte("url", k)>>, <<Byte("cseq", k)>> >>
      <4>1. GotBy("server") =
              Got("done", <<>>, << <<Byte("method", k), Byte("url", k)>>, <<Byte("cseq", k)>> >>)
        BY <3>1, <3>2, RequestFollows
      <4> QED
        BY <4>1 DEF GotBy, Got
    <3>4. 1 \in With(lines, "method") /\ k0 = k /\ cseq = k
      BY <3>3, RequestSays DEF k0, cseq
    <3>5. PICK how \in How :
              /\ wire' = [wire EXCEPT !["client"] = @ \o ReplyBytes(k, k, how)]
              /\ served' = Append(served, <<k, k, how>>)
      BY <1>1, <3>4
    <3>6. ReplyBytes(k, k, how) \in Seq(Bytes)
      <4>1. <<>> \in Seq(Bytes)
        OBVIOUS
      <4>2. how # "silent" => AnswerBytes(k, k, how) \in Seq(Bytes)
        BY <2>1, <2>2, MessagesAreBytes DEF How
      <4> QED
        BY <4>1, <4>2 DEF ReplyBytes
    <3>7. wire'["client"] = ReplyBytes(k, k, how) /\ wire'["server"] = wire["server"]
      <4>1. <<>> \o ReplyBytes(k, k, how) = ReplyBytes(k, k, how) /\ wire["client"] = <<>>
        BY <2>1, <3>6 DEF NothingBack
      <4> QED
        BY <3>5, <4>1 DEF TypeOK, End
    <3>8. wire["server"] = <<>>
      <4>1. Len(RequestBytes(k, k)) = 9
        BY RequestHasNine
      <4>2. 9 \in 0..Len(RequestBytes(k, k)) /\ Len(RequestBytes(k, k)) - 9 = 0
        BY <4>1
      <4>3. /\ Rest(RequestBytes(k, k), 9) \in Seq(Bytes)
            /\ Len(Rest(RequestBytes(k, k), 9)) = Len(RequestBytes(k, k)) - 9
        <5>1. RequestBytes(k, k) \in Seq(Bytes) /\ 9 \in 0..Len(RequestBytes(k, k))
          BY <2>3, <4>2
        <5> QED
          BY <5>1, RestIs
      <4>4. Rest(RequestBytes(k, k), 9) = <<>>
        <5>1. Len(Rest(RequestBytes(k, k), 9)) = 0
          BY <4>2, <4>3, Zenon
        <5> QED
          BY <4>3, <5>1, EmptySeq
      <4> QED
        BY <3>1, <3>2, <4>4
    <3>9. ServerWaits'
      BY <1>2, <3>7, <3>8 DEF ServerWaits
    <3>10. WasOnly(how)'
      BY <1>1, <2>1, <2>2, <3>5, ServedNow
    <3>11. CASE how = "silent"
      <4>1. wire'["client"] = <<>>
        BY <3>7, <3>11 DEF ReplyBytes
      <4>2. ~Was(asked, "ok")' /\ ~Was(asked, "error")'
        BY <3>10, <3>11 DEF WasOnly, How
      <4>3. NoReply'
        BY <2>4, <3>9, <4>1, <4>2 DEF NoReply, ServerRests
      <4> QED
        BY <1>1, <1>3, <1>5, <2>1, <4>3 DEF InTimePhase
    <3>12. CASE how # "silent"
      <4>1. how \in {"ok", "error"} /\ ReplyBytes(k, k, how) = AnswerBytes(k, k, how)
        BY <3>12 DEF How, ReplyBytes
      <4>2. Follows(AnswerBytes(k, k, how), ReplyStates(k, how))
        BY <4>1, ReplyFollows
      <4>3. 0 \in 0..(Len(ReplyStates(k, how)) - 1) /\ ReplyStates(k, how)[0 + 1] = NoLine
        BY <4>2 DEF Follows
      <4>4. AnswerBytes(k, k, how) \in Seq(Bytes)
        BY <3>6, <4>1
      <4>5. Rest(AnswerBytes(k, k, how), 0) = AnswerBytes(k, k, how)
        BY <4>4, RestOfAll
      <4>6. wire'["client"] = Rest(AnswerBytes(k, k, how), 0) /\ GotBy("client")' = NoLine
        BY <2>4, <3>7, <4>1, <4>5 DEF Begun
      <4>7. IsRead("client", AnswerBytes(asked, asked, how), ReplyStates(asked, how))'
        BY <1>1, <2>2, <4>3, <4>6 DEF IsRead
      <4>8. ReplyIsRead(how)'
        BY <3>9, <3>10, <4>7 DEF ReplyIsRead
      <4> QED
        BY <1>1, <1>3, <1>5, <2>1, <4>1, <4>8 DEF InTimePhase
    <3> QED
      BY <3>11, <3>12
  <2> QED
    BY <1>5, <2>2, <2>5, <2>6 DEF RequestIsRead
<1> QED
  BY <1>1, <1>4, <1>5, RequestOrWait

(* While a request is under way the client gives up nothing.                *)
LEMMA ClientWaitsForReply ==
    ASSUME TypeOK, InTime, asked > 0, RequestIsRead, ReadStep("client")
    PROVE  FALSE
<1>1. asked \in 1..MaxAsks /\ wire["client"] = <<>> /\ server = "loop"
  BY AskedIs DEF RequestIsRead, NothingBack
<1>2. Timeout("client")
  BY <1>1 DEF ReadStep, ReadChar, ReadNewline, Receive
<1>3. wire["server"] = <<>> /\ reader["server"].lines = <<>>
  BY <1>1, <1>2 DEF Timeout, Nothing, ServerIdle, InTime
<1>4. PICK k : k = asked
  OBVIOUS
<1>5. RequestBytes(k, k) \in Seq(Bytes) /\ Len(RequestBytes(k, k)) = 9
  BY <1>1, <1>4, MessagesAreBytes, RequestHasNine
<1>6. wire["server"] # RequestBytes(k, k)
  <2>1. Len(wire["server"]) = 0
    BY <1>3
  <2>2. ASSUME wire["server"] = RequestBytes(k, k) PROVE FALSE
    <3>1. Len(RequestBytes(k, k)) = 9
      BY <1>5
    <3>2. Len(wire["server"]) = 9
      BY <2>2, <3>1
    <3>3. 0 # 9
      OBVIOUS
    <3> QED
      BY <2>1, <3>2, <3>3
  <2> QED
    BY <2>2
<1>7. IsRead("server", RequestBytes(k, k), RequestStates(k))
  BY <1>4, <1>6 DEF RequestIsRead
<1>8. PICK p \in 0..(Len(RequestStates(k)) - 1) :
          /\ wire["server"] = Rest(RequestBytes(k, k), p)
          /\ GotBy("server") = RequestStates(k)[p + 1]
  BY <1>7 DEF IsRead
<1>9. /\ Len(RequestStates(k)) = 10
      /\ RequestStates(k)[10] =
           Got("done", <<>>, << <<Byte("method", k), Byte("url", k)>>, <<Byte("cseq", k)>> >>)
  BY RequestFollows
<1>10. p = 9
  <2>1. p \in 0..Len(RequestBytes(k, k))
    BY <1>5, <1>8, <1>9
  <2>2. Len(wire["server"]) = Len(RequestBytes(k, k)) - p
    BY <1>5, <1>8, <2>1, RestIs
  <2>3. Len(wire["server"]) = 0
    BY <1>3
  <2> QED
    BY <1>5, <2>1, <2>2, <2>3
<1>11. GotBy("server").lines = << <<Byte("method", k), Byte("url", k)>>, <<Byte("cseq", k)>> >>
  BY <1>8, <1>9, <1>10 DEF Got
<1> QED
  BY <1>3, <1>11 DEF GotBy, Got

(* The reply is read up to its end.                                         *)
LEMMA ReplyRead ==
    ASSUME TypeOK, asked > 0, NEW how \in {"ok", "error"}, ReplyIsRead(how)
    PROVE  /\ AnswerBytes(asked, asked, how) \in Seq(Bytes)
           /\ Follows(AnswerBytes(asked, asked, how), ReplyStates(asked, how))
           /\ IsRead("client", AnswerBytes(asked, asked, how), ReplyStates(asked, how))
<1>1. asked \in 1..MaxAsks
  BY AskedIs
<1>2. AnswerBytes(asked, asked, how) \in Seq(Bytes)
  BY <1>1, MessagesAreBytes
<1>3. Follows(AnswerBytes(asked, asked, how), ReplyStates(asked, how))
  BY ReplyFollows
<1> QED
  BY <1>2, <1>3 DEF ReplyIsRead

(* The client reads.                                                        *)
LEMMA ClientReadsInTime ==
    ASSUME TypeOK, InTime, InTimePhase, ReadStep("client")
    PROVE  InTimePhase'
<1>1. /\ client = "wait" /\ asked > 0 /\ reader["client"].pc # "done" /\ "client" \in End
      /\ m_CSeq["client"] = asked
  BY DEF ReadStep, ReadChar, ReadNewline, Timeout, Reading, InTimePhase, End
<1>2. (\E how \in {"ok", "error"} : ReplyIsRead(how)) \/ NoReply
  BY <1>1, ClientWaitsForReply DEF InTimePhase
<1>3. CASE NoReply
  <2>1. wire["client"] = <<>> /\ GotBy("client") = NoLine /\ reader["client"].c # CR
    BY <1>1, <1>3 DEF NoReply, Begun, GotBy, Got
  <2>2. reader["client"].pc = "char" /\ reader["client"].str = <<>> /\ reader["client"].lines = <<>>
    BY <2>1 DEF GotBy, Got, NoLine
  <2>3. Timeout("client")
    BY <2>1 DEF ReadStep, ReadChar, ReadNewline, Receive
  <2>4. OnlyReads("client") /\ wire' = wire /\ (Ends("client") \/ Adds("client"))
    BY <1>1, <2>1, <2>2, <2>3, TimeoutDoes
  <2>5. GotBy("client")' = Got("done", <<>>, <<>>)
    BY <2>2, <2>4 DEF Ends, Adds, GotBy
  <2>6. /\ UNCHANGED <<m_CSeq, client, asked, served, server>>
        /\ reader'["server"] = reader["server"]
    BY <2>4 DEF OnlyReads, End
  <2>7. NoReply'
    BY <1>3, <2>4, <2>5, <2>6 DEF NoReply, ServerRests, ServerWaits, GotBy, Was
  <2> QED
    BY <1>1, <2>6, <2>7 DEF InTimePhase
<1>4. ASSUME NEW how \in {"ok", "error"}, ReplyIsRead(how) PROVE InTimePhase'
  <2>1. PICK k : k = asked
    OBVIOUS
  <2>2. /\ AnswerBytes(k, k, how) \in Seq(Bytes)
        /\ Follows(AnswerBytes(k, k, how), ReplyStates(k, how))
        /\ IsRead("client", AnswerBytes(k, k, how), ReplyStates(k, how))
    BY <1>1, <1>4, <2>1, ReplyRead
  <2>3. /\ OnlyReads("client") /\ Receive("client")
        /\ \E p \in 0..(Len(ReplyStates(k, how)) - 1) :
              /\ wire'["client"] = Rest(AnswerBytes(k, k, how), p)
              /\ GotBy("client")' = ReplyStates(k, how)[p + 1]
    BY <1>1, <2>2, ReadsMessage
  <2>4. /\ UNCHANGED <<m_CSeq, client, asked, served>> /\ reader'["server"] = reader["server"]
        /\ wire'["server"] = wire["server"]
    BY <2>3 DEF OnlyReads, Receive, End, TypeOK
  <2>5. ServerWaits' /\ WasOnly(how)'
    BY <1>4, <2>4 DEF ReplyIsRead, ServerWaits, GotBy, WasOnly, Was
  <2>6. IsRead("client", AnswerBytes(asked, asked, how), ReplyStates(asked, how))'
    BY <2>1, <2>3, <2>4 DEF IsRead
  <2>7. ReplyIsRead(how)'
    BY <2>5, <2>6 DEF ReplyIsRead
  <2> QED
    BY <1>1, <2>4, <2>7 DEF InTimePhase
<1> QED
  BY <1>2, <1>3, <1>4

(* A read of a connection that is closed fails only where nothing came.     *)
LEMMA ReadFailsInTime ==
    ASSUME TypeOK, InTime, InTimePhase, ReadFails
    PROVE  InTimePhase'
<1>1. /\ client = "wait" /\ reader["client"].pc # "done" /\ server = "closed"
      /\ wire["client"] = <<>> /\ asked > 0 /\ m_CSeq["client"] = asked
      /\ UNCHANGED <<wire, m_CSeq, client, asked, served, server>>
      /\ reader' = [reader EXCEPT !["client"].pc = "done", !["client"].str = <<>>]
  BY DEF ReadFails, Reading, InTimePhase
<1>2. (\E how \in {"ok", "error"} : ReplyIsRead(how)) \/ NoReply
  BY <1>1 DEF InTimePhase, RequestIsRead
<1>3. ASSUME NEW how \in {"ok", "error"}, ReplyIsRead(how) PROVE FALSE
  <2>1. PICK k : k = asked
    OBVIOUS
  <2> DEFINE b == AnswerBytes(k, k, how)
             s == ReplyStates(k, how)
  <2>2. b \in Seq(Bytes) /\ Follows(b, s) /\ IsRead("client", b, s)
    BY <1>1, <1>3, <2>1, ReplyRead
  <2> HIDE DEF b, s
  <2>3. PICK p \in 0..(Len(s) - 1) : wire["client"] = Rest(b, p) /\ GotBy("client") = s[p + 1]
    BY <2>2 DEF IsRead
  <2>4. Len(s) \in Nat /\ Len(s) - 1 \in 1..Len(b) /\ s[Len(s)].pc = "done"
    BY <2>2 DEF Follows
  <2>5. p \in 0..Len(b)
    BY <2>2, <2>3, <2>4
  <2>6. Rest(b, p) \in Seq(Bytes) /\ Len(Rest(b, p)) = Len(b) - p
    BY <2>2, <2>5, RestIs
  <2>7. Len(Rest(b, p)) = 0
    BY <1>1, <2>3
  <2>8. p + 1 = Len(s)
    BY <2>2, <2>3, <2>4, <2>5, <2>6, <2>7
  <2> QED
    BY <1>1, <2>3, <2>4, <2>8 DEF GotBy, Got
<1>4. NoReply /\ GotBy("client") = NoLine
  BY <1>1, <1>2, <1>3 DEF NoReply, Begun, GotBy, Got
<1>5. reader'["client"] = [reader["client"] EXCEPT !.pc = "done", !.str = <<>>]
      /\ reader'["server"] = reader["server"] /\ reader["client"] \in Reader
  BY <1>1 DEF TypeOK, End
<1>6. GotBy("client")' = Got("done", <<>>, <<>>)
  BY <1>4, <1>5 DEF GotBy, Got, NoLine, Reader
<1>7. NoReply'
  BY <1>1, <1>4, <1>5, <1>6 DEF NoReply, ServerRests, ServerWaits, GotBy, Was
<1> QED
  BY <1>1, <1>7 DEF InTimePhase

(* A reply read to its end says how the request was served, and leaves the  *)
(* description.                                                             *)
LEMMA ReplyIsTaken ==
    ASSUME TypeOK, asked > 0, NEW how \in {"ok", "error"}, ReplyIsRead(how),
           reader["client"].pc = "done"
    PROVE  LET lines == reader["client"].lines
           IN /\ Said(lines, how) = asked
              /\ 1 \in With(lines, "ok") <=> how = "ok"
              /\ With(lines, "cseq") = {2} /\ NumberIn(lines[2], "cseq") = asked
              /\ Max(With(lines, "cseq")) = 2
              /\ Brings(asked, how) => With(lines, "length") # {} /\ wire["client"] = Body
              /\ ~Brings(asked, how) => wire["client"] = <<>>
<1> DEFINE lines == reader["client"].lines
<1>1. PICK k : k = asked
  OBVIOUS
<1>2. Follows(AnswerBytes(k, k, how), ReplyStates(k, how))
  BY ReplyFollows
<1>3. PICK p \in 0..(Len(ReplyStates(k, how)) - 1) :
          /\ wire["client"] = Rest(AnswerBytes(k, k, how), p)
          /\ GotBy("client") = ReplyStates(k, how)[p + 1]
  BY <1>1, ReplyRead DEF IsRead
<1>4. GotBy("client").pc = "done" /\ GotBy("client").lines = lines
  BY DEF GotBy, Got
<1>5. CASE ~Brings(k, how)
  <2>1. /\ Len(ReplyStates(k, how)) = 9
        /\ ReplyStates(k, how)[9] =
              Got("done", <<>>, << <<Byte(how, k)>>, <<Byte("cseq", k)>> >>)
    BY <1>5, ReplyFollows
  <2>2. p = 8
    <3>1. ASSUME p # 8 PROVE FALSE
      <4>1. p + 1 \in 1..8
        <5>1. p \in 0..8
          BY <1>3, <2>1
        <5> QED
          BY <3>1, <5>1
      <4>2. ReplyStates(k, how)[p + 1].pc # "done"
        BY <1>5, <4>1 DEF ReplyStates, Got, NoLine
      <4> QED
        BY <1>3, <1>4, <4>2
    <3> QED
      BY <3>1
  <2>3. 8 + 1 = 9 /\ 8 = 7 + 1
    OBVIOUS
  <2>4. lines = << <<Byte(how, k)>>, <<Byte("cseq", k)>> >>
    BY <1>3, <1>4, <2>1, <2>2, <2>3 DEF Got
  <2>5. wire["client"] = <<>>
    <3>1. Rest(AnswerBytes(k, k, how), 7 + 1) = <<>>
      BY <1>5, ReplyIs
    <3> QED
      BY <1>3, <2>2, <2>3, <3>1
  <2> HIDE DEF lines
  <2>6. /\ Said(lines, how) = k /\ (1 \in With(lines, "ok") <=> how = "ok")
        /\ With(lines, "cseq") = {2} /\ NumberIn(lines[2], "cseq") = k
        /\ Max(With(lines, "cseq")) = 2
    BY <2>4, ReplySays
  <2> QED
    BY <1>1, <1>5, <2>5, <2>6 DEF lines
<1>6. CASE Brings(k, how)
  <2>1. /\ Len(ReplyStates(k, how)) = 12
        /\ ReplyStates(k, how)[12] =
              Got("done", <<>>,
                  << <<Byte(how, k)>>, <<Byte("cseq", k)>>, <<Byte("length", k)>> >>)
    BY <1>6, ReplyFollows
  <2>2. p = 11
    <3>1. ASSUME p # 11 PROVE FALSE
      <4>1. p + 1 \in 1..11
        <5>1. p \in 0..11
          BY <1>3, <2>1
        <5> QED
          BY <3>1, <5>1
      <4>2. ReplyStates(k, how)[p + 1].pc # "done"
        BY <1>6, <4>1 DEF ReplyStates, Got, NoLine
      <4> QED
        BY <1>3, <1>4, <4>2
    <3> QED
      BY <3>1
  <2>3. 11 + 1 = 12 /\ 11 = 10 + 1
    OBVIOUS
  <2>4. lines = << <<Byte(how, k)>>, <<Byte("cseq", k)>>, <<Byte("length", k)>> >>
    BY <1>3, <1>4, <2>1, <2>2, <2>3 DEF Got
  <2>5. wire["client"] = Body
    <3>1. Rest(AnswerBytes(k, k, how), 10 + 1) = Body
      BY <1>6, ReplyIs
    <3> QED
      BY <1>3, <2>2, <2>3, <3>1
  <2> HIDE DEF lines
  <2>6. /\ Said(lines, how) = k /\ (1 \in With(lines, "ok") <=> how = "ok")
        /\ With(lines, "cseq") = {2} /\ NumberIn(lines[2], "cseq") = k
        /\ Max(With(lines, "cseq")) = 2 /\ With(lines, "length") # {}
    BY <2>4, ReplySays
  <2> QED
    BY <1>1, <1>6, <2>5, <2>6 DEF lines
<1> QED
  BY <1>5, <1>6

(* The client takes the reply, or that there is none.                       *)
LEMMA TakesReplyInTime ==
    ASSUME TypeOK, InTime, InTimePhase, TakeReply
    PROVE  InTimePhase'
<1> DEFINE lines == reader["client"].lines
           got == With(lines, "cseq")
           ok == 1 \in With(lines, "ok")
<1>1. /\ client = "wait" /\ reader["client"].pc = "done" /\ Fresh("client")
      /\ UNCHANGED <<world, wire, server, asked, numbers, served>>
      /\ m_CSeq' = [m_CSeq EXCEPT !["client"] =
                        IF got = {} THEN @ ELSE NumberIn(lines[Max(got)], "cseq")]
      /\ result' = [result EXCEPT !.ok = ok /\ asked \notin Describes,
                                  !.answer = IF ok THEN Said(lines, "ok")
                                             ELSE Said(lines, "error")]
      /\ client' = IF ok /\ asked \in Describes /\ With(lines, "length") # {}
                   THEN "body" ELSE "idle"
  BY DEF TakeReply, TakeReplyThen, Fresh
<1>2. /\ GotBy("client")' = NoLine /\ reader'["server"] = reader["server"] /\ Begun'
  BY <1>1, BeginsInTime DEF End, Begun
<1>3. asked > 0 /\ m_CSeq["client"] = asked
  BY <1>1 DEF InTimePhase
<1>4. /\ m_CSeq'["client"] = IF got = {} THEN asked ELSE NumberIn(lines[Max(got)], "cseq")
      /\ result'.ok = (ok /\ asked \notin Describes)
      /\ result'.answer = IF ok THEN Said(lines, "ok") ELSE Said(lines, "error")
  <2> HIDE DEF lines, got, ok
  <2> QED
    BY <1>1, <1>3 DEF TypeOK, End
<1>5. \A how \in {"ok", "error"} : WasOnly(how) => WasOnly(how)'
  BY <1>1 DEF WasOnly, Was
<1>6. (\E how \in {"ok", "error"} : ReplyIsRead(how)) \/ NoReply
  <2>1. ~NothingBack
    BY <1>1 DEF NothingBack, Begun, GotBy, Got, NoLine
  <2> QED
    BY <1>1, <2>1 DEF InTimePhase, RequestIsRead
<1>7. CASE NoReply
  <2>1. lines = <<>>
    BY <1>1, <1>7 DEF NoReply, Begun, GotBy, Got, NoLine
  <2>2. \A kind : With(lines, kind) = {}
    BY <2>1 DEF With
  <2>3. /\ ~ok /\ got = {} /\ Said(lines, "error") = 0
    BY <2>2 DEF Said
  <2> HIDE DEF lines, ok, got
  <2>4. /\ m_CSeq'["client"] = asked /\ ~result'.ok /\ result'.answer = 0 /\ client' = "idle"
    BY <1>1, <1>4, <2>3
  <2>5. ServerRests' /\ NothingBack'
    BY <1>1, <1>2, <1>7 DEF NoReply, ServerRests, ServerWaits, NothingBack, GotBy
  <2>6. ~Was(asked, "ok")' /\ ~Was(asked, "error")'
    BY <1>1, <1>7 DEF NoReply, Was
  <2>7. ResultFits'
    BY <2>4, <2>6 DEF ResultFits
  <2> QED
    BY <1>1, <2>4, <2>5, <2>7 DEF InTimePhase
<1>8. ASSUME NEW how \in {"ok", "error"}, ReplyIsRead(how) PROVE InTimePhase'
  <2>1. /\ Said(lines, how) = asked /\ (ok <=> how = "ok")
        /\ got = {2} /\ NumberIn(lines[2], "cseq") = asked /\ Max(got) = 2
        /\ Brings(asked, how) => With(lines, "length") # {} /\ wire["client"] = Body
        /\ ~Brings(asked, how) => wire["client"] = <<>>
    BY <1>1, <1>3, <1>8, ReplyIsTaken
  <2> HIDE DEF lines, ok, got
  <2>2. m_CSeq'["client"] = asked
    <3>1. got # {} /\ NumberIn(lines[Max(got)], "cseq") = asked
      BY <2>1
    <3> QED
      BY <1>4, <3>1
  <2>3. result'.answer = asked
    BY <1>4, <2>1
  <2>4. ServerWaits' /\ ServerRests' /\ WasOnly(how)'
    BY <1>1, <1>2, <1>5, <1>8 DEF ReplyIsRead, ServerWaits, ServerRests, GotBy
  <2>5. CASE Brings(asked, how)
    <3>1. how = "ok" /\ asked \in Describes /\ client' = "body" /\ wire'["client"] = Body
      BY <1>1, <2>1, <2>5 DEF Brings
    <3> QED
      BY <1>1, <1>2, <2>2, <2>3, <2>4, <3>1 DEF InTimePhase, Describes
  <2>6. CASE ~Brings(asked, how)
    <3>1. client' = "idle" /\ wire'["client"] = <<>>
      BY <1>1, <2>1, <2>6 DEF Brings
    <3>2. result'.ok <=> how = "ok"
      BY <1>4, <2>1, <2>6 DEF Brings
    <3>3. /\ Was(asked, "ok")' <=> how = "ok"
          /\ (Was(asked, "ok") \/ Was(asked, "error"))'
      BY <2>4 DEF WasOnly, How
    <3>4. result'.ok => asked \notin Describes
      BY <1>4
    <3>5. ResultFits'
      BY <1>1, <2>3, <3>2, <3>3, <3>4 DEF ResultFits, Describes
    <3>6. NothingBack'
      BY <1>2, <3>1 DEF NothingBack
    <3> QED
      BY <1>1, <2>2, <2>4, <3>1, <3>5, <3>6 DEF InTimePhase
  <2> QED
    BY <2>5, <2>6
<1> QED
  BY <1>6, <1>7, <1>8

(* The client takes the description, all of it.                             *)
LEMMA TakesBodyInTime ==
    ASSUME TypeOK, InTime, InTimePhase, ReadBody
    PROVE  InTimePhase'
<1>1. /\ client = "body" /\ client' = "idle" /\ wire["client"] = Body /\ ServerWaits
      /\ UNCHANGED <<world, reader, m_CSeq, server, asked, numbers, served>>
      /\ Begun /\ asked \in Describes /\ WasOnly("ok") /\ result.answer = asked
      /\ m_CSeq["client"] = asked
  BY DEF ReadBody, InTimePhase
<1>2. Body \in Seq({Byte("body", 1), CR, LF}) /\ Len(Body) = 3 /\ Body # <<>>
  BY DEF Body
<1>3. PICK n \in 0..Min({Len(Body), Len(wire["client"])}) :
        /\ n = 0 => Nothing("client")
        /\ world.onePiece => n \in {0, Len(Body)}
        /\ result' = [result EXCEPT !.ok = TRUE, !.body = SubSeq(wire["client"], 1, n)]
        /\ wire' = [wire EXCEPT !["client"] = SubSeq(@, n + 1, Len(@))]
  BY Zenon DEF ReadBody
<1>4. n = 3
  <2>1. n # 0
    BY <1>1, <1>2, <1>3 DEF Nothing, InTime
  <2> QED
    BY <1>2, <1>3, <2>1 DEF InTime
<1>5. SubSeq(Body, 1, 3) = Body /\ SubSeq(Body, 3 + 1, Len(Body)) = <<>>
  <2>1. SubSeq(Body, 1, 3) = Body
    <3>1. 0 + 1 = 1
      OBVIOUS
    <3>2. SubSeq(Body, 0 + 1, Len(Body)) = Body
      BY <1>2, RestOfAll DEF Rest
    <3> QED
      BY <1>2, <3>1, <3>2
  <2>2. Rest(Body, 3) \in Seq({Byte("body", 1), CR, LF}) /\ Len(Rest(Body, 3)) = 0
    <3>1. 3 \in 0..Len(Body) /\ Len(Body) - 3 = 0
      BY <1>2
    <3> QED
      BY <1>2, <3>1, RestIs
  <2> QED
    <3>1. SubSeq(Body, 3 + 1, Len(Body)) \in Seq({Byte("body", 1), CR, LF})
      BY <2>2 DEF Rest
    <3>2. Len(SubSeq(Body, 3 + 1, Len(Body))) = 0
      BY <2>2 DEF Rest
    <3>3. SubSeq(Body, 3 + 1, Len(Body)) = <<>>
      BY <3>1, <3>2, EmptySeq
    <3> QED
      BY <2>1, <3>3
<1>6. /\ wire'["client"] = <<>> /\ wire'["server"] = wire["server"]
      /\ result'.ok /\ result'.body = Body /\ result'.answer = asked
  BY <1>1, <1>2, <1>3, <1>4, <1>5 DEF TypeOK, End
<1>7. ServerRests' /\ NothingBack'
  BY <1>1, <1>6 DEF ServerWaits, ServerRests, NothingBack, Begun, GotBy
<1>8. ResultFits'
  <2>1. Was(asked, "ok")'
    BY <1>1 DEF WasOnly, Was, How
  <2> QED
    BY <1>1, <1>6, <2>1 DEF ResultFits
<1> QED
  BY <1>1, <1>7, <1>8 DEF InTimePhase

(* The client asks, whether or not the server is there to read it.          *)
LEMMA AsksInTime ==
    ASSUME IInv, InTime, InTimePhase, Ask
    PROVE  InTimePhase'
<1>1. /\ client' = "wait" /\ asked' = asked + 1 /\ ServerRests /\ NothingBack /\ TypeOK
      /\ m_CSeq["client"] = asked /\ UNCHANGED <<world, reader, server, served>>
      /\ m_CSeq' = [m_CSeq EXCEPT !["client"] = @ + 1] /\ asked < MaxAsks
      /\ wire' = [wire EXCEPT !["server"] = @ \o RequestBytes(asked + 1, m_CSeq["client"] + 1)]
  BY DEF Ask, InTimePhase, IInv
<1>2. PICK k : k = asked + 1
  OBVIOUS
<1>3. k \in 1..MaxAsks /\ k > 0 /\ k \notin 1..asked
  BY <1>1, <1>2, ExchangeAssumption DEF TypeOK, ExchangeAssumption
<1>4. RequestBytes(k, k) \in Seq(Bytes)
  BY <1>3, MessagesAreBytes
<1>5. Follows(RequestBytes(k, k), RequestStates(k)) /\ Len(RequestStates(k)) = 10
  BY RequestFollows
<1>6. m_CSeq'["client"] = k
  BY <1>1, <1>2 DEF TypeOK, End
<1>7. /\ wire' = [wire EXCEPT !["server"] = @ \o RequestBytes(k, k)]
      /\ wire'["client"] = wire["client"]
  BY <1>1, <1>2 DEF TypeOK, End
<1>8. NothingBack' /\ GotBy("server")' = GotBy("server") /\ Begun' /\ wire'["client"] = <<>>
  BY <1>1, <1>7 DEF NothingBack, Begun, GotBy
<1>9. Unserved'
  <2>1. \A j \in DOMAIN served : served[j][1] # k
    BY <1>3 DEF IInv, Answered
  <2> QED
    BY <1>1, <1>2, <2>1 DEF Unserved, Was
<1>10. CASE server # "loop"
  <2>1. NoReply'
    BY <1>1, <1>8, <1>9, <1>10 DEF NoReply, ServerRests, Unserved, How
  <2> QED
    BY <1>1, <1>2, <1>3, <1>6, <2>1 DEF InTimePhase
<1>11. CASE server = "loop"
  <2>1. ServerWaits
    BY <1>1, <1>11 DEF ServerRests
  <2>2. wire'["server"] = RequestBytes(k, k)
    <3>1. wire["server"] = <<>> /\ <<>> \o RequestBytes(k, k) = RequestBytes(k, k)
      BY <1>4, <2>1 DEF ServerWaits
    <3> QED
      BY <1>1, <1>7, <3>1 DEF TypeOK, End
  <2>3. CASE GotBy("server") = NoLine
    <3>1. wire'["server"] = Rest(RequestBytes(k, k), 0)
      BY <1>4, <2>2, RestOfAll
    <3>2. 0 \in 0..(Len(RequestStates(k)) - 1) /\ RequestStates(k)[0 + 1] = NoLine
      BY <1>5 DEF Follows
    <3>3. IsRead("server", RequestBytes(asked, asked), RequestStates(asked))'
      BY <1>1, <1>2, <1>8, <2>3, <3>1, <3>2 DEF IsRead
    <3>4. RequestIsRead'
      BY <1>1, <1>8, <1>9, <1>11, <3>3 DEF RequestIsRead
    <3> QED
      BY <1>1, <1>2, <1>3, <1>6, <3>4 DEF InTimePhase
  <2>4. CASE GotBy("server") = Got("done", <<>>, <<>>)
    <3>1. RequestIsRead'
      BY <1>1, <1>2, <1>8, <1>9, <1>11, <2>2, <2>4 DEF RequestIsRead
    <3> QED
      BY <1>1, <1>2, <1>3, <1>6, <3>1 DEF InTimePhase
  <2> QED
    BY <2>1, <2>3, <2>4 DEF ServerWaits
<1> QED
  BY <1>10, <1>11

(* A connection that ends loses no reply: there was none, or it is read.    *)
LEMMA EndsInTime ==
    ASSUME TypeOK, InTime, InTimePhase, HangUp \/ Reset
    PROVE  InTimePhase'
<1>1. /\ server # "loop" /\ server' = "closed"
      /\ UNCHANGED <<world, reader, m_CSeq, client, m_State, asked, result, numbers, served>>
  BY DEF HangUp, Reset
<1>2. ~RequestIsRead
  BY <1>1 DEF RequestIsRead
<1>3. CASE HangUp
  <2>1. wire' = wire
    BY <1>3 DEF HangUp
  <2>2. (ServerWaits => ServerWaits') /\ ServerRests'
    BY <1>1, <2>1 DEF ServerWaits, ServerRests, GotBy
  <2> QED
    BY <1>1, <1>2, <2>1, <2>2, PhaseKept
<1>4. CASE Reset
  <2>1. ~ServerWaits
    BY <1>4 DEF Reset, ServerWaits
  <2>2. wire["client"] = <<>>
    <3>1. CASE client = "idle"
      BY <3>1 DEF InTimePhase, NothingBack
    <3>2. CASE client = "wait"
      BY <1>2, <2>1, <3>2 DEF InTimePhase, ReplyIsRead, NoReply
    <3>3. CASE client = "body"
      BY <2>1, <3>3 DEF InTimePhase
    <3> QED
      BY <3>1, <3>2, <3>3 DEF TypeOK
  <2>3. wire'["client"] = wire["client"]
    BY <1>4, <2>2 DEF Reset, TypeOK, End
  <2>4. ServerRests'
    BY <1>1 DEF ServerRests
  <2> QED
    BY <1>1, <1>2, <2>1, <2>3, <2>4, PhaseKept
<1> QED
  BY <1>3, <1>4

(* In a world where bytes arrive in time, a description whole, and no read  *)
(* takes what is left in c for a CR, every request comes to what the server *)
(* made of it, however many the client makes: it succeeds when the server   *)
(* answered it with 200 and at no other time, the client has the answer to  *)
(* this request and to no other, none if the server was silent or gone, and *)
(* a DESCRIBE that succeeds brings all of the description.                  *)
THEOREM AnswersFit == Spec => []TheAnswerFits
<1>1. Init => InTimeInv
  <2> SUFFICES ASSUME Init, InTime PROVE InTimePhase
    BY DEF InTimeInv
  <2>1. /\ asked = 0 /\ wire["server"] = <<>> /\ wire["client"] = <<>>
        /\ m_CSeq["client"] = 0 /\ client = "idle"
        /\ reader \in [End -> {Line(c, <<>>) : c \in world.garbage}]
    BY DEF Init, End
  <2>2. \A e \in End : GotBy(e) = NoLine /\ reader[e].c # CR
    <3> SUFFICES ASSUME NEW e \in End PROVE GotBy(e) = NoLine /\ reader[e].c # CR
      OBVIOUS
    <3>1. PICK c \in world.garbage : reader[e] = Line(c, <<>>)
      BY <2>1
    <3>2. c # CR
      BY DEF InTime
    <3> QED
      BY <3>1, <3>2 DEF Line, GotBy, NoLine
  <2>3. ServerRests /\ NothingBack
    BY <2>1, <2>2 DEF ServerRests, ServerWaits, NothingBack, Begun, End
  <2> QED
    BY <2>1, <2>3 DEF InTimePhase
<1>2. IInv /\ InTimeInv /\ [Next]_vars => InTimeInv'
  <2> SUFFICES ASSUME IInv, InTimeInv, [Next]_vars, InTime'
               PROVE  InTimePhase'
    BY DEF InTimeInv
  <2>1. InTime
    <3>1. CASE \E e \in End : ReadStep(e)
      BY <3>1 DEF ReadStep, ReadChar, ReadNewline, Timeout, Reading, InTime
    <3>2. CASE Serve \/ HangUp
      BY <3>2 DEF Serve, ServeWith, HangUp, InTime
    <3>3. CASE ReadFails \/ TakeReply \/ ReadBody
      BY <3>3 DEF ReadFails, Reading, TakeReply, TakeReplyThen, ReadBody, InTime
    <3>4. CASE Ask \/ Reset \/ UNCHANGED vars
      BY <3>4 DEF Ask, Reset, vars, InTime
    <3> QED
      BY <3>1, <3>2, <3>3, <3>4 DEF Next, ServerStep, ClientStep, End
  <2>2. TypeOK /\ InTimePhase
    BY <2>1 DEF IInv, InTimeInv
  <2>3. CASE ReadStep("server")
    BY <2>1, <2>2, <2>3, ServerReadsInTime
  <2>4. CASE Serve
    BY <2>1, <2>2, <2>4, ServesInTime
  <2>5. CASE HangUp \/ Reset
    BY <2>1, <2>2, <2>5, EndsInTime
  <2>6. CASE ReadStep("client")
    BY <2>1, <2>2, <2>6, ClientReadsInTime
  <2>7. CASE ReadFails
    BY <2>1, <2>2, <2>7, ReadFailsInTime
  <2>8. CASE TakeReply
    BY <2>1, <2>2, <2>8, TakesReplyInTime
  <2>9. CASE ReadBody
    BY <2>1, <2>2, <2>9, TakesBodyInTime
  <2>10. CASE Ask
    BY <2>1, <2>2, <2>10, AsksInTime
  <2>11. CASE UNCHANGED vars
    BY <2>2, <2>11 DEF vars, InTimePhase, ServerWaits, ServerRests, NothingBack, Begun,
       ResultFits, RequestIsRead, ReplyIsRead, NoReply, IsRead, GotBy, Unserved, WasOnly, Was
  <2> QED
    BY <2>3, <2>4, <2>5, <2>6, <2>7, <2>8, <2>9, <2>10, <2>11 DEF Next, ServerStep, ClientStep
<1>3. InTimeInv => TheAnswerFits
  BY DEF InTimeInv, InTime, InTimePhase, ResultFits, TheAnswerFits
<1> QED
  BY <1>1, <1>2, <1>3, ServerReadsInOrder, PTL DEF Spec

-----------------------------------------------------------------------------
(* RtspService.                                                             *)

USE DEF MainPC, FeederPC, SessionPC, ObjectState, StreamState

-----------------------------------------------------------------------------
(* Types are kept by every step; none of them needs Phases.                 *)
LEMMA ServiceTypeStep == ServiceTypeOK /\ [ServiceNext]_serviceVars => ServiceTypeOK'
<1> SUFFICES ASSUME ServiceTypeOK, [ServiceNext]_serviceVars PROVE ServiceTypeOK'
  OBVIOUS
<1> USE DEF ServiceTypeOK, objects, feederVars, listenVars, sessionVars
<1>1. CASE Start
  BY <1>1 DEF Start
<1>2. CASE OpenService
  BY <1>2 DEF OpenService
<1>3. CASE OpenTransport
  <2>1. m_isOpen' \in BOOLEAN /\ m_isStopListenThread' \in BOOLEAN
    BY <1>3, Zenon DEF OpenTransport
  <2>2. UNCHANGED <<objects, feederVars, sessionVars, fault>>
        /\ main' \in {"close", "working"} /\ leaving' \in {"working", leaving}
        /\ listener' \in {"runs", listener}
    BY <1>3 DEF OpenTransport
  <2> QED
    BY <2>1, <2>2
<1>4. CASE Key
  BY <1>4 DEF Key
<1>5. CASE Close
  <2>1. m_isStopListenThread' \in BOOLEAN
    BY <1>5 DEF Close
  <2> QED
    BY <1>5, <2>1 DEF Close
<1>6. CASE DeleteAgain
  BY <1>6 DEF DeleteAgain
<1>7. CASE JoinListener
  BY <1>7 DEF JoinListener
<1>8. CASE \E c \in Client : DeleteSession(c)
  BY <1>8 DEF DeleteSession
<1>9. CASE Closed
  <2>1. m_isOpen' \in BOOLEAN
    BY <1>9, Zenon DEF Closed, ClosedWhen
  <2>2. UNCHANGED <<leaving, objects, feederVars, listener, m_isStopListenThread,
                    sessionVars, fault>> /\ main' = "freePacket"
    BY <1>9 DEF Closed, ClosedWhen
  <2> QED
    BY <2>1, <2>2
<1>10. CASE StopStream
  BY <1>10 DEF StopStream
<1>11. CASE FreeStream
  BY <1>11 DEF FreeStream
<1>12. CASE Release
  BY <1>12 DEF Release
<1>13. CASE JoinFeeder
  BY <1>13 DEF JoinFeeder, JoinWhen
<1>14. CASE FreeService
  BY <1>14 DEF FreeService
<1>15. CASE FeederLoop \/ FeederLeaves \/ FeederReturn
  BY <1>15 DEF FeederLoop, LoopWhile, FeederLeaves, FeederReturn
<1>16. CASE FeederInit \/ InitReturn \/ FeederFrame \/ NalLock \/ NalUnlock
  <2>1. main' \in MainPC /\ feeder' \in FeederPC
    BY <1>16 DEF FeederInit, InitReturn, FeederFrame, NalLock, NalUnlock, Uses, Misuses
  <2>2. fault' \in BOOLEAN
    BY <1>16, Zenon DEF FeederInit, InitReturn, FeederFrame, NalLock, NalUnlock, Uses, Misuses
  <2>3. main' = "joinFeeder" => feeder' # "none"
    BY <1>16 DEF FeederInit, InitReturn, FeederFrame, NalLock, NalUnlock, Uses, Misuses
  <2>4. UNCHANGED <<leaving, objects, m_bVideoFile_ReadThread_Stop, m_hVideoFile,
                    listenVars, sessionVars>>
    BY <1>16 DEF FeederInit, InitReturn, FeederFrame, NalLock, NalUnlock, Uses, Misuses
  <2>5. /\ m_isOpen' \in BOOLEAN /\ m_isStopListenThread' \in BOOLEAN
        /\ m_bVideoFile_ReadThread_Stop' \in BOOLEAN
    BY <2>4, Zenon
  <2>6. /\ leaving' \in {"working", "returned"} /\ transport' \in ObjectState
        /\ stream' \in StreamState /\ audio' \in {"none", "live"} /\ service' \in ObjectState
        /\ m_hVideoFile' \in {"none", "open"} /\ listener' \in {"none", "runs", "exited"}
        /\ session' \in [Client -> SessionPC] /\ stopping' \in SUBSET Client
    BY <2>4
  <2> QED
    BY <2>1, <2>2, <2>3, <2>5, <2>6, Zenon
<1>17. CASE ListenThread
  <2>1. m_isStopListenThread' \in BOOLEAN
    BY <1>17, Zenon DEF ListenThread
  <2>2. UNCHANGED <<main, leaving, objects, feederVars, m_isOpen, stopping, fault>>
        /\ listener' \in {"exited", listener}
    BY <1>17 DEF ListenThread
  <2>3. session' \in [Client -> SessionPC]
    BY <1>17 DEF ListenThread
  <2> QED
    BY <2>1, <2>2, <2>3
<1>18. CASE \E c \in Client : SessionStep(c)
  BY <1>18 DEF SessionStep, SessionLoop, SessionRead, SessionReturn, SessionGoes
<1>19. CASE UNCHANGED serviceVars
  BY <1>19 DEF serviceVars
<1>20. CASE FreePacket
  <2>1. /\ stream' = "stripped" /\ main' \in {"stopStream", "crashed"}
        /\ UNCHANGED <<leaving, transport, audio, service, feederVars, listenVars, sessionVars>>
    BY <1>20 DEF FreePacket
  <2>2. fault' \in BOOLEAN
    BY <1>20, Zenon DEF FreePacket
  <2> QED
    BY <2>1, <2>2
<1> QED
  BY <1>1, <1>2, <1>3, <1>4, <1>5, <1>6, <1>7, <1>8, <1>9, <1>10, <1>11, <1>12, <1>13, <1>14,
     <1>15, <1>16, <1>17, <1>18, <1>19, <1>20 DEF ServiceNext, MainStep, FeederStep

-----------------------------------------------------------------------------
(* Each step leaves what there is at the place that it goes to.             *)
LEMMA ServicePhasesStep == ServiceTypeOK /\ Phases /\ [ServiceNext]_serviceVars => Phases'
<1> SUFFICES ASSUME ServiceTypeOK, Phases, [ServiceNext]_serviceVars PROVE Phases'
  OBVIOUS
<1> USE DEF ServiceTypeOK, Phases, objects, feederVars, listenVars, sessionVars
<1>1. CASE Start
  BY <1>1 DEF Start
<1>2. CASE OpenService
  BY <1>2 DEF OpenService
<1>3. CASE OpenTransport
  BY <1>3 DEF OpenTransport
<1>4. CASE Key
  BY <1>4 DEF Key
<1>5. CASE Close
  BY <1>5 DEF Close
<1>6. CASE DeleteAgain
  BY <1>6 DEF DeleteAgain
<1>7. CASE JoinListener
  BY <1>7 DEF JoinListener
<1>8. CASE \E c \in Client : DeleteSession(c)
  BY <1>8 DEF DeleteSession
<1>9. CASE Closed
  BY <1>9 DEF Closed, ClosedWhen
<1>10. CASE StopStream
  BY <1>10 DEF StopStream
<1>11. CASE FreeStream
  BY <1>11 DEF FreeStream
<1>12. CASE Release
  BY <1>12 DEF Release
<1>13. CASE JoinFeeder
  BY <1>13 DEF JoinFeeder, JoinWhen
<1>14. CASE FreeService
  BY <1>14 DEF FreeService
<1>15. CASE FeederLoop \/ FeederLeaves \/ FeederReturn
  BY <1>15 DEF FeederLoop, LoopWhile, FeederLeaves, FeederReturn, Alive
<1>16. CASE FeederInit \/ InitReturn \/ FeederFrame \/ NalLock \/ NalUnlock
  BY <1>16 DEF FeederInit, InitReturn, FeederFrame, NalLock, NalUnlock, Uses, Misuses, Alive
<1>17. CASE ListenThread
  BY <1>17 DEF ListenThread, Alive
<1>18. CASE \E c \in Client : SessionStep(c)
  BY <1>18 DEF SessionStep, SessionLoop, SessionRead, SessionReturn, SessionGoes, Alive
<1>19. CASE UNCHANGED serviceVars
  BY <1>19 DEF serviceVars
<1>20. CASE FreePacket
  BY <1>20 DEF FreePacket
<1> QED
  BY <1>1, <1>2, <1>3, <1>4, <1>5, <1>6, <1>7, <1>8, <1>9, <1>10, <1>11, <1>12, <1>13, <1>14,
     <1>15, <1>16, <1>17, <1>18, <1>19, <1>20 DEF ServiceNext, MainStep, FeederStep

-----------------------------------------------------------------------------
(* The two together are inductive: they hold at every place of _tmain.      *)
THEOREM ServiceInvariant == ServiceSpec => []ServiceInv
<1>1. ServiceInit => ServiceInv
  BY DEF ServiceInit, ServiceInv, ServiceTypeOK, Phases
<1>2. ServiceInv /\ [ServiceNext]_serviceVars => ServiceInv'
  BY ServiceTypeStep, ServicePhasesStep DEF ServiceInv
<1> QED
  BY <1>1, <1>2, PTL DEF ServiceSpec

(* No session's thread calls a stream that is gone: a session in a call     *)
(* means an open transport, and while that is open the stream lives.  And   *)
(* the service object is there as long as the feeder's thread is.           *)
THEOREM NothingDangles == ServiceSpec => []ThreadsHaveTheirObjects
<1>1. ServiceInv => ThreadsHaveTheirObjects
  BY DEF ServiceInv, ServiceTypeOK, Phases, ThreadsHaveTheirObjects
<1> QED
  BY <1>1, ServiceInvariant, PTL

(* _tmain leaves nothing behind when it returns but the audio stream, and   *)
(* that one whenever it had made its objects.                               *)
THEOREM ProcessEndsClean == ServiceSpec => []ReturnsClean
<1>1. ServiceInv => ReturnsClean
  BY DEF ServiceInv, ServiceTypeOK, Phases, ReturnsClean
<1> QED
  BY <1>1, ServiceInvariant, PTL

(* An object is used during or behind its destruction by the feeder that the*)
(* destruction of the stream has overtaken, at each place for what is gone  *)
(* there, and by _tmain that deletes twice, and by nobody else.             *)
THEOREM NoOtherFault == ServiceSpec => FaultsOnlyThere
<1> DEFINE There ==
             \/ main = "freePacket" /\ feeder \in {"init", "nal"}
             \/ main = "stopStream" /\ feeder \in {"inner", "init", "nal"}
             \/ main = "freeStream" /\ feeder \in {"inner", "init"}
             \/ main \in {"release", "joinFeeder"} /\ feeder \in {"inner", "init", "frame", "nal"}
             \/ main = "close" /\ leaving = "returned" /\ ~m_isOpen
<1>1. ServiceInv /\ [ServiceNext]_serviceVars => [fault' /\ ~fault => There]_serviceVars
  <2> SUFFICES ASSUME ServiceTypeOK, Phases, ServiceNext, fault', ~fault
               PROVE  There
    BY DEF ServiceInv
  <2>1. CASE DeleteAgain
    BY <2>1 DEF DeleteAgain, ServiceTypeOK, Phases
  <2>2. CASE FreePacket
    BY <2>2 DEF FreePacket
  \* The state of the stream tells where _tmain is.
  <2>3. /\ stream = "stripped" /\ Alive => main = "stopStream"
        /\ stream = "stopped" /\ Alive => main = "freeStream"
    BY DEF Alive, ServiceTypeOK, Phases
  <2>4. /\ stream = "freed" /\ Alive /\ feeder \in {"inner", "init", "frame", "nal"} =>
             main \in {"release", "joinFeeder"}
    BY DEF Alive, ServiceTypeOK, Phases
  <2>5. CASE FeederInit \/ InitReturn \/ FeederFrame
    <3>1. /\ Alive /\ feeder \in {"inner", "init"}
          /\ stream \in {"stripped", "stopped", "freed"}
      BY <2>5 DEF FeederInit, InitReturn, FeederFrame, Uses, Misuses
    <3> QED
      BY <2>3, <2>4, <3>1
  <2>6. CASE NalLock \/ NalUnlock
    <3>1. /\ Alive
          /\ \/ feeder = "nal" /\ stream = "stripped"
             \/ feeder \in {"frame", "nal"} /\ stream = "freed"
      BY <2>6 DEF NalLock, NalUnlock, Uses, Misuses
    <3> QED
      BY <2>3, <2>4, <3>1
  <2>7. CASE FeederLoop \/ FeederLeaves \/ FeederReturn \/ ListenThread
             \/ \E c \in Client : SessionStep(c)
    BY <2>7 DEF FeederLoop, LoopWhile, FeederLeaves, FeederReturn, ListenThread,
                SessionStep, SessionLoop, SessionRead, SessionReturn, SessionGoes
  <2>8. CASE Start \/ OpenService \/ OpenTransport \/ Key \/ Close \/ JoinListener
             \/ (\E c \in Client : DeleteSession(c)) \/ Closed
    BY <2>8 DEF Start, OpenService, OpenTransport, Key, Close, JoinListener,
                DeleteSession, Closed, ClosedWhen
  <2>9. CASE StopStream \/ FreeStream \/ Release \/ JoinFeeder \/ FreeService
    BY <2>9 DEF StopStream, FreeStream, Release, JoinFeeder, JoinWhen, FreeService
  <2> QED
    BY <2>1, <2>2, <2>5, <2>6, <2>7, <2>8, <2>9 DEF ServiceNext, MainStep, FeederStep
<1> QED
  BY <1>1, ServiceInvariant, PTL DEF ServiceSpec, FaultsOnlyThere
=============================================================================

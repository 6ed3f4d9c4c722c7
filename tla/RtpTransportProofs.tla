------------------------- MODULE RtpTransportProofs -------------------------
(***************************************************************************)
(* Stop, Setup and the destructor of RtpTransport leave no sending thread  *)
(* behind, for any buffers, packets and limits: proofs about RtpTransport. *)
(***************************************************************************)
EXTENDS RtpTransport, ListLemmas

ControlPC == {"idle", "wait", "setup", "new", "destroy", "gone", "start", "started"}
FeederPC  == {"idle", "get", "fill", "add"}
SenderPC  == {"none", "check", "pace", "write", "return", "ended"}

Live == pc["sender"] \in {"check", "pace", "write", "return"}

\* The places of the threads, and the flags of the object.
PlacesOK ==
    /\ DOMAIN pc = Threads
    /\ pc["control"] \in ControlPC /\ pc["feeder"] \in FeederPC /\ pc["sender"] \in SenderPC
    /\ after \in {"idle", "setup", "destroy"}
    /\ m_bSetup \in BOOLEAN /\ m_bRun \in BOOLEAN

\* Why the property holds.  m_bRun is set behind the making of the thread and cleared behind
\* its end, and while it is set the caller is either out of every method or waiting; Run asks
\* for m_bSetup, which goes before the Rtp does.
QuietInv ==
    /\ PlacesOK
    /\ m_bRun => pc["control"] \in {"idle", "wait"}
    /\ Live => m_bRun \/ pc["control"] = "started"
    /\ m_bSetup /\ pc["control"] # "gone" => m_pRtp = "open"
    /\ m_bRun \/ pc["control"] \in {"start", "started"} => m_bSetup

-----------------------------------------------------------------------------
(* At the beginning there is no thread and no Rtp.                          *)
LEMMA QuietInit == Init => QuietInv
BY DEF Init, QuietInv, PlacesOK, Live, ControlPC, FeederPC, SenderPC, Threads

(* Every step of the caller of Setup, Run, Stop and the destructor.         *)
LEMMA ControlKeepsQuiet ==
    ASSUME QuietInv, ControlStep
    PROVE  QuietInv'
<1> USE DEF QuietInv, PlacesOK, Live, ControlPC, FeederPC, SenderPC, Threads, Go, controlVars
<1>1. CASE \E continue \in {"idle", "setup", "destroy"} : CallStop(continue)
  BY <1>1 DEF CallStop
<1>2. CASE Join
  BY <1>2 DEF Join, JoinWhen
<1>3. CASE DeleteRtp
  BY <1>3 DEF DeleteRtp
<1>4. CASE Destroy
  BY <1>4 DEF Destroy
<1>5. CASE NewRtp
  BY <1>5 DEF NewRtp
<1>6. CASE RunFree
  BY <1>6 DEF RunFree
<1>7. CASE RunThread
  BY <1>7 DEF RunThread
<1>8. CASE RunFlag
  BY <1>8 DEF RunFlag
<1> QED
  BY <1>1, <1>2, <1>3, <1>4, <1>5, <1>6, <1>7, <1>8 DEF ControlStep

(* The feeder, in SetRtpData, moves itself alone.                           *)
LEMMA FeederKeepsQuiet ==
    ASSUME QuietInv, FeederStep
    PROVE  QuietInv'
<1>1. /\ UNCHANGED controlVars
      /\ \E place \in FeederPC : Go("feeder", place)
  BY DEF FeederStep, SetRtpData, SetRtpDataIf, FeederGet, FeederTakes, FeederFill, FeederAdd,
         FeederPC
<1> QED
  BY <1>1 DEF QuietInv, PlacesOK, Live, FeederPC, Threads, Go, controlVars

(* The sending thread moves itself alone, and a thread that has ended or was *)
(* never made does not come to life.                                        *)
LEMMA SenderKeepsQuiet ==
    ASSUME QuietInv, SenderStep
    PROVE  QuietInv'
<1>1. /\ UNCHANGED controlVars /\ Live
      /\ UNCHANGED pc \/ \E place \in SenderPC : Go("sender", place)
  BY DEF SenderStep, SenderCheck, SenderCheckWith, SenderRestart, SenderSleep, SenderGet, TakeFull,
         SenderWrite, SenderReturn, SenderPC, Live
<1> QED
  BY <1>1 DEF QuietInv, PlacesOK, Live, SenderPC, Threads, Go, controlVars

(* The invariant holds for any buffers, sizes, limits and bounds.           *)
THEOREM QuietInvariance == Spec => []QuietInv
<1>1. QuietInv /\ [Next]_vars => QuietInv'
  <2> SUFFICES ASSUME QuietInv, [Next]_vars
               PROVE  QuietInv'
    OBVIOUS
  <2>1. CASE ControlStep
    BY <2>1, ControlKeepsQuiet
  <2>2. CASE FeederStep
    BY <2>2, FeederKeepsQuiet
  <2>3. CASE SenderStep
    BY <2>3, SenderKeepsQuiet
  <2>4. CASE Tick \/ Wrap \/ UNCHANGED vars
    <3>1. UNCHANGED <<controlVars, pc>>
      BY <2>4 DEF Tick, Wrap, vars
    <3> QED
      BY <3>1 DEF QuietInv, PlacesOK, Live, controlVars
  <2> QED
    BY <2>1, <2>2, <2>3, <2>4 DEF Next
<1> QED
  BY <1>1, QuietInit, PTL DEF Spec

(* While the sending thread runs its Rtp is open, and nobody behind a Stop  *)
(* has gone on.                                                             *)
THEOREM NothingAfterStop == Spec => []StoppedIsQuiet
<1>1. QuietInv => StoppedIsQuiet
  BY DEF QuietInv, Live, StoppedIsQuiet
<1> QED
  BY <1>1, QuietInvariance, PTL

-----------------------------------------------------------------------------
(* The pool.  Its invariant is in parts: what is where, whose each buffer   *)
(* is, what the feeder is about to add, what is queued, and in which order. *)

Packet == [n : Nat, size : Nat]

ItsThreads == {"feeder", "sender"}

\* All elements of a list are different.
Distinct(s) == \A i, j \in 1..Len(s) : s[i] = s[j] => i = j

\* The sizes of the packets in a list of buffers.
SizesIn(list, c) == [k \in DOMAIN list |-> c[list[k]].size]

DataOK ==
    /\ m_FullBuffer \in Seq(Buffer) /\ m_EmptyBuffer \in Seq(Buffer)
    /\ held \in [ItsThreads -> Buffer \cup {NoBuffer}]
    /\ content \in [Buffer -> Packet]
    /\ input \in Packet /\ wire \in Packet /\ accepted \in Nat

\* A thread has a buffer between the calls that take it out of the pool and put it back.
HeldWhile ==
    /\ held["feeder"] # NoBuffer <=> pc["feeder"] \in {"fill", "add"}
    /\ held["sender"] # NoBuffer <=> pc["sender"] \in {"write", "return"}

InHand == {held["feeder"], held["sender"]} \ {NoBuffer}

\* What OneOwner says, as a partition.
Owned ==
    /\ Distinct(m_FullBuffer) /\ Distinct(m_EmptyBuffer)
    /\ ToSet(m_FullBuffer) \cap ToSet(m_EmptyBuffer) = {}
    /\ InHand \cap (ToSet(m_FullBuffer) \cup ToSet(m_EmptyBuffer)) = {}
    /\ held["feeder"] = held["sender"] => held["feeder"] = NoBuffer
    /\ made = ToSet(m_FullBuffer) \cup ToSet(m_EmptyBuffer) \cup InHand
    /\ IsFiniteSet(made)

\* The packet the feeder was called with, until it is queued.
Incoming ==
    /\ pc["feeder"] \in {"get", "fill", "add"} =>
         /\ input.n = accepted + 1 /\ input.size \in Sizes /\ input.size <= MTU
         /\ m_nDataSize <= Limit
    /\ pc["feeder"] = "add" => content[held["feeder"]] = input

\* The queue, its counter, its limit, and how far the pool may grow.
QueueInv ==
    /\ \A b \in ToSet(m_FullBuffer) : content[b].size \in Sizes
    /\ m_nDataSize = Total(SizesIn(m_FullBuffer, content))
    /\ m_nDataSize <= Limit + MTU
    /\ Cardinality(made) <= Limit \div Min(Sizes) + 2

\* The numbers of the packets: the last one sent, the one to send, the queued ones.
Ordered ==
    /\ wire.n <= accepted
    /\ pc["sender"] = "write" =>
         /\ wire.n < content[held["sender"]].n
         /\ content[held["sender"]].n <= accepted
         /\ \A k \in 1..Len(m_FullBuffer) :
              content[held["sender"]].n < content[m_FullBuffer[k]].n
    /\ \A k \in 1..Len(m_FullBuffer) :
         wire.n < content[m_FullBuffer[k]].n /\ content[m_FullBuffer[k]].n <= accepted
    /\ \A j, k \in 1..Len(m_FullBuffer) :
         j < k => content[m_FullBuffer[j]].n < content[m_FullBuffer[k]].n

PoolInv == DataOK /\ HeldWhile /\ Owned /\ Incoming /\ QueueInv /\ Ordered

IInv == QuietInv /\ PoolInv

-----------------------------------------------------------------------------
(* Lemmas about the lists of the pool and the limit.                        *)

(* The smallest size of a packet is one of the sizes.                       *)
LEMMA Smallest ==
    /\ Min(Sizes) \in Sizes /\ Min(Sizes) \in Nat \ {0}
    /\ \A n \in Sizes : Min(Sizes) <= n
<1>1. \E m \in Sizes : \A n \in Sizes : m <= n
  BY RtpTransportAssumption, SmallestExists
<1> QED
  BY <1>1, RtpTransportAssumption DEF Min

(* Limit and MTU are numbers.                                               *)
LEMMA Limits == Limit \in Nat /\ MTU \in Nat
BY RtpTransportAssumption DEF Limit

(* As many as fit into x, if each takes m.                                  *)
LEMMA AtMost ==
    ASSUME NEW m \in Nat \ {0}, NEW x \in Nat, NEW k \in Nat, m * k <= x
    PROVE  k <= x \div m
<1> DEFINE q == x \div m
<1>1. q \in Nat /\ x < m * q + m
  BY SMT
<1> HIDE DEF q
<1> SUFFICES ASSUME k >= q + 1
             PROVE  FALSE
  BY <1>1
<1>2. PICK d \in Nat : k = q + 1 + d
  <2>1. k - (q + 1) \in Nat
    BY <1>1
  <2> QED
    BY <1>1, <2>1
<1>3. m * k = m * q + m + m * d
  BY <1>1, <1>2
<1>4. m * d \in Nat /\ m * q \in Nat
  BY <1>1
<1> QED
  BY <1>1, <1>3, <1>4

(* The sizes in a list with one buffer more, and in one without its first.  *)
LEMMA SizesAppend ==
    ASSUME NEW c, NEW s \in Seq(Buffer), NEW b \in Buffer
    PROVE  SizesIn(Append(s, b), c) = Append(SizesIn(s, c), c[b].size)
BY DEF SizesIn

(* One buffer less at the front.                                            *)
LEMMA SizesTail ==
    ASSUME NEW c, NEW s \in Seq(Buffer), s # <<>>
    PROVE  /\ SizesIn(Tail(s), c) = Tail(SizesIn(s, c))
           /\ SizesIn(s, c) # <<>> /\ Head(SizesIn(s, c)) = c[Head(s)].size
BY DEF SizesIn

(* They are numbers, as many as buffers, and depend on what is in these.    *)
LEMMA SizesType ==
    ASSUME NEW c \in [Buffer -> Packet], NEW s \in Seq(Buffer)
    PROVE  SizesIn(s, c) \in Seq(Int) /\ Len(SizesIn(s, c)) = Len(s)
BY DEF SizesIn, Packet

(* The sum goes by the sizes only.                                          *)
LEMMA SizesSame ==
    ASSUME NEW c, NEW d, NEW s \in Seq(Buffer), \A b \in ToSet(s) : c[b] = d[b]
    PROVE  SizesIn(s, c) = SizesIn(s, d)
BY DEF SizesIn, ToSet

(* A list stays without repetition when its first element leaves, which is  *)
(* then not in it, and when one comes that was not in it.                   *)
LEMMA DistinctTail ==
    ASSUME NEW s \in Seq(Buffer), s # <<>>, Distinct(s)
    PROVE  /\ Tail(s) \in Seq(Buffer) /\ Head(s) \in Buffer
           /\ Distinct(Tail(s)) /\ Head(s) \notin ToSet(Tail(s))
           /\ ToSet(s) = {Head(s)} \cup ToSet(Tail(s))
<1>1. /\ Len(s) \in Nat \ {0} /\ Head(s) = s[1] /\ Len(Tail(s)) = Len(s) - 1
      /\ \A k \in 1..(Len(s) - 1) : Tail(s)[k] = s[k + 1]
      /\ DOMAIN Tail(s) = 1..(Len(s) - 1)
      /\ Tail(s) \in Seq(Buffer) /\ s[1] \in Buffer
  OBVIOUS
<1>2. Head(s) \notin ToSet(Tail(s))
  BY <1>1 DEF Distinct, ToSet
<1>3. Distinct(Tail(s))
  BY <1>1 DEF Distinct
<1> QED
  BY <1>1, <1>2, <1>3, ToSetTail

(* A list of different buffers with another one behind it.                  *)
LEMMA DistinctAppend ==
    ASSUME NEW s \in Seq(Buffer), NEW b \in Buffer, Distinct(s), b \notin ToSet(s)
    PROVE  /\ Append(s, b) \in Seq(Buffer)
           /\ Distinct(Append(s, b)) /\ ToSet(Append(s, b)) = ToSet(s) \cup {b}
<1>1. /\ Len(s) \in Nat /\ Len(Append(s, b)) = Len(s) + 1 /\ DOMAIN s = 1..Len(s)
      /\ \A k \in 1..Len(s) : Append(s, b)[k] = s[k]
      /\ Append(s, b)[Len(s) + 1] = b
      /\ Append(s, b) \in Seq(Buffer)
  OBVIOUS
<1>2. \A k \in 1..Len(s) : s[k] # b
  BY <1>1 DEF ToSet
<1>3. Distinct(Append(s, b))
  <2> SUFFICES ASSUME NEW i \in 1..(Len(s) + 1), NEW j \in 1..(Len(s) + 1),
                      Append(s, b)[i] = Append(s, b)[j]
               PROVE  i = j
    BY <1>1 DEF Distinct
  <2>1. CASE i = Len(s) + 1 \/ j = Len(s) + 1
    BY <1>1, <1>2, <2>1
  <2>2. CASE i # Len(s) + 1 /\ j # Len(s) + 1
    <3>1. i \in 1..Len(s) /\ j \in 1..Len(s)
      BY <1>1, <2>2
    <3> QED
      BY <1>1, <3>1 DEF Distinct
  <2> QED
    BY <2>1, <2>2
<1> QED
  BY <1>1, <1>3, ToSetAppend

-----------------------------------------------------------------------------
(* The steps that leave the pool and what is in it alone.                   *)

(* At the beginning the pool is empty and nothing was sent.                 *)
LEMMA PoolInit == Init => PoolInv
<1> SUFFICES ASSUME Init
             PROVE  PoolInv
  OBVIOUS
<1> USE DEF Init
<1>1. DataOK
  BY RtpTransportAssumption DEF DataOK, ItsThreads, Packet, NoPacket
<1>2. HeldWhile /\ Incoming
  BY DEF HeldWhile, Incoming, Threads
<1>3. ToSet(m_FullBuffer) = {} /\ ToSet(m_EmptyBuffer) = {} /\ InHand = {}
  BY DEF ToSet, InHand
<1>4. Owned
  BY <1>3, FS_EmptySet DEF Owned, Distinct
<1>5. QueueInv
  <2>1. SizesIn(m_FullBuffer, content) = <<>>
    BY DEF SizesIn
  <2>2. Limit \div Min(Sizes) \in Nat
    BY Limits, Smallest
  <2> QED
    BY <1>3, <2>1, <2>2, TotalEmpty, Limits, FS_EmptySet DEF QueueInv
<1>6. Ordered
  BY DEF Ordered, Threads, NoPacket
<1> QED
  BY <1>1, <1>2, <1>4, <1>5, <1>6 DEF PoolInv

(* A step that changes no buffer, no list and no packet, and takes neither  *)
(* thread to or from where it has a buffer, keeps the invariant.            *)
LEMMA NothingMoves ==
    ASSUME PoolInv, UNCHANGED <<poolVars, held, dataVars>>,
           pc'["feeder"] = pc["feeder"],
           \/ pc'["sender"] = pc["sender"]
           \/ {pc["sender"], pc'["sender"]} \cap {"write", "return"} = {}
    PROVE  PoolInv'
<1>1. DataOK' /\ HeldWhile'
  BY DEF PoolInv, DataOK, HeldWhile, poolVars, dataVars
<1>2. Owned' /\ QueueInv'
  BY DEF PoolInv, Owned, QueueInv, InHand, poolVars, dataVars
<1>3. Incoming' /\ Ordered'
  BY DEF PoolInv, Incoming, Ordered, poolVars, dataVars
<1> QED
  BY <1>1, <1>2, <1>3 DEF PoolInv

(* FreeBuffer deletes what is in the lists, and what a thread has in its    *)
(* hands stays.                                                             *)
LEMMA FreeKeepsPool ==
    ASSUME PoolInv, FreeBuffer, UNCHANGED <<held, input, accepted, wire>>,
           pc'["feeder"] = pc["feeder"], pc'["sender"] = pc["sender"]
    PROVE  PoolInv'
<1> DEFINE freed == ToSet(m_FullBuffer) \cup ToSet(m_EmptyBuffer)
<1>1. /\ m_FullBuffer' = <<>> /\ m_EmptyBuffer' = <<>> /\ m_nDataSize' = 0
      /\ made' = made \ freed
      /\ content' = [b \in Buffer |-> IF b \in freed THEN NoPacket ELSE content[b]]
  BY DEF FreeBuffer
<1>2. ToSet(m_FullBuffer)' = {} /\ ToSet(m_EmptyBuffer)' = {} /\ InHand' = InHand
  BY <1>1 DEF ToSet, InHand
<1>3. \A b \in Buffer \ freed : content'[b] = content[b]
  BY <1>1
<1>4. InHand \cap freed = {} /\ made = freed \cup InHand /\ IsFiniteSet(made)
  BY DEF PoolInv, Owned
<1>5. InHand \subseteq Buffer
  BY DEF PoolInv, DataOK, InHand, ItsThreads
<1> HIDE DEF freed
<1>6. DataOK'
  <2>1. NoPacket \in Packet
    BY DEF NoPacket, Packet
  <2> QED
    BY <1>1, <2>1 DEF PoolInv, DataOK
<1>7. HeldWhile'
  BY DEF PoolInv, HeldWhile
<1>8. made' = InHand /\ IsFiniteSet(made') /\ Cardinality(made') <= Cardinality(made)
  <2>1. made' = InHand /\ made' \in SUBSET made
    BY <1>1, <1>4
  <2> QED
    BY <1>4, <2>1, FS_Subset
<1>9. Owned'
  BY <1>1, <1>2, <1>8 DEF PoolInv, Owned, Distinct
<1>10. Incoming'
  <2>1. pc["feeder"] = "add" => held["feeder"] \in InHand
    BY DEF PoolInv, HeldWhile, InHand
  <2>2. pc["feeder"] = "add" => content'[held["feeder"]] = content[held["feeder"]]
    BY <1>3, <1>4, <1>5, <2>1
  <2> QED
    BY <1>1, <2>2, Limits DEF PoolInv, Incoming
<1>11. QueueInv'
  <2>1. SizesIn(m_FullBuffer', content') = <<>>
    BY <1>1 DEF SizesIn
  <2>2. /\ Cardinality(made) \in Nat /\ Cardinality(made') \in Nat
        /\ Cardinality(made) <= Limit \div Min(Sizes) + 2
    BY <1>4, <1>8, FS_CardinalityType DEF PoolInv, QueueInv
  <2>3. Limit \div Min(Sizes) \in Nat
    BY Limits, Smallest
  <2>4. Cardinality(made') <= Limit \div Min(Sizes) + 2
    BY <1>8, <2>2, <2>3
  <2> QED
    BY <1>1, <1>2, <2>1, <2>4, TotalEmpty, Limits DEF QueueInv
<1>12. Ordered'
  <2>1. pc["sender"] = "write" => held["sender"] \in InHand
    BY DEF PoolInv, HeldWhile, InHand
  <2>2. pc["sender"] = "write" => content'[held["sender"]] = content[held["sender"]]
    BY <1>3, <1>4, <1>5, <2>1
  <2> QED
    BY <1>1, <2>2 DEF PoolInv, Ordered
<1> QED
  BY <1>6, <1>7, <1>9, <1>10, <1>11, <1>12 DEF PoolInv

-----------------------------------------------------------------------------
(* The steps of the feeder.                                                 *)

(* SetRtpData accepts a packet when the queue is within its limit.          *)
LEMMA AcceptKeepsPool ==
    ASSUME PoolInv, PlacesOK, NEW size \in Sizes, SetRtpData(size)
    PROVE  PoolInv'
<1>1. /\ pc["feeder"] = "idle" /\ pc'["feeder"] = "get" /\ pc'["sender"] = pc["sender"]
      /\ m_nDataSize <= Limit /\ size <= MTU
      /\ input' = [n |-> accepted + 1, size |-> size]
      /\ UNCHANGED <<poolVars, held, content, accepted, wire>>
  BY DEF SetRtpData, SetRtpDataIf, Go, PlacesOK, Threads
<1>2. DataOK'
  BY <1>1, RtpTransportAssumption DEF PoolInv, DataOK, Packet, poolVars
<1>3. HeldWhile' /\ Owned' /\ QueueInv'
  BY <1>1 DEF PoolInv, HeldWhile, Owned, QueueInv, InHand, poolVars
<1>4. Incoming' /\ Ordered'
  BY <1>1 DEF PoolInv, Incoming, Ordered, poolVars
<1> QED
  BY <1>2, <1>3, <1>4 DEF PoolInv

(* The feeder takes the first of the empty buffers, or a new one: which may *)
(* be the last the limit of the pool leaves, the empty list being used up.  *)
LEMMA GetKeepsPool ==
    ASSUME PoolInv, PlacesOK, FeederGet
    PROVE  PoolInv'
<1>1. /\ pc["feeder"] = "get" /\ pc'["feeder"] = "fill" /\ pc'["sender"] = pc["sender"]
      /\ UNCHANGED <<m_FullBuffer, m_nDataSize, dataVars>>
  BY DEF FeederGet, FeederTakes, Go, PlacesOK, Threads
<1>2. held["feeder"] = NoBuffer
  BY <1>1 DEF PoolInv, HeldWhile
<1>3. Incoming' /\ Ordered'
  <2>1. held'["sender"] = held["sender"]
    BY DEF FeederGet, FeederTakes, PoolInv, DataOK, ItsThreads
  <2> QED
    BY <1>1, <2>1 DEF PoolInv, Incoming, Ordered, dataVars
<1>4. CASE m_EmptyBuffer # <<>>
  <2> DEFINE b == Head(m_EmptyBuffer)
  <2>1. /\ held' = [held EXCEPT !["feeder"] = b] /\ m_EmptyBuffer' = Tail(m_EmptyBuffer)
        /\ made' = made
    BY <1>4 DEF FeederGet, FeederTakes
  <2>2. /\ Tail(m_EmptyBuffer) \in Seq(Buffer) /\ b \in Buffer
        /\ Distinct(Tail(m_EmptyBuffer)) /\ b \notin ToSet(Tail(m_EmptyBuffer))
        /\ ToSet(m_EmptyBuffer) = {b} \cup ToSet(Tail(m_EmptyBuffer))
    BY <1>4, DistinctTail DEF PoolInv, Owned, DataOK
  <2> HIDE DEF b
  <2>3. /\ held' \in [ItsThreads -> Buffer \cup {NoBuffer}]
        /\ held'["feeder"] = b /\ held'["sender"] = held["sender"] /\ b # NoBuffer
    BY <2>1, <2>2, RtpTransportAssumption DEF PoolInv, DataOK, ItsThreads
  <2>4. DataOK' /\ HeldWhile'
    BY <1>1, <2>1, <2>2, <2>3 DEF PoolInv, DataOK, HeldWhile, dataVars
  <2>5. InHand' = InHand \cup {b}
    BY <1>2, <2>3 DEF InHand
  <2>6. Owned'
    <3>1. Distinct(m_FullBuffer') /\ Distinct(m_EmptyBuffer') /\ IsFiniteSet(made')
      BY <1>1, <2>1, <2>2 DEF PoolInv, Owned
    <3>2. /\ ToSet(m_FullBuffer) \cap ToSet(m_EmptyBuffer) = {}
          /\ InHand \cap (ToSet(m_FullBuffer) \cup ToSet(m_EmptyBuffer)) = {}
          /\ made = ToSet(m_FullBuffer) \cup ToSet(m_EmptyBuffer) \cup InHand
      BY DEF PoolInv, Owned
    <3>3. ToSet(m_FullBuffer)' = ToSet(m_FullBuffer)
          /\ ToSet(m_EmptyBuffer)' = ToSet(Tail(m_EmptyBuffer))
      BY <1>1, <2>1
    <3>4. b # held["sender"]
      BY <2>2, <2>3, <3>2 DEF InHand
    <3> QED
      BY <2>1, <2>2, <2>3, <2>5, <3>1, <3>2, <3>3, <3>4 DEF Owned
  <2>7. QueueInv'
    BY <1>1, <2>1 DEF PoolInv, QueueInv, dataVars
  <2> QED
    BY <1>3, <2>4, <2>6, <2>7 DEF PoolInv
<1>5. CASE m_EmptyBuffer = <<>>
  <2> DEFINE b == CHOOSE b \in Buffer : b \notin made
             m == Min(Sizes)
  <2>1. /\ held' = [held EXCEPT !["feeder"] = b] /\ m_EmptyBuffer' = <<>>
        /\ made' = made \cup {b}
    BY <1>5 DEF FeederGet, FeederTakes
  <2>2. ToSet(m_EmptyBuffer) = {}
    BY <1>5 DEF ToSet
  <2>3. Cardinality(made) <= Limit \div m + 1
    <3>1. /\ IsFiniteSet(ToSet(m_FullBuffer))
          /\ Cardinality(ToSet(m_FullBuffer)) = Len(m_FullBuffer)
      BY OneOfEach DEF PoolInv, DataOK, Owned, Distinct
    <3>2. Len(m_FullBuffer) <= Limit \div m
      <4>1. /\ SizesIn(m_FullBuffer, content) \in Seq(Int)
            /\ Len(SizesIn(m_FullBuffer, content)) = Len(m_FullBuffer)
        BY SizesType DEF PoolInv, DataOK
      <4>2. \A k \in 1..Len(m_FullBuffer) : SizesIn(m_FullBuffer, content)[k] >= m
        <5> SUFFICES ASSUME NEW k \in 1..Len(m_FullBuffer)
                     PROVE  SizesIn(m_FullBuffer, content)[k] >= m
          OBVIOUS
        <5>1. m_FullBuffer[k] \in ToSet(m_FullBuffer) /\ DOMAIN m_FullBuffer = 1..Len(m_FullBuffer)
          BY DEF ToSet, PoolInv, DataOK
        <5>2. content[m_FullBuffer[k]].size \in Sizes
          BY <5>1 DEF PoolInv, QueueInv
        <5>3. content[m_FullBuffer[k]].size \in Nat /\ m \in Nat
          BY <5>2, Smallest, RtpTransportAssumption
        <5>4. m <= content[m_FullBuffer[k]].size
          BY <5>2, Smallest
        <5>5. SizesIn(m_FullBuffer, content)[k] = content[m_FullBuffer[k]].size
          BY <5>1 DEF SizesIn
        <5> HIDE DEF m
        <5> QED
          BY <5>3, <5>4, <5>5
      <4>3. m \in Nat \ {0} /\ Len(m_FullBuffer) \in Nat
        BY Smallest DEF PoolInv, DataOK
      <4> HIDE DEF m
      <4>4. Total(SizesIn(m_FullBuffer, content)) >= m * Len(m_FullBuffer)
        BY <4>1, <4>2, <4>3, TotalAtLeast
      <4>5. Total(SizesIn(m_FullBuffer, content)) <= Limit
        BY <1>1 DEF PoolInv, Incoming, QueueInv
      <4>6. Total(SizesIn(m_FullBuffer, content)) \in Int /\ m * Len(m_FullBuffer) \in Int
        BY <4>1, <4>3, TotalType
      <4> QED
        BY <4>3, <4>4, <4>5, <4>6, Limits, AtMost
    <3>3. made \subseteq ToSet(m_FullBuffer) \cup {held["sender"]}
      BY <1>2, <2>2 DEF PoolInv, Owned, InHand
    <3>4. /\ IsFiniteSet(ToSet(m_FullBuffer) \cup {held["sender"]})
          /\ Cardinality(ToSet(m_FullBuffer) \cup {held["sender"]}) <= Len(m_FullBuffer) + 1
      <4> DEFINE T == ToSet(m_FullBuffer)
                 x == held["sender"]
                 l == Len(m_FullBuffer)
      <4>1. l \in Nat /\ IsFiniteSet(T) /\ Cardinality(T) = l
        BY <3>1 DEF PoolInv, DataOK
      <4> HIDE DEF T, x, l
      <4>2. /\ IsFiniteSet(T \cup {x})
            /\ Cardinality(T \cup {x}) = IF x \in T THEN Cardinality(T) ELSE Cardinality(T) + 1
        BY <4>1, FS_AddElement
      <4>3. Cardinality(T \cup {x}) <= l + 1
        BY <4>1, <4>2
      <4> QED
        BY <4>2, <4>3 DEF T, x, l
    <3>5. /\ Cardinality(made) <= Cardinality(ToSet(m_FullBuffer) \cup {held["sender"]})
          /\ Cardinality(made) \in Nat
          /\ Cardinality(ToSet(m_FullBuffer) \cup {held["sender"]}) \in Nat
      <4> DEFINE U == ToSet(m_FullBuffer) \cup {held["sender"]}
      <4>1. IsFiniteSet(U) /\ made \subseteq U
        BY <3>3, <3>4
      <4> HIDE DEF U
      <4>2. IsFiniteSet(made) /\ Cardinality(made) <= Cardinality(U)
        BY <4>1, FS_Subset
      <4>3. Cardinality(made) \in Nat /\ Cardinality(U) \in Nat
        BY <4>1, <4>2, FS_CardinalityType
      <4> QED
        BY <4>2, <4>3 DEF U
    <3>6. Limit \div m \in Nat /\ Len(m_FullBuffer) \in Nat
      <4>1. Limit \in Nat /\ m \in Nat \ {0} /\ m_FullBuffer \in Seq(Buffer)
        BY Limits, Smallest DEF PoolInv, DataOK
      <4> HIDE DEF m
      <4> QED
        BY <4>1
    <3> DEFINE q == Limit \div m
               l == Len(m_FullBuffer)
               u == Cardinality(ToSet(m_FullBuffer) \cup {held["sender"]})
               c == Cardinality(made)
    <3>7. /\ q \in Nat /\ l \in Nat /\ u \in Nat /\ c \in Nat
          /\ l <= q /\ u <= l + 1 /\ c <= u
      BY <3>2, <3>4, <3>5, <3>6
    <3> HIDE DEF q, l, u, c
    <3>8. c <= q + 1
      BY <3>7
    <3> QED
      BY <3>8 DEF c, q
  <2>4. IsFiniteSet(made) /\ Cardinality(made) \in Nat /\ Limit \div m \in Nat
    BY FS_CardinalityType, Limits, Smallest DEF PoolInv, Owned
  <2>5. b \in Buffer /\ b \notin made
    <3>1. \E x \in Buffer : x \notin made
      <4> SUFFICES ASSUME Buffer \subseteq made
                   PROVE  FALSE
        OBVIOUS
      <4>1. IsFiniteSet(Buffer) /\ Cardinality(Buffer) <= Cardinality(made)
        BY <2>4, FS_Subset
      <4>2. Cardinality(Buffer) \in Nat /\ Cardinality(Buffer) >= Limit \div m + 2
        BY <4>1, MemoryAssumption, FS_CardinalityType
      <4> QED
        BY <2>3, <2>4, <4>1, <4>2
    <3> QED
      BY <3>1
  <2> HIDE DEF b, m
  <2>6. /\ held' \in [ItsThreads -> Buffer \cup {NoBuffer}]
        /\ held'["feeder"] = b /\ held'["sender"] = held["sender"] /\ b # NoBuffer
    BY <2>1, <2>5, RtpTransportAssumption DEF PoolInv, DataOK, ItsThreads
  <2>7. DataOK' /\ HeldWhile'
    BY <1>1, <1>5, <2>1, <2>6 DEF PoolInv, DataOK, HeldWhile, dataVars
  <2>8. InHand' = InHand \cup {b}
    BY <1>2, <2>6 DEF InHand
  <2>9. IsFiniteSet(made') /\ Cardinality(made') = Cardinality(made) + 1
    BY <2>1, <2>4, <2>5, FS_AddElement
  <2>10. Owned'
    BY <1>1, <1>2, <1>5, <2>1, <2>5, <2>6, <2>8, <2>9 DEF PoolInv, Owned, InHand
  <2>11. Cardinality(made') <= Limit \div Min(Sizes) + 2
    BY <2>3, <2>4, <2>9 DEF m
  <2>12. QueueInv'
    BY <1>1, <2>11 DEF PoolInv, QueueInv, dataVars
  <2> QED
    BY <1>3, <2>7, <2>10, <2>12 DEF PoolInv
<1> QED
  BY <1>4, <1>5

(* The feeder writes into its own buffer: nobody else has it.               *)
LEMMA FillKeepsPool ==
    ASSUME PoolInv, PlacesOK, FeederFill
    PROVE  PoolInv'
<1> DEFINE b == held["feeder"]
<1>1. /\ pc["feeder"] = "fill" /\ pc'["feeder"] = "add" /\ pc'["sender"] = pc["sender"]
      /\ content' = [content EXCEPT ![b] = input]
      /\ UNCHANGED <<poolVars, held, input, accepted, wire>>
  BY DEF FeederFill, Go, PlacesOK, Threads
<1>2. /\ b \in Buffer /\ b \notin ToSet(m_FullBuffer)
      /\ pc["sender"] = "write" => held["sender"] # b /\ held["sender"] \in Buffer
  BY <1>1 DEF PoolInv, DataOK, HeldWhile, Owned, InHand, ItsThreads
<1> HIDE DEF b
<1>3. /\ content' \in [Buffer -> Packet] /\ content'[b] = input
      /\ \A x \in Buffer : x # b => content'[x] = content[x]
  BY <1>1, <1>2 DEF PoolInv, DataOK
<1>4. \A x \in ToSet(m_FullBuffer) : content'[x] = content[x]
  BY <1>2, <1>3 DEF PoolInv, DataOK, ToSet
<1>5. DataOK' /\ HeldWhile'
  BY <1>1, <1>3 DEF PoolInv, DataOK, HeldWhile, poolVars
<1>6. Owned'
  BY <1>1 DEF PoolInv, Owned, InHand, poolVars
<1>7. Incoming'
  BY <1>1, <1>3 DEF PoolInv, Incoming, poolVars, b
<1>8. QueueInv'
  <2>1. SizesIn(m_FullBuffer, content') = SizesIn(m_FullBuffer, content)
    BY <1>4, SizesSame DEF PoolInv, DataOK
  <2>2. m_FullBuffer' = m_FullBuffer /\ m_nDataSize' = m_nDataSize /\ made' = made
    BY <1>1 DEF poolVars
  <2> QED
    BY <1>4, <2>1, <2>2 DEF PoolInv, QueueInv
<1>9. Ordered'
  <2>1. \A k \in 1..Len(m_FullBuffer) : content'[m_FullBuffer[k]] = content[m_FullBuffer[k]]
    BY <1>4 DEF PoolInv, DataOK, ToSet
  <2>2. pc["sender"] = "write" => content'[held["sender"]] = content[held["sender"]]
    BY <1>2, <1>3
  <2>3. /\ m_FullBuffer' = m_FullBuffer /\ held' = held /\ wire' = wire /\ accepted' = accepted
        /\ pc'["sender"] = pc["sender"]
    BY <1>1 DEF poolVars
  <2> QED
    BY <2>1, <2>2, <2>3 DEF PoolInv, Ordered
<1> QED
  BY <1>5, <1>6, <1>7, <1>8, <1>9 DEF PoolInv

(* The buffer joins the queue behind packets that were accepted before it.  *)
LEMMA AddKeepsPool ==
    ASSUME PoolInv, PlacesOK, FeederAdd
    PROVE  PoolInv'
<1> DEFINE b == held["feeder"]
<1>1. /\ pc["feeder"] = "add" /\ pc'["feeder"] = "idle" /\ pc'["sender"] = pc["sender"]
      /\ m_FullBuffer' = Append(m_FullBuffer, b)
      /\ m_nDataSize' = m_nDataSize + content[b].size
      /\ held' = [held EXCEPT !["feeder"] = NoBuffer]
      /\ accepted' = accepted + 1 /\ input' = NoPacket
      /\ UNCHANGED <<m_EmptyBuffer, made, content, wire>>
  BY DEF FeederAdd, Go, PlacesOK, Threads, SizeOf
<1>2. /\ b \in Buffer /\ b # NoBuffer /\ b \in InHand
      /\ b \notin ToSet(m_FullBuffer) /\ b \notin ToSet(m_EmptyBuffer)
      /\ held["sender"] # b
  BY <1>1 DEF PoolInv, DataOK, HeldWhile, Owned, InHand, ItsThreads
<1>3. /\ content[b].n = accepted + 1 /\ content[b].size \in Sizes /\ content[b].size <= MTU
      /\ m_nDataSize <= Limit
  BY <1>1 DEF PoolInv, Incoming
<1>4. /\ held' \in [ItsThreads -> Buffer \cup {NoBuffer}]
      /\ held'["feeder"] = NoBuffer /\ held'["sender"] = held["sender"]
  BY <1>1 DEF PoolInv, DataOK, ItsThreads
<1> HIDE DEF b
<1>5. /\ m_FullBuffer' \in Seq(Buffer) /\ Distinct(m_FullBuffer')
      /\ ToSet(m_FullBuffer') = ToSet(m_FullBuffer) \cup {b}
  BY <1>1, <1>2, DistinctAppend DEF PoolInv, DataOK, Owned
<1>6. DataOK'
  <2>1. NoPacket \in Packet /\ accepted + 1 \in Nat
    BY DEF NoPacket, Packet, PoolInv, DataOK
  <2> QED
    BY <1>1, <1>4, <1>5, <2>1 DEF PoolInv, DataOK
<1>7. HeldWhile' /\ Incoming'
  BY <1>1, <1>4 DEF PoolInv, HeldWhile, Incoming
<1>8. Owned'
  <2>1. InHand' = InHand \ {b}
    BY <1>2, <1>4 DEF InHand, b
  <2>2. /\ ToSet(m_FullBuffer) \cap ToSet(m_EmptyBuffer) = {}
        /\ InHand \cap (ToSet(m_FullBuffer) \cup ToSet(m_EmptyBuffer)) = {}
        /\ made = ToSet(m_FullBuffer) \cup ToSet(m_EmptyBuffer) \cup InHand
        /\ Distinct(m_EmptyBuffer) /\ IsFiniteSet(made)
    BY DEF PoolInv, Owned
  <2>3. ToSet(m_EmptyBuffer)' = ToSet(m_EmptyBuffer) /\ Distinct(m_EmptyBuffer)' /\ made' = made
    BY <1>1, <2>2
  <2> QED
    BY <1>2, <1>4, <1>5, <2>1, <2>2, <2>3 DEF Owned
<1>9. QueueInv'
  <2>1. SizesIn(m_FullBuffer', content') = Append(SizesIn(m_FullBuffer, content), content[b].size)
    BY <1>1, <1>2, SizesAppend DEF PoolInv, DataOK
  <2>2. content[b].size \in Int
    BY <1>2 DEF PoolInv, DataOK, Packet
  <2>3. SizesIn(m_FullBuffer, content) \in Seq(Int)
    BY SizesType DEF PoolInv, DataOK
  <2>4. Total(SizesIn(m_FullBuffer', content')) = m_nDataSize'
    BY <1>1, <2>1, <2>2, <2>3, TotalAppend DEF PoolInv, QueueInv
  <2>5. m_nDataSize \in Int
    BY <2>3, TotalType DEF PoolInv, QueueInv
  <2>6. m_nDataSize' <= Limit + MTU
    BY <1>1, <1>3, <2>2, <2>5, Limits
  <2>7. \A x \in ToSet(m_FullBuffer') : content'[x].size \in Sizes
    BY <1>1, <1>3, <1>5 DEF PoolInv, QueueInv
  <2> QED
    BY <1>1, <2>4, <2>6, <2>7 DEF PoolInv, QueueInv
<1>10. Ordered'
  <2>1. /\ Len(m_FullBuffer) \in Nat /\ Len(m_FullBuffer') = Len(m_FullBuffer) + 1
        /\ \A k \in 1..Len(m_FullBuffer) : m_FullBuffer'[k] = m_FullBuffer[k]
        /\ m_FullBuffer'[Len(m_FullBuffer) + 1] = b
    BY <1>1, <1>2 DEF PoolInv, DataOK
  <2>2. /\ wire.n \in Nat /\ accepted \in Nat
        /\ \A x \in Buffer : content[x].n \in Nat
        /\ \A k \in 1..Len(m_FullBuffer) : m_FullBuffer[k] \in Buffer
    BY DEF PoolInv, DataOK, Packet
  <2>3. pc["sender"] = "write" => held["sender"] \in Buffer
    BY DEF PoolInv, DataOK, HeldWhile, ItsThreads
  <2>4. wire'.n <= accepted' /\ wire'.n < content'[b].n /\ content'[b].n <= accepted'
    BY <1>1, <1>3, <2>2 DEF PoolInv, Ordered
  <2>5. ASSUME NEW k \in 1..Len(m_FullBuffer'), NEW j \in 1..Len(m_FullBuffer')
        PROVE  /\ wire'.n < content'[m_FullBuffer'[k]].n
               /\ content'[m_FullBuffer'[k]].n <= accepted'
               /\ j < k => content'[m_FullBuffer'[j]].n < content'[m_FullBuffer'[k]].n
    <3>1. CASE k \in 1..Len(m_FullBuffer)
      <4>1. j < k => j \in 1..Len(m_FullBuffer)
        BY <2>1, <3>1
      <4> QED
        BY <1>1, <2>1, <2>2, <3>1, <4>1 DEF PoolInv, Ordered
    <3>2. CASE k = Len(m_FullBuffer) + 1
      <4>1. j < k => j \in 1..Len(m_FullBuffer)
        BY <2>1, <3>2
      <4>2. j < k => content[m_FullBuffer[j]].n <= accepted /\ content[m_FullBuffer[j]].n \in Nat
        BY <2>2, <4>1 DEF PoolInv, Ordered
      <4> QED
        BY <1>1, <1>3, <2>1, <2>2, <2>4, <3>2, <4>1, <4>2
    <3> QED
      BY <2>1, <3>1, <3>2
  <2>6. ASSUME pc["sender"] = "write"
        PROVE  /\ wire'.n < content'[held'["sender"]].n
               /\ content'[held'["sender"]].n <= accepted'
               /\ \A k \in 1..Len(m_FullBuffer') :
                    content'[held'["sender"]].n < content'[m_FullBuffer'[k]].n
    <3>1. /\ wire.n < content[held["sender"]].n /\ content[held["sender"]].n <= accepted
          /\ \A k \in 1..Len(m_FullBuffer) :
               content[held["sender"]].n < content[m_FullBuffer[k]].n
          /\ content[held["sender"]].n \in Nat
      BY <2>2, <2>3, <2>6 DEF PoolInv, Ordered
    <3>2. content[held["sender"]].n < content[b].n
      BY <1>3, <2>2, <3>1
    <3> QED
      BY <1>1, <1>4, <2>1, <2>2, <3>1, <3>2
  <2>7. /\ \A k \in 1..Len(m_FullBuffer') : /\ wire'.n < content'[m_FullBuffer'[k]].n
                                             /\ content'[m_FullBuffer'[k]].n <= accepted'
        /\ \A j, k \in 1..Len(m_FullBuffer') :
             j < k => content'[m_FullBuffer'[j]].n < content'[m_FullBuffer'[k]].n
    BY <2>5
  <2> QED
    BY <1>1, <2>4, <2>6, <2>7, Zenon DEF Ordered
<1> QED
  BY <1>6, <1>7, <1>8, <1>9, <1>10 DEF PoolInv

-----------------------------------------------------------------------------
(* The steps of the sending thread.                                         *)

(* The first of the queue, which is the oldest, leaves it.                  *)
LEMMA TakeKeepsPool ==
    ASSUME PoolInv, PlacesOK, SenderGet
    PROVE  PoolInv'
<1> DEFINE b == Head(m_FullBuffer)
<1>1. /\ pc["sender"] = "pace" /\ pc'["sender"] = "write" /\ pc'["feeder"] = pc["feeder"]
      /\ m_FullBuffer # <<>> /\ m_FullBuffer' = Tail(m_FullBuffer)
      /\ m_nDataSize' = m_nDataSize - content[b].size
      /\ held' = [held EXCEPT !["sender"] = b]
      /\ UNCHANGED <<m_EmptyBuffer, made, dataVars>>
  BY DEF SenderGet, TakeFull, Go, PlacesOK, Threads, SizeOf
<1>2. /\ Tail(m_FullBuffer) \in Seq(Buffer) /\ b \in Buffer
      /\ Distinct(Tail(m_FullBuffer)) /\ b \notin ToSet(Tail(m_FullBuffer))
      /\ ToSet(m_FullBuffer) = {b} \cup ToSet(Tail(m_FullBuffer))
  BY <1>1, DistinctTail DEF PoolInv, DataOK, Owned
<1>3. SizesIn(m_FullBuffer', content') = Tail(SizesIn(m_FullBuffer, content))
      /\ SizesIn(m_FullBuffer, content) # <<>>
      /\ Head(SizesIn(m_FullBuffer, content)) = content[b].size
  BY <1>1, SizesTail DEF PoolInv, DataOK, dataVars
<1>4. /\ Len(m_FullBuffer) \in Nat \ {0} /\ Len(m_FullBuffer') = Len(m_FullBuffer) - 1
      /\ \A k \in 1..(Len(m_FullBuffer) - 1) : m_FullBuffer'[k] = m_FullBuffer[k + 1]
      /\ b = m_FullBuffer[1]
  BY <1>1 DEF PoolInv, DataOK
<1> HIDE DEF b
<1>5. held["sender"] = NoBuffer
  BY <1>1 DEF PoolInv, HeldWhile
<1>6. /\ held' \in [ItsThreads -> Buffer \cup {NoBuffer}]
      /\ held'["sender"] = b /\ held'["feeder"] = held["feeder"] /\ b # NoBuffer
  BY <1>1, <1>2, RtpTransportAssumption DEF PoolInv, DataOK, ItsThreads
<1>7. DataOK' /\ HeldWhile'
  BY <1>1, <1>2, <1>6 DEF PoolInv, DataOK, HeldWhile, dataVars
<1>8. Owned'
  <2>1. InHand' = InHand \cup {b}
    BY <1>5, <1>6 DEF InHand
  <2>2. /\ ToSet(m_FullBuffer) \cap ToSet(m_EmptyBuffer) = {}
        /\ InHand \cap (ToSet(m_FullBuffer) \cup ToSet(m_EmptyBuffer)) = {}
        /\ made = ToSet(m_FullBuffer) \cup ToSet(m_EmptyBuffer) \cup InHand
        /\ Distinct(m_EmptyBuffer) /\ IsFiniteSet(made)
    BY DEF PoolInv, Owned
  <2>3. /\ ToSet(m_EmptyBuffer)' = ToSet(m_EmptyBuffer) /\ Distinct(m_EmptyBuffer)'
        /\ ToSet(m_FullBuffer)' = ToSet(Tail(m_FullBuffer)) /\ Distinct(m_FullBuffer)'
        /\ made' = made
    BY <1>1, <1>2, <2>2
  <2>4. b # held["feeder"]
    BY <1>2, <1>6, <2>2 DEF InHand
  <2> QED
    BY <1>2, <1>6, <2>1, <2>2, <2>3, <2>4 DEF Owned
<1>9. \A x \in ToSet(m_FullBuffer') : x \in ToSet(m_FullBuffer)
  BY <1>1, <1>2
<1>10. QueueInv' /\ Incoming'
  <2>1. SizesIn(m_FullBuffer, content) \in Seq(Int)
    BY SizesType DEF PoolInv, DataOK
  <2>2. Total(SizesIn(m_FullBuffer', content')) = m_nDataSize'
    BY <1>1, <1>3, <2>1, TotalTail DEF PoolInv, QueueInv
  <2>3. m_nDataSize \in Int /\ m_nDataSize' \in Int /\ m_nDataSize' <= m_nDataSize
    <3>1. content[b].size \in Nat
      BY <1>2 DEF PoolInv, DataOK, Packet
    <3>2. m_nDataSize \in Int
      BY <2>1, TotalType DEF PoolInv, QueueInv
    <3> QED
      BY <1>1, <3>1, <3>2
  <2>4. m_nDataSize' <= Limit + MTU
    BY <2>3, Limits DEF PoolInv, QueueInv
  <2>5. QueueInv'
    BY <1>1, <1>9, <2>2, <2>4 DEF PoolInv, QueueInv, dataVars
  <2>6. pc["feeder"] \in {"get", "fill", "add"} => m_nDataSize' <= Limit
    BY <2>3, Limits DEF PoolInv, Incoming
  <2>7. Incoming'
    BY <1>1, <1>6, <2>6 DEF PoolInv, Incoming, dataVars
  <2> QED
    BY <2>5, <2>7
<1>11. Ordered'
  <2>1. UNCHANGED <<content, accepted, wire>>
    BY <1>1 DEF dataVars
  <2>2. wire.n < content[b].n /\ content[b].n <= accepted /\ wire.n <= accepted
    BY <1>4 DEF PoolInv, Ordered
  <2>3. ASSUME NEW k \in 1..Len(m_FullBuffer')
        PROVE  /\ content[b].n < content[m_FullBuffer'[k]].n
               /\ wire.n < content[m_FullBuffer'[k]].n
               /\ content[m_FullBuffer'[k]].n <= accepted
    <3>1. /\ 1 \in 1..Len(m_FullBuffer) /\ k + 1 \in 1..Len(m_FullBuffer) /\ 1 < k + 1
          /\ m_FullBuffer'[k] = m_FullBuffer[k + 1] /\ b = m_FullBuffer[1]
      BY <1>4
    <3> QED
      BY <3>1 DEF PoolInv, Ordered
  <2>4. \A j, k \in 1..Len(m_FullBuffer') :
          j < k => content[m_FullBuffer'[j]].n < content[m_FullBuffer'[k]].n
    BY <1>4 DEF PoolInv, Ordered
  <2> QED
    BY <1>6, <2>1, <2>2, <2>3, <2>4 DEF Ordered
<1> QED
  BY <1>7, <1>8, <1>10, <1>11 DEF PoolInv

(* It is written, or not; either way it counts as gone.                     *)
LEMMA WriteKeepsPool ==
    ASSUME PoolInv, PlacesOK, SenderWrite
    PROVE  PoolInv'
<1>1. /\ pc["sender"] = "write" /\ pc'["sender"] = "return" /\ pc'["feeder"] = pc["feeder"]
      /\ wire' \in {wire, content[held["sender"]]}
      /\ UNCHANGED <<poolVars, held, content, input, accepted>>
  BY DEF SenderWrite, Go, PlacesOK, Threads
<1>2. held["sender"] \in Buffer
  BY <1>1 DEF PoolInv, DataOK, HeldWhile, ItsThreads
<1>3. wire' \in Packet
  BY <1>1, <1>2 DEF PoolInv, DataOK
<1>4. DataOK' /\ HeldWhile'
  BY <1>1, <1>3 DEF PoolInv, DataOK, HeldWhile, poolVars
<1>5. Owned' /\ Incoming' /\ QueueInv'
  BY <1>1 DEF PoolInv, Owned, Incoming, QueueInv, InHand, poolVars
<1>6. Ordered'
  BY <1>1 DEF PoolInv, Ordered, poolVars
<1> QED
  BY <1>4, <1>5, <1>6 DEF PoolInv

(* The buffer goes back, empty, to the end of the other list.               *)
LEMMA ReturnKeepsPool ==
    ASSUME PoolInv, PlacesOK, SenderReturn
    PROVE  PoolInv'
<1> DEFINE b == held["sender"]
<1>1. /\ pc["sender"] = "return" /\ pc'["sender"] = "check" /\ pc'["feeder"] = pc["feeder"]
      /\ m_EmptyBuffer' = Append(m_EmptyBuffer, b)
      /\ content' = [content EXCEPT ![b] = NoPacket]
      /\ held' = [held EXCEPT !["sender"] = NoBuffer]
      /\ UNCHANGED <<m_FullBuffer, m_nDataSize, made, input, accepted, wire>>
  BY DEF SenderReturn, Go, PlacesOK, Threads
<1>2. /\ b \in Buffer /\ b # NoBuffer /\ b \in InHand
      /\ b \notin ToSet(m_FullBuffer) /\ b \notin ToSet(m_EmptyBuffer)
      /\ held["feeder"] # b
  BY <1>1 DEF PoolInv, DataOK, HeldWhile, Owned, InHand, ItsThreads
<1>3. /\ held' \in [ItsThreads -> Buffer \cup {NoBuffer}]
      /\ held'["sender"] = NoBuffer /\ held'["feeder"] = held["feeder"]
  BY <1>1 DEF PoolInv, DataOK, ItsThreads
<1>4. InHand' = InHand \ {b}
  BY <1>2, <1>3 DEF InHand
<1> HIDE DEF b
<1>5. /\ m_EmptyBuffer' \in Seq(Buffer) /\ Distinct(m_EmptyBuffer')
      /\ ToSet(m_EmptyBuffer') = ToSet(m_EmptyBuffer) \cup {b}
  BY <1>1, <1>2, DistinctAppend DEF PoolInv, DataOK, Owned
<1>6. /\ content' \in [Buffer -> Packet]
      /\ \A x \in Buffer : x # b => content'[x] = content[x]
  <2>1. NoPacket \in Packet
    BY DEF NoPacket, Packet
  <2> QED
    BY <1>1, <1>2, <2>1 DEF PoolInv, DataOK
<1>7. \A x \in ToSet(m_FullBuffer) : content'[x] = content[x]
  BY <1>2, <1>6 DEF PoolInv, DataOK, ToSet
<1>8. DataOK' /\ HeldWhile'
  BY <1>1, <1>3, <1>5, <1>6 DEF PoolInv, DataOK, HeldWhile
<1>9. Owned'
  <2>1. /\ ToSet(m_FullBuffer) \cap ToSet(m_EmptyBuffer) = {}
        /\ InHand \cap (ToSet(m_FullBuffer) \cup ToSet(m_EmptyBuffer)) = {}
        /\ made = ToSet(m_FullBuffer) \cup ToSet(m_EmptyBuffer) \cup InHand
        /\ Distinct(m_FullBuffer) /\ IsFiniteSet(made)
    BY DEF PoolInv, Owned
  <2>2. /\ ToSet(m_FullBuffer)' = ToSet(m_FullBuffer) /\ Distinct(m_FullBuffer)' /\ made' = made
    BY <1>1, <2>1
  <2> QED
    BY <1>2, <1>3, <1>4, <1>5, <2>1, <2>2 DEF Owned
<1>10. Incoming'
  <2>1. pc["feeder"] = "add" => held["feeder"] \in Buffer
    BY DEF PoolInv, DataOK, HeldWhile, ItsThreads
  <2>2. pc["feeder"] = "add" => content'[held["feeder"]] = content[held["feeder"]]
    BY <1>2, <1>6, <2>1
  <2> QED
    BY <1>1, <1>3, <2>2 DEF PoolInv, Incoming
<1>11. QueueInv'
  <2>1. SizesIn(m_FullBuffer, content') = SizesIn(m_FullBuffer, content)
    BY <1>7, SizesSame DEF PoolInv, DataOK
  <2> QED
    BY <1>1, <1>7, <2>1 DEF PoolInv, QueueInv
<1>12. Ordered'
  <2>1. \A k \in 1..Len(m_FullBuffer) : content'[m_FullBuffer[k]] = content[m_FullBuffer[k]]
    BY <1>7 DEF PoolInv, DataOK, ToSet
  <2> QED
    BY <1>1, <2>1 DEF PoolInv, Ordered
<1> QED
  BY <1>8, <1>9, <1>10, <1>11, <1>12 DEF PoolInv

-----------------------------------------------------------------------------
(* The three threads together.                                              *)

(* The caller of Setup, Run, Stop and the destructor: what QuietInv says of *)
(* a sending thread that has ended is why a new one has no buffer.          *)
LEMMA ControlKeepsPool ==
    ASSUME IInv, ControlStep
    PROVE  PoolInv'
<1> USE DEF Go, PlacesOK, Threads
<1>0. PoolInv /\ PlacesOK
  BY DEF IInv, QuietInv
<1>1. CASE \/ \E continue \in {"idle", "setup", "destroy"} : CallStop(continue)
           \/ Join \/ DeleteRtp \/ NewRtp \/ RunFlag
  <2>1. /\ UNCHANGED <<poolVars, held, dataVars>>
        /\ pc'["feeder"] = pc["feeder"] /\ pc'["sender"] = pc["sender"]
    BY <1>0, <1>1 DEF CallStop, Join, JoinWhen, DeleteRtp, NewRtp, RunFlag
  <2> QED
    BY <1>0, <2>1, NothingMoves
<1>2. CASE RunThread
  <2>1. /\ UNCHANGED <<poolVars, held, dataVars>> /\ pc["control"] = "start"
        /\ pc'["feeder"] = pc["feeder"] /\ pc'["sender"] = "check"
    BY <1>0, <1>2 DEF RunThread
  <2>2. pc["sender"] \notin {"write", "return"}
    BY <2>1 DEF IInv, QuietInv, Live
  <2> QED
    BY <1>0, <2>1, <2>2, NothingMoves
<1>3. CASE Destroy \/ RunFree
  <2>1. /\ FreeBuffer /\ UNCHANGED <<held, input, accepted, wire>>
        /\ pc'["feeder"] = pc["feeder"] /\ pc'["sender"] = pc["sender"]
    BY <1>0, <1>3 DEF Destroy, RunFree
  <2> QED
    BY <1>0, <2>1, FreeKeepsPool
<1> QED
  BY <1>1, <1>2, <1>3 DEF ControlStep

(* The sending thread.                                                      *)
LEMMA SenderKeepsPool ==
    ASSUME IInv, SenderStep
    PROVE  PoolInv'
<1>0. PoolInv /\ PlacesOK
  BY DEF IInv, QuietInv
<1>1. CASE SenderCheck \/ SenderRestart \/ SenderSleep
  <2>1. /\ UNCHANGED <<poolVars, held, dataVars>>
        /\ pc'["feeder"] = pc["feeder"]
        /\ pc["sender"] \in {"check", "pace"} /\ pc'["sender"] \in {"check", "pace", "ended"}
    BY <1>0, <1>1 DEF SenderCheck, SenderCheckWith, SenderRestart, SenderSleep, Go, PlacesOK,
                      Threads
  <2> QED
    BY <1>0, <2>1, NothingMoves
<1> QED
  BY <1>0, <1>1, TakeKeepsPool, WriteKeepsPool, ReturnKeepsPool DEF SenderStep

(* The invariant of the three threads holds for any buffers, sizes of       *)
(* packets and limits, and for any number of packets.                       *)
THEOREM IInvariance == Spec => []IInv
<1>1. IInv /\ [Next]_vars => PoolInv'
  <2> SUFFICES ASSUME IInv, [Next]_vars
               PROVE  PoolInv'
    OBVIOUS
  <2>0. PoolInv /\ PlacesOK
    BY DEF IInv, QuietInv
  <2>1. CASE ControlStep
    BY <2>1, ControlKeepsPool
  <2>2. CASE FeederStep
    BY <2>0, <2>2, AcceptKeepsPool, GetKeepsPool, FillKeepsPool, AddKeepsPool DEF FeederStep
  <2>3. CASE SenderStep
    BY <2>3, SenderKeepsPool
  <2>4. CASE Tick \/ Wrap \/ UNCHANGED vars
    <3>1. UNCHANGED <<poolVars, held, dataVars, pc>>
      BY <2>4 DEF Tick, Wrap, vars
    <3> QED
      BY <2>0, <3>1, NothingMoves
  <2> QED
    BY <2>1, <2>2, <2>3, <2>4 DEF Next
<1>2. Init => PoolInv
  BY PoolInit
<1>3. IInv <=> QuietInv /\ PoolInv
  BY DEF IInv
<1> QED
  BY <1>1, <1>2, <1>3, QuietInvariance, PTL DEF Spec

(* What a thread has in its hands, as a list.                               *)
LEMMA HoldingOne ==
    ASSUME NEW thread \in ItsThreads, DataOK
    PROVE  /\ Holding(thread) \in Seq(Buffer)
           /\ ToSet(Holding(thread)) = {held[thread]} \ {NoBuffer}
           /\ IsFiniteSet(ToSet(Holding(thread)))
           /\ Cardinality(ToSet(Holding(thread))) = Len(Holding(thread))
<1>1. CASE held[thread] = NoBuffer
  <2>1. Holding(thread) = <<>>
    BY <1>1 DEF Holding
  <2>2. ToSet(Holding(thread)) = {} /\ Len(Holding(thread)) = 0 /\ Holding(thread) \in Seq(Buffer)
    BY <2>1 DEF ToSet
  <2> QED
    BY <1>1, <2>2, FS_EmptySet
<1>2. CASE held[thread] # NoBuffer
  <2>1. Holding(thread) = <<held[thread]>> /\ held[thread] \in Buffer
    BY <1>2 DEF Holding, DataOK
  <2>2. /\ ToSet(Holding(thread)) = {held[thread]} /\ Len(Holding(thread)) = 1
        /\ Holding(thread) \in Seq(Buffer)
    BY <2>1 DEF ToSet
  <2> QED
    BY <1>2, <2>2, FS_Singleton
<1> QED
  BY <1>1, <1>2

(* Every buffer has one owner, and the counter is what is queued.           *)
THEOREM BuffersHaveOneOwner == Spec => []OneOwner
<1>1. IInv => OneOwner
  <2> SUFFICES ASSUME IInv
               PROVE  OneOwner
    OBVIOUS
  <2> DEFINE F == m_FullBuffer
             E == m_EmptyBuffer
             f == Holding("feeder")
             s == Holding("sender")
  <2>1. DataOK /\ Owned /\ QueueInv
    BY DEF IInv, PoolInv
  <2>2. F \in Seq(Buffer) /\ E \in Seq(Buffer)
    BY <2>1 DEF DataOK
  <2>3. /\ f \in Seq(Buffer) /\ ToSet(f) = {held["feeder"]} \ {NoBuffer}
        /\ IsFiniteSet(ToSet(f)) /\ Cardinality(ToSet(f)) = Len(f)
        /\ s \in Seq(Buffer) /\ ToSet(s) = {held["sender"]} \ {NoBuffer}
        /\ IsFiniteSet(ToSet(s)) /\ Cardinality(ToSet(s)) = Len(s)
    BY <2>1, HoldingOne DEF ItsThreads
  <2>4. /\ IsFiniteSet(ToSet(F)) /\ Cardinality(ToSet(F)) = Len(F)
        /\ IsFiniteSet(ToSet(E)) /\ Cardinality(ToSet(E)) = Len(E)
    BY <2>1, <2>2, OneOfEach DEF Owned, Distinct
  <2>5. /\ ToSet(F) \cap ToSet(E) = {}
        /\ ToSet(f) \cap (ToSet(F) \cup ToSet(E)) = {}
        /\ ToSet(s) \cap (ToSet(F) \cup ToSet(E)) = {}
        /\ ToSet(f) \cap ToSet(s) = {}
        /\ made = ToSet(F) \cup ToSet(E) \cup ToSet(f) \cup ToSet(s)
    BY <2>1, <2>3 DEF Owned, InHand
  <2>6. m_nDataSize = Total([k \in DOMAIN m_FullBuffer |-> SizeOf(m_FullBuffer[k])])
    BY <2>1 DEF QueueInv, SizesIn, SizeOf
  <2> HIDE DEF F, E, f, s
  <2> DEFINE lists == F \o E
             more == lists \o f
             all == more \o s
  <2>7. /\ lists \in Seq(Buffer) /\ ToSet(lists) = ToSet(F) \cup ToSet(E)
        /\ IsFiniteSet(ToSet(lists)) /\ Cardinality(ToSet(lists)) = Len(lists)
    BY <2>2, <2>4, <2>5, CountConcat
  <2> HIDE DEF lists
  <2>8. /\ more \in Seq(Buffer) /\ ToSet(more) = ToSet(lists) \cup ToSet(f)
        /\ IsFiniteSet(ToSet(more)) /\ Cardinality(ToSet(more)) = Len(more)
    <3>1. ToSet(lists) \cap ToSet(f) = {}
      BY <2>5, <2>7, Zenon
    <3>2. f \in Seq(Buffer) /\ IsFiniteSet(ToSet(f)) /\ Cardinality(ToSet(f)) = Len(f)
      BY <2>3
    <3> QED
      BY <2>7, <3>1, <3>2, CountConcat, Zenon
  <2> HIDE DEF more
  <2>9. /\ all \in Seq(Buffer) /\ ToSet(all) = ToSet(more) \cup ToSet(s)
        /\ IsFiniteSet(ToSet(all)) /\ Cardinality(ToSet(all)) = Len(all)
    <3>1. ToSet(more) \cap ToSet(s) = {}
      BY <2>5, <2>7, <2>8, Zenon
    <3> QED
      BY <2>3, <2>8, <3>1, CountConcat
  <2>10. made \subseteq Buffer
    BY <2>2, <2>3, <2>5 DEF ToSet
  <2>11. ToSet(all) = made
    BY <2>5, <2>7, <2>8, <2>9
  <2> HIDE DEF all
  <2>12. all = m_FullBuffer \o m_EmptyBuffer \o Holding("feeder") \o Holding("sender")
    BY DEF all, more, lists, F, E, f, s
  <2> QED
    BY <2>6, <2>9, <2>10, <2>11, <2>12 DEF OneOwner
<1> QED
  BY <1>1, IInvariance, PTL

(* Packets leave in the order they came, each at most once, for any number. *)
THEOREM PacketsKeepTheirOrder == Spec => []SentInOrder
<1>1. IInv => SentInOrder
  <2> SUFFICES ASSUME IInv
               PROVE  SentInOrder
    OBVIOUS
  <2> DEFINE queued == [k \in DOMAIN m_FullBuffer |-> content[m_FullBuffer[k]]]
             next == [k \in 1..(IF pc["sender"] = "write" THEN 1 ELSE 0) |->
                        content[held["sender"]]]
  <2>1. Ordered /\ DataOK /\ HeldWhile
    BY DEF IInv, PoolInv
  <2>2. /\ queued \in Seq(Packet) /\ Len(queued) = Len(m_FullBuffer) /\ Len(queued) \in Nat
        /\ \A k \in 1..Len(queued) : queued[k] = content[m_FullBuffer[k]]
    BY <2>1 DEF DataOK
  <2>3. wire \in Packet /\ <<wire>> \in Seq(Packet)
    BY <2>1 DEF DataOK
  <2>4. CASE pc["sender"] = "write"
    <3>1. held["sender"] \in Buffer
      BY <2>1, <2>4 DEF DataOK, HeldWhile, ItsThreads
    <3>2. next = <<content[held["sender"]]>> /\ content[held["sender"]] \in Packet
      BY <2>1, <2>4, <3>1 DEF DataOK
    <3> HIDE DEF queued, next
    <3>3. /\ Len(Line) = Len(queued) + 2 /\ Line[1] = wire /\ Line[2] = content[held["sender"]]
          /\ \A k \in 3..Len(Line) : Line[k] = queued[k - 2]
      <4> DEFINE two == <<wire>> \o next
      <4>1. two \in Seq(Packet) /\ Len(two) = 2 /\ two[1] = wire /\ two[2] = content[held["sender"]]
        BY <2>3, <3>2
      <4> HIDE DEF two
      <4>2. Line = two \o queued
        BY DEF Line, two, queued, next
      <4>3. /\ Len(two \o queued) = Len(two) + Len(queued)
            /\ \A k \in 1..(Len(two) + Len(queued)) :
                 (two \o queued)[k] = IF k <= Len(two) THEN two[k] ELSE queued[k - Len(two)]
        <5>1. two \in Seq(Packet) /\ queued \in Seq(Packet)
          BY <2>2, <4>1
        <5> QED
          BY <5>1, ConcatProperties
      <4>4. /\ Len(Line) = Len(two) + Len(queued)
            /\ \A k \in 1..(Len(two) + Len(queued)) :
                 Line[k] = IF k <= Len(two) THEN two[k] ELSE queued[k - Len(two)]
        BY <4>2, <4>3, Zenon
      <4> HIDE DEF Line
      <4>5. ASSUME NEW k \in 3..Len(Line) PROVE Line[k] = queued[k - 2]
        <5>1. k \in 1..(Len(two) + Len(queued)) /\ ~(k <= Len(two)) /\ k - Len(two) = k - 2
          BY <2>2, <4>1, <4>4
        <5> QED
          BY <4>4, <5>1
      <4> QED
        BY <2>2, <4>1, <4>4, <4>5
    <3>4. /\ wire.n < content[held["sender"]].n
          /\ \A k \in 1..Len(queued) : content[held["sender"]].n < queued[k].n
          /\ \A j, k \in 1..Len(queued) : j < k => queued[j].n < queued[k].n
      BY <2>1, <2>2, <2>4 DEF Ordered
    <3> HIDE DEF Line
    <3> SUFFICES ASSUME NEW k \in 1..(Len(Line) - 1)
                 PROVE  Line[k].n < Line[k + 1].n
      BY DEF SentInOrder
    <3>5. CASE k = 1
      BY <3>3, <3>4, <3>5
    <3>6. CASE k = 2
      <4>1. 3 \in 3..Len(Line) /\ 1 \in 1..Len(queued) /\ 3 - 2 = 1 /\ 2 + 1 = 3
        BY <2>2, <3>3, <3>6
      <4> QED
        BY <3>3, <3>4, <3>6, <4>1
    <3>7. CASE k > 2
      <4>1. /\ k \in 3..Len(Line) /\ k + 1 \in 3..Len(Line) /\ k + 1 - 2 = k - 1
            /\ k - 2 \in 1..Len(queued) /\ k - 1 \in 1..Len(queued) /\ k - 2 < k - 1
        BY <2>2, <3>3, <3>7
      <4>2. Line[k] = queued[k - 2] /\ Line[k + 1] = queued[k - 1]
        BY <3>3, <4>1
      <4> QED
        BY <3>4, <4>1, <4>2
    <3> QED
      BY <2>2, <3>3, <3>5, <3>6, <3>7
  <2>5. CASE pc["sender"] # "write"
    <3>1. next = <<>>
      BY <2>5
    <3> HIDE DEF queued, next
    <3>2. /\ Len(Line) = Len(queued) + 1 /\ Line[1] = wire
          /\ \A k \in 2..Len(Line) : Line[k] = queued[k - 1]
      <4> DEFINE one == <<wire>>
      <4>1. one \in Seq(Packet) /\ Len(one) = 1 /\ one[1] = wire /\ one \o <<>> = one
        BY <2>3, ConcatEmptySeq
      <4> HIDE DEF one
      <4>2. Line = one \o queued
        BY <3>1, <4>1 DEF Line, one, queued, next
      <4>3. /\ Len(one \o queued) = Len(one) + Len(queued)
            /\ \A k \in 1..(Len(one) + Len(queued)) :
                 (one \o queued)[k] = IF k <= Len(one) THEN one[k] ELSE queued[k - Len(one)]
        <5>1. one \in Seq(Packet) /\ queued \in Seq(Packet)
          BY <2>2, <4>1
        <5> QED
          BY <5>1, ConcatProperties
      <4>4. /\ Len(Line) = Len(one) + Len(queued)
            /\ \A k \in 1..(Len(one) + Len(queued)) :
                 Line[k] = IF k <= Len(one) THEN one[k] ELSE queued[k - Len(one)]
        BY <4>2, <4>3, Zenon
      <4> HIDE DEF Line
      <4>5. ASSUME NEW k \in 2..Len(Line) PROVE Line[k] = queued[k - 1]
        <5>1. k \in 1..(Len(one) + Len(queued)) /\ ~(k <= Len(one)) /\ k - Len(one) = k - 1
          BY <2>2, <4>1, <4>4
        <5> QED
          BY <4>4, <5>1
      <4> QED
        BY <2>2, <4>1, <4>4, <4>5
    <3>3. /\ \A k \in 1..Len(queued) : wire.n < queued[k].n
          /\ \A j, k \in 1..Len(queued) : j < k => queued[j].n < queued[k].n
      BY <2>1, <2>2 DEF Ordered
    <3> HIDE DEF Line
    <3> SUFFICES ASSUME NEW k \in 1..(Len(Line) - 1)
                 PROVE  Line[k].n < Line[k + 1].n
      BY DEF SentInOrder
    <3>4. CASE k = 1
      <4>1. 2 \in 2..Len(Line) /\ 1 \in 1..Len(queued) /\ 2 - 1 = 1 /\ 1 + 1 = 2
        BY <2>2, <3>2, <3>4
      <4> QED
        BY <3>2, <3>3, <3>4, <4>1
    <3>5. CASE k > 1
      <4>1. /\ k \in 2..Len(Line) /\ k + 1 \in 2..Len(Line) /\ k + 1 - 1 = k
            /\ k - 1 \in 1..Len(queued) /\ k \in 1..Len(queued) /\ k - 1 < k
        BY <2>2, <3>2, <3>5
      <4>2. Line[k] = queued[k - 1] /\ Line[k + 1] = queued[k]
        BY <3>2, <4>1
      <4> QED
        BY <3>3, <4>1, <4>2
    <3> QED
      BY <2>2, <3>2, <3>4, <3>5
  <2> QED
    BY <2>4, <2>5
<1> QED
  BY <1>1, IInvariance, PTL

(* The queue stays within its limit and a packet, and the pool within what  *)
(* such a queue takes.                                                      *)
THEOREM QueueStaysBounded == Spec => []QueueBounded
<1>1. IInv => QueueBounded
  BY DEF IInv, PoolInv, QueueInv, QueueBounded
<1> QED
  BY <1>1, IInvariance, PTL
=============================================================================

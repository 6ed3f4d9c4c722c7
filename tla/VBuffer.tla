------------------------------ MODULE VBuffer ------------------------------
(***************************************************************************)
(* Buffer and VBuffer (Include/VBuffer.h): a list of buffers with data, a  *)
(* list of empty ones to use again, three counters, and two ways of use,   *)
(* buffer by buffer and byte by byte.                                      *)
(***************************************************************************)
EXTENDS Sums, FiniteSets, SequencesExt, FiniteSetsExt

CONSTANTS
    Data,      \* the byte strings that are put in
    Sizes,     \* the arguments of AllocateBuffer and GetData
    MaxBytes   \* bound: the memory of all buffers

ASSUME VBufferAssumption ==
    /\ Data \in SUBSET Seq(Nat) /\ <<>> \notin Data
    /\ Sizes \in SUBSET (Nat \ {0}) /\ MaxBytes \in Nat

VARIABLES
    m_FullBuffer, m_EmptyBuffer,
    m_nDataSize, m_nEmptyBufferSize, m_nFullBufferSize,
    filling,    \* the buffer a producer has taken or made, to fill it
    draining,   \* the buffer a consumer has taken, to use its data
    out         \* what was taken out last

lists == <<m_FullBuffer, m_EmptyBuffer>>
counters == <<m_nDataSize, m_nEmptyBufferSize, m_nFullBufferSize>>
vars == <<lists, counters, filling, draining, out>>

-----------------------------------------------------------------------------
(* A Buffer: its memory (m_pBuffer, m_nBufferSize), where in it the data    *)
(* begin (m_pData), and how many they are (m_nDataSize).                    *)

NewBuffer == [memory |-> <<>>, begin |-> 0, size |-> 0]

None == [none |-> TRUE]

DataOf(b) == SubSeq(b.memory, b.begin + 1, b.begin + b.size)

BufferSize(b) == Len(b.memory)

\* data in front of what is left of memory.
Over(memory, data) == data \o SubSeq(memory, Len(data) + 1, Len(memory))

\* AllocateBuffer makes room where FillData needs it; the data are written
\* where the memory begins.
FillData(b, data) ==
    IF BufferSize(b) < Len(data) THEN [memory |-> data, begin |-> 0, size |-> Len(data)]
    ELSE [b EXCEPT !.memory = Over(@, data), !.size = Len(data)]

ClearData(b) == [b EXCEPT !.begin = 0, !.size = 0]

\* The data and the memory in a list of buffers.
DataIn(list)   == Total([k \in DOMAIN list |-> list[k].size])
MemoryIn(list) == Total([k \in DOMAIN list |-> BufferSize(list[k])])

Held(b) == IF b = None THEN <<>> ELSE <<b>>

Cleared(list) == [k \in DOMAIN list |-> ClearData(list[k])]

\* The data of the full list, in order.
Bytes == FlattenSeq([k \in DOMAIN m_FullBuffer |-> DataOf(m_FullBuffer[k])])

TypeOK ==
    LET Buffer == [memory : Seq(Nat), begin : Nat, size : Nat]
    IN /\ m_FullBuffer \in Seq(Buffer) /\ m_EmptyBuffer \in Seq(Buffer)
       /\ filling \in Buffer \cup {None} /\ draining \in Buffer \cup {None}
       /\ \A b \in ToSet(m_FullBuffer) \cup ToSet(m_EmptyBuffer) :
            b.begin + b.size <= BufferSize(b)
       /\ m_nDataSize \in Nat /\ m_nEmptyBufferSize \in Nat /\ m_nFullBufferSize \in Nat
       /\ out \in Seq(Nat)

Init ==
    /\ m_FullBuffer = <<>> /\ m_EmptyBuffer = <<>>
    /\ m_nDataSize = 0 /\ m_nEmptyBufferSize = 0 /\ m_nFullBufferSize = 0
    /\ filling = None /\ draining = None /\ out = <<>>

-----------------------------------------------------------------------------
(* All buffers at once.                                                     *)

\* FreeBuffer, then count new ones.
AllocateBuffer(count, size) ==
    /\ count * size <= MaxBytes
    /\ m_FullBuffer' = <<>>
    /\ m_EmptyBuffer' = [k \in 1..count |-> [NewBuffer EXCEPT !.memory = [j \in 1..size |-> 0]]]
    /\ m_nDataSize' = 0 /\ m_nFullBufferSize' = 0 /\ m_nEmptyBufferSize' = count * size
    /\ UNCHANGED <<filling, draining, out>>

FreeBuffer ==
    /\ m_FullBuffer' = <<>> /\ m_EmptyBuffer' = <<>>
    /\ m_nDataSize' = 0 /\ m_nFullBufferSize' = 0 /\ m_nEmptyBufferSize' = 0
    /\ UNCHANGED <<filling, draining, out>>

\* The full ones become empty ones.
ResetHalf ==
    /\ m_nDataSize' = m_nDataSize - DataIn(m_FullBuffer)
    /\ m_EmptyBuffer' = m_EmptyBuffer \o Cleared(m_FullBuffer)
    /\ m_FullBuffer' = <<>>
    /\ UNCHANGED <<m_nFullBufferSize, m_nEmptyBufferSize, filling, draining, out>>

ResetBuffer ==
    /\ m_nDataSize' = m_nDataSize - DataIn(m_FullBuffer)
    /\ m_nFullBufferSize' = m_nFullBufferSize - MemoryIn(m_FullBuffer)
    /\ m_nEmptyBufferSize' = m_nEmptyBufferSize + MemoryIn(m_FullBuffer)
    /\ m_EmptyBuffer' = m_EmptyBuffer \o Cleared(m_FullBuffer)
    /\ m_FullBuffer' = <<>>
    /\ UNCHANGED <<filling, draining, out>>

-----------------------------------------------------------------------------
(* Buffer by buffer, as the feeder does (h264_split_nal and its loop).      *)

GetEmptyBuffer ==
    /\ filling = None /\ m_EmptyBuffer # <<>>
    /\ filling' = Head(m_EmptyBuffer)
    /\ m_EmptyBuffer' = Tail(m_EmptyBuffer)
    /\ m_nEmptyBufferSize' = m_nEmptyBufferSize - BufferSize(Head(m_EmptyBuffer))
    /\ UNCHANGED <<m_FullBuffer, m_nDataSize, m_nFullBufferSize, draining, out>>

MakeBuffer ==
    /\ filling = None /\ m_EmptyBuffer = <<>>
    /\ filling' = NewBuffer
    /\ UNCHANGED <<lists, counters, draining, out>>

AddFullBuffer(data) ==
    /\ filling # None
    /\ LET b == FillData(filling, data)
       IN /\ MemoryIn(m_FullBuffer \o m_EmptyBuffer \o <<b>> \o Held(draining)) <= MaxBytes
          /\ m_FullBuffer' = Append(m_FullBuffer, b)
          /\ m_nDataSize' = m_nDataSize + b.size
          /\ m_nFullBufferSize' = m_nFullBufferSize + BufferSize(b)
    /\ filling' = None
    /\ UNCHANGED <<m_EmptyBuffer, m_nEmptyBufferSize, draining, out>>

GetFullBuffer ==
    /\ draining = None /\ m_FullBuffer # <<>>
    /\ LET b == Head(m_FullBuffer)
       IN /\ draining' = b /\ out' = DataOf(b)
          /\ m_nDataSize' = m_nDataSize - b.size
          /\ m_nFullBufferSize' = m_nFullBufferSize - BufferSize(b)
    /\ m_FullBuffer' = Tail(m_FullBuffer)
    /\ UNCHANGED <<m_EmptyBuffer, m_nEmptyBufferSize, filling>>

AddEmptyAs(b) ==
    /\ draining # None
    /\ m_EmptyBuffer' = Append(m_EmptyBuffer, b)
    /\ m_nEmptyBufferSize' = m_nEmptyBufferSize + BufferSize(b)
    /\ draining' = None
    /\ UNCHANGED <<m_FullBuffer, m_nDataSize, m_nFullBufferSize, filling, out>>

\* (The data are cleared, the place where they begin is not.)
AddEmptyHalfCleared == AddEmptyAs([draining EXCEPT !.size = 0])

AddEmptyBuffer == AddEmptyAs(ClearData(draining))

-----------------------------------------------------------------------------
(* Byte by byte.                                                            *)

FirstOf(list, k) == SubSeq(list, 1, k)

Part(list, from, to) == SubSeq(list, from, Min({to, Len(list)}))

\* GetData takes the buffers of the full list that n bytes cover, and of the next one the
\* rest, behind which its data then begin.
GetData(n) ==
    LET covered == Cardinality({k \in DOMAIN m_FullBuffer :
                                  DataIn(FirstOf(m_FullBuffer, k)) <= n})
        emptied == SubSeq(m_FullBuffer, 1, covered)
        kept    == SubSeq(m_FullBuffer, covered + 1, Len(m_FullBuffer))
        rest    == n - DataIn(emptied)
    IN /\ n <= m_nDataSize
       /\ out' = SubSeq(Bytes, 1, n)
       /\ m_FullBuffer' =
            [k \in DOMAIN kept |->
               IF k > 1 THEN kept[k]
               ELSE [kept[1] EXCEPT !.begin = @ + rest, !.size = @ - rest]]
       /\ m_EmptyBuffer' = m_EmptyBuffer \o Cleared(emptied)
       /\ m_nDataSize' = m_nDataSize - n
       /\ m_nFullBufferSize' = m_nFullBufferSize - MemoryIn(emptied)
       /\ m_nEmptyBufferSize' = m_nEmptyBufferSize + MemoryIn(emptied)
       /\ UNCHANGED <<filling, draining>>

\* SetData fills as many empty buffers as it needs, from the front.
SetData(data) ==
    LET used  == {k \in DOMAIN m_EmptyBuffer : MemoryIn(FirstOf(m_EmptyBuffer, k - 1)) < Len(data)}
        taken == SubSeq(m_EmptyBuffer, 1, Cardinality(used))
        piece == [k \in used |->
                    Part(data, MemoryIn(FirstOf(taken, k - 1)) + 1, MemoryIn(FirstOf(taken, k)))]
        filled == [k \in DOMAIN taken |->
                     [memory |-> Over(taken[k].memory, piece[k]),
                      begin |-> 0, size |-> Len(piece[k])]]
    IN /\ Len(data) <= m_nEmptyBufferSize
       /\ m_FullBuffer' = m_FullBuffer \o filled
       /\ m_EmptyBuffer' = SubSeq(m_EmptyBuffer, Cardinality(used) + 1, Len(m_EmptyBuffer))
       /\ m_nDataSize' = m_nDataSize + Len(data)
       /\ m_nFullBufferSize' = m_nFullBufferSize + MemoryIn(taken)
       /\ m_nEmptyBufferSize' = m_nEmptyBufferSize - MemoryIn(taken)
       /\ UNCHANGED <<filling, draining, out>>

Next ==
    \/ \E count, size \in Sizes : AllocateBuffer(count, size)
    \/ FreeBuffer \/ ResetBuffer
    \/ GetEmptyBuffer \/ MakeBuffer \/ GetFullBuffer \/ AddEmptyBuffer
    \/ \E data \in Data : AddFullBuffer(data) \/ SetData(data)
    \/ \E n \in Sizes : GetData(n)

Spec == Init /\ [][Next]_vars

-----------------------------------------------------------------------------
(* Properties.                                                              *)

\* SetData and GetData decide by the counters whether the lists can serve a call, and then
\* take buffers off them without another look (front() of an empty list is undefined):
\* each counter must be the sum over its list, through every mix of the two ways of use.
CountersAreSums ==
    /\ m_nDataSize = DataIn(m_FullBuffer)
    /\ m_nFullBufferSize = MemoryIn(m_FullBuffer)
    /\ m_nEmptyBufferSize = MemoryIn(m_EmptyBuffer)

\* With the types: the data of a buffer are inside its memory, too.
PoolInv == TypeOK /\ CountersAreSums

\* Bytes leave a VBuffer in the order they entered it and each once: the two ways of use
\* may be mixed, though FillData writes at m_pBuffer and readers read at m_pData, which
\* GetData moves.
Queue == INSTANCE ByteQueue WITH queue <- Bytes
QueueSpec == Queue!Spec

=============================================================================

---------------------------- MODULE VBufferProofs ----------------------------
(***************************************************************************)
(* Proofs about VBuffer: the counters are the sums of their lists in every *)
(* mix of the two ways of use, and what a VBuffer does is what ByteQueue   *)
(* promises, for any strings of bytes, sizes of buffers and amount of      *)
(* memory.                                                                 *)
(***************************************************************************)
EXTENDS VBuffer, ListLemmas

-----------------------------------------------------------------------------
(* The buffers in either list.                                              *)

Buffer == [memory : Seq(Nat), begin : Nat, size : Nat]

\* With data, which are inside the memory; and without, which are where FillData writes.
Full  == {b \in Buffer : b.size > 0 /\ b.begin + b.size <= BufferSize(b)}
Empty == {b \in Buffer : b.size = 0 /\ b.begin = 0 /\ BufferSize(b) > 0}

\* The buffer of a producer may be one just made, with no memory yet.
Fillable == Empty \cup {NewBuffer}

\* The inductive invariant: PoolInv needs that an empty buffer begins at its memory (FillData
\* does not set m_pData), and that none in the lists is without memory or, of the full ones,
\* without data (GetData and SetData count on what a further buffer gives them).
IInv ==
    /\ m_FullBuffer \in Seq(Full) /\ m_EmptyBuffer \in Seq(Empty)
    /\ filling \in Fillable \cup {None} /\ draining \in Full \cup {None}
    /\ out \in Seq(Nat)
    /\ CountersAreSums

-----------------------------------------------------------------------------
(* Sums over lists of buffers.                                              *)

DataSize(b) == b.size

DataSizes(list)   == [k \in DOMAIN list |-> DataSize(list[k])]
MemorySizes(list) == [k \in DOMAIN list |-> BufferSize(list[k])]

(* The memory of a buffer has a size.                                       *)
LEMMA BufferSizeType ==
    ASSUME NEW b \in Buffer
    PROVE  b.size \in Nat /\ b.begin \in Nat /\ BufferSize(b) \in Nat /\ b.memory \in Seq(Nat)
BY DEF Buffer, BufferSize

(* A list of full or of empty buffers is a list of buffers.                 *)
LEMMA ListsOfBuffers ==
    /\ \A list \in Seq(Full) : list \in Seq(Buffer)
    /\ \A list \in Seq(Empty) : list \in Seq(Buffer)
<1>1. Full \subseteq Buffer /\ Empty \subseteq Buffer
  BY DEF Full, Empty
<1> HIDE DEF Full, Empty, Buffer
<1> QED
  BY <1>1

(* The sizes in a list are numbers.                                         *)
LEMMA SizesType ==
    ASSUME NEW list \in Seq(Buffer)
    PROVE  /\ DataSizes(list) \in Seq(Int) /\ Len(DataSizes(list)) = Len(list)
           /\ MemorySizes(list) \in Seq(Int) /\ Len(MemorySizes(list)) = Len(list)
           /\ \A k \in 1..Len(list) : /\ DataSizes(list)[k] = DataSize(list[k])
                                      /\ MemorySizes(list)[k] = BufferSize(list[k])
                                      /\ DataSizes(list)[k] >= 0 /\ MemorySizes(list)[k] >= 0
<1>1. /\ DOMAIN list = 1..Len(list) /\ Len(list) \in Nat
      /\ \A k \in 1..Len(list) : list[k] \in Buffer
  OBVIOUS
<1>2. \A k \in 1..Len(list) : DataSize(list[k]) \in Nat /\ BufferSize(list[k]) \in Nat
  BY <1>1, BufferSizeType DEF DataSize
<1> HIDE DEF Buffer
<1> QED
  BY <1>1, <1>2 DEF DataSizes, MemorySizes

(* The sums over a list.                                                    *)
LEMMA SumsType ==
    ASSUME NEW list \in Seq(Buffer)
    PROVE  DataIn(list) \in Nat /\ MemoryIn(list) \in Nat
<1>1. /\ DataSizes(list) \in Seq(Int) /\ MemorySizes(list) \in Seq(Int)
      /\ \A k \in 1..Len(DataSizes(list)) : DataSizes(list)[k] >= 0
      /\ \A k \in 1..Len(MemorySizes(list)) : MemorySizes(list)[k] >= 0
  BY SizesType
<1>2. /\ Total(DataSizes(list)) >= 0 * Len(DataSizes(list))
      /\ Total(MemorySizes(list)) >= 0 * Len(MemorySizes(list))
  BY <1>1, TotalAtLeast
<1>3. Total(DataSizes(list)) \in Int /\ Total(MemorySizes(list)) \in Int
  BY <1>1, TotalType
<1>4. DataIn(list) = Total(DataSizes(list)) /\ MemoryIn(list) = Total(MemorySizes(list))
  BY DEF DataIn, MemoryIn, DataSizes, MemorySizes, DataSize
<1>5. Len(DataSizes(list)) \in Nat /\ Len(MemorySizes(list)) \in Nat
  BY <1>1
<1> QED
  BY <1>2, <1>3, <1>4, <1>5

(* Of no buffers they are nothing.                                          *)
LEMMA SumsEmpty == DataIn(<<>>) = 0 /\ MemoryIn(<<>>) = 0
<1>1. DataSizes(<<>>) = <<>> /\ MemorySizes(<<>>) = <<>>
  BY DEF DataSizes, MemorySizes
<1> QED
  BY <1>1, TotalEmpty DEF DataIn, MemoryIn, DataSizes, MemorySizes, DataSize

(* Of one buffer they are its sizes.                                        *)
LEMMA SumsOne ==
    ASSUME NEW b \in Buffer
    PROVE  DataIn(<<b>>) = b.size /\ MemoryIn(<<b>>) = BufferSize(b)
<1>1. DataSizes(<<b>>) = <<b.size>> /\ MemorySizes(<<b>>) = <<BufferSize(b)>>
  BY DEF DataSizes, MemorySizes, DataSize
<1>2. b.size \in Int /\ BufferSize(b) \in Int
  BY BufferSizeType
<1> QED
  BY <1>1, <1>2, TotalOne DEF DataIn, MemoryIn, DataSizes, MemorySizes, DataSize

(* Of two lists end to end they are added.                                  *)
LEMMA SumsConcat ==
    ASSUME NEW s \in Seq(Buffer), NEW t \in Seq(Buffer)
    PROVE  /\ s \o t \in Seq(Buffer)
           /\ DataIn(s \o t) = DataIn(s) + DataIn(t)
           /\ MemoryIn(s \o t) = MemoryIn(s) + MemoryIn(t)
<1>1. /\ s \o t \in Seq(Buffer)
      /\ DataSizes(s) \in Seq(Int) /\ DataSizes(t) \in Seq(Int)
      /\ MemorySizes(s) \in Seq(Int) /\ MemorySizes(t) \in Seq(Int)
  BY SizesType, ConcatProperties
<1>2. DataSizes(s \o t) = DataSizes(s) \o DataSizes(t)
  BY DEF DataSizes
<1>3. MemorySizes(s \o t) = MemorySizes(s) \o MemorySizes(t)
  BY DEF MemorySizes
<1>4. /\ Total(DataSizes(s \o t)) = Total(DataSizes(s)) + Total(DataSizes(t))
      /\ Total(MemorySizes(s \o t)) = Total(MemorySizes(s)) + Total(MemorySizes(t))
  BY <1>1, <1>2, <1>3, TotalConcat
<1> QED
  BY <1>1, <1>4 DEF DataIn, MemoryIn, DataSizes, MemorySizes, DataSize

(* A buffer more at the end, and one less at the front.                     *)
LEMMA SumsAppend ==
    ASSUME NEW s \in Seq(Buffer), NEW b \in Buffer
    PROVE  /\ DataIn(Append(s, b)) = DataIn(s) + b.size
           /\ MemoryIn(Append(s, b)) = MemoryIn(s) + BufferSize(b)
<1>1. Append(s, b) = s \o <<b>> /\ <<b>> \in Seq(Buffer)
  BY AppendIsConcat
<1> QED
  BY <1>1, SumsConcat, SumsOne

(* A list has what its head has and what is behind it.                      *)
LEMMA SumsTail ==
    ASSUME NEW s \in Seq(Buffer), s # <<>>
    PROVE  /\ Head(s) \in Buffer /\ Tail(s) \in Seq(Buffer)
           /\ DataIn(s) = Head(s).size + DataIn(Tail(s))
           /\ MemoryIn(s) = BufferSize(Head(s)) + MemoryIn(Tail(s))
<1>1. Head(s) \in Buffer /\ Tail(s) \in Seq(Buffer) /\ <<Head(s)>> \in Seq(Buffer)
  BY HeadTailProperties
<1>2. s = <<Head(s)>> \o Tail(s)
  OBVIOUS
<1>3. /\ DataIn(<<Head(s)>> \o Tail(s)) = DataIn(<<Head(s)>>) + DataIn(Tail(s))
      /\ MemoryIn(<<Head(s)>> \o Tail(s)) = MemoryIn(<<Head(s)>>) + MemoryIn(Tail(s))
  BY <1>1, SumsConcat
<1>4. DataIn(<<Head(s)>>) = Head(s).size /\ MemoryIn(<<Head(s)>>) = BufferSize(Head(s))
  BY <1>1, SumsOne
<1> QED
  BY <1>1, <1>2, <1>3, <1>4

(* The first buffers of a list: none, all, and those up to one and on to    *)
(* another, of which there are then no fewer bytes.                         *)
LEMMA FirstOfList ==
    ASSUME NEW s \in Seq(Buffer), NEW j \in 0..Len(s)
    PROVE  /\ FirstOf(s, j) \in Seq(Buffer) /\ Len(FirstOf(s, j)) = j
           /\ \A i \in 1..j : FirstOf(s, j)[i] = s[i]
           /\ FirstOf(s, 0) = <<>> /\ FirstOf(s, Len(s)) = s
           /\ SubSeq(s, j + 1, Len(s)) \in Seq(Buffer)
           /\ Len(SubSeq(s, j + 1, Len(s))) = Len(s) - j
           /\ \A i \in 1..(Len(s) - j) : SubSeq(s, j + 1, Len(s))[i] = s[j + i]
           /\ FirstOf(s, j) \o SubSeq(s, j + 1, Len(s)) = s
<1>1. Len(s) \in Nat /\ j \in Int /\ \A i \in 1..Len(s) : s[i] \in Buffer
  OBVIOUS
<1> HIDE DEF Buffer
<1>2. /\ FirstOf(s, j) \in Seq(Buffer) /\ Len(FirstOf(s, j)) = j
      /\ \A i \in 1..j : FirstOf(s, j)[i] = s[i]
  BY <1>1, SubSeqProperties DEF FirstOf
<1>3. FirstOf(s, 0) = <<>> /\ FirstOf(s, Len(s)) = s
  BY SubSeqEmpty, SubSeqFull DEF FirstOf
<1>4. /\ SubSeq(s, j + 1, Len(s)) \in Seq(Buffer)
      /\ Len(SubSeq(s, j + 1, Len(s))) = Len(s) - j
      /\ \A i \in 1..(Len(s) - j) : SubSeq(s, j + 1, Len(s))[i] = s[j + i]
  BY <1>1
<1>5. SubSeq(s, 1, j) \o SubSeq(s, j + 1, Len(s)) = SubSeq(s, 1, Len(s))
  <2>1. 1 \in 1..(Len(s) + 1) /\ j \in (1 - 1)..Len(s) /\ Len(s) \in j..Len(s)
    BY <1>1
  <2> QED
    BY <2>1, ConcatAdjacentSubSeq
<1> QED
  BY <1>2, <1>3, <1>4, <1>5 DEF FirstOf

(* One buffer more among the first ones adds what it has.                   *)
LEMMA FirstGrow ==
    ASSUME NEW s \in Seq(Buffer), NEW k \in 1..Len(s)
    PROVE  /\ DataIn(FirstOf(s, k)) = DataIn(FirstOf(s, k - 1)) + s[k].size
           /\ MemoryIn(FirstOf(s, k)) = MemoryIn(FirstOf(s, k - 1)) + BufferSize(s[k])
           /\ DataIn(FirstOf(s, k - 1)) \in Nat /\ MemoryIn(FirstOf(s, k - 1)) \in Nat
<1>1. Len(s) \in Nat /\ k - 1 \in 0..Len(s) /\ s[k] \in Buffer
  OBVIOUS
<1>2. FirstOf(s, k - 1) \in Seq(Buffer)
  BY <1>1, FirstOfList
<1>3. FirstOf(s, k) = FirstOf(s, k - 1) \o <<s[k]>>
  <2>1. 1 \in 1..Len(s) /\ k \in 1..Len(s)
    BY <1>1
  <2> QED
    BY <2>1, SubSeqRecursiveSecond DEF FirstOf
<1>4. <<s[k]>> \in Seq(Buffer)
  BY <1>1
<1> DEFINE less == FirstOf(s, k - 1)
           one == <<s[k]>>
<1>5. DataIn(one) = s[k].size /\ MemoryIn(one) = BufferSize(s[k])
  BY <1>1, SumsOne
<1> HIDE DEF one
<1>6. /\ DataIn(less \o one) = DataIn(less) + DataIn(one)
      /\ MemoryIn(less \o one) = MemoryIn(less) + MemoryIn(one)
  BY <1>2, <1>4, SumsConcat, Zenon DEF one
<1>7. DataIn(less) \in Nat /\ MemoryIn(less) \in Nat
  BY <1>2, SumsType
<1>8. FirstOf(s, k) = less \o one
  BY <1>3, Zenon DEF one
<1> HIDE DEF less
<1>9. /\ DataIn(FirstOf(s, k)) = DataIn(less) + s[k].size
      /\ MemoryIn(FirstOf(s, k)) = MemoryIn(less) + BufferSize(s[k])
  BY <1>5, <1>6, <1>8, Zenon
<1> QED
  BY <1>7, <1>9, Zenon DEF less

(* More of the first buffers have no less.                                  *)
LEMMA FirstOrdered ==
    ASSUME NEW s \in Seq(Buffer), NEW k \in 0..Len(s), NEW j \in 0..k
    PROVE  /\ DataIn(FirstOf(s, j)) <= DataIn(FirstOf(s, k))
           /\ MemoryIn(FirstOf(s, j)) <= MemoryIn(FirstOf(s, k))
<1>0. Len(s) \in Nat /\ j \in 0..Len(s) /\ \A i \in 1..Len(s) : s[i] \in Buffer
  OBVIOUS
<1>1. SubSeq(s, 1, j) \o SubSeq(s, j + 1, k) = SubSeq(s, 1, k)
  <2>1. 1 \in 1..(Len(s) + 1) /\ j \in (1 - 1)..Len(s) /\ k \in j..Len(s)
    BY <1>0
  <2> QED
    BY <2>1, ConcatAdjacentSubSeq
<1>2. FirstOf(s, j) \in Seq(Buffer) /\ SubSeq(s, j + 1, k) \in Seq(Buffer)
  <2>1. j + 1 \in Int /\ k \in Int /\ \A i \in (j + 1)..k : s[i] \in Buffer
    BY <1>0
  <2>2. SubSeq(s, j + 1, k) \in Seq(Buffer)
    BY <2>1, SubSeqProperties
  <2> QED
    BY <1>0, <2>2, FirstOfList
<1> DEFINE p == FirstOf(s, j)
           q == SubSeq(s, j + 1, k)
<1>3. FirstOf(s, k) = p \o q
  BY <1>1 DEF FirstOf
<1> HIDE DEF p, q
<1>4. /\ DataIn(p \o q) = DataIn(p) + DataIn(q) /\ DataIn(q) \in Nat /\ DataIn(p) \in Nat
      /\ MemoryIn(p \o q) = MemoryIn(p) + MemoryIn(q) /\ MemoryIn(q) \in Nat /\ MemoryIn(p) \in Nat
  BY <1>2, SumsConcat, SumsType DEF p, q
<1>5. /\ DataIn(p) <= DataIn(FirstOf(s, k)) /\ MemoryIn(p) <= MemoryIn(FirstOf(s, k))
  BY <1>3, <1>4
<1> QED
  BY <1>5 DEF p

-----------------------------------------------------------------------------
(* The bytes of a list of buffers.                                          *)

Sound == {b \in Buffer : b.begin + b.size <= BufferSize(b)}

Strings(list) == [k \in DOMAIN list |-> DataOf(list[k])]
BytesIn(list) == FlattenSeq(Strings(list))

(* A buffer whose data are inside its memory has as many as it says.        *)
LEMMA DataOfType ==
    ASSUME NEW b \in Sound
    PROVE  DataOf(b) \in Seq(Nat) /\ Len(DataOf(b)) = b.size
<1>1. /\ b.begin \in Nat /\ b.size \in Nat /\ b.memory \in Seq(Nat)
      /\ b.begin + b.size <= Len(b.memory) /\ Len(b.memory) \in Nat
  BY BufferSizeType DEF Sound, BufferSize
<1>2. \A i \in (b.begin + 1)..(b.begin + b.size) : b.memory[i] \in Nat
  BY <1>1
<1>3. /\ SubSeq(b.memory, b.begin + 1, b.begin + b.size) \in Seq(Nat)
      /\ Len(SubSeq(b.memory, b.begin + 1, b.begin + b.size)) =
           IF b.begin + 1 <= b.begin + b.size THEN b.begin + b.size - (b.begin + 1) + 1 ELSE 0
  BY <1>1, <1>2, SubSeqProperties
<1> QED
  BY <1>1, <1>3 DEF DataOf

(* The data of the buffers in a list are a list of strings.                 *)
LEMMA StringsType ==
    ASSUME NEW list \in Seq(Sound)
    PROVE  /\ list \in Seq(Buffer)
           /\ Strings(list) \in Seq(Seq(Nat)) /\ Len(Strings(list)) = Len(list)
           /\ \A k \in 1..Len(list) : Strings(list)[k] = DataOf(list[k])
<1>1. Sound \subseteq Buffer
  BY DEF Sound
<1>2. \A b \in Sound : DataOf(b) \in Seq(Nat)
  BY DataOfType
<1> HIDE DEF Sound, Buffer
<1>3. list \in Seq(Buffer)
  BY <1>1
<1>4. /\ DOMAIN list = 1..Len(list) /\ Len(list) \in Nat
      /\ \A k \in 1..Len(list) : list[k] \in Sound
  OBVIOUS
<1>5. \A k \in 1..Len(list) : DataOf(list[k]) \in Seq(Nat)
  BY <1>2, <1>4
<1>6. Strings(list) = [k \in 1..Len(list) |-> DataOf(list[k])]
  BY <1>4 DEF Strings
<1> DEFINE strings == [k \in 1..Len(list) |-> DataOf(list[k])]
           S == Seq(Nat)
<1>7. strings \in [1..Len(list) -> S]
  BY <1>5
<1>8. \A k \in 1..Len(list) : strings[k] = DataOf(list[k])
  OBVIOUS
<1> HIDE DEF strings, S
<1>9. strings \in Seq(S) /\ Len(strings) = Len(list)
  BY <1>4, <1>7
<1> QED
  BY <1>3, <1>6, <1>8, <1>9 DEF strings, S

(* No buffers have no bytes.                                                *)
LEMMA BytesEmpty == BytesIn(<<>>) = <<>>
<1>1. Strings(<<>>) = <<>>
  BY DEF Strings
<1> QED
  BY <1>1, FlattenEmpty DEF BytesIn

(* The bytes of a list are bytes.                                           *)
LEMMA BytesType ==
    ASSUME NEW list \in Seq(Sound)
    PROVE  BytesIn(list) \in Seq(Nat)
BY StringsType, FlattenType DEF BytesIn

(* Those of one buffer are its data.                                        *)
LEMMA BytesOne ==
    ASSUME NEW b \in Sound
    PROVE  BytesIn(<<b>>) = DataOf(b)
<1>1. Strings(<<b>>) = <<DataOf(b)>>
  BY DEF Strings
<1>2. DataOf(b) \in Seq(Nat)
  BY DataOfType
<1> QED
  BY <1>1, <1>2, FlattenOne DEF BytesIn

(* Those of two lists end to end are so, too.                               *)
LEMMA BytesConcat ==
    ASSUME NEW s \in Seq(Sound), NEW t \in Seq(Sound)
    PROVE  s \o t \in Seq(Sound) /\ BytesIn(s \o t) = BytesIn(s) \o BytesIn(t)
<1>1. s \o t \in Seq(Sound)
  BY ConcatProperties
<1>2. Strings(s) \in Seq(Seq(Nat)) /\ Strings(t) \in Seq(Seq(Nat))
  BY StringsType
<1> HIDE DEF Sound
<1>3. Strings(s \o t) = Strings(s) \o Strings(t)
  BY DEF Strings
<1>4. FlattenSeq(Strings(s) \o Strings(t)) = FlattenSeq(Strings(s)) \o FlattenSeq(Strings(t))
  BY <1>2, FlattenConcat
<1> QED
  BY <1>1, <1>3, <1>4 DEF BytesIn

(* They are as many as the sizes add up to.                                 *)
LEMMA BytesLen ==
    ASSUME NEW list \in Seq(Sound)
    PROVE  Len(BytesIn(list)) = DataIn(list)
<1> DEFINE s == Strings(list)
<1>1. /\ s \in Seq(Seq(Nat)) /\ Len(s) = Len(list) /\ list \in Seq(Buffer)
      /\ \A k \in 1..Len(list) : s[k] = DataOf(list[k])
      /\ Len(list) \in Nat
  BY StringsType
<1>2. /\ DataSizes(list) \in Seq(Int) /\ Len(DataSizes(list)) = Len(list)
      /\ \A k \in 1..Len(list) : DataSizes(list)[k] = list[k].size
  BY <1>1, SizesType DEF DataSize
<1>3. \A k \in 1..Len(list) : list[k] \in Sound
  OBVIOUS
<1>4. \A k \in 1..Len(list) : Len(s[k]) = DataSizes(list)[k]
  BY <1>1, <1>2, <1>3, DataOfType
<1> HIDE DEF s
<1>5. PICK f : PartialFlats(f, s, Nat)
  BY <1>1, FlatsExist
<1> DEFINE g == [k \in 0..Len(list) |-> Len(f[k])]
<1>6. PartialSums(g, DataSizes(list))
  <2>1. \A k \in 0..Len(list) : f[k] \in Seq(Nat)
    BY <1>1, <1>5 DEF PartialFlats
  <2>2. f[0] = <<>> /\ \A k \in 1..Len(list) : f[k] = f[k - 1] \o s[k]
    BY <1>1, <1>5 DEF PartialFlats
  <2>3. g \in [0..Len(list) -> Int] /\ g[0] = 0
    BY <1>1, <2>1, <2>2
  <2>4. ASSUME NEW k \in 1..Len(list)
        PROVE  g[k] = g[k - 1] + DataSizes(list)[k]
    <3>1. k \in 0..Len(list) /\ k - 1 \in 0..Len(list) /\ s[k] \in Seq(Nat)
      BY <1>1
    <3>2. f[k - 1] \in Seq(Nat) /\ f[k] = f[k - 1] \o s[k]
      BY <2>1, <2>2, <3>1
    <3>3. Len(f[k - 1] \o s[k]) = Len(f[k - 1]) + Len(s[k])
      BY <3>1, <3>2, ConcatProperties
    <3>4. g[k] = Len(f[k]) /\ g[k - 1] = Len(f[k - 1])
      BY <3>1
    <3> HIDE DEF g
    <3> QED
      BY <1>4, <3>2, <3>3, <3>4
  <2> HIDE DEF g
  <2> QED
    BY <1>2, <2>3, <2>4 DEF PartialSums
<1>7. Total(DataSizes(list)) = g[Len(list)]
  BY <1>2, <1>6, SumsTotal
<1>8. g[Len(list)] = Len(f[Len(list)])
  BY <1>1
<1>9. FlattenSeq(s) = f[Len(list)]
  BY <1>1, <1>5, FlatsFlatten
<1>10. DataIn(list) = Total(DataSizes(list))
  BY DEF DataIn, DataSizes, DataSize
<1> QED
  BY <1>7, <1>8, <1>9, <1>10 DEF BytesIn, s

-----------------------------------------------------------------------------
(* What happens to one buffer, and to all of a list.                        *)

(* What is not there is no buffer.                                          *)
LEMMA NoneIsNoBuffer == None \notin Buffer /\ NewBuffer \in Buffer
<1>1. DOMAIN None = {"none"}
  BY DEF None
<1>2. \A b \in Buffer : DOMAIN b = {"memory", "begin", "size"}
  BY DEF Buffer
<1>3. None \notin Buffer
  BY <1>1, <1>2, Zenon
<1>4. NewBuffer \in Buffer
  BY DEF NewBuffer, Buffer
<1> QED
  BY <1>3, <1>4

(* Lists of full and of empty buffers, and of both, are lists of sound ones. *)
LEMMA FullIsSound ==
    /\ Full \subseteq Sound /\ Empty \subseteq Sound /\ Sound \subseteq Buffer
    /\ \A list \in Seq(Full) : list \in Seq(Sound) /\ list \in Seq(Buffer)
    /\ \A list \in Seq(Empty) : list \in Seq(Sound) /\ list \in Seq(Buffer)
<1>1. Full \subseteq Sound /\ Empty \subseteq Sound /\ Sound \subseteq Buffer
  BY BufferSizeType DEF Full, Empty, Sound
<1> HIDE DEF Full, Empty, Sound, Buffer
<1> QED
  BY <1>1

(* FillData writes the data where the memory begins, and there they are.    *)
LEMMA FillDataFills ==
    ASSUME NEW b \in Fillable, NEW data \in Data
    PROVE  LET f == FillData(b, data)
           IN f \in Full /\ DataOf(f) = data /\ f.size = Len(data)
<1>1. data \in Seq(Nat) /\ Len(data) \in Nat \ {0}
  BY VBufferAssumption
<1>2. /\ b \in Buffer /\ b.begin = 0 /\ b.memory \in Seq(Nat)
      /\ BufferSize(b) = Len(b.memory) /\ Len(b.memory) \in Nat
  <2>1. b \in Buffer /\ b.begin = 0
    BY NoneIsNoBuffer DEF Fillable, Empty, NewBuffer
  <2>2. b.memory \in Seq(Nat)
    BY <2>1, BufferSizeType
  <2> QED
    BY <2>1, <2>2 DEF BufferSize
<1>3. CASE BufferSize(b) < Len(data)
  <2> DEFINE f == [memory |-> data, begin |-> 0, size |-> Len(data)]
  <2>1. FillData(b, data) = f
    BY <1>3 DEF FillData
  <2>2. f \in Full
    BY <1>1 DEF Full, Buffer, BufferSize
  <2>3. DataOf(f) = data
    BY <1>1 DEF DataOf
  <2> QED
    BY <2>1, <2>2, <2>3
<1>4. CASE ~(BufferSize(b) < Len(data))
  <2> DEFINE rest == SubSeq(b.memory, Len(data) + 1, Len(b.memory))
             memory == data \o rest
             f == [b EXCEPT !.memory = memory, !.size = Len(data)]
  <2>1. FillData(b, data) = f
    BY <1>4 DEF FillData, Over
  <2>2. rest \in Seq(Nat) /\ Len(rest) \in Nat
    BY <1>1, <1>2
  <2> HIDE DEF rest
  <2>3. memory \in Seq(Nat) /\ Len(memory) = Len(data) + Len(rest)
        /\ SubSeq(memory, 1, Len(data)) = data
    BY <1>1, <2>2, SubSeqOfBoth, ConcatProperties
  <2> HIDE DEF memory
  <2>4. f \in Buffer /\ f.memory = memory /\ f.begin = 0 /\ f.size = Len(data)
    BY <1>1, <1>2, <2>3 DEF Buffer
  <2> HIDE DEF f
  <2>5. f \in Full
    BY <1>1, <2>2, <2>3, <2>4 DEF Full, BufferSize
  <2>6. DataOf(f) = data
    BY <1>1, <2>3, <2>4 DEF DataOf
  <2> QED
    BY <2>1, <2>4, <2>5, <2>6
<1> QED
  BY <1>3, <1>4

(* ClearData makes a full buffer an empty one, of the same memory.          *)
LEMMA ClearDataEmpties ==
    ASSUME NEW b \in Full
    PROVE  ClearData(b) \in Empty /\ BufferSize(ClearData(b)) = BufferSize(b)
<1>1. b \in Buffer /\ BufferSize(b) \in Nat /\ BufferSize(b) > 0
  BY BufferSizeType DEF Full
<1>2. ClearData(b) \in Buffer /\ ClearData(b).begin = 0 /\ ClearData(b).size = 0
      /\ ClearData(b).memory = b.memory
  BY <1>1 DEF ClearData, Buffer
<1> QED
  BY <1>1, <1>2 DEF Empty, BufferSize

(* And so for all of a list.                                                *)
LEMMA ClearedEmpties ==
    ASSUME NEW list \in Seq(Full)
    PROVE  Cleared(list) \in Seq(Empty) /\ MemoryIn(Cleared(list)) = MemoryIn(list)
<1>1. /\ DOMAIN list = 1..Len(list) /\ Len(list) \in Nat
      /\ \A k \in 1..Len(list) : list[k] \in Full
  OBVIOUS
<1> DEFINE new == [k \in 1..Len(list) |-> ClearData(list[k])]
<1>2. /\ new \in [1..Len(list) -> Empty]
      /\ \A k \in 1..Len(list) : new[k] = ClearData(list[k])
  BY <1>1, ClearDataEmpties
<1>3. Cleared(list) = new
  BY <1>1 DEF Cleared
<1>4. \A k \in 1..Len(list) : BufferSize(new[k]) = BufferSize(list[k])
  BY <1>1, ClearDataEmpties
<1> HIDE DEF new
<1>5. new \in Seq(Empty) /\ DOMAIN new = 1..Len(list)
  BY <1>1, <1>2
<1>6. MemorySizes(new) = MemorySizes(list)
  BY <1>1, <1>4, <1>5 DEF MemorySizes
<1> QED
  BY <1>3, <1>5, <1>6 DEF MemoryIn, MemorySizes

-----------------------------------------------------------------------------
(* The actions: each keeps the invariant, and is a step of ByteQueue or     *)
(* changes neither the bytes nor what was taken out.                        *)

QueueStep == Queue!Next \/ UNCHANGED <<Bytes, out>>

(* What the invariant says of the lists, for the lemmas.                    *)
LEMMA Lists ==
    ASSUME IInv
    PROVE  /\ m_FullBuffer \in Seq(Full) /\ m_FullBuffer \in Seq(Sound)
           /\ m_FullBuffer \in Seq(Buffer)
           /\ m_EmptyBuffer \in Seq(Empty) /\ m_EmptyBuffer \in Seq(Buffer)
           /\ Bytes = BytesIn(m_FullBuffer) /\ Bytes \in Seq(Nat)
           /\ Len(Bytes) = m_nDataSize
           /\ m_nDataSize = DataIn(m_FullBuffer) /\ m_nDataSize \in Nat
           /\ m_nFullBufferSize = MemoryIn(m_FullBuffer) /\ m_nFullBufferSize \in Nat
           /\ m_nEmptyBufferSize = MemoryIn(m_EmptyBuffer) /\ m_nEmptyBufferSize \in Nat
<1>1. m_FullBuffer \in Seq(Full) /\ m_EmptyBuffer \in Seq(Empty) /\ CountersAreSums
  BY DEF IInv
<1>2. m_FullBuffer \in Seq(Sound) /\ m_FullBuffer \in Seq(Buffer) /\ m_EmptyBuffer \in Seq(Buffer)
  BY <1>1, FullIsSound
<1>3. Bytes = BytesIn(m_FullBuffer)
  BY DEF Bytes, BytesIn, Strings
<1> QED
  BY <1>1, <1>2, <1>3, BytesType, BytesLen, SumsType DEF CountersAreSums

(* At the beginning nothing is there.                                       *)
LEMMA PoolInit == Init => IInv /\ Queue!Init
<1> SUFFICES ASSUME Init
             PROVE  IInv /\ Queue!Init
  OBVIOUS
<1>1. m_FullBuffer = <<>> /\ m_EmptyBuffer = <<>> /\ out = <<>>
      /\ m_nDataSize = 0 /\ m_nEmptyBufferSize = 0 /\ m_nFullBufferSize = 0
      /\ filling = None /\ draining = None
  BY DEF Init
<1>2. CountersAreSums
  BY <1>1, SumsEmpty DEF CountersAreSums
<1>3. IInv
  BY <1>1, <1>2 DEF IInv
<1>4. Bytes = <<>>
  BY <1>1, BytesEmpty DEF Bytes, BytesIn, Strings
<1> QED
  BY <1>1, <1>3, <1>4 DEF Queue!Init

(* Any number of buffers of any size, all empty.                            *)
LEMMA AllocateKeeps ==
    ASSUME IInv, NEW count \in Sizes, NEW size \in Sizes, AllocateBuffer(count, size)
    PROVE  IInv' /\ QueueStep
<1>0. count \in Nat \ {0} /\ size \in Nat \ {0}
  BY VBufferAssumption
<1> DEFINE new == [NewBuffer EXCEPT !.memory = [j \in 1..size |-> 0]]
           list == [k \in 1..count |-> new]
<1>1. /\ m_FullBuffer' = <<>> /\ m_EmptyBuffer' = list
      /\ m_nDataSize' = 0 /\ m_nFullBufferSize' = 0 /\ m_nEmptyBufferSize' = count * size
      /\ UNCHANGED <<filling, draining, out>>
  BY DEF AllocateBuffer
<1>2. new \in Empty /\ BufferSize(new) = size
  <2> DEFINE memory == [j \in 1..size |-> 0]
  <2>1. memory \in Seq(Nat) /\ Len(memory) = size
    BY <1>0
  <2> HIDE DEF memory
  <2>2. new \in Buffer /\ new.begin = 0 /\ new.size = 0 /\ new.memory = memory
    BY <2>1 DEF NewBuffer, Buffer, memory
  <2> HIDE DEF new
  <2>3. BufferSize(new) = size
    BY <2>1, <2>2 DEF BufferSize
  <2> QED
    BY <1>0, <2>2, <2>3 DEF Empty
<1> HIDE DEF new
<1>3. list \in Seq(Empty) /\ Len(list) = count /\ \A k \in 1..count : list[k] = new
  BY <1>0, <1>2
<1> HIDE DEF list
<1>4. MemoryIn(list) = count * size
  <2>1. list \in Seq(Buffer)
    BY <1>3, FullIsSound
  <2> DEFINE sizes == MemorySizes(list)
  <2>2. sizes \in Seq(Int) /\ Len(sizes) = count /\ \A k \in 1..Len(sizes) : sizes[k] = size
    BY <1>2, <1>3, <2>1, SizesType
  <2> HIDE DEF sizes
  <2>3. size \in Int
    BY <1>0
  <2>4. Total(sizes) = size * Len(sizes)
    BY <2>2, <2>3, TotalOfEqual
  <2>5. MemoryIn(list) = Total(sizes)
    BY DEF MemoryIn, MemorySizes, sizes
  <2>6. size * count = count * size
    BY <1>0
  <2> QED
    BY <2>2, <2>4, <2>5, <2>6
<1>5. CountersAreSums'
  BY <1>1, <1>4, SumsEmpty DEF CountersAreSums
<1>6. IInv'
  BY <1>1, <1>3, <1>5 DEF IInv
<1>7. Bytes' = <<>>
  BY <1>1, BytesEmpty DEF Bytes, BytesIn, Strings
<1> QED
  BY <1>1, <1>6, <1>7 DEF QueueStep, Queue!Next, Queue!Clear

(* No buffers at all.                                                       *)
LEMMA FreeKeeps ==
    ASSUME IInv, FreeBuffer
    PROVE  IInv' /\ QueueStep
<1>1. /\ m_FullBuffer' = <<>> /\ m_EmptyBuffer' = <<>>
      /\ m_nDataSize' = 0 /\ m_nFullBufferSize' = 0 /\ m_nEmptyBufferSize' = 0
      /\ UNCHANGED <<filling, draining, out>>
  BY DEF FreeBuffer
<1>2. CountersAreSums'
  BY <1>1, SumsEmpty DEF CountersAreSums
<1>3. IInv'
  BY <1>1, <1>2 DEF IInv
<1>4. Bytes' = <<>>
  BY <1>1, BytesEmpty DEF Bytes, BytesIn, Strings
<1> QED
  BY <1>1, <1>3, <1>4 DEF QueueStep, Queue!Next, Queue!Clear

(* The full buffers become empty ones.                                      *)
LEMMA ResetKeeps ==
    ASSUME IInv, ResetBuffer
    PROVE  IInv' /\ QueueStep
<1> DEFINE cleared == Cleared(m_FullBuffer)
<1>1. /\ m_FullBuffer' = <<>> /\ m_EmptyBuffer' = m_EmptyBuffer \o cleared
      /\ m_nDataSize' = m_nDataSize - DataIn(m_FullBuffer)
      /\ m_nFullBufferSize' = m_nFullBufferSize - MemoryIn(m_FullBuffer)
      /\ m_nEmptyBufferSize' = m_nEmptyBufferSize + MemoryIn(m_FullBuffer)
      /\ UNCHANGED <<filling, draining, out>>
  BY DEF ResetBuffer
<1>2. cleared \in Seq(Empty) /\ cleared \in Seq(Buffer)
      /\ MemoryIn(cleared) = MemoryIn(m_FullBuffer)
  BY Lists, ClearedEmpties, FullIsSound
<1> HIDE DEF cleared
<1>3. /\ m_EmptyBuffer \o cleared \in Seq(Empty)
      /\ MemoryIn(m_EmptyBuffer \o cleared) = MemoryIn(m_EmptyBuffer) + MemoryIn(cleared)
  BY <1>2, Lists, SumsConcat, ConcatProperties
<1>4. CountersAreSums'
  BY <1>1, <1>2, <1>3, Lists, SumsEmpty DEF CountersAreSums
<1>5. IInv'
  BY <1>1, <1>3, <1>4 DEF IInv
<1>6. Bytes' = <<>>
  BY <1>1, BytesEmpty DEF Bytes, BytesIn, Strings
<1> QED
  BY <1>1, <1>5, <1>6 DEF QueueStep, Queue!Next, Queue!Clear

(* A producer takes the first empty buffer.                                 *)
LEMMA GetEmptyKeeps ==
    ASSUME IInv, GetEmptyBuffer
    PROVE  IInv' /\ QueueStep
<1>1. /\ m_EmptyBuffer # <<>> /\ filling' = Head(m_EmptyBuffer)
      /\ m_EmptyBuffer' = Tail(m_EmptyBuffer)
      /\ m_nEmptyBufferSize' = m_nEmptyBufferSize - BufferSize(Head(m_EmptyBuffer))
      /\ UNCHANGED <<m_FullBuffer, m_nDataSize, m_nFullBufferSize, draining, out>>
  BY DEF GetEmptyBuffer
<1>2. Head(m_EmptyBuffer) \in Empty /\ Tail(m_EmptyBuffer) \in Seq(Empty)
  BY <1>1, Lists, HeadTailProperties
<1>3. /\ MemoryIn(m_EmptyBuffer) = BufferSize(Head(m_EmptyBuffer)) + MemoryIn(Tail(m_EmptyBuffer))
      /\ BufferSize(Head(m_EmptyBuffer)) \in Nat /\ MemoryIn(Tail(m_EmptyBuffer)) \in Nat
  BY <1>1, <1>2, Lists, SumsTail, SumsType, BufferSizeType, FullIsSound
<1>4. m_nEmptyBufferSize' = MemoryIn(Tail(m_EmptyBuffer))
  BY <1>1, <1>3, Lists
<1>5. CountersAreSums'
  BY <1>1, <1>4, Lists DEF CountersAreSums
<1>6. IInv'
  BY <1>1, <1>2, <1>5 DEF IInv, Fillable
<1>7. Bytes' = Bytes
  BY <1>1 DEF Bytes
<1> QED
  BY <1>1, <1>6, <1>7 DEF QueueStep

(* Or makes one, where there is none.                                       *)
LEMMA MakeKeeps ==
    ASSUME IInv, MakeBuffer
    PROVE  IInv' /\ QueueStep
<1>1. filling' = NewBuffer /\ UNCHANGED <<lists, counters, draining, out>>
  BY DEF MakeBuffer
<1>2. CountersAreSums'
  BY <1>1, Lists DEF CountersAreSums, lists, counters
<1>3. IInv'
  BY <1>1, <1>2 DEF IInv, Fillable, lists
<1>4. Bytes' = Bytes
  BY <1>1 DEF Bytes, lists
<1> QED
  BY <1>1, <1>3, <1>4 DEF QueueStep

(* And adds it with data, which are then the last of the bytes.             *)
LEMMA AddFullKeeps ==
    ASSUME IInv, NEW data \in Data, AddFullBuffer(data)
    PROVE  IInv' /\ QueueStep
<1> DEFINE b == FillData(filling, data)
<1>1. /\ filling # None /\ filling' = None
      /\ m_FullBuffer' = Append(m_FullBuffer, b)
      /\ m_nDataSize' = m_nDataSize + b.size
      /\ m_nFullBufferSize' = m_nFullBufferSize + BufferSize(b)
      /\ UNCHANGED <<m_EmptyBuffer, m_nEmptyBufferSize, draining, out>>
  BY DEF AddFullBuffer
<1>2. filling \in Fillable
  BY <1>1 DEF IInv
<1>3. b \in Full /\ DataOf(b) = data
  BY <1>2, FillDataFills
<1> HIDE DEF b
<1>4. b \in Sound /\ b \in Buffer
  BY <1>3, FullIsSound
<1>5. /\ DataIn(Append(m_FullBuffer, b)) = DataIn(m_FullBuffer) + b.size
      /\ MemoryIn(Append(m_FullBuffer, b)) = MemoryIn(m_FullBuffer) + BufferSize(b)
  BY <1>4, Lists, SumsAppend
<1>6. CountersAreSums'
  BY <1>1, <1>5, Lists DEF CountersAreSums
<1>7. Append(m_FullBuffer, b) \in Seq(Full)
  BY <1>3, Lists, AppendProperties
<1>8. IInv'
  BY <1>1, <1>6, <1>7 DEF IInv
<1>9. Bytes' = Bytes \o data
  <2>1. Append(m_FullBuffer, b) = m_FullBuffer \o <<b>> /\ <<b>> \in Seq(Sound)
    BY <1>4, Lists, AppendIsConcat
  <2>2. BytesIn(m_FullBuffer \o <<b>>) = BytesIn(m_FullBuffer) \o BytesIn(<<b>>)
    BY <2>1, Lists, BytesConcat
  <2>3. BytesIn(<<b>>) = data
    BY <1>3, <1>4, BytesOne
  <2>4. Bytes' = BytesIn(m_FullBuffer')
    BY DEF Bytes, BytesIn, Strings
  <2> QED
    BY <1>1, <2>1, <2>2, <2>3, <2>4, Lists
<1> QED
  BY <1>1, <1>8, <1>9 DEF QueueStep, Queue!Next, Queue!Put

(* A consumer takes the first full buffer, and its bytes are the first ones. *)
LEMMA GetFullKeeps ==
    ASSUME IInv, GetFullBuffer
    PROVE  IInv' /\ QueueStep
<1> DEFINE b == Head(m_FullBuffer)
           rest == Tail(m_FullBuffer)
<1>1. /\ m_FullBuffer # <<>> /\ m_FullBuffer' = rest
      /\ draining' = b /\ out' = DataOf(b)
      /\ m_nDataSize' = m_nDataSize - b.size
      /\ m_nFullBufferSize' = m_nFullBufferSize - BufferSize(b)
      /\ UNCHANGED <<m_EmptyBuffer, m_nEmptyBufferSize, filling>>
  BY DEF GetFullBuffer
<1>2. b \in Full /\ rest \in Seq(Full)
  BY <1>1, Lists, HeadTailProperties
<1>3. b \in Sound /\ b \in Buffer /\ rest \in Seq(Sound) /\ rest \in Seq(Buffer)
  BY <1>2, FullIsSound
<1>4. /\ DataIn(m_FullBuffer) = b.size + DataIn(rest)
      /\ MemoryIn(m_FullBuffer) = BufferSize(b) + MemoryIn(rest)
  BY <1>1, Lists, SumsTail
<1>5. b.size \in Nat /\ b.size > 0 /\ BufferSize(b) \in Nat
  BY <1>2, <1>3, BufferSizeType DEF Full
<1>6. DataIn(rest) \in Nat /\ MemoryIn(rest) \in Nat
  BY <1>3, SumsType
<1>7. m_FullBuffer = <<b>> \o rest /\ <<b>> \in Seq(Sound)
  BY <1>1, <1>3, Lists
<1> HIDE DEF b, rest
<1>8. m_nDataSize' = DataIn(rest) /\ m_nFullBufferSize' = MemoryIn(rest)
  BY <1>1, <1>4, <1>5, <1>6, Lists
<1>9. CountersAreSums'
  BY <1>1, <1>8, Lists DEF CountersAreSums
<1>10. DataOf(b) \in Seq(Nat) /\ Len(DataOf(b)) = b.size
  BY <1>3, DataOfType
<1>11. IInv'
  BY <1>1, <1>2, <1>9, <1>10 DEF IInv
<1>12. Bytes = DataOf(b) \o BytesIn(rest)
  BY <1>3, <1>7, Lists, BytesConcat, BytesOne
<1>13. Bytes' = BytesIn(rest) /\ BytesIn(rest) \in Seq(Nat)
  <2>1. m_FullBuffer' = rest
    BY <1>1
  <2>2. Bytes' = BytesIn(rest)
    BY <2>1, Zenon DEF Bytes, BytesIn, Strings
  <2> QED
    BY <1>3, <2>2, BytesType
<1>14. /\ Len(Bytes) = b.size + Len(BytesIn(rest))
       /\ SubSeq(Bytes, 1, b.size) = DataOf(b)
       /\ SubSeq(Bytes, b.size + 1, Len(Bytes)) = BytesIn(rest)
  <2> DEFINE x == DataOf(b)
             y == BytesIn(rest)
  <2>1. x \in Seq(Nat) /\ y \in Seq(Nat) /\ Len(x) = b.size /\ Bytes = x \o y
    BY <1>10, <1>12, <1>13
  <2> HIDE DEF x, y
  <2>2. /\ Len(x \o y) = Len(x) + Len(y) /\ SubSeq(x \o y, 1, Len(x)) = x
        /\ SubSeq(x \o y, Len(x) + 1, Len(x \o y)) = y
    <3>1. x \in Seq(Nat) /\ y \in Seq(Nat)
      BY <2>1
    <3> QED
      BY <3>1, SubSeqOfBoth
  <2> QED
    BY <2>1, <2>2, Zenon DEF x, y
<1>15. b.size \in 1..Len(Bytes)
  BY <1>5, <1>13, <1>14
<1>16. /\ out' = SubSeq(Bytes, 1, b.size)
       /\ Bytes' = SubSeq(Bytes, b.size + 1, Len(Bytes))
  BY <1>1, <1>13, <1>14
<1> QED
  BY <1>11, <1>15, <1>16 DEF QueueStep, Queue!Next, Queue!Take

(* And adds it to the empty ones.                                           *)
LEMMA AddEmptyKeeps ==
    ASSUME IInv, AddEmptyBuffer
    PROVE  IInv' /\ QueueStep
<1> DEFINE b == ClearData(draining)
<1>1. /\ draining # None /\ draining' = None
      /\ m_EmptyBuffer' = Append(m_EmptyBuffer, b)
      /\ m_nEmptyBufferSize' = m_nEmptyBufferSize + BufferSize(b)
      /\ UNCHANGED <<m_FullBuffer, m_nDataSize, m_nFullBufferSize, filling, out>>
  BY DEF AddEmptyBuffer, AddEmptyAs
<1>2. b \in Empty /\ b \in Buffer
  BY <1>1, ClearDataEmpties DEF IInv, Empty
<1> HIDE DEF b
<1>3. MemoryIn(Append(m_EmptyBuffer, b)) = MemoryIn(m_EmptyBuffer) + BufferSize(b)
  BY <1>2, Lists, SumsAppend
<1>4. CountersAreSums'
  BY <1>1, <1>3, Lists DEF CountersAreSums
<1>5. Append(m_EmptyBuffer, b) \in Seq(Empty)
  BY <1>2, Lists, AppendProperties
<1>6. IInv'
  BY <1>1, <1>4, <1>5 DEF IInv
<1>7. Bytes' = Bytes
  BY <1>1 DEF Bytes
<1> QED
  BY <1>1, <1>6, <1>7 DEF QueueStep

-----------------------------------------------------------------------------
(* GetData: the buffers that n bytes cover, and part of the next one.       *)

Skipped(b, n) == [b EXCEPT !.begin = @ + n, !.size = @ - n]

SkippedFirst(list, n) ==
    [k \in DOMAIN list |->
       IF k > 1 THEN list[k] ELSE [list[1] EXCEPT !.begin = @ + n, !.size = @ - n]]

Covered(list, n) == Cardinality({k \in DOMAIN list : DataIn(FirstOf(list, k)) <= n})

(* Behind the first n of its bytes a buffer has the others.                 *)
LEMMA SkippedKeeps ==
    ASSUME NEW b \in Full, NEW n \in Nat, n < b.size
    PROVE  /\ Skipped(b, n) \in Full /\ Skipped(b, n).size = b.size - n
           /\ BufferSize(Skipped(b, n)) = BufferSize(b)
           /\ \E x \in Seq(Nat) : Len(x) = n /\ DataOf(b) = x \o DataOf(Skipped(b, n))
<1> DEFINE c == Skipped(b, n)
           from == b.begin + 1
           mid  == b.begin + n
           to   == b.begin + b.size
<1>1. /\ b \in Buffer /\ b.size \in Nat /\ b.begin \in Nat /\ b.memory \in Seq(Nat)
      /\ b.begin + b.size <= Len(b.memory) /\ Len(b.memory) \in Nat
  BY BufferSizeType DEF Full, BufferSize
<1>2. c \in Buffer /\ c.memory = b.memory /\ c.begin = b.begin + n /\ c.size = b.size - n
  <2> DEFINE first == b.begin + n
             left == b.size - n
  <2>1. first \in Nat /\ left \in Nat
    BY <1>1
  <2>2. c = [b EXCEPT !.begin = first, !.size = left]
    BY DEF Skipped
  <2> HIDE DEF first, left, c
  <2>3. c \in Buffer /\ c.memory = b.memory /\ c.begin = first /\ c.size = left
    BY <1>1, <2>1, <2>2 DEF Buffer
  <2> QED
    BY <2>3 DEF first, left
<1> HIDE DEF c
<1> DEFINE begin == b.begin
           size == b.size
           memory == b.memory
           len == Len(memory)
<1>n. /\ begin \in Nat /\ size \in Nat /\ len \in Nat /\ n < size /\ begin + size <= len
      /\ memory \in Seq(Nat) /\ c.memory = memory /\ c.begin = begin + n /\ c.size = size - n
      /\ from = begin + 1 /\ mid = begin + n /\ to = begin + size
      /\ \A i \in 1..len : memory[i] \in Nat
  BY <1>1, <1>2
<1> HIDE DEF begin, size, len, memory, from, mid, to
<1>3. c \in Full /\ BufferSize(c) = BufferSize(b)
  <2>1. c.size > 0 /\ c.begin + c.size <= len
    BY <1>n
  <2>2. BufferSize(c) = len /\ BufferSize(b) = len
    BY <1>n DEF BufferSize, len, memory
  <2> QED
    BY <1>2, <2>1, <2>2 DEF Full
<1>4. from \in 1..(len + 1) /\ mid \in (from - 1)..len
      /\ to \in mid..len /\ mid - from + 1 = n /\ from <= mid + 1
      /\ c.begin + 1 = mid + 1 /\ c.begin + c.size = to /\ from \in Int /\ mid \in Int
  BY <1>n
<1>5. \A i \in from..mid : memory[i] \in Nat
  BY <1>n, <1>4
<1> DEFINE x == SubSeq(memory, from, mid)
<1>6. x \in Seq(Nat) /\ Len(x) = n
  <2>1. x \in Seq(Nat) /\ Len(x) = IF from <= mid THEN mid - from + 1 ELSE 0
    BY <1>4, <1>5, SubSeqProperties
  <2> HIDE DEF x
  <2> QED
    BY <1>n, <1>4, <2>1
<1>7. DataOf(c) = SubSeq(memory, mid + 1, to) /\ DataOf(b) = SubSeq(memory, from, to)
  <2>1. DataOf(c) = SubSeq(memory, mid + 1, to)
    BY <1>n, <1>4 DEF DataOf
  <2>2. DataOf(b) = SubSeq(memory, from, to)
    BY DEF DataOf, memory, from, to
  <2> QED
    BY <2>1, <2>2
<1>8. x \o SubSeq(memory, mid + 1, to) = SubSeq(memory, from, to)
  BY <1>n, <1>4, ConcatAdjacentSubSeq DEF len
<1> HIDE DEF x
<1>9. DataOf(b) = x \o DataOf(c)
  BY <1>7, <1>8 DEF x
<1>10. c.size = b.size - n
  BY <1>2
<1> QED
  BY <1>3, <1>6, <1>9, <1>10 DEF c

(* And so for the list in front of which it is.                             *)
LEMMA SkippedFirstKeeps ==
    ASSUME NEW list \in Seq(Full), NEW n \in Nat, list = <<>> => n = 0,
           list # <<>> => n < list[1].size
    PROVE  /\ SkippedFirst(list, n) \in Seq(Full)
           /\ DataIn(SkippedFirst(list, n)) = DataIn(list) - n
           /\ MemoryIn(SkippedFirst(list, n)) = MemoryIn(list)
           /\ \E x \in Seq(Nat) : /\ Len(x) = n
                                  /\ BytesIn(list) = x \o BytesIn(SkippedFirst(list, n))
<1> DEFINE new == SkippedFirst(list, n)
<1>1. CASE list = <<>>
  <2>1. new = <<>>
    BY <1>1 DEF SkippedFirst
  <2>2. <<>> \in Seq(Nat) /\ Len(<<>>) = 0 /\ BytesIn(<<>>) = <<>> \o BytesIn(<<>>)
    BY BytesEmpty
  <2> HIDE DEF new
  <2>3. n = 0 /\ DataIn(<<>>) = DataIn(<<>>) - 0
    BY <1>1, SumsEmpty
  <2>4. new \in Seq(Full) /\ DataIn(new) = DataIn(list) - n /\ MemoryIn(new) = MemoryIn(list)
    BY <1>1, <2>1, <2>3
  <2>5. \E x \in Seq(Nat) : Len(x) = n /\ BytesIn(list) = x \o BytesIn(new)
    BY <1>1, <2>1, <2>2, <2>3
  <2> QED
    BY <2>4, <2>5 DEF new
<1>2. CASE list # <<>>
  <2> DEFINE b == list[1]
             c == Skipped(b, n)
             rest == Tail(list)
  <2>1. b \in Full /\ rest \in Seq(Full) /\ b = Head(list)
    BY <1>2, HeadTailProperties
  <2>2. n < b.size
    BY <1>2
  <2>3. /\ c \in Full /\ c.size = b.size - n /\ BufferSize(c) = BufferSize(b)
        /\ \E x \in Seq(Nat) : Len(x) = n /\ DataOf(b) = x \o DataOf(c)
    BY <2>1, <2>2, SkippedKeeps
  <2>4. new = <<c>> \o rest
    <3>1. /\ DOMAIN list = 1..Len(list) /\ Len(list) \in Nat \ {0}
          /\ Len(rest) = Len(list) - 1 /\ \A k \in 2..Len(list) : list[k] = rest[k - 1]
      BY <1>2
    <3>2. new = [k \in 1..Len(list) |-> IF k > 1 THEN list[k] ELSE c]
      BY <3>1 DEF SkippedFirst, Skipped
    <3> HIDE DEF new, c, rest
    <3> DEFINE one == <<c>>
    <3>3. one \in Seq(Full) /\ Len(one) = 1 /\ one[1] = c
      BY <2>3
    <3> HIDE DEF one
    <3>4. /\ one \o rest \in Seq(Full) /\ Len(one \o rest) = Len(list)
          /\ \A k \in 1..Len(list) : (one \o rest)[k] = IF k > 1 THEN list[k] ELSE c
      <4>1. /\ one \o rest \in Seq(Full) /\ Len(one \o rest) = Len(one) + Len(rest)
            /\ \A k \in 1..(Len(one) + Len(rest)) :
                 (one \o rest)[k] = IF k <= Len(one) THEN one[k] ELSE rest[k - Len(one)]
        BY <2>1, <3>3, ConcatProperties
      <4> QED
        BY <3>1, <3>3, <4>1
    <3> DEFINE both == one \o rest
    <3>5. /\ both \in Seq(Full) /\ Len(both) = Len(list)
          /\ \A k \in 1..Len(list) : both[k] = IF k > 1 THEN list[k] ELSE c
      BY <3>4
    <3> HIDE DEF both
    <3>6. both = [k \in 1..Len(list) |-> both[k]]
      BY <3>5
    <3>7. both = [k \in 1..Len(list) |-> IF k > 1 THEN list[k] ELSE c]
      BY <3>5, <3>6, Zenon
    <3> QED
      BY <3>2, <3>7 DEF one, both
  <2>5. list = <<b>> \o rest
    BY <1>2
  <2> HIDE DEF new, b, c, rest
  <2>6. /\ b \in Sound /\ b \in Buffer /\ c \in Sound /\ c \in Buffer
        /\ rest \in Seq(Sound) /\ rest \in Seq(Buffer)
        /\ <<b>> \in Seq(Sound) /\ <<c>> \in Seq(Sound)
        /\ <<b>> \in Seq(Buffer) /\ <<c>> \in Seq(Buffer)
    BY <2>1, <2>3, FullIsSound
  <2>7. /\ DataIn(<<b>> \o rest) = DataIn(<<b>>) + DataIn(rest)
        /\ MemoryIn(<<b>> \o rest) = MemoryIn(<<b>>) + MemoryIn(rest)
        /\ DataIn(<<c>> \o rest) = DataIn(<<c>>) + DataIn(rest)
        /\ MemoryIn(<<c>> \o rest) = MemoryIn(<<c>>) + MemoryIn(rest)
    BY <2>6, SumsConcat
  <2>8. /\ DataIn(<<b>>) = b.size /\ MemoryIn(<<b>>) = BufferSize(b)
        /\ DataIn(<<c>>) = c.size /\ MemoryIn(<<c>>) = BufferSize(c)
        /\ b.size \in Nat /\ c.size \in Nat /\ DataIn(rest) \in Nat
    BY <2>6, SumsOne, SumsType, BufferSizeType
  <2>9. DataIn(new) = DataIn(list) - n /\ MemoryIn(new) = MemoryIn(list)
    <3>1. DataIn(new) = c.size + DataIn(rest) /\ DataIn(list) = b.size + DataIn(rest)
      BY <2>4, <2>5, <2>7, <2>8
    <3>2. MemoryIn(new) = MemoryIn(list)
      BY <2>3, <2>4, <2>5, <2>7, <2>8
    <3>3. c.size = b.size - n
      BY <2>3
    <3> QED
      BY <2>8, <3>1, <3>2, <3>3
  <2>10. new \in Seq(Full)
    BY <2>1, <2>3, <2>4, ConcatProperties
  <2>11. PICK x \in Seq(Nat) : Len(x) = n /\ DataOf(b) = x \o DataOf(c)
    BY <2>3
  <2> DEFINE y == DataOf(c)
             z == BytesIn(rest)
  <2>12. x \in Seq(Nat) /\ y \in Seq(Nat) /\ z \in Seq(Nat)
    BY <2>6, DataOfType, BytesType
  <2>13. BytesIn(list) = DataOf(b) \o z /\ BytesIn(new) = y \o z
    BY <2>4, <2>5, <2>6, BytesConcat, BytesOne
  <2>14. DataOf(b) = x \o y
    BY <2>11
  <2> HIDE DEF y, z
  <2>15. (x \o y) \o z = x \o (y \o z)
    <3>1. Joined(x, Joined(y, z)) = Joined(Joined(x, y), z)
      BY <2>12, JoinedAssociates
    <3> QED
      BY <3>1, Zenon DEF Joined
  <2>16. BytesIn(list) = x \o BytesIn(new)
    BY <2>13, <2>14, <2>15
  <2> QED
    BY <2>9, <2>10, <2>11, <2>16 DEF new
<1> QED
  BY <1>1, <1>2

(* The buffers that n bytes cover are the first ones, and of the next one   *)
(* not all bytes are taken: otherwise n bytes would cover it.               *)
LEMMA CoveredFirst ==
    ASSUME NEW list \in Seq(Full), NEW n \in Nat, n <= DataIn(list)
    PROVE  LET c == Covered(list, n)
               kept == SubSeq(list, c + 1, Len(list))
           IN /\ c \in 0..Len(list) /\ n - DataIn(FirstOf(list, c)) \in Nat
              /\ FirstOf(list, c) \in Seq(Full) /\ kept \in Seq(Full)
              /\ kept = <<>> => n - DataIn(FirstOf(list, c)) = 0
              /\ kept # <<>> => n - DataIn(FirstOf(list, c)) < kept[1].size
<1> DEFINE D == {k \in DOMAIN list : DataIn(FirstOf(list, k)) <= n}
           c == Covered(list, n)
           first == FirstOf(list, c)
           kept == SubSeq(list, c + 1, Len(list))
           rest == n - DataIn(first)
<1>1. /\ list \in Seq(Buffer) /\ Len(list) \in Nat /\ DOMAIN list = 1..Len(list)
      /\ \A k \in 1..Len(list) : list[k] \in Full
  BY FullIsSound
<1>2. \A k \in 0..Len(list) : DataIn(FirstOf(list, k)) \in Nat
  BY <1>1, FirstOfList, SumsType
<1>3. c \in 0..Len(list) /\ D = 1..c
  <2>1. D \in SUBSET (1..Len(list))
    BY <1>1
  <2>2. ASSUME NEW k \in D, NEW j \in 1..k
        PROVE  j \in D
    <3>1. k \in 0..Len(list) /\ j \in 0..k /\ j \in 0..Len(list) /\ j \in 1..Len(list)
      BY <1>1
    <3>2. DataIn(FirstOf(list, j)) <= DataIn(FirstOf(list, k))
      BY <1>1, <3>1, FirstOrdered
    <3>3. DataIn(FirstOf(list, k)) <= n
      OBVIOUS
    <3> QED
      BY <1>1, <1>2, <3>1, <3>2, <3>3
  <2>3. c = Cardinality(D)
    BY DEF Covered
  <2> HIDE DEF D, c
  <2> QED
    BY <1>1, <2>1, <2>2, <2>3, InitialSegment
<1>4. /\ first \in Seq(Buffer) /\ Len(first) = c /\ \A i \in 1..c : first[i] = list[i]
      /\ kept \in Seq(Buffer) /\ Len(kept) = Len(list) - c
      /\ \A i \in 1..(Len(list) - c) : kept[i] = list[c + i]
  BY <1>1, <1>3, FirstOfList
<1>5. first \in Seq(Full) /\ kept \in Seq(Full)
  <2> HIDE DEF c
  <2>1. \A i \in 1..c : list[i] \in Full
    BY <1>1, <1>3
  <2>2. \A i \in (c + 1)..Len(list) : list[i] \in Full
    BY <1>1, <1>3
  <2>3. c \in Int /\ Len(list) \in Int /\ 1 \in Int /\ c + 1 \in Int
    BY <1>1, <1>3
  <2> HIDE DEF Full
  <2>4. SubSeq(list, 1, c) \in Seq(Full)
    BY <2>1, <2>3, SubSeqProperties
  <2>5. SubSeq(list, c + 1, Len(list)) \in Seq(Full)
    BY <2>2, <2>3, SubSeqProperties
  <2> QED
    BY <2>4, <2>5 DEF FirstOf
<1>6. rest \in Nat
  <2>1. CASE c = 0
    <3>1. first = <<>>
      BY <1>1, <1>3, <2>1, FirstOfList
    <3> QED
      BY <3>1, SumsEmpty
  <2>2. CASE c # 0
    <3>1. c \in D
      BY <1>3, <2>2
    <3>2. DataIn(first) <= n
      BY <3>1
    <3> QED
      BY <1>2, <1>3, <3>2
  <2> QED
    BY <2>1, <2>2
<1>7. ASSUME kept = <<>>
      PROVE  rest = 0
  <2>1. c = Len(list)
    <3> HIDE DEF kept, first, c
    <3>1. Len(kept) = 0
      BY <1>7
    <3>2. Len(list) - c = 0
      BY <1>4, <3>1
    <3>3. Len(list) \in Int
      BY <1>1
    <3>4. c \in Int
      BY <1>3, <3>3
    <3> QED
      BY <3>2, <3>3, <3>4
  <2>2. first = list
    BY <1>1, <1>3, <2>1, FirstOfList
  <2>3. DataIn(first) \in Nat
    BY <1>2, <1>3
  <2> QED
    BY <1>6, <2>2, <2>3
<1>8. ASSUME kept # <<>>
      PROVE  rest < kept[1].size
  <2>1. c + 1 \in 1..Len(list) /\ c + 1 \notin D
    BY <1>1, <1>3, <1>4, <1>8
  <2>2. ~(DataIn(FirstOf(list, c + 1)) <= n)
    BY <1>1, <2>1
  <2>3. kept[1] = list[c + 1]
    BY <1>1, <1>3, <1>4, <2>1
  <2>4. (c + 1) - 1 = c
    BY <1>3
  <2>5. DataIn(FirstOf(list, c + 1)) = DataIn(first) + list[c + 1].size
    BY <1>1, <2>1, <2>4, FirstGrow
  <2>6. list[c + 1].size \in Nat /\ DataIn(first) \in Nat
    BY <1>1, <1>2, <1>3, <2>1, FullIsSound, BufferSizeType
  <2> HIDE DEF first, kept, c
  <2> QED
    BY <2>2, <2>3, <2>5, <2>6
<1> QED
  BY <1>3, <1>5, <1>6, <1>7, <1>8

(* GetData takes the first n bytes out.                                     *)
LEMMA GetDataKeeps ==
    ASSUME IInv, NEW n \in Sizes, GetData(n)
    PROVE  IInv' /\ QueueStep
<1> DEFINE c == Covered(m_FullBuffer, n)
           emptied == FirstOf(m_FullBuffer, c)
           kept == SubSeq(m_FullBuffer, c + 1, Len(m_FullBuffer))
           rest == n - DataIn(emptied)
           new == SkippedFirst(kept, rest)
           cleared == Cleared(emptied)
<1>1. /\ n <= m_nDataSize /\ out' = SubSeq(Bytes, 1, n)
      /\ m_FullBuffer' = new /\ m_EmptyBuffer' = m_EmptyBuffer \o cleared
      /\ m_nDataSize' = m_nDataSize - n
      /\ m_nFullBufferSize' = m_nFullBufferSize - MemoryIn(emptied)
      /\ m_nEmptyBufferSize' = m_nEmptyBufferSize + MemoryIn(emptied)
      /\ UNCHANGED <<filling, draining>>
  BY DEF GetData, Covered, SkippedFirst, FirstOf
<1>2. n \in Nat \ {0} /\ n <= DataIn(m_FullBuffer)
  BY <1>1, Lists, VBufferAssumption
<1>3. /\ c \in 0..Len(m_FullBuffer) /\ rest \in Nat
      /\ emptied \in Seq(Full) /\ kept \in Seq(Full)
      /\ kept = <<>> => rest = 0
      /\ kept # <<>> => rest < kept[1].size
  BY <1>2, Lists, CoveredFirst
<1>4. emptied \o kept = m_FullBuffer
  BY <1>3, Lists, FirstOfList
<1> HIDE DEF c
<1>5. n = DataIn(emptied) + rest /\ DataIn(emptied) \in Nat /\ MemoryIn(emptied) \in Nat
  <2>1. DataIn(emptied) \in Nat /\ MemoryIn(emptied) \in Nat
    BY <1>3, FullIsSound, SumsType
  <2> QED
    BY <1>2, <2>1
<1> HIDE DEF emptied, kept, rest
<1>6. /\ new \in Seq(Full) /\ DataIn(new) = DataIn(kept) - rest
      /\ MemoryIn(new) = MemoryIn(kept)
      /\ \E x \in Seq(Nat) : Len(x) = rest /\ BytesIn(kept) = x \o BytesIn(new)
  BY <1>3, SkippedFirstKeeps
<1>7. /\ cleared \in Seq(Empty) /\ cleared \in Seq(Buffer)
      /\ MemoryIn(cleared) = MemoryIn(emptied)
  BY <1>3, ClearedEmpties, FullIsSound
<1> HIDE DEF new, cleared
<1>8. /\ emptied \in Seq(Sound) /\ kept \in Seq(Sound) /\ new \in Seq(Sound)
      /\ emptied \in Seq(Buffer) /\ kept \in Seq(Buffer)
  BY <1>3, <1>6, FullIsSound
<1>9. /\ DataIn(emptied \o kept) = DataIn(emptied) + DataIn(kept)
      /\ MemoryIn(emptied \o kept) = MemoryIn(emptied) + MemoryIn(kept)
      /\ DataIn(kept) \in Nat /\ MemoryIn(kept) \in Nat
  BY <1>8, SumsConcat, SumsType
<1>10. m_nDataSize' = DataIn(new) /\ m_nFullBufferSize' = MemoryIn(new)
  <2>1. /\ m_nDataSize = DataIn(emptied) + DataIn(kept)
        /\ m_nFullBufferSize = MemoryIn(emptied) + MemoryIn(kept)
    BY <1>4, <1>9, Lists
  <2>2. /\ m_nDataSize' = m_nDataSize - n
        /\ m_nFullBufferSize' = m_nFullBufferSize - MemoryIn(emptied)
    BY <1>1
  <2>3. m_nFullBufferSize' = MemoryIn(new)
    <3>1. MemoryIn(new) = MemoryIn(kept) /\ MemoryIn(kept) \in Nat /\ MemoryIn(emptied) \in Nat
      BY <1>6, <1>8, SumsType
    <3> QED
      BY <2>1, <2>2, <3>1
  <2>4. DataIn(new) = DataIn(kept) - rest /\ rest \in Nat
    BY <1>3, <1>6
  <2>5. m_nDataSize' = DataIn(new)
    BY <1>5, <1>9, <2>1, <2>2, <2>4
  <2> QED
    BY <2>3, <2>5
<1>11. /\ m_EmptyBuffer \o cleared \in Seq(Empty)
       /\ MemoryIn(m_EmptyBuffer \o cleared) = MemoryIn(m_EmptyBuffer) + MemoryIn(cleared)
  BY <1>7, Lists, SumsConcat, ConcatProperties
<1>12. CountersAreSums'
  BY <1>1, <1>7, <1>10, <1>11, Lists DEF CountersAreSums
<1>13. PICK x \in Seq(Nat) : Len(x) = rest /\ BytesIn(kept) = x \o BytesIn(new)
  BY <1>6
<1> DEFINE a == BytesIn(emptied)
           z == BytesIn(new)
           y == a \o x
<1>14. a \in Seq(Nat) /\ z \in Seq(Nat) /\ Len(a) = DataIn(emptied)
  BY <1>8, BytesType, BytesLen
<1>15. Bytes = a \o (x \o z)
  <2>1. BytesIn(emptied \o kept) = a \o BytesIn(kept)
    BY <1>8, BytesConcat
  <2>2. Bytes = BytesIn(emptied \o kept)
    BY <1>4, Lists
  <2>3. BytesIn(kept) = x \o z
    BY <1>13
  <2> HIDE DEF a, z
  <2> QED
    BY <2>1, <2>2, <2>3
<1> HIDE DEF a, z
<1>16. a \o (x \o z) = y \o z
  <2>1. a \in Seq(Nat) /\ x \in Seq(Nat) /\ z \in Seq(Nat)
    BY <1>14
  <2>2. (a \o x) \o z = a \o (x \o z)
    <3>1. Joined(a, Joined(x, z)) = Joined(Joined(a, x), z)
      BY <2>1, JoinedAssociates
    <3> QED
      BY <3>1, Zenon DEF Joined
  <2> QED
    BY <2>2
<1>17. y \in Seq(Nat) /\ Len(y) = n
  BY <1>5, <1>13, <1>14, ConcatProperties
<1> HIDE DEF y
<1>18. /\ Len(Bytes) = n + Len(z) /\ SubSeq(Bytes, 1, n) = y
       /\ SubSeq(Bytes, n + 1, Len(Bytes)) = z
  <2>1. /\ Len(y \o z) = Len(y) + Len(z) /\ SubSeq(y \o z, 1, Len(y)) = y
        /\ SubSeq(y \o z, Len(y) + 1, Len(y \o z)) = z
    <3>1. y \in Seq(Nat) /\ z \in Seq(Nat)
      BY <1>14, <1>17
    <3> QED
      BY <3>1, SubSeqOfBoth
  <2>2. Bytes = y \o z /\ Len(y) = n
    BY <1>15, <1>16, <1>17
  <2> DEFINE both == y \o z
  <2> HIDE DEF both
  <2> QED
    BY <2>1, <2>2 DEF both
<1>19. out' \in Seq(Nat)
  BY <1>1, <1>17, <1>18
<1>20. IInv'
  BY <1>1, <1>6, <1>11, <1>12, <1>19 DEF IInv
<1>21. Bytes' = z
  BY <1>1 DEF Bytes, BytesIn, Strings, z
<1>22. n \in 1..Len(Bytes)
  BY <1>2, <1>14, <1>18
<1> QED
  BY <1>1, <1>18, <1>20, <1>21, <1>22 DEF QueueStep, Queue!Next, Queue!Take

-----------------------------------------------------------------------------
(* SetData: the data in pieces, each in an empty buffer.                    *)

\* How many bytes the first k buffers of a list have room for, and how many of the data are
\* in them then.
Room(list, k) == MemoryIn(FirstOf(list, k))
Stored(list, data, k) == IF Room(list, k) <= Len(data) THEN Room(list, k) ELSE Len(data)

Piece(list, data, k) == Part(data, Room(list, k - 1) + 1, Room(list, k))

With(b, piece) == [memory |-> Over(b.memory, piece), begin |-> 0, size |-> Len(piece)]

AllWith(list, data) == [k \in DOMAIN list |-> With(list[k], Piece(list, data, k))]

(* The smaller one of two numbers.                                          *)
LEMMA MinOfTwo ==
    ASSUME NEW a \in Int, NEW b \in Int
    PROVE  Min({a, b}) = IF a <= b THEN a ELSE b
<1> DEFINE m == IF a <= b THEN a ELSE b
           P(x) == x \in {a, b} /\ \A y \in {a, b} : x <= y
<1>1. P(m) /\ \A x : P(x) => x = m
  OBVIOUS
<1>2. Min({a, b}) = CHOOSE x : P(x)
  BY DEF Min
<1> HIDE DEF P, m
<1>3. P(CHOOSE x : P(x))
  BY <1>1
<1> QED
  BY <1>1, <1>2, <1>3 DEF m

(* The first ones of the first ones.                                        *)
LEMMA FirstOfFirst ==
    ASSUME NEW s \in Seq(Buffer), NEW u \in 0..Len(s), NEW j \in 0..u
    PROVE  FirstOf(FirstOf(s, u), j) = FirstOf(s, j)
<1>1. Len(s) \in Nat
  OBVIOUS
<1>2. CASE j = 0
  BY <1>1, <1>2, SubSeqEmpty DEF FirstOf
<1>3. CASE j # 0
  <2>1. 1 \in 1..Len(s) /\ u \in 1..Len(s) /\ 1 \in 1..(u - 1 + 1) /\ j \in 1..(u - 1 + 1)
    BY <1>1, <1>3
  <2>2. SubSeq(SubSeq(s, 1, u), 1, j) = SubSeq(s, 1 + 1 - 1, 1 + j - 1)
    BY <2>1, SubSeqOfSubSeq
  <2>3. 1 + 1 - 1 = 1 /\ 1 + j - 1 = j
    BY <2>1
  <2> QED
    BY <2>2, <2>3 DEF FirstOf
<1> QED
  BY <1>2, <1>3

(* A buffer keeps its memory, and has the piece that is written into it.     *)
LEMMA WithKeeps ==
    ASSUME NEW b \in Empty, NEW piece \in Seq(Nat), 0 < Len(piece), Len(piece) <= BufferSize(b)
    PROVE  /\ With(b, piece) \in Full /\ DataOf(With(b, piece)) = piece
           /\ BufferSize(With(b, piece)) = BufferSize(b)
           /\ With(b, piece).size = Len(piece)
<1> DEFINE old == b.memory
           len == Len(old)
           cut == Len(piece)
           rest == SubSeq(old, cut + 1, len)
           memory == piece \o rest
           f == With(b, piece)
<1>1. /\ old \in Seq(Nat) /\ len \in Nat /\ cut \in Nat /\ 0 < cut /\ cut <= len
      /\ BufferSize(b) = len
  BY BufferSizeType DEF Empty, BufferSize
<1>2. f = [memory |-> memory, begin |-> 0, size |-> cut]
  BY DEF With, Over
<1>3. rest \in Seq(Nat) /\ Len(rest) = len - cut
  <2> HIDE DEF old
  <2>1. \A i \in (cut + 1)..len : old[i] \in Nat
    BY <1>1
  <2>2. cut + 1 \in Int /\ len \in Int
    BY <1>1
  <2>3. rest \in Seq(Nat) /\ Len(rest) = IF cut + 1 <= len THEN len - (cut + 1) + 1 ELSE 0
    BY <2>1, <2>2, SubSeqProperties
  <2> HIDE DEF rest, len, cut
  <2> QED
    BY <1>1, <2>3
<1> HIDE DEF rest, old
<1>4. memory \in Seq(Nat) /\ Len(memory) = cut + Len(rest) /\ SubSeq(memory, 1, cut) = piece
  BY <1>1, <1>3, SubSeqOfBoth, ConcatProperties
<1> HIDE DEF memory, f, len, cut
<1>5. Len(memory) = len
  BY <1>1, <1>3, <1>4
<1>6. /\ f \in Buffer /\ f.memory = memory /\ f.begin = 0 /\ f.size = cut
  BY <1>1, <1>2, <1>4 DEF Buffer
<1>7. BufferSize(f) = len
  BY <1>5, <1>6 DEF BufferSize
<1>8. f \in Full
  BY <1>1, <1>6, <1>7 DEF Full
<1>9. DataOf(f) = piece
  <2>1. DataOf(f) = SubSeq(memory, 0 + 1, 0 + cut)
    BY <1>6 DEF DataOf
  <2>2. 0 + 1 = 1 /\ 0 + cut = cut
    BY <1>1
  <2> QED
    BY <1>4, <2>1, <2>2
<1> QED
  BY <1>1, <1>6, <1>7, <1>8, <1>9 DEF f, cut

(* The k-th buffer, before the data are at an end, gets the next ones that   *)
(* it has room for.                                                         *)
LEMMA PieceOfData ==
    ASSUME NEW list \in Seq(Empty), NEW data \in Seq(Nat), NEW k \in 1..Len(list),
           Room(list, k - 1) < Len(data)
    PROVE  /\ Room(list, k - 1) \in Nat /\ Stored(list, data, k) \in 0..Len(data)
           /\ Stored(list, data, k - 1) = Room(list, k - 1)
           /\ Piece(list, data, k) = SubSeq(data, Room(list, k - 1) + 1, Stored(list, data, k))
           /\ Piece(list, data, k) \in Seq(Nat)
           /\ Len(Piece(list, data, k)) = Stored(list, data, k) - Room(list, k - 1)
           /\ 0 < Len(Piece(list, data, k))
           /\ Len(Piece(list, data, k)) <= BufferSize(list[k])
<1> DEFINE from == Room(list, k - 1)
           upTo == Room(list, k)
           D == Len(data)
           g == Stored(list, data, k)
           size == BufferSize(list[k])
           piece == SubSeq(data, from + 1, g)
<1>1. list \in Seq(Buffer) /\ list[k] \in Empty /\ D \in Nat
  BY FullIsSound
<1>2. from \in Nat /\ upTo = from + size
  BY <1>1, FirstGrow DEF Room
<1>3. size \in Nat /\ size > 0
  BY <1>1, BufferSizeType DEF Empty
<1>4. from < D /\ g = IF upTo <= D THEN upTo ELSE D
  BY DEF Stored
<1>5. Stored(list, data, k - 1) = IF from <= D THEN from ELSE D
  BY DEF Stored
<1>6. Piece(list, data, k) = SubSeq(data, from + 1, Min({upTo, D}))
  BY DEF Piece, Part
<1> HIDE DEF from, upTo, D, g, size
<1>7. g \in 0..D /\ from < g /\ g - from <= size /\ upTo \in Int
  BY <1>1, <1>2, <1>3, <1>4
<1>8. Min({upTo, D}) = g
  BY <1>1, <1>4, <1>7, MinOfTwo
<1>9. \A i \in (from + 1)..g : data[i] \in Nat
  BY <1>1, <1>2, <1>7 DEF D
<1>10. from + 1 \in Int /\ g \in Int
  BY <1>2, <1>7
<1>11. piece \in Seq(Nat) /\ Len(piece) = IF from + 1 <= g THEN g - (from + 1) + 1 ELSE 0
  BY <1>9, <1>10, SubSeqProperties
<1>12. Piece(list, data, k) = piece
  BY <1>6, <1>8
<1> HIDE DEF piece
<1>13. Len(piece) = g - from
  BY <1>1, <1>2, <1>7, <1>11
<1>14. 0 < Len(piece) /\ Len(piece) <= size
  BY <1>1, <1>2, <1>7, <1>13
<1>15. Stored(list, data, k - 1) = from
  BY <1>1, <1>2, <1>4, <1>5
<1> QED
  BY <1>2, <1>7, <1>11, <1>12, <1>13, <1>14, <1>15 DEF piece, from, g, D, size

(* Buffers that the data fill, the last one perhaps not to its end, keep    *)
(* their memory and have the data.                                          *)
LEMMA AllWithKeeps ==
    ASSUME NEW list \in Seq(Empty), NEW data \in Seq(Nat), list # <<>>,
           Len(data) <= Room(list, Len(list)),
           \A k \in 1..Len(list) : Room(list, k - 1) < Len(data)
    PROVE  /\ AllWith(list, data) \in Seq(Full)
           /\ MemoryIn(AllWith(list, data)) = MemoryIn(list)
           /\ DataIn(AllWith(list, data)) = Len(data)
           /\ BytesIn(AllWith(list, data)) = data
<1> DEFINE u == Len(list)
           D == Len(data)
           new == AllWith(list, data)
           g == [k \in 0..u |-> Stored(list, data, k)]
           h == [k \in 0..u |-> SubSeq(data, 1, g[k])]
<1>1. /\ u \in Nat \ {0} /\ D \in Nat /\ DOMAIN list = 1..u /\ list \in Seq(Buffer)
      /\ \A k \in 1..u : list[k] \in Empty
  BY FullIsSound
<1>2. \A k \in 1..u : /\ g[k] \in 0..D /\ g[k - 1] \in 0..D /\ g[k - 1] <= g[k]
                      /\ Piece(list, data, k) = SubSeq(data, g[k - 1] + 1, g[k])
                      /\ Piece(list, data, k) \in Seq(Nat)
                      /\ Len(Piece(list, data, k)) = g[k] - g[k - 1]
                      /\ 0 < Len(Piece(list, data, k))
                      /\ Len(Piece(list, data, k)) <= BufferSize(list[k])
  <2> SUFFICES ASSUME NEW k \in 1..u
               PROVE  /\ g[k] \in 0..D /\ g[k - 1] \in 0..D /\ g[k - 1] <= g[k]
                      /\ Piece(list, data, k) = SubSeq(data, g[k - 1] + 1, g[k])
                      /\ Piece(list, data, k) \in Seq(Nat)
                      /\ Len(Piece(list, data, k)) = g[k] - g[k - 1]
                      /\ 0 < Len(Piece(list, data, k))
                      /\ Len(Piece(list, data, k)) <= BufferSize(list[k])
    OBVIOUS
  <2>1. /\ Room(list, k - 1) \in Nat /\ Stored(list, data, k) \in 0..D
        /\ Stored(list, data, k - 1) = Room(list, k - 1)
        /\ Piece(list, data, k) = SubSeq(data, Room(list, k - 1) + 1, Stored(list, data, k))
        /\ Piece(list, data, k) \in Seq(Nat)
        /\ Len(Piece(list, data, k)) = Stored(list, data, k) - Room(list, k - 1)
        /\ 0 < Len(Piece(list, data, k))
        /\ Len(Piece(list, data, k)) <= BufferSize(list[k])
    BY PieceOfData
  <2>2. k \in 0..u /\ k - 1 \in 0..u
    BY <1>1
  <2>3. g[k] = Stored(list, data, k) /\ g[k - 1] = Room(list, k - 1)
    BY <2>1, <2>2
  <2>4. Room(list, k - 1) < D
    OBVIOUS
  <2> DEFINE a == g[k - 1]
             b == g[k]
             p == Piece(list, data, k)
  <2>5. /\ a \in Nat /\ b \in 0..D /\ a < D /\ p = SubSeq(data, a + 1, b) /\ p \in Seq(Nat)
        /\ Len(p) = b - a /\ 0 < Len(p) /\ Len(p) <= BufferSize(list[k])
    BY <2>1, <2>3, <2>4
  <2> HIDE DEF a, b, p, D, u
  <2>6. a \in 0..D /\ a <= b
    BY <1>1, <2>5
  <2> QED
    BY <2>5, <2>6 DEF a, b, p
<1>3. g[0] = 0 /\ g[u] = D
  <2>1. Room(list, 0) = 0 /\ Room(list, u) \in Nat
    BY <1>1, FirstOfList, SumsEmpty, SumsType DEF Room
  <2>2. g[0] = Stored(list, data, 0) /\ g[u] = Stored(list, data, u)
    BY <1>1
  <2>3. Stored(list, data, 0) = 0
    BY <1>1, <2>1 DEF Stored
  <2>4. Stored(list, data, u) = D
    BY <1>1, <2>1 DEF Stored
  <2> QED
    BY <2>2, <2>3, <2>4
<1> HIDE DEF g, D
<1>4. ASSUME NEW k \in 1..u
      PROVE  /\ new[k] \in Full /\ DataOf(new[k]) = SubSeq(data, g[k - 1] + 1, g[k])
             /\ BufferSize(new[k]) = BufferSize(list[k])
             /\ DataSize(new[k]) = g[k] - g[k - 1]
  <2>1. new[k] = With(list[k], Piece(list, data, k))
    BY <1>1 DEF AllWith
  <2>2. list[k] \in Empty
    BY <1>1
  <2> HIDE DEF new
  <2> QED
    BY <1>2, <2>1, <2>2, WithKeeps DEF DataSize
<1>5. new \in Seq(Full) /\ Len(new) = u
  <2>1. new = [k \in 1..u |-> With(list[k], Piece(list, data, k))]
    BY <1>1 DEF AllWith
  <2> HIDE DEF new
  <2>2. new = [k \in 1..u |-> new[k]]
    BY <2>1
  <2>3. new \in [1..u -> Full]
    BY <1>4, <2>2
  <2> HIDE DEF Full, u
  <2> QED
    BY <1>1, <2>3
<1> HIDE DEF new, u
<1>6. new \in Seq(Buffer) /\ new \in Seq(Sound)
  BY <1>5, FullIsSound
<1>7. MemoryIn(new) = MemoryIn(list)
  <2>1. DOMAIN new = 1..u /\ DOMAIN list = 1..u
    BY <1>1, <1>5 DEF u
  <2>2. MemorySizes(new) = MemorySizes(list)
    BY <1>4, <2>1 DEF MemorySizes
  <2> QED
    BY <2>2 DEF MemoryIn, MemorySizes
<1>8. DataIn(new) = D
  <2>1. /\ DataSizes(new) \in Seq(Int) /\ Len(DataSizes(new)) = u
        /\ \A k \in 1..u : DataSizes(new)[k] = DataSize(new[k])
    BY <1>5, <1>6, SizesType
  <2>2. \A k \in 1..u : DataSizes(new)[k] = g[k] - g[k - 1]
    BY <1>4, <2>1
  <2>3. \A k \in 0..u : g[k] \in Int
    BY <1>1, <1>2, <1>3
  <2>4. PartialSums(g, DataSizes(new))
    <3>1. g \in [0..u -> Int]
      BY <2>3 DEF g
    <3>2. \A k \in 1..u : g[k] = g[k - 1] + DataSizes(new)[k]
      BY <1>1, <2>2, <2>3
    <3> QED
      BY <1>3, <2>1, <3>1, <3>2 DEF PartialSums
  <2>5. Total(DataSizes(new)) = g[u]
    BY <2>1, <2>4, SumsTotal
  <2>6. DataIn(new) = Total(DataSizes(new))
    BY DEF DataIn, DataSizes, DataSize
  <2> QED
    BY <1>3, <2>5, <2>6
<1>9. BytesIn(new) = data
  <2> DEFINE s == Strings(new)
  <2>1. /\ s \in Seq(Seq(Nat)) /\ Len(s) = u
        /\ \A k \in 1..u : s[k] = DataOf(new[k])
    BY <1>5, <1>6, StringsType
  <2>2. \A k \in 1..u : s[k] = SubSeq(data, g[k - 1] + 1, g[k])
    BY <1>4, <2>1
  <2>3. \A k \in 0..u : g[k] \in 0..D
    BY <1>1, <1>2, <1>3
  <2>4. PartialFlats(h, s, Nat)
    <3>1. \A k \in 0..u : SubSeq(data, 1, g[k]) \in Seq(Nat)
      <4> SUFFICES ASSUME NEW k \in 0..u
                   PROVE  SubSeq(data, 1, g[k]) \in Seq(Nat)
        OBVIOUS
      <4>1. g[k] \in Int /\ \A i \in 1..g[k] : data[i] \in Nat
        BY <1>1, <2>3 DEF D
      <4> QED
        BY <4>1, SubSeqProperties
    <3>2. h \in [0..u -> Seq(Nat)]
      <4> DEFINE S == Seq(Nat)
      <4>1. \A k \in 0..u : SubSeq(data, 1, g[k]) \in S
        BY <3>1
      <4> HIDE DEF S
      <4>2. h \in [0..u -> S]
        BY <4>1
      <4> QED
        BY <4>2 DEF S
    <3>3. h[0] = <<>>
      BY <1>1, <1>3, SubSeqEmpty
    <3>4. ASSUME NEW k \in 1..u
          PROVE  h[k] = h[k - 1] \o s[k]
      <4>1. /\ k \in 0..u /\ k - 1 \in 0..u /\ D \in Nat
            /\ g[k - 1] \in 0..D /\ g[k] \in 0..D /\ g[k - 1] <= g[k]
        BY <1>1, <1>2
      <4>2. 1 \in 1..(D + 1) /\ g[k - 1] \in (1 - 1)..D /\ g[k] \in g[k - 1]..D
        BY <4>1
      <4>3. SubSeq(data, 1, g[k - 1]) \o SubSeq(data, g[k - 1] + 1, g[k]) = SubSeq(data, 1, g[k])
        BY <4>2, ConcatAdjacentSubSeq DEF D
      <4>4. h[k] = SubSeq(data, 1, g[k]) /\ h[k - 1] = SubSeq(data, 1, g[k - 1])
        BY <4>1
      <4> HIDE DEF h, s
      <4> QED
        BY <2>2, <4>3, <4>4
    <3> HIDE DEF h, s
    <3> QED
      BY <2>1, <3>2, <3>3, <3>4 DEF PartialFlats
  <2> HIDE DEF s
  <2>5. FlattenSeq(s) = h[u]
    BY <2>1, <2>4, FlatsFlatten
  <2>6. h[u] = SubSeq(data, 1, D)
    BY <1>1, <1>3
  <2>7. SubSeq(data, 1, D) = data
    BY SubSeqFull DEF D
  <2> QED
    BY <2>5, <2>6, <2>7 DEF BytesIn, s
<1> QED
  BY <1>5, <1>7, <1>8, <1>9 DEF new, D

(* SetData uses the first buffers, none before which have room for the data, *)
(* and all that it uses have.                                               *)
LEMMA UsedFirst ==
    ASSUME NEW list \in Seq(Empty), NEW data \in Seq(Nat), 0 < Len(data),
           Len(data) <= MemoryIn(list)
    PROVE  LET used == {k \in DOMAIN list : Room(list, k - 1) < Len(data)}
               u == Cardinality(used)
           IN /\ u \in 1..Len(list) /\ used = 1..u
              /\ Len(data) <= Room(list, u)
<1> DEFINE used == {k \in DOMAIN list : Room(list, k - 1) < Len(data)}
           u == Cardinality(used)
           D == Len(data)
<1>1. list \in Seq(Buffer) /\ Len(list) \in Nat /\ DOMAIN list = 1..Len(list) /\ D \in Nat
  BY FullIsSound
<1>2. \A k \in 0..Len(list) : Room(list, k) \in Nat
  BY <1>1, FirstOfList, SumsType DEF Room
<1>3. u \in 0..Len(list) /\ used = 1..u
  <2>1. used \in SUBSET (1..Len(list))
    BY <1>1
  <2>2. ASSUME NEW k \in used, NEW j \in 1..k
        PROVE  j \in used
    <3>1. /\ k - 1 \in 0..Len(list) /\ j - 1 \in 0..(k - 1) /\ j - 1 \in 0..Len(list)
          /\ j \in 1..Len(list)
      <4>1. k \in 1..Len(list)
        BY <1>1
      <4> HIDE DEF used
      <4> QED
        BY <1>1, <4>1
    <3>2. Room(list, j - 1) <= Room(list, k - 1)
      BY <1>1, <3>1, FirstOrdered DEF Room
    <3>3. Room(list, k - 1) < D
      OBVIOUS
    <3>4. Room(list, j - 1) < D
      <4> DEFINE a == Room(list, j - 1)
                 b == Room(list, k - 1)
      <4>1. a \in Nat /\ b \in Nat
        BY <1>2, <3>1
      <4>2. a <= b /\ b < D /\ D \in Nat
        BY <1>1, <3>2, <3>3
      <4> HIDE DEF a, b, D
      <4>3. a < D
        BY <4>1, <4>2
      <4> QED
        BY <4>3 DEF a
    <3> QED
      BY <1>1, <3>1, <3>4
  <2> HIDE DEF used
  <2> QED
    BY <1>1, <2>1, <2>2, InitialSegment
<1>4. Room(list, 0) = 0 /\ Room(list, Len(list)) = MemoryIn(list)
  BY <1>1, FirstOfList, SumsEmpty DEF Room
<1>5. u # 0
  <2>1. Len(list) # 0
    BY <1>1, <1>4
  <2>2. 1 \in DOMAIN list /\ 1 - 1 = 0
    BY <1>1, <2>1
  <2>3. Room(list, 1 - 1) < D
    BY <1>4, <2>2
  <2>4. 1 \in used
    BY <2>2, <2>3
  <2> HIDE DEF used, u
  <2>5. u \in Nat /\ 1 \in 1..u
    BY <1>1, <1>3, <2>4
  <2> QED
    BY <2>5
<1>6. D <= Room(list, u)
  <2>1. CASE u = Len(list)
    BY <1>4, <2>1
  <2>2. CASE u # Len(list)
    <3> HIDE DEF u, D
    <3>1. u + 1 \in 1..Len(list) /\ u + 1 \notin 1..u /\ (u + 1) - 1 = u
      <4>1. u \in 0..Len(list) /\ Len(list) \in Nat
        BY <1>1, <1>3
      <4> QED
        BY <2>2, <4>1
    <3>2. u + 1 \notin used
      BY <1>3, <3>1
    <3>3. ~(Room(list, u) < Len(data))
      BY <1>1, <3>1, <3>2
    <3>4. Room(list, u) \in Nat
      BY <1>2, <1>3
    <3> HIDE DEF used
    <3> QED
      BY <1>1, <3>3, <3>4 DEF D
  <2> QED
    BY <2>1, <2>2
<1>7. u \in 1..Len(list)
  <2> HIDE DEF u
  <2> QED
    BY <1>1, <1>3, <1>5
<1> QED
  BY <1>3, <1>6, <1>7

(* SetData puts the data behind all other bytes.                            *)
LEMMA SetDataKeeps ==
    ASSUME IInv, NEW data \in Data, SetData(data)
    PROVE  IInv' /\ QueueStep
<1> DEFINE used == {k \in DOMAIN m_EmptyBuffer : Room(m_EmptyBuffer, k - 1) < Len(data)}
           u == Cardinality(used)
           taken == SubSeq(m_EmptyBuffer, 1, u)
           left == SubSeq(m_EmptyBuffer, u + 1, Len(m_EmptyBuffer))
           piece == [k \in used |-> Piece(taken, data, k)]
           filled == [k \in DOMAIN taken |-> With(taken[k], piece[k])]
           new == AllWith(taken, data)
<1>1. /\ Len(data) <= m_nEmptyBufferSize
      /\ m_FullBuffer' = m_FullBuffer \o filled /\ m_EmptyBuffer' = left
      /\ m_nDataSize' = m_nDataSize + Len(data)
      /\ m_nFullBufferSize' = m_nFullBufferSize + MemoryIn(taken)
      /\ m_nEmptyBufferSize' = m_nEmptyBufferSize - MemoryIn(taken)
      /\ UNCHANGED <<filling, draining, out>>
  BY DEF SetData, Room, With, Piece
<1>2. data \in Seq(Nat) /\ Len(data) \in Nat /\ 0 < Len(data)
  BY VBufferAssumption
<1>3. /\ u \in 1..Len(m_EmptyBuffer) /\ used = 1..u
      /\ Len(data) <= Room(m_EmptyBuffer, u)
  <2>1. Len(data) <= MemoryIn(m_EmptyBuffer) /\ m_EmptyBuffer \in Seq(Empty)
    BY <1>1, Lists
  <2> QED
    BY <1>2, <2>1, UsedFirst
<1>4. \A k \in 1..u : Room(m_EmptyBuffer, k - 1) < Len(data)
  BY <1>3
<1> HIDE DEF used, u
<1>5. u \in 0..Len(m_EmptyBuffer) /\ u \in Nat \ {0} /\ Len(m_EmptyBuffer) \in Nat
  BY <1>3, Lists
<1>6. /\ taken = FirstOf(m_EmptyBuffer, u) /\ Len(taken) = u /\ taken \in Seq(Buffer)
      /\ left \in Seq(Buffer) /\ taken \o left = m_EmptyBuffer
  BY <1>5, Lists, FirstOfList DEF FirstOf
<1>7. taken \in Seq(Empty) /\ left \in Seq(Empty)
  <2>1. \A i \in 1..Len(m_EmptyBuffer) : m_EmptyBuffer[i] \in Empty
    BY Lists
  <2>2. /\ \A i \in 1..u : m_EmptyBuffer[i] \in Empty
        /\ \A i \in (u + 1)..Len(m_EmptyBuffer) : m_EmptyBuffer[i] \in Empty
        /\ 1 \in Int /\ u \in Int /\ u + 1 \in Int /\ Len(m_EmptyBuffer) \in Int
    BY <1>5, <2>1
  <2> HIDE DEF Empty
  <2> QED
    BY <2>2, SubSeqProperties
<1>8. \A k \in 0..u : Room(taken, k) = Room(m_EmptyBuffer, k)
  BY <1>5, <1>6, Lists, FirstOfFirst DEF Room
<1> HIDE DEF taken, left
<1>9. filled = new
  <2>1. DOMAIN taken = 1..u
    BY <1>5, <1>6, <1>7
  <2>2. \A k \in DOMAIN taken : piece[k] = Piece(taken, data, k)
    BY <1>3, <2>1
  <2> HIDE DEF piece
  <2> QED
    BY <2>2 DEF AllWith
<1> HIDE DEF filled
<1>10. /\ new \in Seq(Full) /\ MemoryIn(new) = MemoryIn(taken)
       /\ DataIn(new) = Len(data) /\ BytesIn(new) = data
  <2>1. /\ taken # <<>> /\ Len(data) <= Room(taken, Len(taken))
        /\ \A k \in 1..Len(taken) : Room(taken, k - 1) < Len(data)
    <3>1. taken # <<>>
      BY <1>5, <1>6
    <3>2. Room(taken, u) = Room(m_EmptyBuffer, u)
      BY <1>5, <1>8
    <3>3. \A k \in 1..u : k - 1 \in 0..u
      BY <1>5
    <3> QED
      BY <1>3, <1>4, <1>6, <1>8, <3>1, <3>2, <3>3
  <2> QED
    BY <1>2, <1>7, <2>1, AllWithKeeps
<1> HIDE DEF new
<1>11. new \in Seq(Buffer) /\ new \in Seq(Sound)
  BY <1>10, FullIsSound
<1>12. /\ DataIn(m_FullBuffer \o new) = DataIn(m_FullBuffer) + DataIn(new)
       /\ MemoryIn(m_FullBuffer \o new) = MemoryIn(m_FullBuffer) + MemoryIn(new)
       /\ MemoryIn(taken \o left) = MemoryIn(taken) + MemoryIn(left)
       /\ MemoryIn(taken) \in Nat /\ MemoryIn(left) \in Nat
  BY <1>6, <1>11, Lists, SumsConcat, SumsType
<1>13. /\ m_nDataSize' = DataIn(m_FullBuffer \o new)
       /\ m_nFullBufferSize' = MemoryIn(m_FullBuffer \o new)
  BY <1>1, <1>10, <1>12, Lists
<1>14. m_nEmptyBufferSize' = MemoryIn(left)
  <2>1. m_nEmptyBufferSize = MemoryIn(taken) + MemoryIn(left)
    BY <1>6, <1>12, Lists
  <2>2. m_nEmptyBufferSize' = m_nEmptyBufferSize - MemoryIn(taken)
    BY <1>1
  <2> QED
    BY <1>12, <2>1, <2>2
<1>15. m_FullBuffer' = m_FullBuffer \o new /\ m_EmptyBuffer' = left
  BY <1>1, <1>9
<1>16. CountersAreSums'
  BY <1>13, <1>14, <1>15 DEF CountersAreSums
<1>17. m_FullBuffer \o new \in Seq(Full)
  BY <1>10, Lists, ConcatProperties
<1>18. IInv'
  BY <1>1, <1>7, <1>15, <1>16, <1>17 DEF IInv
<1>19. Bytes' = Bytes \o data
  <2>1. BytesIn(m_FullBuffer \o new) = BytesIn(m_FullBuffer) \o BytesIn(new)
    BY <1>11, Lists, BytesConcat
  <2>2. Bytes' = BytesIn(m_FullBuffer')
    BY DEF Bytes, BytesIn, Strings
  <2> QED
    BY <1>10, <1>15, <2>1, <2>2, Lists
<1> QED
  BY <1>1, <1>18, <1>19 DEF QueueStep, Queue!Next, Queue!Put

-----------------------------------------------------------------------------
(* Every step is one of these, or changes nothing.                          *)
LEMMA StepKeeps == IInv /\ [Next]_vars => IInv' /\ QueueStep
<1> SUFFICES ASSUME IInv, [Next]_vars
             PROVE  IInv' /\ QueueStep
  OBVIOUS
<1>1. ASSUME NEW count \in Sizes, NEW size \in Sizes, AllocateBuffer(count, size)
      PROVE  IInv' /\ QueueStep
  BY <1>1, AllocateKeeps
<1>2. CASE FreeBuffer
  BY <1>2, FreeKeeps
<1>3. CASE ResetBuffer
  BY <1>3, ResetKeeps
<1>4. CASE GetEmptyBuffer
  BY <1>4, GetEmptyKeeps
<1>5. CASE MakeBuffer
  BY <1>5, MakeKeeps
<1>6. CASE GetFullBuffer
  BY <1>6, GetFullKeeps
<1>7. CASE AddEmptyBuffer
  BY <1>7, AddEmptyKeeps
<1>8. ASSUME NEW data \in Data, AddFullBuffer(data)
      PROVE  IInv' /\ QueueStep
  BY <1>8, AddFullKeeps
<1>9. ASSUME NEW data \in Data, SetData(data)
      PROVE  IInv' /\ QueueStep
  BY <1>9, SetDataKeeps
<1>10. ASSUME NEW n \in Sizes, GetData(n)
       PROVE  IInv' /\ QueueStep
  BY <1>10, GetDataKeeps
<1>11. CASE UNCHANGED vars
  <2>1. UNCHANGED <<lists, counters, filling, draining, out>>
    BY <1>11 DEF vars
  <2>2. IInv'
    BY <2>1 DEF IInv, CountersAreSums, lists, counters
  <2>3. UNCHANGED <<Bytes, out>>
    BY <2>1 DEF Bytes, lists
  <2> QED
    BY <2>2, <2>3 DEF QueueStep
<1> QED
  BY <1>1, <1>2, <1>3, <1>4, <1>5, <1>6, <1>7, <1>8, <1>9, <1>10, <1>11 DEF Next

(* The invariant says what PoolInv says: the types with the data inside the *)
(* memory, and the counters.                                                *)
LEMMA PoolOfInvariant == IInv => PoolInv
<1> SUFFICES ASSUME IInv
             PROVE  PoolInv
  OBVIOUS
<1>1. \A b \in ToSet(m_FullBuffer) \cup ToSet(m_EmptyBuffer) :
         b.begin + b.size <= BufferSize(b)
  <2>1. \A k \in DOMAIN m_FullBuffer : m_FullBuffer[k] \in Sound
    BY Lists, FullIsSound
  <2>2. \A k \in DOMAIN m_EmptyBuffer : m_EmptyBuffer[k] \in Sound
    <3>1. m_EmptyBuffer \in Seq(Sound)
      BY Lists, FullIsSound
    <3> QED
      BY <3>1
  <2>3. \A b \in Sound : b.begin + b.size <= BufferSize(b)
    BY DEF Sound
  <2> QED
    BY <2>1, <2>2, <2>3, Zenon DEF ToSet
<1>2. filling \in Buffer \cup {None} /\ draining \in Buffer \cup {None}
  BY NoneIsNoBuffer DEF IInv, Fillable, Full, Empty
<1>3. m_FullBuffer \in Seq(Buffer) /\ m_EmptyBuffer \in Seq(Buffer)
  BY Lists
<1>4. /\ m_nDataSize \in Nat /\ m_nEmptyBufferSize \in Nat /\ m_nFullBufferSize \in Nat
      /\ out \in Seq(Nat) /\ CountersAreSums
  BY Lists DEF IInv
<1> QED
  BY <1>1, <1>2, <1>3, <1>4, Zenon DEF PoolInv, TypeOK, Buffer

(* The inductive invariant of the pool holds always.                        *)
THEOREM IInvariance == Spec => []IInv
<1>1. Init => IInv
  BY PoolInit
<1>2. IInv /\ [Next]_vars => IInv'
  BY StepKeeps
<1> QED
  BY <1>1, <1>2, PTL DEF Spec

(* However the two ways of use are mixed, each counter is the sum over its  *)
(* list, and the data of a buffer are inside its memory: SetData and GetData *)
(* never take a buffer off a list that has none.                            *)
THEOREM CountersStaySums == Spec => []PoolInv
BY IInvariance, PoolOfInvariant, PTL

(* What a VBuffer does is what ByteQueue promises: bytes leave it in the    *)
(* order they came, each one once, unless all of them are dropped.          *)
THEOREM ImplementsByteQueue == Spec => QueueSpec
<1>1. Init => Queue!Init
  BY PoolInit
<1>2. IInv /\ [Next]_vars => [Queue!Next]_<<Bytes, out>>
  BY StepKeeps DEF QueueStep
<1> QED
  BY <1>1, <1>2, IInvariance, PTL DEF Spec, QueueSpec, Queue!Spec
=============================================================================

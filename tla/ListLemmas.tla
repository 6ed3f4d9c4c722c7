----------------------------- MODULE ListLemmas -----------------------------
(***************************************************************************)
(* Lemmas about lists that the proofs of several components use: the sum   *)
(* of a list of numbers, the elements of a list that are all different,    *)
(* and lists of lists put end to end.  They go by induction, stated here   *)
(* of a set of numbers.                                                    *)
(***************************************************************************)
EXTENDS Sums, SequencesExt, SequenceTheorems, FiniteSetTheorems, TLAPS

(* Induction: a set of numbers with 0 and every successor has them all.  The *)
(* numbers up to one that is missing could be moved up by one within what is *)
(* left of them without 0, which are fewer.                                  *)
LEMMA Induction ==
    ASSUME NEW S, 0 \in S, \A n \in Nat : n \in S => n + 1 \in S
    PROVE  Nat \subseteq S
<1> SUFFICES ASSUME NEW n \in Nat, n \notin S PROVE FALSE
  OBVIOUS
<1> DEFINE T == (0..n) \cap S
           f == [k \in T |-> k + 1]
<1>1. IsFiniteSet(T)
  <2>1. T \in SUBSET (0..n) /\ IsFiniteSet(0..n)
    BY FS_Interval
  <2> QED
    BY <2>1, FS_Subset
<1>2. 0 \in T
  OBVIOUS
<1>3. f \in Injection(T, T \ {0})
  BY DEF Injection, IsInjective
<1> QED
  <2> HIDE DEF T, f
  <2>1. IsFiniteSet(T \ {0}) /\ Cardinality(T \ {0}) = Cardinality(T) - 1
    BY <1>1, <1>2, FS_RemoveElement
  <2>2. Cardinality(T) <= Cardinality(T \ {0})
    BY <1>3, <2>1, FS_Injection
  <2>3. Cardinality(T) \in Nat
    BY <1>1, FS_CardinalityType
  <2> QED
    BY <2>1, <2>2, <2>3

-----------------------------------------------------------------------------
(* The sum of a list.                                                       *)

\* f has the sums of the first numbers of s.
PartialSums(f, s) ==
    /\ f \in [0..Len(s) -> Int] /\ f[0] = 0
    /\ \A k \in 1..Len(s) : f[k] = f[k - 1] + s[k]

(* Every list of numbers has such sums.                                      *)
LEMMA SumsExist ==
    ASSUME NEW s \in Seq(Int)
    PROVE  \E f : PartialSums(f, s)
<1> DEFINE Up(n) == \E f \in [0..n -> Int] : f[0] = 0 /\ \A k \in 1..n : f[k] = f[k - 1] + s[k]
           S == {n \in Nat : n <= Len(s) => Up(n)}
<1>1. 0 \in S
  <2> DEFINE g == [k \in 0..0 |-> 0]
  <2>1. g \in [0..0 -> Int] /\ g[0] = 0 /\ \A k \in 1..0 : g[k] = g[k - 1] + s[k]
    OBVIOUS
  <2>2. Up(0)
    <3> HIDE DEF g
    <3> QED
      BY <2>1
  <2> QED
    BY <2>2
<1>2. ASSUME NEW n \in Nat, n \in S PROVE n + 1 \in S
  <2> SUFFICES ASSUME n + 1 <= Len(s) PROVE Up(n + 1)
    <3> HIDE DEF Up
    <3> QED
      OBVIOUS
  <2>0. n <= Len(s) /\ Len(s) \in Nat /\ n + 1 \in 1..Len(s)
    OBVIOUS
  <2>1. PICK f \in [0..n -> Int] : f[0] = 0 /\ \A k \in 1..n : f[k] = f[k - 1] + s[k]
    BY <1>2, <2>0
  <2> DEFINE g == [k \in 0..(n + 1) |-> IF k <= n THEN f[k] ELSE f[n] + s[n + 1]]
  <2>2. s[n + 1] \in Int /\ f[n] \in Int
    BY <2>0
  <2>3. g \in [0..(n + 1) -> Int]
    BY <2>1, <2>2
  <2>4. g[0] = 0 /\ \A k \in 1..(n + 1) : g[k] = g[k - 1] + s[k]
    BY <2>1
  <2> QED
    BY <2>3, <2>4
<1>3. Nat \subseteq S
  <2> HIDE DEF S
  <2> QED
    BY <1>1, <1>2, Induction
<1> QED
  BY <1>3 DEF PartialSums

(* The last of them is the sum of the list, however they were found.         *)
LEMMA SumsTotal ==
    ASSUME NEW s \in Seq(Int), NEW f, PartialSums(f, s)
    PROVE  Total(s) = f[Len(s)]
<1> DEFINE Rec(g) == g = [k \in 0..Len(s) |-> IF k = 0 THEN 0 ELSE g[k - 1] + s[k]]
           upTo == CHOOSE g : Rec(g)
<1>1. Rec(f)
  BY DEF PartialSums
<1>2. Rec(upTo)
  BY <1>1
<1>3. Total(s) = upTo[Len(s)]
  BY DEF Total
<1> DEFINE S == {n \in Nat : n <= Len(s) => upTo[n] = f[n]}
<1> HIDE DEF upTo
<1>4. 0 \in S
  BY <1>2 DEF PartialSums
<1>5. ASSUME NEW n \in Nat, n \in S PROVE n + 1 \in S
  BY <1>2, <1>5 DEF PartialSums
<1>6. Nat \subseteq S
  <2> HIDE DEF S
  <2> QED
    BY <1>4, <1>5, Induction
<1>7. Len(s) \in Nat
  OBVIOUS
<1>8. upTo[Len(s)] = f[Len(s)]
  <2>1. Len(s) \in S
    <3> HIDE DEF S
    <3> QED
      BY <1>6, <1>7
  <2> QED
    BY <1>7, <2>1
<1> QED
  BY <1>3, <1>8

(* A sum of numbers is a number.                                             *)
LEMMA TotalType ==
    ASSUME NEW s \in Seq(Int)
    PROVE  Total(s) \in Int
<1>1. PICK f : PartialSums(f, s)
  BY SumsExist
<1>2. Total(s) = f[Len(s)]
  BY <1>1, SumsTotal
<1>3. f[Len(s)] \in Int
  BY <1>1 DEF PartialSums
<1> QED
  BY <1>2, <1>3

(* The sum of nothing.                                                       *)
LEMMA TotalEmpty == Total(<<>>) = 0
<1>1. <<>> \in Seq(Int) /\ Len(<<>>) = 0
  OBVIOUS
<1>2. PICK f : PartialSums(f, <<>>)
  BY <1>1, SumsExist
<1> QED
  BY <1>1, <1>2, SumsTotal DEF PartialSums

(* The sum of two lists is that of both.                                     *)
LEMMA TotalConcat ==
    ASSUME NEW s \in Seq(Int), NEW t \in Seq(Int)
    PROVE  Total(s \o t) = Total(s) + Total(t)
<1>1. PICK f : PartialSums(f, s)
  BY SumsExist
<1>2. PICK g : PartialSums(g, t)
  BY SumsExist
<1> DEFINE h == [k \in 0..Len(s \o t) |-> IF k <= Len(s) THEN f[k] ELSE f[Len(s)] + g[k - Len(s)]]
<1>3. /\ s \o t \in Seq(Int) /\ Len(s \o t) = Len(s) + Len(t)
      /\ Len(s) \in Nat /\ Len(t) \in Nat
      /\ \A k \in 1..(Len(s) + Len(t)) :
           (s \o t)[k] = IF k <= Len(s) THEN s[k] ELSE t[k - Len(s)]
  BY ConcatProperties
<1>a. /\ \A j \in 0..Len(s) : f[j] \in Int
      /\ \A j \in 0..Len(t) : g[j] \in Int
  BY <1>1, <1>2 DEF PartialSums
<1>b. /\ \A j \in 1..Len(t) : g[j] = g[j - 1] + t[j]
      /\ g[0] = 0
  BY <1>2 DEF PartialSums
<1>c. \A j \in 1..Len(t) : t[j] \in Int
  OBVIOUS
<1>4. PartialSums(h, s \o t)
  <2>1. h[0] = 0
    BY <1>1, <1>3 DEF PartialSums
  <2>2. h \in [0..Len(s \o t) -> Int]
    <3> SUFFICES ASSUME NEW k \in 0..(Len(s) + Len(t))
                 PROVE  (IF k <= Len(s) THEN f[k] ELSE f[Len(s)] + g[k - Len(s)]) \in Int
      BY <1>3
    <3>1. CASE k <= Len(s)
      <4>1. k \in 0..Len(s)
        BY <1>3, <3>1
      <4> QED
        BY <1>1, <3>1, <4>1 DEF PartialSums
    <3>2. CASE ~(k <= Len(s))
      <4>1. k - Len(s) \in 0..Len(t) /\ Len(s) \in 0..Len(s)
        BY <1>3, <3>2
      <4>2. g[k - Len(s)] \in Int /\ f[Len(s)] \in Int
        BY <1>a, <1>b, <1>c, <4>1
      <4> QED
        BY <3>2, <4>2
    <3> QED
      BY <3>1, <3>2
  <2>3. ASSUME NEW k \in 1..Len(s \o t)
        PROVE  h[k] = h[k - 1] + (s \o t)[k]
    <3>0. k \in 1..(Len(s) + Len(t)) /\ k \in 0..Len(s \o t) /\ k - 1 \in 0..Len(s \o t)
      BY <1>3
    <3>1. CASE k <= Len(s)
      <4>1. k \in 1..Len(s) /\ k - 1 <= Len(s)
        BY <1>3, <3>0, <3>1
      <4>2. f[k] = f[k - 1] + s[k]
        BY <1>1, <4>1 DEF PartialSums
      <4>3. h[k] = f[k] /\ h[k - 1] = f[k - 1] /\ (s \o t)[k] = s[k]
        BY <1>3, <3>0, <3>1, <4>1
      <4> QED
        BY <4>2, <4>3
    <3>2. CASE k = Len(s) + 1
      <4>0. 1 \in 1..Len(t) /\ 1 - 1 = 0 /\ Len(s) \in 0..Len(s) /\ 1 \in 0..Len(t)
        BY <1>3, <3>0, <3>2
      <4>1. g[1] = g[0] + t[1] /\ g[0] = 0
        BY <1>b, <4>0
      <4>2. g[1] \in Int /\ f[Len(s)] \in Int /\ t[1] \in Int
        BY <1>a, <1>c, <4>0
      <4>3. k - Len(s) = 1 /\ ~(k <= Len(s)) /\ k - 1 = Len(s)
        BY <1>3, <3>2
      <4>4. (s \o t)[k] = t[1]
        BY <1>3, <3>0, <4>3
      <4>5. h[k] = f[Len(s)] + g[1] /\ h[k - 1] = f[Len(s)]
        BY <3>0, <4>3
      <4> HIDE DEF h
      <4> QED
        BY <4>1, <4>2, <4>4, <4>5
    <3>3. CASE k > Len(s) + 1
      <4> DEFINE j == k - Len(s)
      <4>1. /\ j \in 1..Len(t) /\ j - 1 \in 0..Len(t) /\ k - 1 - Len(s) = j - 1
            /\ ~(k <= Len(s)) /\ ~(k - 1 <= Len(s)) /\ Len(s) \in 0..Len(s)
        BY <1>3, <3>0, <3>3
      <4>2. (s \o t)[k] = t[j]
        BY <1>3, <3>0, <4>1
      <4>3. h[k] = f[Len(s)] + g[j] /\ h[k - 1] = f[Len(s)] + g[j - 1]
        BY <3>0, <4>1
      <4> HIDE DEF h, j
      <4>4. g[j] = g[j - 1] + t[j] /\ g[j - 1] \in Int /\ f[Len(s)] \in Int /\ t[j] \in Int
        BY <1>a, <1>b, <1>c, <4>1
      <4> QED
        BY <4>2, <4>3, <4>4
    <3> QED
      BY <1>3, <3>0, <3>1, <3>2, <3>3
  <2> HIDE DEF h
  <2> QED
    BY <2>1, <2>2, <2>3 DEF PartialSums
<1>5. h[Len(s \o t)] = f[Len(s)] + g[Len(t)]
  <2>1. CASE Len(t) = 0
    <3>1. Len(s \o t) = Len(s) /\ f[Len(s)] \in Int /\ g[0] = 0
      BY <1>1, <1>2, <1>3, <2>1 DEF PartialSums
    <3> QED
      BY <1>3, <2>1, <3>1
  <2>2. CASE Len(t) > 0
    <3>1. /\ ~(Len(s \o t) <= Len(s)) /\ Len(s \o t) - Len(s) = Len(t)
          /\ Len(s \o t) \in 0..Len(s \o t)
      BY <1>3, <2>2
    <3> QED
      BY <3>1
  <2> QED
    BY <1>3, <2>1, <2>2
<1> HIDE DEF h
<1>6. Total(s \o t) = h[Len(s \o t)]
  BY <1>3, <1>4, SumsTotal
<1> QED
  BY <1>1, <1>2, <1>5, <1>6, SumsTotal

(* The sum of one number.                                                    *)
LEMMA TotalOne ==
    ASSUME NEW x \in Int
    PROVE  Total(<<x>>) = x
<1>1. <<x>> \in Seq(Int) /\ Len(<<x>>) = 1 /\ <<x>>[1] = x
  OBVIOUS
<1>2. PICK f : PartialSums(f, <<x>>)
  BY <1>1, SumsExist
<1>3. f[1] = f[1 - 1] + <<x>>[1] /\ f[0] = 0
  BY <1>1, <1>2 DEF PartialSums
<1>4. Total(<<x>>) = f[Len(<<x>>)]
  BY <1>1, <1>2, SumsTotal
<1> QED
  BY <1>1, <1>3, <1>4

(* A number more at the end.                                                 *)
LEMMA TotalAppend ==
    ASSUME NEW s \in Seq(Int), NEW x \in Int
    PROVE  Total(Append(s, x)) = Total(s) + x
<1>1. Append(s, x) = s \o <<x>> /\ <<x>> \in Seq(Int)
  BY AppendIsConcat
<1> QED
  BY <1>1, TotalConcat, TotalOne

(* One less at the front.                                                    *)
LEMMA TotalTail ==
    ASSUME NEW s \in Seq(Int), s # <<>>
    PROVE  Total(Tail(s)) = Total(s) - Head(s)
<1>1. Head(s) \in Int /\ Tail(s) \in Seq(Int) /\ <<Head(s)>> \in Seq(Int)
  BY HeadTailProperties
<1>2. s = <<Head(s)>> \o Tail(s)
  OBVIOUS
<1>3. Total(<<Head(s)>> \o Tail(s)) = Total(<<Head(s)>>) + Total(Tail(s))
  BY <1>1, TotalConcat
<1>4. Total(<<Head(s)>>) = Head(s) /\ Total(Tail(s)) \in Int
  BY <1>1, TotalOne, TotalType
<1>5. Total(s) = Head(s) + Total(Tail(s))
  BY <1>2, <1>3, <1>4
<1> HIDE DEF Total
<1> QED
  BY <1>1, <1>4, <1>5

(* Numbers that are each at least m add up to at least m times as many.     *)
LEMMA TotalAtLeast ==
    ASSUME NEW s \in Seq(Int), NEW m \in Nat, \A k \in 1..Len(s) : s[k] >= m
    PROVE  Total(s) >= m * Len(s)
<1>1. PICK f : PartialSums(f, s)
  BY SumsExist
<1> DEFINE S == {n \in Nat : n <= Len(s) => f[n] >= m * n}
<1>2. 0 \in S
  BY <1>1 DEF PartialSums
<1>3. ASSUME NEW n \in Nat, n \in S PROVE n + 1 \in S
  <2> SUFFICES ASSUME n + 1 <= Len(s) PROVE f[n + 1] >= m * (n + 1)
    OBVIOUS
  <2>1. n \in 0..Len(s) /\ n + 1 \in 1..Len(s) /\ (n + 1) - 1 = n
    OBVIOUS
  <2>2. f[n] >= m * n /\ f[n + 1] = f[n] + s[n + 1] /\ s[n + 1] >= m
    BY <1>1, <1>3, <2>1 DEF PartialSums
  <2>3. f[n] \in Int /\ f[n + 1] \in Int /\ s[n + 1] \in Int /\ m * n \in Int
    BY <1>1, <2>1 DEF PartialSums
  <2>4. m * (n + 1) = m * n + m
    OBVIOUS
  <2> QED
    BY <2>2, <2>3, <2>4
<1>4. Nat \subseteq S
  <2> HIDE DEF S
  <2> QED
    BY <1>2, <1>3, Induction
<1>5. f[Len(s)] >= m * Len(s)
  BY <1>4
<1> QED
  BY <1>1, <1>5, SumsTotal

(* Numbers that are all m add up to m times as many.                        *)
LEMMA TotalOfEqual ==
    ASSUME NEW s \in Seq(Int), NEW m \in Int, \A k \in 1..Len(s) : s[k] = m
    PROVE  Total(s) = m * Len(s)
<1> DEFINE f == [k \in 0..Len(s) |-> m * k]
<1>1. PartialSums(f, s)
  <2>1. f \in [0..Len(s) -> Int] /\ f[0] = 0
    OBVIOUS
  <2>2. ASSUME NEW k \in 1..Len(s)
        PROVE  f[k] = f[k - 1] + s[k]
    <3>1. k \in 0..Len(s) /\ k - 1 \in 0..Len(s)
      OBVIOUS
    <3>2. f[k] = m * k /\ f[k - 1] = m * (k - 1)
      BY <3>1
    <3>3. m * k = m * (k - 1) + m
      OBVIOUS
    <3>4. s[k] = m
      OBVIOUS
    <3> HIDE DEF f
    <3> QED
      BY <3>2, <3>3, <3>4
  <2> HIDE DEF f
  <2> QED
    BY <2>1, <2>2 DEF PartialSums
<1>2. f[Len(s)] = m * Len(s)
  OBVIOUS
<1> HIDE DEF f
<1> QED
  BY <1>1, <1>2, SumsTotal

(* Numbers of which there is one have a smallest.                           *)
LEMMA SmallestExists ==
    ASSUME NEW S \in SUBSET Nat, S # {}
    PROVE  \E m \in S : \A n \in S : m <= n
<1> SUFFICES ASSUME ~ \E m \in S : \A n \in S : m <= n
             PROVE  FALSE
  OBVIOUS
<1> DEFINE Below == {k \in Nat : \A m \in S : k <= m}
<1>1. 0 \in Below
  OBVIOUS
<1>2. ASSUME NEW k \in Nat, k \in Below
      PROVE  k + 1 \in Below
  BY <1>2
<1>3. Nat \subseteq Below
  <2> HIDE DEF Below
  <2> QED
    BY <1>1, <1>2, Induction
<1>4. PICK m \in S : TRUE
  OBVIOUS
<1>5. m + 1 \in Below
  BY <1>3
<1> QED
  BY <1>5

(* Of the numbers up to n, those with all that come before them are the     *)
(* first ones, as many as there are of them.                                *)
LEMMA InitialSegment ==
    ASSUME NEW n \in Nat, NEW D \in SUBSET (1..n), \A k \in D : \A j \in 1..k : j \in D
    PROVE  Cardinality(D) \in 0..n /\ D = 1..Cardinality(D)
<1> DEFINE Missing == {k \in 1..(n + 1) : k \notin D}
<1>1. n + 1 \in Missing /\ Missing \in SUBSET Nat
  OBVIOUS
<1>2. PICK m \in Missing : \A k \in Missing : m <= k
  <2> HIDE DEF Missing
  <2> QED
    BY <1>1, SmallestExists
<1>3. m \in 1..(n + 1) /\ m \notin D
  OBVIOUS
<1>4. D = 1..(m - 1)
  <2>1. ASSUME NEW k \in D
        PROVE  k \in 1..(m - 1)
    <3>1. k >= m => m \in D
      BY <1>3
    <3> QED
      BY <1>3, <3>1
  <2>2. ASSUME NEW k \in 1..(m - 1)
        PROVE  k \in D
    BY <1>2, <1>3
  <2> QED
    BY <2>1, <2>2
<1>5. Cardinality(1..(m - 1)) = m - 1
  BY <1>3, FS_Interval
<1> QED
  BY <1>3, <1>4, <1>5

-----------------------------------------------------------------------------
(* The elements of a list.                                                  *)

(* Those of a list with one more.                                           *)
LEMMA ToSetAppend ==
    ASSUME NEW S, NEW s \in Seq(S), NEW x \in S
    PROVE  ToSet(Append(s, x)) = ToSet(s) \cup {x}
<1>1. \A k \in 1..(Len(s) + 1) :
        Append(s, x)[k] = IF k = Len(s) + 1 THEN x ELSE s[k]
  OBVIOUS
<1>2. /\ DOMAIN Append(s, x) = 1..(Len(s) + 1) /\ DOMAIN s = 1..Len(s)
      /\ Len(s) \in Nat
  OBVIOUS
<1> QED
  BY <1>1, <1>2 DEF ToSet

(* Those of a list that is not empty are its head and those of the rest.    *)
LEMMA ToSetTail ==
    ASSUME NEW S, NEW s \in Seq(S), s # <<>>
    PROVE  ToSet(s) = {Head(s)} \cup ToSet(Tail(s))
<1>1. /\ DOMAIN s = 1..Len(s) /\ Len(s) \in Nat \ {0} /\ Head(s) = s[1]
      /\ DOMAIN Tail(s) = 1..(Len(s) - 1)
      /\ \A k \in 1..(Len(s) - 1) : Tail(s)[k] = s[k + 1]
  OBVIOUS
<1>2. ToSet(s) \subseteq {Head(s)} \cup ToSet(Tail(s))
  <2> SUFFICES ASSUME NEW k \in 1..Len(s), k # 1
               PROVE  s[k] \in ToSet(Tail(s))
    BY <1>1 DEF ToSet
  <2>1. k - 1 \in 1..(Len(s) - 1) /\ s[k] = Tail(s)[k - 1]
    BY <1>1
  <2> QED
    BY <1>1, <2>1 DEF ToSet
<1>3. {Head(s)} \cup ToSet(Tail(s)) \subseteq ToSet(s)
  BY <1>1 DEF ToSet
<1> QED
  BY <1>2, <1>3

(* A list whose elements are all different has as many as it is long.       *)
LEMMA OneOfEach ==
    ASSUME NEW S, NEW s \in Seq(S), \A i, j \in 1..Len(s) : s[i] = s[j] => i = j
    PROVE  IsFiniteSet(ToSet(s)) /\ Cardinality(ToSet(s)) = Len(s)
<1>1. /\ DOMAIN s = 1..Len(s) /\ Len(s) \in Nat
      /\ s \in [1..Len(s) -> ToSet(s)]
  BY DEF ToSet
<1>2. s \in Bijection(1..Len(s), ToSet(s))
  BY <1>1 DEF Bijection, Injection, Surjection, IsInjective, ToSet
<1>3. ExistsBijection(1..Len(s), ToSet(s))
  BY <1>2 DEF ExistsBijection
<1>4. IsFiniteSet(1..Len(s)) /\ Cardinality(1..Len(s)) = Len(s)
  BY <1>1, FS_Interval
<1> QED
  BY <1>3, <1>4, FS_Bijection

(* Those of two lists end to end.                                           *)
LEMMA ToSetConcat ==
    ASSUME NEW S, NEW s \in Seq(S), NEW t \in Seq(S)
    PROVE  s \o t \in Seq(S) /\ ToSet(s \o t) = ToSet(s) \cup ToSet(t)
<1>1. /\ s \o t \in Seq(S) /\ Len(s \o t) = Len(s) + Len(t)
      /\ Len(s) \in Nat /\ Len(t) \in Nat
      /\ DOMAIN s = 1..Len(s) /\ DOMAIN t = 1..Len(t)
      /\ DOMAIN (s \o t) = 1..(Len(s) + Len(t))
      /\ \A k \in 1..(Len(s) + Len(t)) :
           (s \o t)[k] = IF k <= Len(s) THEN s[k] ELSE t[k - Len(s)]
  BY ConcatProperties
<1>2. ToSet(s \o t) \subseteq ToSet(s) \cup ToSet(t)
  <2> SUFFICES ASSUME NEW k \in 1..(Len(s) + Len(t))
               PROVE  (s \o t)[k] \in ToSet(s) \cup ToSet(t)
    BY <1>1 DEF ToSet
  <2>1. CASE k <= Len(s)
    BY <1>1, <2>1 DEF ToSet
  <2>2. CASE ~(k <= Len(s))
    <3>1. k - Len(s) \in 1..Len(t) /\ (s \o t)[k] = t[k - Len(s)]
      BY <1>1, <2>2
    <3> QED
      BY <1>1, <3>1 DEF ToSet
  <2> QED
    BY <2>1, <2>2
<1>3. ToSet(s) \subseteq ToSet(s \o t)
  <2> SUFFICES ASSUME NEW k \in 1..Len(s)
               PROVE  s[k] \in ToSet(s \o t)
    BY <1>1 DEF ToSet
  <2>1. k \in 1..(Len(s) + Len(t)) /\ s[k] = (s \o t)[k]
    BY <1>1
  <2> QED
    BY <1>1, <2>1 DEF ToSet
<1>4. ToSet(t) \subseteq ToSet(s \o t)
  <2> SUFFICES ASSUME NEW k \in 1..Len(t)
               PROVE  t[k] \in ToSet(s \o t)
    BY <1>1 DEF ToSet
  <2>1. k + Len(s) \in 1..(Len(s) + Len(t)) /\ ~(k + Len(s) <= Len(s)) /\ k + Len(s) - Len(s) = k
    BY <1>1
  <2>2. t[k] = (s \o t)[k + Len(s)]
    BY <1>1, <2>1
  <2> QED
    BY <1>1, <2>1, <2>2 DEF ToSet
<1> QED
  BY <1>1, <1>2, <1>3, <1>4

(* If every element of a list is elsewhere than those of the other, the     *)
(* numbers of different elements add up.                                    *)
LEMMA CountConcat ==
    ASSUME NEW S, NEW s \in Seq(S), NEW t \in Seq(S), ToSet(s) \cap ToSet(t) = {},
           IsFiniteSet(ToSet(s)), IsFiniteSet(ToSet(t)),
           Cardinality(ToSet(s)) = Len(s), Cardinality(ToSet(t)) = Len(t)
    PROVE  /\ s \o t \in Seq(S) /\ ToSet(s \o t) = ToSet(s) \cup ToSet(t)
           /\ IsFiniteSet(ToSet(s \o t)) /\ Cardinality(ToSet(s \o t)) = Len(s \o t)
<1>1. s \o t \in Seq(S) /\ ToSet(s \o t) = ToSet(s) \cup ToSet(t)
  BY ToSetConcat
<1>2. /\ IsFiniteSet(ToSet(s) \cup ToSet(t))
      /\ Cardinality(ToSet(s) \cup ToSet(t)) = Len(s) + Len(t) - Cardinality({})
  <2> DEFINE A == ToSet(s)
             B == ToSet(t)
  <2> HIDE DEF A, B
  <2>1. IsFiniteSet(A) /\ IsFiniteSet(B) /\ A \cap B = {}
    BY DEF A, B
  <2>2. /\ IsFiniteSet(A \cup B)
        /\ Cardinality(A \cup B) = Cardinality(A) + Cardinality(B) - Cardinality(A \cap B)
    BY <2>1, FS_Union
  <2> QED
    BY <2>1, <2>2 DEF A, B
<1>3. Len(s \o t) = Len(s) + Len(t) /\ Len(s) \in Nat /\ Len(t) \in Nat
  BY ConcatProperties
<1> QED
  BY <1>1, <1>2, <1>3, FS_EmptySet

-----------------------------------------------------------------------------
(* A list of lists put end to end.                                          *)

\* Two lists end to end, as an operator the provers take as it is.
Joined(x, y) == x \o y

(* It does not matter which two of three are put together first.            *)
LEMMA JoinedAssociates ==
    ASSUME NEW S
    PROVE  \A x, y, z \in Seq(S) : Joined(x, Joined(y, z)) = Joined(Joined(x, y), z)
<1> SUFFICES ASSUME NEW x \in Seq(S), NEW y \in Seq(S), NEW z \in Seq(S)
             PROVE  Joined(x, Joined(y, z)) = Joined(Joined(x, y), z)
  OBVIOUS
<1>1. (x \o y) \o z = x \o (y \o z)
  BY ConcatAssociative
<1> QED
  BY <1>1, Zenon DEF Joined

\* f has what the first lists of s are end to end.
PartialFlats(f, s, S) ==
    /\ f \in [0..Len(s) -> Seq(S)] /\ f[0] = <<>>
    /\ \A k \in 1..Len(s) : f[k] = f[k - 1] \o s[k]

(* Every list of lists has such.                                            *)
LEMMA FlatsExist ==
    ASSUME NEW S, NEW s \in Seq(Seq(S))
    PROVE  \E f : PartialFlats(f, s, S)
<1> DEFINE Up(n) == \E f \in [0..n -> Seq(S)] :
                      f[0] = <<>> /\ \A k \in 1..n : f[k] = f[k - 1] \o s[k]
           N == {n \in Nat : n <= Len(s) => Up(n)}
<1>1. 0 \in N
  <2> DEFINE g == [k \in 0..0 |-> <<>>]
  <2>1. g \in [0..0 -> Seq(S)] /\ g[0] = <<>> /\ \A k \in 1..0 : g[k] = g[k - 1] \o s[k]
    OBVIOUS
  <2>2. Up(0)
    <3> HIDE DEF g
    <3> QED
      BY <2>1
  <2> QED
    BY <2>2
<1>2. ASSUME NEW n \in Nat, n \in N
      PROVE  n + 1 \in N
  <2> SUFFICES ASSUME n + 1 <= Len(s)
               PROVE  Up(n + 1)
    <3> HIDE DEF Up
    <3> QED
      OBVIOUS
  <2>0. n <= Len(s) /\ Len(s) \in Nat /\ n + 1 \in 1..Len(s)
    OBVIOUS
  <2>1. PICK f \in [0..n -> Seq(S)] : f[0] = <<>> /\ \A k \in 1..n : f[k] = f[k - 1] \o s[k]
    BY <1>2, <2>0
  <2> DEFINE g == [k \in 0..(n + 1) |-> IF k <= n THEN f[k] ELSE f[n] \o s[n + 1]]
  <2>2. s[n + 1] \in Seq(S) /\ f[n] \in Seq(S)
    BY <2>0
  <2>3. f[n] \o s[n + 1] \in Seq(S)
    BY <2>2, ConcatProperties
  <2>4. g \in [0..(n + 1) -> Seq(S)]
    BY <2>1, <2>3
  <2>5. g[0] = <<>> /\ \A k \in 1..(n + 1) : g[k] = g[k - 1] \o s[k]
    <3>1. g[0] = <<>>
      BY <2>1
    <3>2. ASSUME NEW k \in 1..(n + 1)
          PROVE  g[k] = g[k - 1] \o s[k]
      <4>1. CASE k <= n
        <5>1. k \in 1..n /\ k \in 0..(n + 1) /\ k - 1 \in 0..(n + 1) /\ k - 1 <= n
          BY <4>1
        <5>2. g[k] = f[k] /\ g[k - 1] = f[k - 1]
          BY <4>1, <5>1
        <5>3. f[k] = f[k - 1] \o s[k]
          BY <2>1, <5>1
        <5> HIDE DEF g
        <5> QED
          BY <5>2, <5>3, Zenon
      <4>2. CASE k = n + 1
        <5>1. k \in 0..(n + 1) /\ k - 1 \in 0..(n + 1) /\ k - 1 = n /\ ~(k <= n) /\ k - 1 <= n
          BY <4>2
        <5>2. g[k] = f[n] \o s[n + 1] /\ g[k - 1] = f[n]
          BY <5>1
        <5> HIDE DEF g
        <5> QED
          BY <4>2, <5>2
      <4>3. k <= n \/ k = n + 1
        OBVIOUS
      <4> HIDE DEF g
      <4> QED
        BY <4>1, <4>2, <4>3, Zenon
    <3> QED
      BY <3>1, <3>2
  <2> HIDE DEF g
  <2> QED
    BY <2>4, <2>5
<1>3. Nat \subseteq N
  <2> HIDE DEF N
  <2> QED
    BY <1>1, <1>2, Induction
<1>4. Up(Len(s))
  <2>1. Len(s) \in Nat
    OBVIOUS
  <2> HIDE DEF Up
  <2> QED
    BY <1>3, <2>1
<1> QED
  BY <1>4, Zenon DEF PartialFlats

(* The last of them is what FlattenSeq makes of the list.                   *)
LEMMA FlatsFlatten ==
    ASSUME NEW S, NEW s \in Seq(Seq(S)), NEW f, PartialFlats(f, s, S)
    PROVE  FlattenSeq(s) = f[Len(s)]
<1>1. CASE Len(s) = 0
  <2>1. FlattenSeq(s) = s /\ s = <<>> /\ f[0] = <<>>
    BY <1>1 DEF FlattenSeq, PartialFlats
  <2> QED
    BY <1>1, <2>1
<1>2. CASE Len(s) # 0
  <2> DEFINE Rec(g) == g = [i \in 1..Len(s) |-> IF i = 1 THEN s[i] ELSE g[i - 1] \o s[i]]
             flatten == CHOOSE g : Rec(g)
             h == [i \in 1..Len(s) |-> f[i]]
  <2>0. Len(s) \in Nat \ {0} /\ 1 \in 1..Len(s) /\ s[1] \in Seq(S)
    BY <1>2
  <2>1. \A i \in 1..Len(s) : f[i] = IF i = 1 THEN s[i] ELSE f[i - 1] \o s[i]
    <3> SUFFICES ASSUME NEW i \in 1..Len(s), i = 1
                 PROVE  f[i] = s[i]
      BY DEF PartialFlats
    <3>0. \A k \in 1..Len(s) : f[k] = f[k - 1] \o s[k]
      BY DEF PartialFlats
    <3>1. f[1] = f[1 - 1] \o s[1] /\ f[0] = <<>> /\ 1 - 1 = 0
      <4>1. f[1] = f[1 - 1] \o s[1]
        BY <2>0, <3>0, Zenon
      <4> QED
        BY <4>1 DEF PartialFlats
    <3>2. <<>> \o s[1] = s[1]
      BY <2>0, ConcatEmptySeq
    <3> QED
      BY <3>1, <3>2
  <2>2. Rec(h)
    <3> SUFFICES ASSUME NEW i \in 1..Len(s)
                 PROVE  h[i] = IF i = 1 THEN s[i] ELSE h[i - 1] \o s[i]
      OBVIOUS
    <3>1. i # 1 => i - 1 \in 1..Len(s)
      OBVIOUS
    <3> QED
      BY <2>1, <3>1
  <2>3. Rec(flatten)
    <3> HIDE DEF h
    <3> QED
      BY <2>2
  <2>4. FlattenSeq(s) = flatten[Len(s)]
    BY <1>2 DEF FlattenSeq
  <2> HIDE DEF flatten
  <2> DEFINE N == {n \in Nat : n + 1 <= Len(s) => flatten[n + 1] = f[n + 1]}
  <2>5. 0 \in N
    <3>1. flatten[1] = s[1] /\ f[1] = s[1]
      BY <2>0, <2>1, <2>3
    <3> QED
      BY <3>1
  <2>6. ASSUME NEW n \in Nat, n \in N
        PROVE  n + 1 \in N
    <3> SUFFICES ASSUME n + 2 <= Len(s)
                 PROVE  flatten[n + 2] = f[n + 2]
      OBVIOUS
    <3>1. n + 2 \in 1..Len(s) /\ n + 2 # 1 /\ (n + 2) - 1 = n + 1 /\ n + 1 <= Len(s)
      OBVIOUS
    <3>2. flatten[n + 2] = flatten[n + 1] \o s[n + 2]
      BY <2>3, <3>1
    <3>3. f[n + 2] = f[n + 1] \o s[n + 2]
      BY <2>1, <3>1
    <3>4. flatten[n + 1] = f[n + 1]
      BY <2>6, <3>1
    <3> QED
      BY <3>2, <3>3, <3>4
  <2>7. Nat \subseteq N
    <3> HIDE DEF N
    <3> QED
      BY <2>5, <2>6, Induction
  <2>8. Len(s) - 1 \in Nat /\ Len(s) - 1 + 1 = Len(s)
    BY <2>0
  <2>9. Len(s) - 1 \in N
    BY <2>7, <2>8
  <2> QED
    BY <2>4, <2>8, <2>9
<1> QED
  BY <1>1, <1>2

(* A flattened list is a list.                                              *)
LEMMA FlattenType ==
    ASSUME NEW S, NEW s \in Seq(Seq(S))
    PROVE  FlattenSeq(s) \in Seq(S)
<1>1. PICK f : PartialFlats(f, s, S)
  BY FlatsExist
<1>2. FlattenSeq(s) = f[Len(s)] /\ Len(s) \in 0..Len(s)
  BY <1>1, FlatsFlatten
<1> QED
  BY <1>1, <1>2 DEF PartialFlats

(* Nothing, end to end, is nothing.                                          *)
LEMMA FlattenEmpty == FlattenSeq(<<>>) = <<>>
BY DEF FlattenSeq

(* One list alone, end to end, is itself.                                   *)
LEMMA FlattenOne ==
    ASSUME NEW S, NEW x \in Seq(S)
    PROVE  FlattenSeq(<<x>>) = x
<1> DEFINE s == <<x>>
           f == [k \in 0..1 |-> IF k = 0 THEN <<>> ELSE x]
<1>1. s \in Seq(Seq(S)) /\ Len(s) = 1 /\ s[1] = x
  OBVIOUS
<1>2. f \in [0..1 -> Seq(S)] /\ f[0] = <<>> /\ f[1] = x
  OBVIOUS
<1>3. <<>> \o x = x
  BY ConcatEmptySeq
<1> HIDE DEF s, f
<1>4. PartialFlats(f, s, S)
  <2>1. ASSUME NEW k \in 1..1
        PROVE  f[k] = f[k - 1] \o s[k]
    <3>1. k = 1 /\ k - 1 = 0
      OBVIOUS
    <3>2. f[1] = f[0] \o s[1]
      BY <1>1, <1>2, <1>3, Zenon
    <3> QED
      BY <3>1, <3>2
  <2> QED
    BY <1>1, <1>2, <2>1 DEF PartialFlats
<1>5. FlattenSeq(s) = f[Len(s)]
  BY <1>1, <1>4, FlatsFlatten
<1> QED
  BY <1>1, <1>2, <1>5 DEF s

(* Two lists of lists end to end.                                           *)
LEMMA FlattenConcat ==
    ASSUME NEW S, NEW s \in Seq(Seq(S)), NEW t \in Seq(Seq(S))
    PROVE  FlattenSeq(s \o t) = FlattenSeq(s) \o FlattenSeq(t)
<1>1. PICK f : PartialFlats(f, s, S)
  BY FlatsExist
<1>2. PICK g : PartialFlats(g, t, S)
  BY FlatsExist
<1> DEFINE st == s \o t
           h == [k \in 0..Len(st) |-> IF k <= Len(s) THEN f[k] ELSE f[Len(s)] \o g[k - Len(s)]]
<1>3. /\ st \in Seq(Seq(S)) /\ Len(st) = Len(s) + Len(t)
      /\ Len(s) \in Nat /\ Len(t) \in Nat
      /\ \A k \in 1..(Len(s) + Len(t)) : st[k] = IF k <= Len(s) THEN s[k] ELSE t[k - Len(s)]
  BY ConcatProperties
<1>a. /\ \A j \in 0..Len(s) : f[j] \in Seq(S)
      /\ \A j \in 0..Len(t) : g[j] \in Seq(S)
      /\ f[0] = <<>> /\ g[0] = <<>>
  BY <1>1, <1>2 DEF PartialFlats
<1>b. /\ \A j \in 1..Len(s) : f[j] = f[j - 1] \o s[j]
      /\ \A j \in 1..Len(t) : g[j] = g[j - 1] \o t[j]
  BY <1>1, <1>2 DEF PartialFlats
<1>c. \A j \in 1..Len(t) : t[j] \in Seq(S)
  OBVIOUS
<1> HIDE DEF st
<1>d. /\ \A k \in 0..Len(st) : k <= Len(s) => h[k] = f[k]
      /\ \A k \in 0..Len(st) : ~(k <= Len(s)) => h[k] = f[Len(s)] \o g[k - Len(s)]
  BY Zenon
<1>e. f[Len(s)] \in Seq(S) /\ f[Len(s)] \o <<>> = f[Len(s)]
  <2>1. Len(s) \in 0..Len(s)
    BY <1>3
  <2>2. f[Len(s)] \in Seq(S)
    BY <1>a, <2>1
  <2> QED
    BY <2>2, ConcatEmptySeq
<1>4. PartialFlats(h, st, S)
  <2>1. h[0] = <<>>
    BY <1>3, <1>a, <1>d
  <2>2. h \in [0..Len(st) -> Seq(S)]
    <3> SUFFICES ASSUME NEW k \in 0..Len(st)
                 PROVE  h[k] \in Seq(S)
      OBVIOUS
    <3>1. CASE k <= Len(s)
      <4>1. k \in 0..Len(s)
        BY <1>3, <3>1
      <4> HIDE DEF h
      <4> QED
        BY <1>a, <1>d, <3>1, <4>1
    <3>2. CASE ~(k <= Len(s))
      <4>1. k - Len(s) \in 0..Len(t)
        BY <1>3, <3>2
      <4>2. g[k - Len(s)] \in Seq(S)
        BY <1>a, <4>1
      <4>3. f[Len(s)] \o g[k - Len(s)] \in Seq(S)
        BY <1>e, <4>2, ConcatProperties
      <4> HIDE DEF h
      <4> QED
        BY <1>d, <3>2, <4>3
    <3> QED
      BY <3>1, <3>2
  <2> HIDE DEF h
  <2>3. ASSUME NEW k \in 1..Len(st)
        PROVE  h[k] = h[k - 1] \o st[k]
    <3>0. k \in 1..(Len(s) + Len(t)) /\ k \in 0..Len(st) /\ k - 1 \in 0..Len(st)
      BY <1>3
    <3>1. CASE k <= Len(s)
      <4>1. k \in 1..Len(s) /\ k - 1 <= Len(s)
        BY <1>3, <3>0, <3>1
      <4>2. h[k] = f[k] /\ h[k - 1] = f[k - 1] /\ st[k] = s[k]
        BY <1>3, <1>d, <3>0, <3>1, <4>1
      <4>3. f[k] = f[k - 1] \o s[k]
        BY <1>b, <4>1
      <4> QED
        BY <4>2, <4>3, Zenon
    <3>2. CASE ~(k <= Len(s))
      <4> DEFINE j == k - Len(s)
      <4>1. j \in 1..Len(t) /\ j - 1 \in 0..Len(t) /\ (k - 1) - Len(s) = j - 1
        BY <1>3, <3>0, <3>2
      <4>2. st[k] = t[j] /\ h[k] = f[Len(s)] \o g[j]
        BY <1>3, <1>d, <3>0, <3>2
      <4>3. h[k - 1] = f[Len(s)] \o g[j - 1]
        <5>1. CASE k - 1 <= Len(s)
          <6>0. k \in Int /\ Len(s) \in Int
            BY <1>3
          <6>1. k - 1 = Len(s) /\ j - 1 = 0
            BY <3>2, <5>1, <6>0
          <6>2. h[k - 1] = f[Len(s)] /\ g[j - 1] = <<>>
            BY <1>a, <1>d, <3>0, <5>1, <6>1
          <6> QED
            BY <1>e, <6>2, Zenon
        <5>2. CASE ~(k - 1 <= Len(s))
          BY <1>d, <3>0, <4>1, <5>2
        <5> QED
          BY <5>1, <5>2
      <4> HIDE DEF j
      <4>4. g[j] = g[j - 1] \o t[j] /\ g[j - 1] \in Seq(S) /\ t[j] \in Seq(S)
        BY <1>a, <1>b, <1>c, <4>1
      <4>5. f[Len(s)] \o (g[j - 1] \o t[j]) = (f[Len(s)] \o g[j - 1]) \o t[j]
        <5>1. Joined(f[Len(s)], Joined(g[j - 1], t[j])) = Joined(Joined(f[Len(s)], g[j - 1]), t[j])
          BY <1>e, <4>4, JoinedAssociates, SMT
        <5> QED
          BY <5>1, Zenon DEF Joined
      <4> QED
        BY <4>2, <4>3, <4>4, <4>5, Zenon
    <3> QED
      BY <3>1, <3>2
  <2> QED
    BY <2>1, <2>2, <2>3, Zenon DEF PartialFlats
<1>5. h[Len(st)] = f[Len(s)] \o g[Len(t)]
  <2> HIDE DEF h
  <2>1. CASE Len(t) = 0
    <3>1. Len(st) = Len(s) /\ Len(st) \in 0..Len(st) /\ Len(st) <= Len(s)
      BY <1>3, <2>1
    <3>2. h[Len(st)] = f[Len(s)] /\ g[Len(t)] = <<>>
      BY <1>a, <1>d, <2>1, <3>1
    <3> QED
      BY <1>e, <3>2, Zenon
  <2>2. CASE Len(t) # 0
    <3>1. Len(st) \in 0..Len(st) /\ ~(Len(st) <= Len(s)) /\ Len(st) - Len(s) = Len(t)
      BY <1>3, <2>2
    <3> QED
      BY <1>d, <3>1
  <2> QED
    BY <2>1, <2>2
<1> HIDE DEF h
<1>6. FlattenSeq(st) = h[Len(st)]
  BY <1>3, <1>4, FlatsFlatten
<1>7. FlattenSeq(s) = f[Len(s)] /\ FlattenSeq(t) = g[Len(t)]
  BY <1>1, <1>2, FlatsFlatten
<1> QED
  BY <1>5, <1>6, <1>7, Zenon DEF st

(* Of two lists end to end, the first and the second.                       *)
LEMMA SubSeqOfBoth ==
    ASSUME NEW S, NEW s \in Seq(S), NEW t \in Seq(S)
    PROVE  /\ Len(s \o t) = Len(s) + Len(t)
           /\ SubSeq(s \o t, 1, Len(s)) = s
           /\ SubSeq(s \o t, Len(s) + 1, Len(s \o t)) = t
<1>1. /\ Len(s) \in Nat /\ Len(t) \in Nat
      /\ s \o t \in Seq(S) /\ Len(s \o t) = Len(s) + Len(t)
      /\ \A k \in 1..(Len(s) + Len(t)) :
           (s \o t)[k] = IF k <= Len(s) THEN s[k] ELSE t[k - Len(s)]
  BY ConcatProperties
<1> DEFINE st == s \o t
<1>2. \A k \in 1..(Len(s) + Len(t)) : st[k] \in S
  BY <1>1
<1> HIDE DEF st
<1>3. SubSeq(st, 1, Len(s)) = s
  <2>1. /\ SubSeq(st, 1, Len(s)) \in Seq(S) /\ Len(SubSeq(st, 1, Len(s))) = Len(s)
        /\ \A k \in 1..Len(s) : SubSeq(st, 1, Len(s))[k] = st[k]
    BY <1>1, <1>2, SubSeqProperties
  <2>2. \A k \in 1..Len(s) : st[k] = s[k]
    BY <1>1 DEF st
  <2> QED
    BY <2>1, <2>2, SeqEqual
<1>4. SubSeq(st, Len(s) + 1, Len(st)) = t
  <2>0. Len(st) = Len(s) + Len(t) /\ Len(s) + 1 \in Int
    BY <1>1 DEF st
  <2>1. /\ SubSeq(st, Len(s) + 1, Len(st)) \in Seq(S)
        /\ Len(SubSeq(st, Len(s) + 1, Len(st))) = Len(t)
        /\ \A k \in 1..Len(t) : SubSeq(st, Len(s) + 1, Len(st))[k] = st[Len(s) + k]
    BY <1>1, <1>2, <2>0, SubSeqProperties
  <2>2. \A k \in 1..Len(t) : st[Len(s) + k] = t[k]
    BY <1>1 DEF st
  <2> QED
    BY <2>1, <2>2, SeqEqual
<1> QED
  BY <1>1, <1>3, <1>4 DEF st
=============================================================================

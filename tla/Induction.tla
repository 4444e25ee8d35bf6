------------------------------- MODULE Induction -------------------------------
(***************************************************************************)
(* Induction and recursion over the natural numbers and over sequences,    *)
(* stated for sets: the library's theorems take an operator, which the     *)
(* provers cannot instantiate.  And places by rank, for whatever is listed  *)
(* in an order.                                                            *)
(***************************************************************************)
EXTENDS Integers, Sequences, FiniteSets, FiniteSetsExt, FiniteSetTheorems,
        SequenceTheorems, WellFoundedInduction, TLAPS

(* The least of some numbers is one of them.                                *)
LEMMA LeastIsThere ==
    ASSUME NEW S \in SUBSET Nat, S # {}
    PROVE  Min(S) \in S /\ \A n \in S : Min(S) <= n
<1> DEFINE Upto == {0 .. k : k \in S}
<1>1. Upto \subseteq FiniteSubsetsOf(Nat)
    <2>1. ASSUME NEW k \in Nat PROVE IsFiniteSet(0 .. k) /\ 0 .. k \subseteq Nat
        BY FS_Interval, SMT
    <2> QED BY <2>1 DEF FiniteSubsetsOf
<1>2. PICK x \in Upto : \A y \in Upto : ~ (<<y, x>> \in StrictSubsetOrdering(Nat))
    <2>1. Upto # {}
        OBVIOUS
    <2> HIDE DEF Upto
    <2> QED BY <1>1, <2>1, FS_StrictSubsetOrderingWellFounded, WFMin
<1>3. PICK k \in S : x = 0 .. k
    OBVIOUS
<1>4. ASSUME NEW m \in S, m < k PROVE FALSE
    <2>1. 0 .. m \subseteq 0 .. k /\ 0 .. k \subseteq Nat /\ k \in 0 .. k /\ k \notin 0 .. m
        BY <1>4
    <2>2. <<0 .. m, 0 .. k>> \in StrictSubsetOrdering(Nat)
        BY <2>1 DEF StrictSubsetOrdering
    <2> QED BY <1>2, <1>3, <2>2
<1>5. \A m \in S : k <= m
    BY <1>4
<1> QED BY <1>5 DEF Min

(* A set of numbers with 0 and the successor of each member has them all.   *)
LEMMA EveryNumber ==
    ASSUME NEW S, 0 \in S, \A n \in Nat : n \in S => n + 1 \in S
    PROVE  Nat \subseteq S
<1> SUFFICES ASSUME NEW m \in Nat, m \notin S PROVE FALSE
    OBVIOUS
<1> DEFINE Out == {n \in Nat : n \notin S}
<1>1. Min(Out) \in Out /\ \A n \in Out : Min(Out) <= n
    <2>1. Out \in SUBSET Nat /\ Out # {}
        OBVIOUS
    <2> HIDE DEF Out
    <2> QED BY <2>1, LeastIsThere
<1>2. PICK k \in Nat : k \notin S /\ \A n \in Nat : n \notin S => k <= n
    BY <1>1
<1>3. k # 0 /\ k - 1 \in Nat /\ (k - 1) + 1 = k /\ ~ (k <= k - 1)
    BY <1>2
<1> QED BY <1>2, <1>3

(* ... up to a bound.                                                       *)
LEMMA EveryNumberTo ==
    ASSUME NEW last \in Nat, NEW S, 0 \in S, \A n \in 1 .. last : n - 1 \in S => n \in S
    PROVE  0 .. last \subseteq S
<1> DEFINE T == S \cup {n \in Nat : n > last}
<1>1. 0 \in T
    OBVIOUS
<1>2. ASSUME NEW n \in Nat, n \in T PROVE n + 1 \in T
    <2>1. CASE n + 1 > last
        BY <2>1
    <2>2. CASE n + 1 <= last
        <3>1. n + 1 \in 1 .. last /\ (n + 1) - 1 = n /\ n \in S
            BY <1>2, <2>2
        <3> QED BY <3>1
    <2> QED BY <2>1, <2>2
<1>3. Nat \subseteq T
    <2> HIDE DEF T
    <2> QED BY <1>1, <1>2, EveryNumber
<1> QED BY <1>3

(* The greatest of some bounded numbers is one of them.                     *)
LEMMA GreatestIsThere ==
    ASSUME NEW top \in Nat, NEW S \in SUBSET (0 .. top), S # {}
    PROVE  Max(S) \in S /\ \A n \in S : n <= Max(S)
<1> DEFINE D == {top - n : n \in S}
<1>1. D \in SUBSET Nat /\ D # {}
    <2>1. \A n \in S : top - n \in Nat
        OBVIOUS
    <2> QED BY <2>1
<1>2. Min(D) \in D /\ \A d \in D : Min(D) <= d
    BY <1>1, LeastIsThere
<1>3. PICK g \in S : Min(D) = top - g
    BY <1>2
<1>4. \A n \in S : n <= g
    <2>1. ASSUME NEW n \in S PROVE n <= g
        <3>1. top - n \in D
            OBVIOUS
        <3>2. top - g <= top - n
            BY <1>2, <1>3, <3>1
        <3> QED BY <3>2
    <2> QED BY <2>1
<1>5. \E g2 \in S : \A n \in S : g2 >= n
    BY <1>4
<1> QED BY <1>5 DEF Max

(* A step for each number and each value gives a function by recursion.     *)
Unrolls(f, T, zero, last, step) ==
    /\ f \in [0 .. last -> T] /\ f[0] = zero
    /\ \A n \in 1 .. last : f[n] = step[<<n, f[n - 1]>>]

(* Where every step has a value there is a function that takes it.          *)
LEMMA Recursion ==
    ASSUME NEW T, NEW zero \in T, NEW last \in Nat, NEW step \in [(1 .. last) \X T -> T]
    PROVE  \E f : Unrolls(f, T, zero, last, step)
<1> DEFINE Rec(f, m) == /\ f \in [0 .. m -> T] /\ f[0] = zero
                        /\ \A n \in 1 .. m : f[n] = step[<<n, f[n - 1]>>]
           S == {m \in Nat : \E f : Rec(f, m)}
<1>1. 0 \in S
    <2>1. Rec([n \in 0 .. 0 |-> zero], 0)
        OBVIOUS
    <2> QED BY <2>1
<1>2. ASSUME NEW m \in 1 .. last, m - 1 \in S PROVE m \in S
    <2>1. PICK f : Rec(f, m - 1)
        BY <1>2
    <2> DEFINE g == [n \in 0 .. m |-> IF n = m THEN step[<<m, f[m - 1]>>] ELSE f[n]]
    <2>2. step[<<m, f[m - 1]>>] \in T
        BY <2>1
    <2>3. g \in [0 .. m -> T] /\ g[0] = zero
        BY <2>1, <2>2
    <2>4. ASSUME NEW n \in 1 .. m PROVE g[n] = step[<<n, g[n - 1]>>]
        <3>1. n - 1 \in 0 .. m /\ n - 1 # m
            OBVIOUS
        <3>2. g[n - 1] = f[n - 1]
            BY <3>1
        <3>3. CASE n = m
            <4>1. g[n] = step[<<m, f[m - 1]>>]
                BY <3>3
            <4> QED BY <3>2, <3>3, <4>1
        <3>4. CASE n # m
            <4>1. n \in 1 .. (m - 1) /\ g[n] = f[n]
                BY <3>4
            <4> QED BY <2>1, <3>2, <4>1
        <3> QED BY <3>3, <3>4
    <2>5. \E h : Rec(h, m)
        <3> HIDE DEF g
        <3> QED BY <2>3, <2>4
    <2> HIDE DEF Rec
    <2> QED BY <2>5
<1>3. last \in S
    <2> HIDE DEF S
    <2> QED BY <1>1, <1>2, EveryNumberTo
<1> QED BY <1>3 DEF Unrolls

(* A set of sequences with the empty one, and with whatever continues one of  *)
(* its own, has them all.                                                     *)
LEMMA EverySequence ==
    ASSUME NEW T, NEW S, <<>> \in S, \A s \in Seq(T), x \in T : s \in S => Append(s, x) \in S
    PROVE  Seq(T) \subseteq S
<1> DEFINE N == {n \in Nat : \A s \in Seq(T) : Len(s) = n => s \in S}
<1>1. 0 \in N
    <2>1. ASSUME NEW s \in Seq(T), Len(s) = 0 PROVE s \in S
        <3>1. s = <<>>
            BY <2>1, EmptySeq
        <3> QED BY <3>1
    <2> QED BY <2>1
<1>2. ASSUME NEW n \in Nat, n \in N PROVE n + 1 \in N
    <2>1. ASSUME NEW s \in Seq(T), Len(s) = n + 1 PROVE s \in S
        <3>1. s # <<>>
            BY <2>1, EmptySeq
        <3>2. PICK t \in Seq(T), x \in T : s = Append(t, x)
            BY <3>1, SequenceEmptyOrAppend
        <3>3. Len(t) \in Nat /\ Len(s) = Len(t) + 1
            BY <3>2, AppendProperties, LenProperties
        <3>4. t \in S
            BY <1>2, <2>1, <3>3
        <3> QED BY <3>2, <3>4
    <2> QED BY <2>1
<1>3. Nat \subseteq N
    <2> HIDE DEF N
    <2> QED BY <1>1, <1>2, EveryNumber
<1>4. ASSUME NEW s \in Seq(T) PROVE s \in S
    BY <1>3, LenProperties
<1> QED BY <1>4

(* Places by rank: where before[a] is what comes before a, the number of    *)
(* elements before one is its own, and every number up to the size is taken. *)
StrictOrder(S, before) ==
    /\ before \in [S -> SUBSET S]
    /\ \A a \in S : a \notin before[a]
    /\ \A a, b \in S : b \in before[a] => before[b] \subseteq before[a]
    /\ \A a, b \in S : a # b => a \in before[b] \/ b \in before[a]

(* What comes later has a higher rank.                                      *)
LEMMA RanksRise ==
    ASSUME NEW S, IsFiniteSet(S), NEW before, StrictOrder(S, before),
           NEW a \in S, NEW b \in S, a \in before[b]
    PROVE  /\ Cardinality(before[a]) \in Nat /\ Cardinality(before[b]) \in Nat
           /\ Cardinality(before[a]) < Cardinality(before[b])
<1>1. before[a] \subseteq S /\ before[b] \subseteq S
    BY DEF StrictOrder
<1>2. IsFiniteSet(before[b])
    BY <1>1, FS_Subset
<1>3. before[a] \subseteq before[b] /\ before[a] # before[b]
    BY DEF StrictOrder
<1>4. Cardinality(before[a]) <= Cardinality(before[b]) /\ IsFiniteSet(before[a])
      /\ Cardinality(before[a]) # Cardinality(before[b])
    BY <1>2, <1>3, FS_Subset
<1> QED BY <1>2, <1>4, FS_CardinalityType

(* Every rank below the size belongs to an element.                         *)
LEMMA RanksAreTaken ==
    ASSUME NEW S, IsFiniteSet(S), NEW before, StrictOrder(S, before),
           NEW n \in 1 .. Cardinality(S)
    PROVE  \E a \in S : Cardinality(before[a]) = n - 1
<1> DEFINE rank == [a \in S |-> Cardinality(before[a])]
           T == 0 .. (Cardinality(S) - 1)
<1>1. Cardinality(S) \in Nat
    BY FS_CardinalityType
<1>2. ASSUME NEW a \in S PROVE rank[a] \in T
    <2>1. before[a] \subseteq S /\ before[a] # S
        BY DEF StrictOrder
    <2>2. IsFiniteSet(before[a]) /\ Cardinality(before[a]) <= Cardinality(S)
          /\ Cardinality(before[a]) # Cardinality(S)
        BY <2>1, FS_Subset
    <2>3. Cardinality(before[a]) \in Nat
        BY <2>2, FS_CardinalityType
    <2> QED BY <1>1, <2>2, <2>3
<1>3. ASSUME NEW a \in S, NEW b \in S, rank[a] = rank[b] PROVE a = b
    <2>1. SUFFICES ASSUME a # b PROVE FALSE
        OBVIOUS
    <2>2. a \in before[b] \/ b \in before[a]
        BY <2>1 DEF StrictOrder
    <2> QED BY <1>3, <2>2, RanksRise
<1>4. rank \in Injection(S, T)
    <2>1. rank \in [S -> T]
        BY <1>2
    <2> QED BY <2>1, <1>3 DEF Injection, IsInjective
<1>5. IsFiniteSet(T) /\ Cardinality(T) = Cardinality(S)
    <2>1. Cardinality(S) - 1 \in Int /\ 0 \in Int
        BY <1>1
    <2>2. IsFiniteSet(T) /\ Cardinality(T) = IF 0 > Cardinality(S) - 1 THEN 0 ELSE (Cardinality(S) - 1) - 0 + 1
        BY <2>1, FS_Interval
    <2> QED BY <1>1, <2>2
<1>6. rank \in Surjection(S, T)
    BY <1>4, <1>5, FS_Injection
<1>7. n - 1 \in T
    BY <1>1
<1> QED BY <1>6, <1>7 DEF Surjection

(* What the ranks of an order say of the sequence they make.                *)
InRankOrder(S, before, order) ==
    /\ order \in [1 .. Cardinality(S) -> S]
    /\ \A i, j \in 1 .. Cardinality(S) : i < j => order[i] \in before[order[j]]
    /\ \A a \in S : \E i \in 1 .. Cardinality(S) : order[i] = a

(* A sequence that lists a set by rank lists all of it, in order.           *)
LEMMA RanksOrder ==
    ASSUME NEW S, IsFiniteSet(S), NEW before, StrictOrder(S, before),
           NEW order \in [1 .. Cardinality(S) -> S],
           \A n \in 1 .. Cardinality(S) : Cardinality(before[order[n]]) = n - 1
    PROVE  InRankOrder(S, before, order) /\ <<>> \o order = order /\ Cardinality(S) \in Nat
<1>1. Cardinality(S) \in Nat
    BY FS_CardinalityType
<1>2. \A n \in 1 .. Cardinality(S) : order[n] \in S /\ Cardinality(before[order[n]]) = n - 1
    OBVIOUS
<1>3. order \in [1 .. Cardinality(S) -> S]
    BY <1>2
<1>4. ASSUME NEW i \in 1 .. Cardinality(S), NEW j \in 1 .. Cardinality(S), i < j
      PROVE  order[i] \in before[order[j]]
    <2>1. /\ order[i] \in S /\ Cardinality(before[order[i]]) = i - 1
          /\ order[j] \in S /\ Cardinality(before[order[j]]) = j - 1
        BY <1>2
    <2>2. i - 1 # j - 1 /\ ~ (j - 1 < i - 1)
        BY <1>4
    <2>3. order[i] # order[j]
        BY <2>1, <2>2
    <2>4. order[j] \notin before[order[i]]
        BY <2>1, <2>2, RanksRise
    <2> QED BY <2>1, <2>3, <2>4 DEF StrictOrder
<1>5. ASSUME NEW a \in S PROVE \E i \in 1 .. Cardinality(S) : order[i] = a
    <2>1. before[a] \subseteq S /\ before[a] # S
        BY DEF StrictOrder
    <2>2. Cardinality(before[a]) \in Nat /\ Cardinality(before[a]) < Cardinality(S)
        BY <2>1, <1>1, FS_Subset, FS_CardinalityType
    <2> DEFINE i == Cardinality(before[a]) + 1
    <2>3. i \in 1 .. Cardinality(S) /\ i - 1 = Cardinality(before[a])
        BY <2>2, <1>1
    <2>4. order[i] \in S /\ Cardinality(before[order[i]]) = Cardinality(before[a])
        BY <2>3, <1>2
    <2>5. order[i] = a
        <3>1. SUFFICES ASSUME order[i] # a PROVE FALSE
            OBVIOUS
        <3> DEFINE b == order[i]
        <3>2. b \in S /\ Cardinality(before[b]) = Cardinality(before[a]) /\ b # a
            BY <2>4, <3>1
        <3> HIDE DEF b
        <3>3. a \in before[b] \/ b \in before[a]
            BY <3>2 DEF StrictOrder
        <3> QED BY <3>2, <3>3, RanksRise
    <2> QED BY <2>3, <2>5
<1>6. <<>> \o order = order
    <2>1. order \in Seq(S)
        BY <1>1, <1>3, SeqDef
    <2> QED BY <2>1, ConcatEmptySeq
<1> QED BY <1>1, <1>3, <1>4, <1>5, <1>6 DEF InRankOrder

=============================================================================

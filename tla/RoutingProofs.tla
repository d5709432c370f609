--------------------------- MODULE RoutingProofs ---------------------------
(***************************************************************************)
(* A transaction is its header and what Strip leaves of it.  Less is a     *)
(* strict total order of the identifiers, so that whatever order a map     *)
(* yields its keys in, sorting them has one outcome.                       *)
(***************************************************************************)
EXTENDS Routing, FiniteSetTheorems, SequenceTheorems, TLAPS

(***************************************************************************)
(* The header.                                                             *)
(***************************************************************************)

\* A transaction with a valid header is that header followed by what is stripped.
LEMMA HeaderAndStrip ==
  ASSUME NEW tx \in Seq(Byte), CheckHeader(tx)
  PROVE  /\ CreateMegablocksHeader(HeaderId(tx)) \o Strip(tx) = tx
         /\ Strip(tx) \in Seq(Byte)
<1>1. Len(tx) \in Nat /\ Len(tx) >= 8 /\ \A i \in 1..Len(tx) : tx[i] \in Byte
  BY LenProperties, ElementOfSeq DEF CheckHeader, MbHeaderLen, MAGIC, ChainAppIdLen
<1>2. /\ MAGIC = SubSeq(tx, 1, 4)
      /\ HeaderId(tx) = SubSeq(tx, 5, 8)
      /\ Strip(tx) = SubSeq(tx, 9, Len(tx))
  <2>1. Len(MAGIC) = 4 /\ MbHeaderLen = 8
    BY DEF MbHeaderLen, MAGIC, ChainAppIdLen
  <2> QED
    BY <2>1 DEF CheckHeader, HeaderId, Strip
<1>3. SubSeq(tx, 1, 4) \o SubSeq(tx, 5, 8) = SubSeq(tx, 1, 8)
  <2>1. 1 \in 1..Len(tx) + 1 /\ 4 \in 1 - 1..Len(tx) /\ 8 \in 4..Len(tx) /\ 4 + 1 = 5
    BY <1>1
  <2> QED
    BY <2>1, ConcatAdjacentSubSeq
<1>4. SubSeq(tx, 1, 8) \o SubSeq(tx, 9, Len(tx)) = SubSeq(tx, 1, Len(tx))
  <2>1. /\ 1 \in 1..Len(tx) + 1 /\ 8 \in 1 - 1..Len(tx)
        /\ Len(tx) \in 8..Len(tx) /\ 8 + 1 = 9
    BY <1>1
  <2> QED
    BY <2>1, ConcatAdjacentSubSeq
<1>5. SubSeq(tx, 9, Len(tx)) \in Seq(Byte)
  BY <1>1, SubSeqProperties
<1> QED
  BY <1>2, <1>3, <1>4, <1>5, SubSeqFull DEF CreateMegablocksHeader

-----------------------------------------------------------------------------
(***************************************************************************)
(* The order.                                                              *)
(***************************************************************************)

\* Less, spelled out for the four bytes.
LEMMA LessByBytes ==
  ASSUME NEW l, NEW k
  PROVE  Less(l, k) <=>
           \/ l[1] < k[1]
           \/ l[1] = k[1] /\ l[2] < k[2]
           \/ l[1] = k[1] /\ l[2] = k[2] /\ l[3] < k[3]
           \/ l[1] = k[1] /\ l[2] = k[2] /\ l[3] = k[3] /\ l[4] < k[4]
<1> DEFINE At(i) == l[i] < k[i] /\ \A j \in 1..(i - 1) : l[j] = k[j]
<1>1. Less(l, k) <=> At(1) \/ At(2) \/ At(3) \/ At(4)
  <2>1. 1..ChainAppIdLen = {1, 2, 3, 4}
    BY DEF ChainAppIdLen
  <2> QED
    BY <2>1 DEF Less
<1>2. /\ 1..(1 - 1) = {} /\ 1..(2 - 1) = {1} /\ 1..(3 - 1) = {1, 2}
      /\ 1..(4 - 1) = {1, 2, 3}
  OBVIOUS
<1> QED
  BY <1>1, <1>2

\* Less is a strict total order of the identifiers: irreflexive, transitive and
\* total.  A comparison of fewer bytes would not be total, and the joined AppHash
\* would depend on the order in which Go iterates over a map.
THEOREM LessIsStrictTotalOrder ==
  ASSUME NEW l \in ChainAppIdentifier, NEW k \in ChainAppIdentifier,
         NEW m \in ChainAppIdentifier
  PROVE  /\ ~Less(l, l)
         /\ Less(l, k) /\ Less(k, m) => Less(l, m)
         /\ l = k \/ Less(l, k) \/ Less(k, l)
<1>1. /\ l[1] \in Int /\ l[2] \in Int /\ l[3] \in Int /\ l[4] \in Int
      /\ k[1] \in Int /\ k[2] \in Int /\ k[3] \in Int /\ k[4] \in Int
      /\ m[1] \in Int /\ m[2] \in Int /\ m[3] \in Int /\ m[4] \in Int
  BY DEF ChainAppIdentifier, ChainAppIdLen, Byte
<1>2. ~Less(l, l)
  BY <1>1, LessByBytes
<1>3. Less(l, k) /\ Less(k, m) => Less(l, m)
  BY <1>1, LessByBytes
<1>4. l[1] = k[1] /\ l[2] = k[2] /\ l[3] = k[3] /\ l[4] = k[4] => l = k
  <2>1. \A i \in 1..4 : i = 1 \/ i = 2 \/ i = 3 \/ i = 4
    OBVIOUS
  <2> QED
    BY <2>1 DEF ChainAppIdentifier, ChainAppIdLen
<1>5. l = k \/ Less(l, k) \/ Less(k, l)
  BY <1>1, <1>4, LessByBytes
<1> QED
  BY <1>2, <1>3, <1>5

\* In a sorted enumeration of S the ith element has i - 1 elements below it.
Below(S, a) == {b \in S : Less(b, a)}

LEMMA SortedPosition ==
  ASSUME NEW S \in SUBSET ChainAppIdentifier, IsFiniteSet(S),
         NEW s \in SortChainAppIDs(S), NEW i \in 1..Cardinality(S)
  PROVE  /\ s \in [1..Cardinality(S) -> S]
         /\ \A a \in S : \E j \in 1..Cardinality(S) : s[j] = a
         /\ Cardinality(Below(S, s[i])) = i - 1
<1> DEFINE n == Cardinality(S)
<1>1. n \in Nat
  BY FS_CardinalityType
<1>2. s \in [1..n -> S] /\ \A j, k \in 1..n : j # k => s[j] # s[k]
  BY DEF SortChainAppIDs, SetToSeqs
<1>3. \A j, k \in 1..n : j < k => Less(s[j], s[k])
  <2> SUFFICES ASSUME NEW j \in 1..n, NEW k \in 1..n, j < k PROVE Less(s[j], s[k])
    OBVIOUS
  <2>1. ~Less(s[k], s[j]) /\ s[j] # s[k]
    BY <1>2 DEF SortChainAppIDs
  <2> QED
    BY <1>2, <2>1, LessIsStrictTotalOrder
<1>4. \A a \in S : \E j \in 1..n : s[j] = a
  <2>1. s \in Injection(1..n, S)
    BY <1>2 DEF Injection, IsInjective
  <2>2. Cardinality(1..n) = n
    BY <1>1, FS_Interval
  <2>3. s \in Surjection(1..n, S)
    BY <2>1, <2>2, FS_Injection
  <2> QED
    BY <2>3 DEF Surjection
<1>5. \A j \in 1..n : Less(s[j], s[i]) <=> j < i
  <2> SUFFICES ASSUME NEW j \in 1..n PROVE Less(s[j], s[i]) <=> j < i
    OBVIOUS
  <2>1. j < i \/ j = i \/ i < j
    BY <1>1
  <2>2. i < j => ~Less(s[j], s[i])
    BY DEF SortChainAppIDs
  <2> QED
    BY <1>2, <1>3, <2>1, <2>2, LessIsStrictTotalOrder
<1>6. [j \in 1..(i - 1) |-> s[j]] \in Bijection(1..(i - 1), Below(S, s[i]))
  <2> DEFINE f == [j \in 1..(i - 1) |-> s[j]]
  <2>1. \A j \in 1..(i - 1) : j \in 1..n /\ j < i
    BY <1>1
  <2>2. f \in [1..(i - 1) -> Below(S, s[i])]
    BY <1>2, <1>5, <2>1 DEF Below
  <2>3. \A j, k \in 1..(i - 1) : f[j] = f[k] => j = k
    BY <1>2, <2>1
  <2>4. \A a \in Below(S, s[i]) : \E j \in 1..(i - 1) : f[j] = a
    BY <1>1, <1>4, <1>5 DEF Below
  <2> QED
    BY <2>2, <2>3, <2>4 DEF Bijection, Injection, Surjection, IsInjective
<1>7. IsFiniteSet(1..(i - 1)) /\ Cardinality(1..(i - 1)) = i - 1
  <2>1. 1 \in Int /\ i - 1 \in Int /\ (IF 1 > i - 1 THEN 0 ELSE (i - 1) - 1 + 1) = i - 1
    BY <1>1
  <2> QED
    BY <2>1, FS_Interval
<1>8. Cardinality(Below(S, s[i])) = i - 1
  BY <1>6, <1>7, FS_Bijection DEF ExistsBijection
<1> QED
  BY <1>2, <1>4, <1>8

\* sort.Sort has only one possible outcome, in whatever order it gets the keys.
THEOREM SortIsUnique ==
  ASSUME NEW S \in SUBSET ChainAppIdentifier, IsFiniteSet(S),
         NEW s \in SortChainAppIDs(S), NEW t \in SortChainAppIDs(S)
  PROVE  s = t
<1> DEFINE n == Cardinality(S)
<1>1. s \in [1..n -> S] /\ t \in [1..n -> S]
  BY DEF SortChainAppIDs, SetToSeqs
<1>2. ASSUME NEW i \in 1..n
      PROVE  s[i] = t[i]
  <2>1. PICK j \in 1..n : s[j] = t[i]
    BY <1>1, SortedPosition
  <2>2. Cardinality(Below(S, s[j])) = j - 1 /\ Cardinality(Below(S, t[i])) = i - 1
    BY SortedPosition
  <2>3. n \in Nat
    BY FS_CardinalityType
  <2>4. i = j
    BY <2>1, <2>2, <2>3
  <2> QED
    BY <2>1, <2>4
<1> HIDE DEF n
<1>3. s = [i \in 1..n |-> s[i]] /\ t = [i \in 1..n |-> t[i]]
  BY <1>1
<1>4. \A i \in 1..n : s[i] = t[i]
  BY <1>2
<1> QED
  BY <1>3, <1>4

\* An element has fewer others below it than one that is above it.
LEMMA BelowGrows ==
  ASSUME NEW S \in SUBSET ChainAppIdentifier, IsFiniteSet(S), NEW a \in S
  PROVE  /\ Cardinality(Below(S, a)) + 1 \in 1..Cardinality(S)
         /\ \A b \in S : Less(a, b) => Cardinality(Below(S, a)) < Cardinality(Below(S, b))
<1>1. ASSUME NEW T \in SUBSET S, Below(S, a) \subseteq T, a \in T
      PROVE  Cardinality(Below(S, a)) < Cardinality(T) /\ Cardinality(T) <= Cardinality(S)
  <2>1. a \notin Below(S, a)
    BY LessIsStrictTotalOrder DEF Below
  <2>2. IsFiniteSet(T) /\ Cardinality(T) <= Cardinality(S)
    BY FS_Subset
  <2>3. Below(S, a) \in SUBSET T /\ Below(S, a) # T
    BY <1>1, <2>1
  <2>4. /\ Cardinality(Below(S, a)) <= Cardinality(T)
        /\ Cardinality(Below(S, a)) # Cardinality(T)
        /\ Cardinality(Below(S, a)) \in Nat /\ Cardinality(T) \in Nat
    BY <2>2, <2>3, FS_Subset, FS_CardinalityType
  <2> QED
    BY <2>2, <2>4
<1>2. Cardinality(Below(S, a)) \in Nat /\ Cardinality(S) \in Nat
  <2>1. Below(S, a) \in SUBSET S
    BY DEF Below
  <2> QED
    BY <2>1, FS_Subset, FS_CardinalityType
<1>3. Cardinality(Below(S, a)) < Cardinality(S)
  BY <1>1 DEF Below
<1>4. ASSUME NEW b \in S, Less(a, b)
      PROVE  Cardinality(Below(S, a)) < Cardinality(Below(S, b))
  <2>1. Below(S, a) \subseteq Below(S, b)
    BY <1>4, LessIsStrictTotalOrder DEF Below
  <2>2. a \in Below(S, b) /\ Below(S, b) \in SUBSET S
    BY <1>4 DEF Below
  <2> QED
    BY <1>1, <2>1, <2>2
<1> QED
  BY <1>2, <1>3, <1>4

\* sort.Sort has an outcome for every set of identifiers: the place of each is one more
\* than the number of those below it, and every place is taken.
THEOREM SortExists ==
  ASSUME NEW S \in SUBSET ChainAppIdentifier, IsFiniteSet(S)
  PROVE  SortChainAppIDs(S) # {}
<1> DEFINE n == Cardinality(S)
           place == [a \in S |-> Cardinality(Below(S, a)) + 1]
<1>1. n \in Nat
  BY FS_CardinalityType
<1>2. place \in [S -> 1..n]
  BY BelowGrows
<1>3. \A a, b \in S : Less(a, b) => place[a] < place[b]
  <2> SUFFICES ASSUME NEW a \in S, NEW b \in S, Less(a, b) PROVE place[a] < place[b]
    OBVIOUS
  <2>1. /\ Cardinality(Below(S, a)) < Cardinality(Below(S, b))
        /\ Cardinality(Below(S, a)) + 1 \in 1..n /\ Cardinality(Below(S, b)) + 1 \in 1..n
    BY BelowGrows
  <2>2. Below(S, a) \in SUBSET S /\ Below(S, b) \in SUBSET S
    BY DEF Below
  <2>3. Cardinality(Below(S, a)) \in Nat /\ Cardinality(Below(S, b)) \in Nat
    BY <2>2, FS_Subset, FS_CardinalityType
  <2> QED
    BY <2>1, <2>3
<1> HIDE DEF n, place
<1>4. \A a, b \in S : place[a] = place[b] => a = b
  BY <1>1, <1>2, <1>3, LessIsStrictTotalOrder
<1>5. \A i \in 1..n : \E a \in S : place[a] = i
  <2>1. place \in Injection(S, 1..n)
    BY <1>2, <1>4 DEF Injection, IsInjective
  <2>2. IsFiniteSet(1..n) /\ Cardinality(1..n) = n
    BY <1>1, FS_Interval
  <2>3. place \in Surjection(S, 1..n)
    BY <2>1, <2>2, FS_Injection DEF n
  <2> QED
    BY <2>3 DEF Surjection
<1> DEFINE s == [i \in 1..n |-> CHOOSE a \in S : place[a] = i]
<1>6. \A i \in 1..n : s[i] \in S /\ place[s[i]] = i
  BY <1>5
<1>7. s \in [1..n -> S]
  BY <1>6
<1> HIDE DEF s
<1>8. \A i, j \in 1..n : (i # j => s[i] # s[j]) /\ (i < j => ~Less(s[j], s[i]))
  BY <1>1, <1>3, <1>6
<1>9. s \in SortChainAppIDs(S)
  BY <1>7, <1>8 DEF SortChainAppIDs, SetToSeqs, n
<1> QED
  BY <1>9
=============================================================================

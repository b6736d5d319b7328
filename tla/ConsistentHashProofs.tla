------------------------ MODULE ConsistentHashProofs ------------------------
(***************************************************************************)
(* Proofs about ConsistentHash for every hash function, every number of    *)
(* replicas and every set of nodes.                                        *)
(***************************************************************************)
EXTENDS ConsistentHash, TLAPS, FiniteSetTheorems, SequenceTheorems,
        NaturalsInduction, WellFoundedInduction

-----------------------------------------------------------------------------
(* Least and greatest elements: the naturals are well founded. *)
LEMMA LeastExists ==
  ASSUME NEW A \in SUBSET Nat, A # {}
  PROVE  \E v \in A : \A w \in A : v <= w
<1> DEFINE R == {ij \in Nat \X Nat : ij[1] < ij[2]}
<1>1. IsWellFoundedOn(R, Nat)
  BY NatLessThanWellFounded DEF OpToRel
<1>2. PICK v \in A : \A w \in A : ~(<<w, v>> \in R)
  BY <1>1, WFMin
<1>3. \A w \in A : ~(w < v)
  BY <1>2
<1>4. QED BY <1>3

LEMMA GreatestExists ==
  ASSUME NEW n \in Nat, NEW A \in SUBSET (0 .. n), A # {}
  PROVE  \E v \in A : \A w \in A : w <= v
<1> DEFINE B == {n - w : w \in A}
<1>1. B \in SUBSET Nat /\ B # {}
  <2>1. \A w \in 0 .. n : n - w \in Nat
    OBVIOUS
  <2>2. QED BY <2>1
<1>2. PICK x \in B : \A y \in B : x <= y
  BY <1>1, LeastExists
<1>3. PICK v \in A : x = n - v
  OBVIOUS
<1>4. \A w \in A : n - w \in B
  OBVIOUS
<1> HIDE DEF B
<1>5. \A w \in A : n - v <= n - w
  BY <1>2, <1>3, <1>4
<1>6. QED BY <1>5

-----------------------------------------------------------------------------
(* Sort is a sort. *)

\* Counting positions.
LEMMA Counting ==
  ASSUME NEW s \in Seq(Hashes), NEW v \in Nat
  PROVE  /\ Smaller(s, v) \in Nat /\ NotGreater(s, v) \in Nat
         /\ NotGreater(s, v) <= Len(s)
         /\ \A w \in Nat : v < w => NotGreater(s, v) <= Smaller(s, w)
         /\ v \in {s[j] : j \in DOMAIN s} => Smaller(s, v) < NotGreater(s, v)
<1> DEFINE D == DOMAIN s
           Below(x) == {j \in D : s[j] < x}
           UpTo(x) == {j \in D : s[j] <= x}
<1>1. /\ D = 1 .. Len(s) /\ Len(s) \in Nat
      /\ IsFiniteSet(D) /\ Cardinality(D) = Len(s)
      /\ \A j \in D : s[j] \in Nat
  <2>1. Len(s) \in Nat /\ D = 1 .. Len(s) /\ \A j \in D : s[j] \in Hashes
    BY LenProperties, ElementOfSeq
  <2>2. IsFiniteSet(1 .. Len(s)) /\ Cardinality(1 .. Len(s)) = Len(s)
    BY <2>1, FS_Interval
  <2>3. QED BY <2>1, <2>2 DEF Hashes
<1> HIDE DEF D
<1>2. \A x \in Nat : /\ IsFiniteSet(Below(x)) /\ Cardinality(Below(x)) \in Nat
                     /\ IsFiniteSet(UpTo(x)) /\ Cardinality(UpTo(x)) \in Nat
                     /\ Cardinality(UpTo(x)) <= Len(s)
  <2> TAKE x \in Nat
  <2>1. Below(x) \subseteq D /\ UpTo(x) \subseteq D
    OBVIOUS
  <2>2. QED BY <1>1, <2>1, FS_Subset, FS_CardinalityType
<1>3. ASSUME NEW w \in Nat, v < w
      PROVE  Cardinality(UpTo(v)) <= Cardinality(Below(w))
  <2>1. UpTo(v) \subseteq Below(w)
    BY <1>1, <1>3
  <2>2. QED BY <1>2, <2>1, FS_Subset
<1>4. ASSUME NEW i \in D, v = s[i]
      PROVE  Cardinality(Below(v)) < Cardinality(UpTo(v))
  <2>1. i \notin Below(v) /\ Below(v) \cup {i} \subseteq UpTo(v)
    BY <1>1, <1>4
  <2>2. /\ IsFiniteSet(Below(v) \cup {i})
        /\ Cardinality(Below(v) \cup {i}) = Cardinality(Below(v)) + 1
    BY <1>2, <2>1, FS_AddElement
  <2>3. Cardinality(Below(v) \cup {i}) <= Cardinality(UpTo(v))
    BY <1>2, <2>1, FS_Subset
  <2>4. Cardinality(Below(v)) \in Nat /\ Cardinality(UpTo(v)) \in Nat
    BY <1>2
  <2> HIDE DEF Below, UpTo
  <2>5. QED BY <2>2, <2>3, <2>4
<1>5. /\ Smaller(s, v) = Cardinality(Below(v))
      /\ NotGreater(s, v) = Cardinality(UpTo(v))
      /\ \A w \in Nat : Smaller(s, w) = Cardinality(Below(w))
  BY DEF Smaller, NotGreater, D
<1> HIDE DEF Below, UpTo
<1>6. v \in {s[j] : j \in DOMAIN s} => \E i \in D : v = s[i]
  BY DEF D
<1>7. QED BY <1>2, <1>3, <1>4, <1>5, <1>6

\* Every position has a value, and only one.
LEMMA RankExists ==
  ASSUME NEW s \in Seq(Hashes), NEW i \in DOMAIN s
  PROVE  \E v \in {s[j] : j \in DOMAIN s} :
           Smaller(s, v) < i /\ i <= NotGreater(s, v)
<1> DEFINE V == {s[j] : j \in DOMAIN s}
           G == {v \in V : i <= NotGreater(s, v)}
<1>1. /\ Len(s) \in Nat /\ DOMAIN s = 1 .. Len(s)
      /\ MaxHash - 1 \in Nat /\ V \subseteq 0 .. MaxHash - 1 /\ s[i] \in V
  <2>1. Len(s) \in Nat /\ DOMAIN s = 1 .. Len(s) /\ \A j \in DOMAIN s : s[j] \in Hashes
    BY LenProperties, ElementOfSeq
  <2>2. QED BY <2>1, RingAssumption DEF Hashes
<1>2. G # {}
  <2>1. PICK top \in V : \A w \in V : w <= top
    <3> HIDE DEF V
    <3>1. QED BY <1>1, GreatestExists
  <2>2. {j \in DOMAIN s : s[j] <= top} = 1 .. Len(s)
    BY <1>1, <2>1
  <2>3. NotGreater(s, top) = Len(s)
    <3>1. Cardinality(1 .. Len(s)) = Len(s)
      <4>1. /\ 1 \in Int /\ Len(s) \in Int
            /\ 1 > Len(s) => Len(s) = 0
            /\ 1 <= Len(s) => Len(s) - 1 + 1 = Len(s)
        BY <1>1
      <4> HIDE DEF V, G
      <4>2. Cardinality(1 .. Len(s)) = IF 1 > Len(s) THEN 0 ELSE Len(s) - 1 + 1
        BY <4>1, FS_Interval
      <4>3. QED BY <4>1, <4>2
    <3>2. NotGreater(s, top) = Cardinality({j \in DOMAIN s : s[j] <= top})
      BY DEF NotGreater
    <3>3. QED BY <2>2, <3>1, <3>2
  <2>4. top \in G
    BY <1>1, <2>1, <2>3
  <2>5. QED BY <2>4
<1>3. G \subseteq Nat
  BY <1>1
<1>4. PICK v \in G : \A w \in G : v <= w
  BY <1>2, <1>3, LeastExists
<1>5. Smaller(s, v) < i
  <2> DEFINE B == {w \in V : w < v}
  <2>1. CASE B = {}
    <3>1. {j \in DOMAIN s : s[j] < v} = {}
      BY <2>1
    <3>2. Smaller(s, v) = 0
      BY <3>1, FS_EmptySet DEF Smaller
    <3>3. QED BY <1>1, <3>2
  <2>2. CASE B # {}
    <3>1. B \subseteq 0 .. MaxHash - 1
      BY <1>1
    <3> HIDE DEF B
    <3>2. PICK w \in B : \A x \in B : x <= w
      BY <1>1, <2>2, <3>1, GreatestExists
    <3>3. w \in V /\ w < v /\ w \in Nat /\ v \in Nat
      BY <1>1, <3>2 DEF B
    <3>4. \A j \in DOMAIN s : s[j] < v <=> s[j] <= w
      <4> TAKE j \in DOMAIN s
      <4>1. s[j] \in V /\ s[j] \in Nat
        BY <1>1
      <4>2. s[j] < v => s[j] <= w
        <5> SUFFICES ASSUME s[j] < v  PROVE s[j] <= w
          OBVIOUS
        <5>1. s[j] \in B
          BY <4>1 DEF B
        <5>2. QED BY <3>2, <5>1
      <4>3. s[j] <= w => s[j] < v
        <5> HIDE DEF V
        <5>1. QED BY <3>3, <4>1
      <4>4. QED BY <4>2, <4>3
    <3>5. Smaller(s, v) = NotGreater(s, w)
      BY <3>4 DEF Smaller, NotGreater
    <3>6. w \notin G
      BY <1>4, <3>3
    <3>7. ~(i <= NotGreater(s, w))
      BY <3>3, <3>6
    <3>8. NotGreater(s, w) \in Nat
      BY <3>3, Counting
    <3>9. QED BY <1>1, <3>5, <3>7, <3>8
  <2>3. QED BY <2>1, <2>2
<1>6. QED BY <1>4, <1>5

LEMMA SortSorts ==
  ASSUME NEW s \in Seq(Hashes)
  PROVE  /\ Sort(s) \in Seq(Hashes) /\ DOMAIN Sort(s) = DOMAIN s
         /\ \A i, j \in DOMAIN s : i <= j => Sort(s)[i] <= Sort(s)[j]
         /\ \A i \in DOMAIN s : \E j \in DOMAIN s : Sort(s)[i] = s[j]
         /\ \A j \in DOMAIN s : \E i \in DOMAIN s : Sort(s)[i] = s[j]
<1> DEFINE V == {s[j] : j \in DOMAIN s}
           Rank(i, v) == Smaller(s, v) < i /\ i <= NotGreater(s, v)
<1>1. /\ Len(s) \in Nat /\ DOMAIN s = 1 .. Len(s) /\ V \subseteq Hashes
      /\ V \subseteq Nat
  <2>1. Len(s) \in Nat /\ DOMAIN s = 1 .. Len(s) /\ \A j \in DOMAIN s : s[j] \in Hashes
    BY LenProperties, ElementOfSeq
  <2>2. QED BY <2>1 DEF Hashes
<1>2. \A i \in DOMAIN s : Sort(s)[i] \in V /\ Rank(i, Sort(s)[i])
  <2> TAKE i \in DOMAIN s
  <2>1. \E v \in V : Rank(i, v)
    BY RankExists
  <2>2. Sort(s)[i] = CHOOSE v \in V : Rank(i, v)
    BY DEF Sort
  <2> HIDE DEF V, Rank
  <2>3. QED BY <2>1, <2>2
<1>3. \A v, w \in V : \A i, j \in DOMAIN s :
        i <= j /\ Rank(i, v) /\ Rank(j, w) => v <= w
  <2> SUFFICES ASSUME NEW v \in V, NEW w \in V, NEW i \in DOMAIN s, NEW j \in DOMAIN s,
                      i <= j, Rank(i, v), Rank(j, w), ~(v <= w)
               PROVE  FALSE
    OBVIOUS
  <2>1. v \in Nat /\ w \in Nat /\ w < v
    BY <1>1
  <2>2. /\ NotGreater(s, w) <= Smaller(s, v)
        /\ NotGreater(s, w) \in Nat /\ Smaller(s, v) \in Nat
    BY <2>1, Counting
  <2>3. QED BY <1>1, <2>2
<1>4. \A v \in V : \E i \in DOMAIN s : Rank(i, v)
  <2> TAKE v \in V
  <2>1. /\ Smaller(s, v) \in Nat /\ NotGreater(s, v) \in Nat
        /\ Smaller(s, v) < NotGreater(s, v) /\ NotGreater(s, v) <= Len(s)
    BY <1>1, Counting
  <2>2. Smaller(s, v) + 1 \in DOMAIN s /\ Rank(Smaller(s, v) + 1, v)
    BY <1>1, <2>1
  <2>3. QED BY <2>2
<1>5. ASSUME NEW j \in DOMAIN s
      PROVE  \E i \in DOMAIN s : Sort(s)[i] = s[j]
  <2>1. PICK i \in DOMAIN s : Rank(i, s[j])
    BY <1>4
  <2>2. Sort(s)[i] <= s[j] /\ s[j] <= Sort(s)[i]
    BY <1>1, <1>2, <1>3, <2>1
  <2>3. Sort(s)[i] \in Nat /\ s[j] \in Nat
    BY <1>1, <1>2
  <2>4. QED BY <2>2, <2>3
<1>6. Sort(s) \in Seq(Hashes) /\ DOMAIN Sort(s) = DOMAIN s
  <2>1. Sort(s) \in [1 .. Len(s) -> Hashes]
    BY <1>1, <1>2 DEF Sort
  <2>2. QED BY <1>1, <2>1, SeqDef
<1>7. \A i, j \in DOMAIN s : i <= j => Sort(s)[i] <= Sort(s)[j]
  BY <1>2, <1>3
<1>8. \A i \in DOMAIN s : \E j \in DOMAIN s : Sort(s)[i] = s[j]
  BY <1>2
<1>9. QED BY <1>5, <1>6, <1>7, <1>8

-----------------------------------------------------------------------------
(* The inductive invariant. *)
InUse(p) == \E m \in DOMAIN keys : keys[m] = p

HasPoint(n, p) == \E i \in 1 .. Replicas : hash[<<i, n>>] = p

\* No point of an added node is missing.
PointsUsed == \A l \in DOMAIN added : \A p \in Hashes : HasPoint(added[l], p) => InUse(p)

\* Each point leads to the last node added that has it.
PointsOwned ==
  \A p \in Hashes : InUse(p) =>
    \E j \in DOMAIN added : Owns(j, p) /\ hashMap[p] = added[j]

RingInv == TypeOK /\ PointsUsed /\ PointsOwned

LEMMA HashOfPoint ==
  ASSUME TypeOK, NEW n \in Nodes, NEW i \in 1 .. Replicas
  PROVE  hash[<<i, n>>] \in Hashes
<1>1. <<i, n>> \in Names
  BY DEF Names
<1>2. QED BY <1>1 DEF TypeOK

\* Exactly the points of the new node come into use.
LEMMA AddPoints ==
  ASSUME TypeOK, NEW n \in Nodes, Add(n)
  PROVE  /\ keys' \in Seq(Hashes) /\ Sorted'
         /\ \A p : InUse(p)' <=> InUse(p) \/ HasPoint(n, p)
<1> DEFINE s == keys \o PointsOf(n)
<1>1. /\ Replicas \in Nat /\ PointsOf(n) \in Seq(Hashes)
      /\ Len(PointsOf(n)) = Replicas /\ DOMAIN PointsOf(n) = 1 .. Replicas
      /\ \A i \in 1 .. Replicas : PointsOf(n)[i] = hash[<<i, n>>]
  <2>1. PointsOf(n) \in [1 .. Replicas -> Hashes]
    BY HashOfPoint DEF PointsOf
  <2>2. Replicas \in Nat
    BY RingAssumption
  <2>3. PointsOf(n) \in Seq(Hashes)
    BY <2>1, <2>2, SeqDef
  <2>4. DOMAIN PointsOf(n) = 1 .. Len(PointsOf(n)) /\ Len(PointsOf(n)) \in Nat
    BY <2>3, LenProperties
  <2>5. Len(PointsOf(n)) = Replicas
    BY <2>1, <2>2, <2>4
  <2>6. QED BY <2>1, <2>2, <2>3, <2>5 DEF PointsOf
<1>2. /\ keys \in Seq(Hashes) /\ Len(keys) \in Nat /\ DOMAIN keys = 1 .. Len(keys)
  <2>1. keys \in Seq(Hashes)
    BY DEF TypeOK
  <2>2. QED BY <2>1, LenProperties
<1>3. /\ s \in Seq(Hashes) /\ DOMAIN s = 1 .. Len(keys) + Replicas
      /\ \A m \in DOMAIN s :
           s[m] = IF m <= Len(keys) THEN keys[m] ELSE hash[<<m - Len(keys), n>>]
  <2>1. /\ s \in Seq(Hashes) /\ Len(s) = Len(keys) + Replicas
        /\ \A m \in 1 .. Len(keys) + Replicas :
             s[m] = IF m <= Len(keys) THEN keys[m] ELSE PointsOf(n)[m - Len(keys)]
    BY <1>1, <1>2, ConcatProperties
  <2>2. DOMAIN s = 1 .. Len(s)
    BY <2>1, LenProperties
  <2> HIDE DEF s
  <2>3. \A m \in 1 .. Len(keys) + Replicas :
          ~(m <= Len(keys)) => m - Len(keys) \in 1 .. Replicas
    BY <1>1, <1>2
  <2>4. QED BY <1>1, <2>1, <2>2, <2>3
<1>4. keys' = Sort(s)
  BY DEF Add
<1> HIDE DEF s
<1>5. keys' \in Seq(Hashes) /\ DOMAIN keys' = DOMAIN s /\ Sorted'
  BY <1>3, <1>4, SortSorts DEF Sorted
<1>6. ASSUME NEW p
      PROVE  (\E m \in DOMAIN s : s[m] = p) <=> InUse(p) \/ HasPoint(n, p)
  <2>1. ASSUME NEW m \in DOMAIN s, s[m] = p
        PROVE  InUse(p) \/ HasPoint(n, p)
    <3>1. CASE m <= Len(keys)
      <4>1. m \in DOMAIN keys
        BY <1>1, <1>2, <1>3, <3>1
      <4>2. QED BY <1>3, <2>1, <3>1, <4>1 DEF InUse
    <3>2. CASE ~(m <= Len(keys))
      <4>1. m - Len(keys) \in 1 .. Replicas
        BY <1>1, <1>2, <1>3, <3>2
      <4>2. QED BY <1>3, <2>1, <3>2, <4>1 DEF HasPoint
    <3>3. QED BY <3>1, <3>2
  <2>2. ASSUME NEW m \in DOMAIN keys, keys[m] = p
        PROVE  \E l \in DOMAIN s : s[l] = p
    <3>1. m \in DOMAIN s /\ m <= Len(keys)
      BY <1>1, <1>2, <1>3
    <3>2. QED BY <1>3, <2>2, <3>1
  <2>3. ASSUME NEW i \in 1 .. Replicas, hash[<<i, n>>] = p
        PROVE  \E l \in DOMAIN s : s[l] = p
    <3>1. /\ Len(keys) + i \in DOMAIN s /\ ~(Len(keys) + i <= Len(keys))
          /\ Len(keys) + i - Len(keys) = i
      BY <1>1, <1>2, <1>3
    <3>2. s[Len(keys) + i] = hash[<<i, n>>]
      BY <1>3, <3>1
    <3>3. QED BY <2>3, <3>1, <3>2
  <2>4. QED BY <2>1, <2>2, <2>3 DEF InUse, HasPoint
<1>7. ASSUME NEW p
      PROVE  InUse(p)' <=> \E m \in DOMAIN s : s[m] = p
  <2>1. /\ \A i \in DOMAIN s : \E j \in DOMAIN s : keys'[i] = s[j]
        /\ \A j \in DOMAIN s : \E i \in DOMAIN s : keys'[i] = s[j]
    BY <1>3, <1>4, SortSorts
  <2>2. QED BY <1>5, <2>1 DEF InUse
<1>8. QED BY <1>5, <1>6, <1>7

LEMMA RingInvInit == Init => RingInv
<1> SUFFICES ASSUME Init  PROVE RingInv
  OBVIOUS
<1>1. TypeOK
  <2>1. <<>> \in Seq(Hashes) /\ <<>> \in Seq(Nodes) /\ DOMAIN <<>> = {}
    BY EmptySeq
  <2>2. QED BY <2>1 DEF Init, TypeOK, Sorted
<1>2. PointsUsed /\ PointsOwned
  BY DEF Init, PointsUsed, PointsOwned, InUse
<1>3. QED BY <1>1, <1>2 DEF RingInv

LEMMA RingInvNext == RingInv /\ [Next]_vars => RingInv'
<1> SUFFICES ASSUME RingInv, [Next]_vars  PROVE RingInv'
  OBVIOUS
<1>1. CASE UNCHANGED vars
  BY <1>1 DEF RingInv, vars, TypeOK, Sorted, PointsUsed, PointsOwned, InUse, HasPoint, Owns
<1>2. ASSUME NEW n \in Nodes, Add(n)
      PROVE  RingInv'
  <2> USE <1>2
  <2>1. TypeOK
    BY DEF RingInv
  <2>2. /\ keys' \in Seq(Hashes) /\ Sorted'
        /\ \A p : InUse(p)' <=> InUse(p) \/ HasPoint(n, p)
    BY <2>1, AddPoints
  <2>3. /\ hash' = hash /\ hash \in [Names -> Hashes]
        /\ hashMap' = [p \in Hashes |-> IF HasPoint(n, p) THEN n ELSE hashMap[p]]
        /\ hashMap \in [Hashes -> Nodes \cup {NoNode}]
    BY <2>1 DEF Add, TypeOK, HasPoint, PointsOf
  <2>4. /\ added \in Seq(Nodes) /\ added' \in Seq(Nodes)
        /\ Len(added) \in Nat /\ Len(added') = Len(added) + 1
        /\ DOMAIN added = 1 .. Len(added) /\ DOMAIN added' = 1 .. Len(added) + 1
        /\ \A l \in 1 .. Len(added) : added'[l] = added[l]
        /\ added'[Len(added) + 1] = n
    <3>1. added \in Seq(Nodes) /\ added' = Append(added, n)
      BY <2>1 DEF TypeOK, Add
    <3>2. added' \in Seq(Nodes)
      BY <3>1, AppendProperties
    <3>3. /\ Len(added') = Len(added) + 1
          /\ \A l \in 1 .. Len(added) : added'[l] = added[l]
          /\ added'[Len(added) + 1] = n
      BY <3>1, AppendProperties
    <3>4. QED BY <3>1, <3>2, <3>3, LenProperties
  <2>5. \A m, p : HasPoint(m, p)' <=> HasPoint(m, p)
    BY <2>3 DEF HasPoint
  <2>6. PointsUsed'
    BY <2>2, <2>4, <2>5 DEF PointsUsed, RingInv
  <2>7. ASSUME NEW p \in Hashes, InUse(p)'
        PROVE  \E j \in DOMAIN added' : Owns(j, p)' /\ hashMap'[p] = added'[j]
    <3>1. CASE HasPoint(n, p)
      <4>0. PICK j : j = Len(added) + 1
        OBVIOUS
      <4>1. /\ j \in DOMAIN added' /\ added'[j] = n
            /\ \A l \in j + 1 .. Len(added') : FALSE
        BY <2>4, <4>0
      <4>2. \E i \in 1 .. Replicas : hash'[<<i, added'[j]>>] = p
        BY <2>3, <3>1, <4>1 DEF HasPoint
      <4>3. Owns(j, p)'
        BY <4>1, <4>2 DEF Owns
      <4>4. hashMap'[p] = added'[j]
        BY <2>3, <3>1, <4>1
      <4>5. QED BY <4>1, <4>3, <4>4
    <3>2. CASE ~HasPoint(n, p)
      <4>1. PICK j \in DOMAIN added : Owns(j, p) /\ hashMap[p] = added[j]
        BY <2>2, <2>7, <3>2 DEF PointsOwned, RingInv
      <4>2. j \in 1 .. Len(added) /\ j \in DOMAIN added' /\ added'[j] = added[j]
        BY <2>4, <4>1
      <4>3. \E i \in 1 .. Replicas : hash'[<<i, added'[j]>>] = p
        BY <2>3, <4>1, <4>2 DEF Owns
      <4>4. ASSUME NEW l \in j + 1 .. Len(added'), NEW i \in 1 .. Replicas
            PROVE  hash'[<<i, added'[l]>>] # p
        <5>1. CASE l = Len(added) + 1
          BY <2>3, <2>4, <3>2, <5>1 DEF HasPoint
        <5>2. CASE l # Len(added) + 1
          <6>1. l \in j + 1 .. Len(added) /\ l \in 1 .. Len(added)
            BY <2>4, <4>2, <5>2
          <6>2. QED BY <2>3, <2>4, <4>1, <6>1 DEF Owns
        <5>3. QED BY <5>1, <5>2
      <4>5. Owns(j, p)'
        BY <4>3, <4>4 DEF Owns
      <4>6. hashMap'[p] = added'[j]
        BY <2>3, <3>2, <4>1, <4>2
      <4>7. QED BY <4>2, <4>5, <4>6
    <3>3. QED BY <3>1, <3>2
  <2>8. PointsOwned'
    <3>1. Hashes' = Hashes
      BY DEF Hashes
    <3>2. QED BY <2>7 DEF PointsOwned
  <2>9. ASSUME NEW i \in DOMAIN keys'
        PROVE  hashMap'[keys'[i]] # NoNode
    <3>1. keys'[i] \in Hashes
      <4>1. i \in 1 .. Len(keys')
        BY <2>2, LenProperties
      <4>2. QED BY <2>2, <4>1, ElementOfSeq
    <3>2. PICK j \in DOMAIN added' : hashMap'[keys'[i]] = added'[j]
      <4>1. \A p \in Hashes : (\E m \in DOMAIN keys' : keys'[m] = p) =>
              \E j \in DOMAIN added' : hashMap'[p] = added'[j]
        BY <2>7 DEF InUse
      <4>2. QED BY <3>1, <4>1
    <3>3. added'[j] \in Nodes
      BY <2>4, <3>2, ElementOfSeq
    <3>4. QED BY <3>2, <3>3, RingAssumption
  <2>10. TypeOK'
    <3>1. hashMap' \in [Hashes -> Nodes \cup {NoNode}]
      BY <2>3
    <3>2. QED BY <2>2, <2>3, <2>4, <2>9, <3>1 DEF TypeOK
  <2>11. QED BY <2>6, <2>8, <2>10 DEF RingInv
<1>3. QED BY <1>1, <1>2 DEF Next

LEMMA RingInvariant == Spec => []RingInv
<1>1. QED BY RingInvInit, RingInvNext, PTL DEF Spec

\* Get goes to the nearest point in use.
LEMMA GetFinds ==
  ASSUME TypeOK, NEW k \in Keys, keys # <<>>
  PROVE  \E p \in Hashes :
           /\ InUse(p) /\ Get(k) = hashMap[p]
           /\ \A q \in Hashes : InUse(q) => Distance(hash[k], p) <= Distance(hash[k], q)
<1> DEFINE h == hash[k]
           Low(i) == /\ i <= Len(keys) => keys[i] >= h
                     /\ \A j \in 1 .. i - 1 : keys[j] < h
<1>1. /\ h \in Hashes /\ Hashes \subseteq Nat /\ MaxHash \in Nat
      /\ \A p \in Hashes : p < MaxHash
  <2>1. k \in Names
    BY DEF Names
  <2>2. QED BY <2>1, RingAssumption DEF TypeOK, Hashes
<1>2. /\ Len(keys) \in Nat \ {0} /\ DOMAIN keys = 1 .. Len(keys)
      /\ \A i \in 1 .. Len(keys) :
           keys[i] \in Hashes /\ keys[i] \in Nat /\ keys[i] < MaxHash
  <2>1. keys \in Seq(Hashes)
    BY DEF TypeOK
  <2>2. Len(keys) \in Nat \ {0} /\ DOMAIN keys = 1 .. Len(keys)
    BY <2>1, EmptySeq, LenProperties
  <2>3. \A i \in 1 .. Len(keys) : keys[i] \in Hashes
    BY <2>1, ElementOfSeq
  <2>4. QED BY <1>1, <2>2, <2>3
<1>3. \A i, j \in 1 .. Len(keys) : i <= j => keys[i] <= keys[j]
  BY <1>2 DEF TypeOK, Sorted
<1> HIDE DEF h
<1>4. \E i \in 1 .. Len(keys) + 1 : Low(i)
  <2> DEFINE A == {i \in 1 .. Len(keys) : keys[i] >= h}
  <2>1. CASE A = {}
    <3>1. \A j \in 1 .. Len(keys) : keys[j] < h
      <4>1. h \in Nat
        BY <1>1
      <4>2. \A j \in 1 .. Len(keys) : ~(keys[j] >= h) /\ keys[j] \in Nat
        BY <1>2, <2>1
      <4>3. QED BY <4>1, <4>2
    <3>2. Low(Len(keys) + 1)
      BY <1>2, <3>1
    <3>3. Len(keys) + 1 \in 1 .. Len(keys) + 1
      BY <1>2
    <3>4. QED BY <3>2, <3>3
  <2>2. CASE A # {}
    <3>1. A \in SUBSET Nat
      OBVIOUS
    <3>2. PICK i \in A : \A j \in A : i <= j
      <4> HIDE DEF A
      <4>1. QED BY <2>2, <3>1, LeastExists
    <3>3. \A j \in 1 .. i - 1 : keys[j] < h
      <4> TAKE j \in 1 .. i - 1
      <4>1. j \in 1 .. Len(keys) /\ ~(i <= j)
        BY <1>2
      <4>2. h \in Nat /\ keys[j] \in Nat /\ j \notin A
        BY <1>1, <1>2, <3>2, <4>1
      <4>3. ~(keys[j] >= h)
        BY <4>1, <4>2
      <4>4. QED BY <4>2, <4>3
    <3>4. QED BY <1>2, <3>2, <3>3
  <2>3. QED BY <2>1, <2>2
<1>5. Search(h) \in 1 .. Len(keys) + 1 /\ Low(Search(h))
  <2>1. Search(h) = CHOOSE i \in 1 .. Len(keys) + 1 : Low(i)
    BY DEF Search
  <2> HIDE DEF Low
  <2>2. QED BY <1>4, <2>1
<1>6. PICK i : i = Search(h)
  OBVIOUS
<1>7. i \in 1 .. Len(keys) + 1 /\ Low(i)
  BY <1>5, <1>6
<1> DEFINE m == Wrap(i)
<1>8. m \in 1 .. Len(keys)
  BY <1>2, <1>7 DEF Wrap
<1>9. Get(k) = hashMap[keys[m]]
  BY <1>6 DEF Get, IsEmpty, h
<1>10. ASSUME NEW j \in 1 .. Len(keys)
       PROVE  Distance(h, keys[m]) <= Distance(h, keys[j])
  <2>1. h \in Nat /\ h < MaxHash /\ keys[j] \in Nat /\ keys[j] < MaxHash
    BY <1>1, <1>2
  <2>2. CASE i = Len(keys) + 1
    <3>1. m = 1 /\ keys[1] \in Nat /\ keys[1] < MaxHash
      <4>1. m = 1
        BY <2>2 DEF Wrap
      <4>2. 1 \in 1 .. Len(keys)
        BY <1>2
      <4>3. QED BY <1>2, <4>1, <4>2
    <3>2. keys[1] < h /\ keys[j] < h /\ keys[1] <= keys[j]
      BY <1>2, <1>3, <1>7, <2>2
    <3> HIDE DEF m
    <3>3. QED BY <1>1, <2>1, <3>1, <3>2 DEF Distance
  <2>3. CASE i # Len(keys) + 1
    <3>1. m = i /\ i \in 1 .. Len(keys) /\ keys[i] >= h
      BY <1>2, <1>7, <2>3 DEF Wrap
    <3>2. keys[i] \in Nat /\ keys[i] < MaxHash
      BY <1>1, <1>2, <3>1
    <3>3. keys[j] < h \/ keys[i] <= keys[j]
      BY <1>2, <1>3, <1>7, <3>1
    <3> HIDE DEF m
    <3>4. QED BY <1>1, <2>1, <3>1, <3>2, <3>3 DEF Distance
  <2>4. QED BY <2>2, <2>3
<1> HIDE DEF m
<1>11. QED BY <1>2, <1>8, <1>9, <1>10 DEF InUse, h

\* With a node on the ring, every key is found at the nearest point.
KeysFound ==
  \A k \in Keys : added # <<>> =>
    \E p \in Hashes :
      /\ InUse(p) /\ Get(k) = hashMap[p]
      /\ \A q \in Hashes : InUse(q) => Distance(hash[k], p) <= Distance(hash[k], q)

\* Somebody has been added, and it has points.
LEMMA RingIsUsed ==
  ASSUME RingInv
  PROVE  added # <<>> <=> keys # <<>>
<1>1. /\ added \in Seq(Nodes) /\ keys \in Seq(Hashes) /\ 1 \in 1 .. Replicas
  BY RingAssumption DEF RingInv, TypeOK
<1>2. ASSUME added # <<>>
      PROVE  keys # <<>>
  <2>1. 1 \in DOMAIN added /\ added[1] \in Nodes
    BY <1>1, <1>2, EmptySeq, LenProperties, ElementOfSeq
  <2>2. HasPoint(added[1], hash[<<1, added[1]>>]) /\ hash[<<1, added[1]>>] \in Hashes
    BY <1>1, <2>1, HashOfPoint DEF HasPoint, RingInv
  <2>3. PICK m \in DOMAIN keys : TRUE
    BY <2>1, <2>2 DEF RingInv, PointsUsed, InUse
  <2>4. QED BY <2>3
<1>3. ASSUME keys # <<>>
      PROVE  added # <<>>
  <2>1. 1 \in DOMAIN keys /\ keys[1] \in Hashes
    BY <1>1, <1>3, EmptySeq, LenProperties, ElementOfSeq
  <2>2. PICK j \in DOMAIN added : TRUE
    BY <2>1 DEF RingInv, PointsOwned, InUse
  <2>3. QED BY <2>2
<1>4. QED BY <1>2, <1>3

-----------------------------------------------------------------------------
\* The ring is well typed, its points are sorted and each has a node
\* (consistenthash.go:17-19).
THEOREM RingTypeCorrect == Spec => []TypeOK
<1>1. RingInv => TypeOK
  BY DEF RingInv
<1>2. QED BY <1>1, RingInvariant, PTL

\* Get finds the owner of the nearest point, whatever the hash function and the order
\* in which the nodes were added (consistenthash.go:42-71).
THEOREM NearestFound == Spec => []GetIsNearest
<1>1. RingInv => GetIsNearest
  <2> SUFFICES ASSUME RingInv, NEW k \in Keys, added # <<>>
               PROVE  \E j \in DOMAIN added, p \in Hashes :
                        /\ Owns(j, p) /\ Get(k) = added[j]
                        /\ \A l \in DOMAIN added : \A i \in 1 .. Replicas :
                             Distance(hash[k], p) <= Distance(hash[k], hash[<<i, added[l]>>])
    BY DEF GetIsNearest
  <2>1. TypeOK
    BY DEF RingInv
  <2>2. PICK p \in Hashes :
           /\ InUse(p) /\ Get(k) = hashMap[p]
           /\ \A q \in Hashes : InUse(q) => Distance(hash[k], p) <= Distance(hash[k], q)
    BY <2>1, RingIsUsed, GetFinds
  <2>3. PICK j \in DOMAIN added : Owns(j, p) /\ hashMap[p] = added[j]
    BY <2>2 DEF RingInv, PointsOwned
  <2>4. ASSUME NEW l \in DOMAIN added, NEW i \in 1 .. Replicas
        PROVE  InUse(hash[<<i, added[l]>>]) /\ hash[<<i, added[l]>>] \in Hashes
    <3>1. added[l] \in Nodes
      BY <2>1, ElementOfSeq, LenProperties DEF TypeOK
    <3>2. HasPoint(added[l], hash[<<i, added[l]>>]) /\ hash[<<i, added[l]>>] \in Hashes
      BY <2>1, <3>1, HashOfPoint DEF HasPoint
    <3>3. QED BY <3>2 DEF RingInv, PointsUsed
  <2>5. QED BY <2>2, <2>3, <2>4
<1>2. QED BY <1>1, RingInvariant, PTL

\* A key moves only to the node just added, also where points coincide
\* (consistenthash.go:42-71, consistenthash_test.go:29-36).
THEOREM KeysMoveOnlyToAdded == Spec => MovesOnlyToAdded
<1>1. RingInv => KeysFound
  BY RingIsUsed, GetFinds DEF KeysFound, RingInv
<1>2. Spec => []KeysFound
  BY <1>1, RingInvariant, PTL
<1>3. ASSUME RingInv, KeysFound, KeysFound', NEW n \in Nodes, Add(n), NEW k \in Keys
      PROVE  Get(k)' \in {Get(k), added'[Len(added')]}
  <2>1. /\ \A p : InUse(p)' <=> InUse(p) \/ HasPoint(n, p)
        /\ hash' = hash /\ added' # <<>>
        /\ \A p \in Hashes : hashMap'[p] = IF HasPoint(n, p) THEN n ELSE hashMap[p]
        /\ added'[Len(added')] = n
    <3>1. \A p : InUse(p)' <=> InUse(p) \/ HasPoint(n, p)
      BY <1>3, AddPoints DEF RingInv
    <3>2. added' = Append(added, n) /\ added \in Seq(Nodes)
      BY <1>3 DEF Add, TypeOK, RingInv
    <3>3. /\ Len(added') = Len(added) + 1 /\ added'[Len(added) + 1] = n
          /\ added' # <<>>
      BY <3>2, AppendProperties
    <3>4. QED BY <1>3, <3>1, <3>2, <3>3 DEF Add, HasPoint, PointsOf
  <2>2. PICK p \in Hashes :
           /\ InUse(p)' /\ Get(k)' = hashMap'[p]
           /\ \A q \in Hashes : InUse(q)' => Distance(hash[k], p) <= Distance(hash[k], q)
    BY <1>3, <2>1 DEF KeysFound, Distance, Hashes
  <2>3. CASE HasPoint(n, p)
    BY <2>1, <2>2, <2>3
  <2>4. CASE ~HasPoint(n, p)
    <3>1. InUse(p) /\ hashMap'[p] = hashMap[p]
      BY <2>1, <2>2, <2>4
    <3>2. added # <<>>
      BY <1>3, <3>1, RingIsUsed DEF RingInv, InUse
    <3>3. PICK q \in Hashes :
             /\ InUse(q) /\ Get(k) = hashMap[q]
             /\ \A r \in Hashes : InUse(r) => Distance(hash[k], q) <= Distance(hash[k], r)
      BY <1>3, <3>2 DEF KeysFound
    <3>4. /\ Distance(hash[k], p) <= Distance(hash[k], q)
          /\ Distance(hash[k], q) <= Distance(hash[k], p)
      BY <2>1, <2>2, <3>1, <3>3
    <3>5. p = q
      <4>1. k \in Names
        BY DEF Names
      <4>2. hash[k] \in Hashes
        BY <1>3, <4>1 DEF RingInv, TypeOK
      <4>3. QED BY <3>4, <4>2, RingAssumption DEF Distance, Hashes
    <3>6. QED BY <2>2, <3>1, <3>3, <3>5
  <2>5. QED BY <2>3, <2>4
<1>4. RingInv /\ KeysFound /\ KeysFound' /\ [Next]_vars
        => [\A k \in Keys : Get(k)' \in {Get(k), added'[Len(added')]}]_vars
  BY <1>3 DEF Next
<1>5. QED BY <1>2, <1>4, RingInvariant, PTL DEF Spec, MovesOnlyToAdded
=============================================================================

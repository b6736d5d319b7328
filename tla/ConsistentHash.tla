--------------------------- MODULE ConsistentHash ---------------------------
(***************************************************************************)
(* The ring of groupcache: every node has some points on a ring of hashes, *)
(* and a key belongs to the node of the first point from its own hash on.  *)
(* The hash function is any function, so points may coincide.              *)
(***************************************************************************)
EXTENDS FiniteSets, Naturals, Sequences

CONSTANTS Nodes,     \* what is added
          Keys,      \* what is looked up
          NoNode,    \* the empty string
          Replicas,  \* points of a node
          MaxHash,   \* hashes are below it (2^32 in the code)
          MaxAdded   \* bound: calls of Add

ASSUME RingAssumption ==
  /\ Replicas \in Nat \ {0}
  /\ MaxHash \in Nat \ {0}
  /\ MaxAdded \in Nat
  /\ NoNode \notin Nodes

VARIABLES hash,     \* the hash of each replica of a node, and of each key
          keys,     \* Map.keys: the points in use, sorted
          hashMap,  \* Map.hashMap: the node at a point
          added     \* history: the nodes added so far, in order

vars == <<hash, keys, hashMap, added>>

Hashes == 0 .. MaxHash - 1
Names  == ((1 .. Replicas) \X Nodes) \cup Keys

Init ==
  /\ hash \in [Names -> Hashes]
  /\ keys = <<>>
  /\ hashMap = [p \in Hashes |-> NoNode]
  /\ added = <<>>

\* Fault: the new points stay at the end.
Unsorted(s) == s

\* sort.Ints: position i has the value with fewer than i smaller ones and at least i
\* that are not greater.
Smaller(s, v)    == Cardinality({j \in DOMAIN s : s[j] < v})
NotGreater(s, v) == Cardinality({j \in DOMAIN s : s[j] <= v})
Sort(s) == [i \in DOMAIN s |-> CHOOSE v \in {s[j] : j \in DOMAIN s} :
              Smaller(s, v) < i /\ i <= NotGreater(s, v)]

PointsOf(n) == [i \in 1 .. Replicas |-> hash[<<i, n>>]]

\* Add for one node; a call with several is one after the other, with nothing in
\* between that reads the ring.  At a point that is taken the new node replaces the old.
Add(n) ==
  /\ Len(added) < MaxAdded
  /\ keys' = Sort(keys \o PointsOf(n))
  /\ hashMap' = [p \in Hashes |->
       IF \E i \in 1 .. Replicas : PointsOf(n)[i] = p THEN n ELSE hashMap[p]]
  /\ added' = Append(added, n)
  /\ UNCHANGED hash

IsEmpty == keys = <<>>

\* Fault: the point at the hash itself is passed over.
SearchPast(h) == CHOOSE i \in 1 .. Len(keys) + 1 :
  /\ i <= Len(keys) => keys[i] > h
  /\ \A j \in 1 .. i - 1 : keys[j] <= h

\* sort.Search: the first index with a point not below the hash, or one past the last.
Search(h) == CHOOSE i \in 1 .. Len(keys) + 1 :
  /\ i <= Len(keys) => keys[i] >= h
  /\ \A j \in 1 .. i - 1 : keys[j] < h

\* Fault: the search ends one point early at the end of the ring.
WrapEarly(i) == IF i >= Len(keys) THEN 1 ELSE i + 1

\* Past the last point the ring begins again.
Wrap(i) == IF i = Len(keys) + 1 THEN 1 ELSE i

Get(k) == IF IsEmpty THEN NoNode ELSE hashMap[keys[Wrap(Search(hash[k]))]]

Next == \E n \in Nodes : Add(n)

Spec == Init /\ [][Next]_vars

-----------------------------------------------------------------------------
\* The points are sorted and each has a node.
Sorted == \A i, j \in DOMAIN keys : i <= j => keys[i] <= keys[j]

TypeOK ==
  /\ hash \in [Names -> Hashes]
  /\ keys \in Seq(Hashes)
  /\ hashMap \in [Hashes -> Nodes \cup {NoNode}]
  /\ added \in Seq(Nodes)
  /\ Sorted
  /\ \A i \in DOMAIN keys : hashMap[keys[i]] # NoNode

\* The way on the ring from a hash to a point.
Distance(h, p) == IF p >= h THEN p - h ELSE p + MaxHash - h

\* Node added[j] has point p, and no node added later has.
Owns(j, p) ==
  /\ \E i \in 1 .. Replicas : hash[<<i, added[j]>>] = p
  /\ \A l \in j + 1 .. Len(added) : \A i \in 1 .. Replicas : hash[<<i, added[l]>>] # p

\* Get finds the owner of the nearest of all points, across the end of the ring too, in
\* whatever order they were added and whichever coincide (consistenthash.go:42-71).
GetIsNearest ==
  \A k \in Keys : added # <<>> =>
    \E j \in DOMAIN added, p \in Hashes :
      /\ Owns(j, p) /\ Get(k) = added[j]
      /\ \A l \in DOMAIN added : \A i \in 1 .. Replicas :
           Distance(hash[k], p) <= Distance(hash[k], hash[<<i, added[l]>>])

\* A new node takes keys over and none moves between the others: what a peer has
\* cached stays where it is looked up (consistenthash_test.go:29-36).
MovesOnlyToAdded ==
  [][\A k \in Keys : Get(k)' \in {Get(k), added'[Len(added')]}]_vars
=============================================================================

------------------------ MODULE FastHashtabRefinement ------------------------
(***************************************************************************)
(* The concurrent hash table implements HashtabSpec, for any number of     *)
(* threads, keys, buckets, chunks and pairs in a chunk: calls of get,      *)
(* get_and_insert, remove and get_and_remove are linearizable.  EffectsOK, *)
(* proved beside HashtabInv, says what a call has to do with its effect    *)
(* while a removal has its last pair twice or cut off.  Every step of the  *)
(* code is one of seven outcomes for the call it belongs to; each outcome  *)
(* is an action of HashtabSpec, or a step that it does not see.            *)
(***************************************************************************)
EXTENDS FastHashtabProofs

-----------------------------------------------------------------------------
(* The map that the buckets stand for. *)

(* A bucket has a pair of key k with the value v. *)
HasPair(k, v) ==
    \E i \in 0..size[BucketIdx[k]] - 1 :
        PairAt(BucketIdx[k], i).key = k /\ PairAt(BucketIdx[k], i).val = v

(* The map that the buckets stand for. *)
MapOK ==
    /\ Map \in [Keys -> Values \cup {None}]
    /\ \A k \in Keys, v \in Values : Map[k] = v <=> HasPair(k, v)

(* The last pair of a bucket whose pair is being removed. *)
LEMMA LastOne ==
    ASSUME HashtabInv, NEW b \in Buckets, NEW i \in 0..size[b] - 1, ~(i < Top(b))
    PROVE  \E t \in Threads : /\ In(t, {"release", "shrink"}, b) /\ loc[t].b = b
                              /\ i = size[b] - 1 /\ Top(b) = size[b] - 1
                              /\ loc[t].cur = size[b] /\ loc[t].i < size[b] /\ loc[t].i \in Nat
<1>1. TypesOK /\ \A t \in Threads : RemoveOK(t)
  BY DEF HashtabInv
<1>2. size[b] \in Nat
  BY <1>1, TopType
<1>3. PICK t \in Threads : In(t, {"release", "shrink"}, b)
  BY <1>2 DEF Top
<1>4. Top(b) = size[b] - 1
  BY <1>3 DEF Top
<1>5. loc[t].b = b /\ loc[t].cur = size[b] /\ loc[t].i < size[b] /\ loc[t].i \in Nat
  BY <1>1, <1>3 DEF RemoveOK, In, TypesOK, LocType
<1>6. QED
  BY <1>2, <1>3, <1>4, <1>5

(* Two pairs of a bucket with one key are the same. *)
LEMMA PairsAgree ==
    ASSUME HashtabInv, EffectsOK, NEW b \in Buckets
    PROVE  /\ \A i \in 0..size[b] - 1 : PairAt(b, i).key \in Keys => PairAt(b, i).val \in Values
           /\ \A i, j \in 0..size[b] - 1 :
                PairAt(b, i).key \in Keys /\ PairAt(b, i).key = PairAt(b, j).key =>
                  PairAt(b, i) = PairAt(b, j)
<1>1. /\ TypesOK /\ FilledOK /\ PairsUnique /\ \A t \in Threads : RemoveOK(t)
      /\ Top(b) \in Nat /\ size[b] \in Nat
  BY TopType DEF HashtabInv
<1>2. 1..calls \subseteq Values
  BY <1>1, HashtabAssumption DEF TypesOK, Values
<1>3. ASSUME NEW i \in 0..size[b] - 1, i < Top(b)
      PROVE  i \in 0..Top(b) - 1 /\ PairAt(b, i).val \in Values
  <2>1. i \in 0..Top(b) - 1
    BY <1>1, <1>3
  <2>2. QED
    BY <1>1, <1>2, <2>1 DEF FilledOK
<1>4. ASSUME NEW i \in 0..size[b] - 1, ~(i < Top(b)), PairAt(b, i).key \in Keys
      PROVE  /\ PairAt(b, i).val \in Values
             /\ \A j \in 0..size[b] - 1 :
                  PairAt(b, i).key = PairAt(b, j).key => PairAt(b, i) = PairAt(b, j)
  <2>1. PICK t \in Threads : /\ In(t, {"release", "shrink"}, b) /\ loc[t].b = b
                             /\ i = size[b] - 1 /\ Top(b) = size[b] - 1
                             /\ loc[t].cur = size[b] /\ loc[t].i < size[b] /\ loc[t].i \in Nat
    BY <1>4, LastOne
  <2> DEFINE p == PairAt(b, i)
  <2>2. pc[t] \in {"release", "shrink"} /\ p = PairAt(loc[t].b, loc[t].cur - 1) /\ p # NoPair
    <3>1. NoPair.key \notin Keys
      BY HashtabAssumption DEF NoPair
    <3>2. QED
      BY <1>4, <2>1, <3>1 DEF In
  <2>3. /\ p.val \in 1..calls
        /\ loc[t].i < loc[t].cur - 1 => p = PairAt(loc[t].b, loc[t].i)
        /\ loc[t].i = loc[t].cur - 1 => Matches(t, p.key)
    BY <2>2 DEF EffectsOK, EffectOK
  <2>4. ASSUME NEW j \in 0..size[b] - 1, p.key = PairAt(b, j).key PROVE p = PairAt(b, j)
    <3>1. CASE j = i
      BY <3>1
    <3>2. CASE j # i
      <4>1. j \in 0..Top(b) - 1
        BY <1>1, <2>1, <3>2
      <4>2. CASE loc[t].i < size[b] - 1
        <5>1. loc[t].i \in 0..Top(b) - 1 /\ p = PairAt(b, loc[t].i)
          BY <1>1, <2>1, <2>3, <4>2
        <5>2. j = loc[t].i
          BY <1>1, <2>4, <4>1, <5>1 DEF PairsUnique
        <5>3. QED
          BY <5>1, <5>2
      <4>3. CASE loc[t].i = size[b] - 1
        <5>1. Matches(t, PairAt(b, j).key)
          BY <2>1, <2>3, <2>4, <4>3
        <5>2. NoneBefore(t, size[b] - 1)
          BY <1>1, <2>1, <2>2, <4>3 DEF RemoveOK
        <5>3. QED
          BY <2>1, <4>1, <5>1, <5>2 DEF NoneBefore
      <4>4. QED
        BY <1>1, <2>1, <4>2, <4>3
    <3>3. QED
      BY <3>1, <3>2
  <2>5. QED
    BY <1>2, <2>3, <2>4
<1>5. ASSUME NEW i \in 0..size[b] - 1, NEW j \in 0..size[b] - 1,
             PairAt(b, i).key \in Keys, PairAt(b, i).key = PairAt(b, j).key
      PROVE  PairAt(b, i) = PairAt(b, j)
  <2>1. CASE i < Top(b) /\ j < Top(b)
    <3>1. i = j
      BY <1>1, <1>3, <1>5, <2>1 DEF PairsUnique
    <3>2. QED
      BY <3>1
  <2>2. CASE ~(i < Top(b))
    BY <1>4, <1>5, <2>2
  <2>3. CASE ~(j < Top(b))
    BY <1>4, <1>5, <2>3
  <2>4. QED
    BY <2>1, <2>2, <2>3
<1>6. QED
  BY <1>3, <1>4, <1>5

(* Map is the map that the buckets stand for: a key has one value, or none. *)
LEMMA MapIs == HashtabInv /\ EffectsOK => MapOK
<1> SUFFICES ASSUME HashtabInv, EffectsOK PROVE MapOK
  OBVIOUS
<1>1. ASSUME NEW k \in Keys
      PROVE  /\ Map[k] \in Values \cup {None}
             /\ \A v \in Values : Map[k] = v <=> HasPair(k, v)
  <2>1. PICK b : b = BucketIdx[k]
    OBVIOUS
  <2> DEFINE at == {i \in 0..size[b] - 1 : PairAt(b, i).key = k}
             first == CHOOSE i \in at : \A m \in at : i <= m
  <2>2. b \in Buckets
    BY <2>1, HashtabAssumption
  <2>3. Map[k] = IF at = {} THEN None ELSE PairAt(b, first).val
    BY <2>1 DEF Map
  <2>4. None \notin Values
    BY HashtabAssumption
  <2>5. CASE at = {}
    <3>1. Map[k] = None
      BY <2>3, <2>5
    <3>2. ASSUME NEW v PROVE ~HasPair(k, v)
      BY <2>1, <2>5 DEF HasPair
    <3>3. QED
      BY <2>4, <3>1, <3>2
  <2>6. CASE at # {}
    <3>1. at \in SUBSET Nat
      BY <1>1, TopType DEF HashtabInv
    <3>2. \E i \in at : \A m \in at : i <= m
      BY <2>6, <3>1, SmallestOf
    <3>3. first \in at
      BY <3>2
    <3> HIDE DEF first
    <3>4. Map[k] = PairAt(b, first).val /\ PairAt(b, first).key = k /\ first \in 0..size[b] - 1
      BY <2>3, <2>6, <3>3
    <3>5. PairAt(b, first).val \in Values
      BY <2>2, <3>4, PairsAgree
    <3>6. ASSUME NEW v \in Values PROVE Map[k] = v <=> HasPair(k, v)
      <4>1. Map[k] = v => HasPair(k, v)
        BY <2>1, <3>4 DEF HasPair
      <4>2. ASSUME HasPair(k, v) PROVE Map[k] = v
        <5>1. PICK i \in 0..size[b] - 1 : PairAt(b, i).key = k /\ PairAt(b, i).val = v
          BY <2>1, <4>2 DEF HasPair
        <5>2. PairAt(b, i) = PairAt(b, first)
          BY <2>2, <3>4, <5>1, PairsAgree
        <5>3. QED
          BY <3>4, <5>1, <5>2
      <4>3. QED
        BY <4>1, <4>2
    <3>7. QED
      BY <3>4, <3>5, <3>6
  <2>7. QED
    BY <2>5, <2>6
<1>2. DOMAIN Map = Keys /\ Map = [k \in Keys |-> Map[k]]
  BY DEF Map
<1>3. QED
  BY <1>1, <1>2 DEF MapOK

-----------------------------------------------------------------------------
(* What a step does to the published pairs. *)

(* The published pairs of bucket c stay what they are. *)
Unmoved(c) == size'[c] = size[c] /\ \A i \in 0..size[c] - 1 : PairAt(c, i)' = PairAt(c, i)

(* Where the i-th pair of a bucket is, the last one included when a removal
   has given its chunk away. *)
LEMMA AnySlot ==
    ASSUME TypesOK, ChunksApart, NEW b \in Buckets, NEW i \in 0..size[b] - 1
    PROVE  /\ i \in Nat /\ i \div NPairs \in 0..NChunks /\ i % NPairs \in Slots
           /\ i = (i \div NPairs) * NPairs + (i % NPairs)
           /\ Chain(b)[i \div NPairs] \in Chunks \cup {Null}
<1>1. size[b] \in 0..NChunks * NPairs
  BY DEF TypesOK
<1>2. PICK K : K = NChunks * NPairs
  OBVIOUS
<1>3. i \in Nat /\ K \in Nat /\ i < K
  BY <1>1, <1>2, Rows, HashtabAssumption
<1>4. PICK n, r : n = i \div NPairs /\ r = i % NPairs
  OBVIOUS
<1>5. n \in Nat /\ r \in Slots /\ r \in Nat /\ i = n * NPairs + r
  <2>1. NPairs \in Nat \ {0}
    BY HashtabAssumption
  <2>2. /\ i \div NPairs \in Nat /\ i % NPairs \in 0..NPairs - 1
        /\ i = (i \div NPairs) * NPairs + (i % NPairs)
    BY ONLY <1>3, <2>1, SlotOf
  <2>3. n \in Nat /\ r \in 0..NPairs - 1 /\ i = n * NPairs + r
    BY ONLY <1>4, <2>2
  <2>4. r \in Nat
    BY ONLY <2>1, <2>3
  <2>5. QED
    BY <2>3, <2>4 DEF Slots
<1>6. n <= NChunks
  <2> SUFFICES ASSUME NChunks < n PROVE FALSE
    BY <1>5, HashtabAssumption
  <2>1. K <= n * NPairs /\ n * NPairs \in Nat
    BY <1>2, <1>5, Rows, HashtabAssumption
  <2>2. PICK N : N = n * NPairs
    OBVIOUS
  <2>3. N \in Nat /\ K <= N /\ i = N + r
    BY <1>5, <2>1, <2>2
  <2>4. QED
    BY ONLY <1>3, <1>5, <2>3
<1>7. n \in 0..NChunks
  BY <1>5, <1>6, HashtabAssumption
<1>8. Chain(b)[n] \in Chunks \cup {Null}
  BY <1>7, Chains
<1>9. QED
  BY <1>3, <1>4, <1>5, <1>7, <1>8

(* A step that writes to no chunk and leaves the chain of a bucket alone. *)
LEMMA ChainUnmoved ==
    ASSUME NEW c \in Buckets, Chain(c)' = Chain(c), pairs' = pairs
    PROVE  \A i : PairAt(c, i)' = PairAt(c, i)
  BY DEF PairAt

(* A step that writes neither sizes nor links nor pairs moves no pair. *)
LEMMA QuietUnmoved ==
    ASSUME UNCHANGED <<size, head, next, pairs>>
    PROVE  \A c \in Buckets : Unmoved(c)
  BY ViewSame DEF Unmoved

(* The q-th pair of bucket b becomes P; the other published pairs stay. *)
Overwrites(b, q, P) ==
    \A d \in Buckets : \A i \in 0..size[d] - 1 :
        PairAt(d, i)' = IF d = b /\ i = q THEN P ELSE PairAt(d, i)

(* A step that writes the pair P to slot x of the m-th chunk of bucket b. *)
LEMMA SlotWritten ==
    ASSUME TypesOK, ChunksApart, NEW b \in Buckets, NEW m \in 0..NChunks, NEW x \in Slots,
           Chain(b)[m] \in Chunks, NEW P, UNCHANGED <<head, next>>,
           pairs' = [pairs EXCEPT ![Chain(b)[m]][x] = P], NEW q, q = m * NPairs + x
    PROVE  Overwrites(b, q, P)
<1> SUFFICES ASSUME NEW d \in Buckets, NEW i \in 0..size[d] - 1
             PROVE  PairAt(d, i)' = IF d = b /\ i = m * NPairs + x THEN P ELSE PairAt(d, i)
  BY DEF Overwrites
<1>1. PICK c : c = Chain(b)[m]
  OBVIOUS
<1>2. PICK n, r : n = i \div NPairs /\ r = i % NPairs
  OBVIOUS
<1>3. /\ n \in 0..NChunks /\ r \in Slots /\ i = n * NPairs + r
      /\ Chain(d)[n] \in Chunks \cup {Null} /\ Null \notin Chunks
  BY <1>2, AnySlot DEF Chunks, Null
<1>4. PICK e : e = Chain(d)[n]
  OBVIOUS
<1>5. PairAt(d, i) = (IF e = Null THEN NoPair ELSE pairs[e][r])
  BY <1>2, <1>4 DEF PairAt
<1>6. PairAt(d, i)' = (IF e = Null THEN NoPair ELSE pairs'[e][r])
  <2>1. Chain(d)' = Chain(d)
    BY DEF Chain
  <2>2. QED
    BY <1>2, <1>4, <2>1 DEF PairAt
<1>7. e = c => d = b /\ n = m
  <2> SUFFICES ASSUME e = c PROVE d = b /\ n = m
    OBVIOUS
  <2>1. d \in Places /\ b \in Places /\ Line(b)[m] # Null /\ Line(b)[m] = Line(d)[n]
    BY <1>1, <1>3, <1>4, ChainIsLine
  <2>2. QED
    BY <1>3, <2>1, Apart
<1>8. /\ pairs \in [Chunks -> [Slots -> [key : Keys \cup {None}, val : Values \cup {None}]]]
      /\ c \in Chunks /\ pairs' = [pairs EXCEPT ![c][x] = P]
  BY <1>1 DEF TypesOK
<1>9. CASE d = b /\ i = m * NPairs + x
  <2>1. m * NPairs + x = n * NPairs + r
    BY <1>3, <1>9
  <2>2. n = m /\ r = x
    <3>1. /\ (m * NPairs + x) \div NPairs = m /\ (m * NPairs + x) % NPairs = x
          /\ (n * NPairs + r) \div NPairs = n /\ (n * NPairs + r) % NPairs = r
      BY <1>3, SlotIs, HashtabAssumption DEF Slots
    <3>2. QED
      BY <2>1, <3>1
  <2>3. e = c /\ e # Null
    BY <1>1, <1>3, <1>4, <1>8, <1>9, <2>2
  <2>4. pairs'[c][x] = P
    BY <1>8
  <2>5. PairAt(d, i)' = P
    BY <1>6, <2>2, <2>3, <2>4
  <2>6. QED
    BY <1>9, <2>5
<1>10. CASE ~(d = b /\ i = m * NPairs + x)
  <2>1. e # Null => pairs'[e][r] = pairs[e][r]
    <3> SUFFICES ASSUME e # Null PROVE pairs'[e][r] = pairs[e][r]
      OBVIOUS
    <3>1. e \in Chunks
      BY <1>3, <1>4
    <3>2. CASE e = c
      <4>1. r # x
        BY <1>3, <1>7, <1>10, <3>2
      <4>2. QED
        BY <1>3, <1>8, <3>2, <4>1
    <3>3. CASE e # c
      BY <1>8, <3>1, <3>3
    <3>4. QED
      BY <3>2, <3>3
  <2>2. PairAt(d, i)' = PairAt(d, i)
    BY <1>5, <1>6, <2>1
  <2>3. QED
    BY <1>10, <2>2
<1>11. QED
  BY <1>9, <1>10

(* The chunk that an insertion chains holds no published pair. *)
LEMMA NewChunkUnmoved ==
    ASSUME HashtabInv, NEW t \in Threads, NewChunk(t)
    PROVE  \A c \in Buckets : Unmoved(c)
<1>1. PICK b \in Buckets, m \in 0..NChunks : ChunkReady(t, b, m)
  BY NewChunkReady
<1>2. /\ TypesOK /\ LocksOK /\ ChunksApart /\ FilledOK /\ \A u \in Threads : RemoveOK(u)
  BY DEF HashtabInv
<1>3. /\ UNCHANGED <<size, pairs>> /\ In(t, Reading, b)
      /\ \A d \in Buckets : d # b => Chain(d)' = Chain(d)
      /\ \A n \in 0..NChunks : n * NPairs < size[b] => Chain(b)'[n] = Chain(b)[n]
  BY <1>1 DEF ChunkReady, In, Reading, Searching
<1>4. ASSUME NEW d \in Buckets, d # b PROVE Unmoved(d)
  BY <1>3, <1>4, ChainUnmoved DEF Unmoved
<1>5. ASSUME NEW i \in 0..size[b] - 1 PROVE PairAt(b, i)' = PairAt(b, i)
  <2>1. i \in 0..Top(b) - 1
    BY <1>2, <1>3, TopIs
  <2>2. PICK n, r : n = i \div NPairs /\ r = i % NPairs
    OBVIOUS
  <2>3. n \in 0..NChunks /\ r \in Slots /\ i = n * NPairs + r
    BY <1>2, <2>1, <2>2, PairHasSlot
  <2>4. n * NPairs < size[b]
    <3>1. n * NPairs \in Nat /\ size[b] \in Nat
      BY <1>2, <2>3, Rows, TopType, HashtabAssumption
    <3>2. PICK N : N = n * NPairs
      OBVIOUS
    <3>3. N \in Nat /\ i = N + r /\ r \in Nat /\ size[b] \in Nat /\ i \in 0..size[b] - 1
      BY <2>3, <3>1, <3>2, HashtabAssumption DEF Slots
    <3>4. N < size[b]
      BY ONLY <3>3
    <3>5. QED
      BY <3>2, <3>4
  <2>5. Chain(b)'[n] = Chain(b)[n]
    BY <1>3, <2>3, <2>4
  <2>6. QED
    BY <1>3, <2>2, <2>5 DEF PairAt
<1>6. Unmoved(b)
  BY <1>3, <1>5 DEF Unmoved
<1>7. QED
  BY <1>4, <1>6

(* The slot that a Write fills is behind the published pairs. *)
LEMMA WriteUnmoved ==
    ASSUME HashtabInv, NEW t \in Threads, Write(t)
    PROVE  \A c \in Buckets : Unmoved(c)
<1>1. TypesOK /\ ChunksApart /\ loc[t].b \in Buckets
  BY InTheBucket DEF HashtabInv
<1>2. PICK b \in Buckets : b = loc[t].b
  BY <1>1
<1>3. pc[t] = "write" /\ UNCHANGED <<size, head, next>>
  BY DEF Write
<1>4. PICK P : P = [key |-> CHOOSE q \in loc[t].call.keys : TRUE, val |-> loc[t].id]
  OBVIOUS
<1>5. size[b] \in Nat /\ loc[t].j \in Slots
  BY <1>2, <1>3, FreeSlot
<1>6. PICK m \in 0..NChunks :
         /\ Chain(b)[m] \in Chunks /\ Deref(b, loc[t].at) = Chain(b)[m]
         /\ size[b] = m * NPairs + loc[t].j
  BY <1>2, <1>3, FreeSlot
<1>7. pairs' = [pairs EXCEPT ![Chain(b)[m]][loc[t].j] = P]
  <2>1. pairs' = [pairs EXCEPT ![Deref(loc[t].b, loc[t].at)][loc[t].j] =
                      [key |-> CHOOSE q \in loc[t].call.keys : TRUE, val |-> loc[t].id]]
    BY DEF Write
  <2>2. QED
    BY <1>2, <1>4, <1>6, <2>1
<1>8. Overwrites(b, size[b], P)
  <2>1. PICK x, q : x = loc[t].j /\ q = size[b]
    OBVIOUS
  <2>2. /\ TypesOK /\ ChunksApart /\ b \in Buckets /\ m \in 0..NChunks /\ x \in Slots
        /\ Chain(b)[m] \in Chunks /\ UNCHANGED <<head, next>>
        /\ pairs' = [pairs EXCEPT ![Chain(b)[m]][x] = P] /\ q = m * NPairs + x
    BY <1>1, <1>3, <1>5, <1>6, <1>7, <2>1
  <2>3. Overwrites(b, q, P)
    BY ONLY <2>2, SlotWritten
  <2>4. QED
    BY <2>1, <2>3
<1>9. \A i \in 0..size[b] - 1 : i # size[b]
  BY <1>5
<1>10. \A d \in Buckets : \A i \in 0..size[d] - 1 : PairAt(d, i)' = PairAt(d, i)
  BY <1>8, <1>9 DEF Overwrites
<1>11. QED
  BY <1>3, <1>10 DEF Unmoved

(* A Publish makes the pair written the last one of the bucket. *)
Appends(t, b) ==
    /\ \A c \in Buckets : c # b => Unmoved(c)
    /\ \A i : PairAt(b, i)' = PairAt(b, i)
    /\ size[b] \in Nat /\ size'[b] = size[b] + 1
    /\ \E k \in Keys :
         /\ loc[t].call.keys = {k} /\ BucketIdx[k] = b /\ NoneBefore(t, size[b])
         /\ PairAt(b, size[b]) = [key |-> k, val |-> loc[t].id]
         /\ PairAt(b, size[b]) = pairs[Deref(b, loc[t].at)][loc[t].j]

(* A Publish: the store of the bucket's size makes the pair visible. *)
LEMMA PublishAppends ==
    ASSUME HashtabInv, NEW t \in Threads, Publish(t), NEW b \in Buckets, b = loc[t].b
    PROVE  Appends(t, b)
<1>1. TypesOK /\ SearchOK(t)
  BY DEF HashtabInv
<1>2. /\ pc[t] = "publish" /\ UNCHANGED <<head, next, pairs>>
      /\ size' = [size EXCEPT ![b] = loc[t].cur + 1]
  BY DEF Publish, chunkVars
<1>3. \A c, i : PairAt(c, i)' = PairAt(c, i)
  BY <1>2 DEF PairAt, Chain
<1>4. /\ size[b] \in Nat /\ loc[t].cur = size[b] /\ NoneBefore(t, size[b])
      /\ \E k \in Keys : loc[t].call.keys = {k} /\ BucketIdx[k] = b
  BY <1>2, FreeSlot
<1>5. PICK k \in Keys : loc[t].call.keys = {k} /\ BucketIdx[k] = b
  BY <1>4
<1>6. PairAt(b, size[b]) = pairs[Deref(b, loc[t].at)][loc[t].j]
  BY <1>2, FreeSlot
<1>7. pairs[Deref(b, loc[t].at)][loc[t].j] = [key |-> k, val |-> loc[t].id]
  BY <1>1, <1>2, <1>5 DEF SearchOK
<1>8. size'[b] = size[b] + 1 /\ \A c \in Buckets : c # b => size'[c] = size[c]
  BY <1>1, <1>2, <1>4 DEF TypesOK
<1>9. QED
  BY <1>3, <1>4, <1>5, <1>6, <1>7, <1>8 DEF Unmoved, Appends

(* A Move writes the last pair over the one that is removed. *)
LEMMA MoveOverwrites ==
    ASSUME HashtabInv, NEW t \in Threads, Move(t), NEW b \in Buckets, b = loc[t].b
    PROVE  /\ \A c \in Buckets : c # b => Unmoved(c)
           /\ pc[t] = "move" /\ size' = size /\ result' = result /\ calls' = calls /\ Alone(t)
           /\ loc'[t].b = b /\ loc'[t].call = loc[t].call
           /\ loc'[t].i = loc[t].i /\ loc'[t].cur = loc[t].cur
           /\ \/ pc'[t] = "oob" /\ Unmoved(b)
              \/ /\ pc'[t] \in {"release", "shrink"}
                 /\ \A i \in 0..size[b] - 1 :
                      PairAt(b, i)' = IF i = loc[t].i THEN PairAt(b, size[b] - 1) ELSE PairAt(b, i)
<1>1. TypesOK /\ ChunksApart /\ loc[t] \in LocType /\ RemoveOK(t)
  BY InTheBucket DEF HashtabInv
<1>2. PICK m \in 0..NChunks, k \in 0..NChunks, j \in Int, prev \in Chunks \cup {Null} : MovesTo(t, b, m, k, j, prev)
  BY MoveLast
<1>3. /\ pc[t] = "move" /\ UNCHANGED <<size, head, next, calls, result>>
      /\ loc[t].i = m * NPairs + loc[t].j /\ loc[t].j \in Slots
      /\ loc[t].at = Chain(b)[m] /\ Chain(b)[m] \in Chunks /\ Chain(b)[k] \in Chunks
  BY <1>2 DEF MovesTo
<1>4. CASE Goto(t, "oob") /\ UNCHANGED <<pairs, loc>>
  <2>1. Alone(t) /\ pc'[t] = "oob" /\ loc'[t] = loc[t]
    BY <1>1, <1>4, StepsStay
  <2>2. \A c \in Buckets : Unmoved(c)
    BY <1>3, <1>4, QuietUnmoved
  <2>3. QED
    BY <1>3, <2>1, <2>2
<1>5. ASSUME pairs' = [pairs EXCEPT ![loc[t].at][loc[t].j] = PairAt(b, loc[t].cur - 1)],
             loc' = [loc EXCEPT ![t].prev = prev, ![t].last = Chain(b)[k]],
             Goto(t, IF Emptied(j, prev) THEN "release" ELSE "shrink")
      PROVE  /\ \A c \in Buckets : c # b => Unmoved(c)
             /\ Alone(t) /\ pc'[t] \in {"release", "shrink"}
             /\ loc'[t].b = b /\ loc'[t].call = loc[t].call
             /\ loc'[t].i = loc[t].i /\ loc'[t].cur = loc[t].cur
             /\ \A i \in 0..size[b] - 1 :
                  PairAt(b, i)' = IF i = loc[t].i THEN PairAt(b, size[b] - 1) ELSE PairAt(b, i)
  <2>1. loc[t].cur = size[b]
    BY <1>1, <1>3 DEF RemoveOK
  <2>2. PICK P : P = PairAt(b, size[b] - 1)
    OBVIOUS
  <2>3. pairs' = [pairs EXCEPT ![Chain(b)[m]][loc[t].j] = P]
    BY <1>3, <1>5, <2>1, <2>2
  <2>4. Overwrites(b, loc[t].i, P)
    <3>1. PICK x, q : x = loc[t].j /\ q = loc[t].i
      OBVIOUS
    <3>2. /\ TypesOK /\ ChunksApart /\ b \in Buckets /\ m \in 0..NChunks /\ x \in Slots
          /\ Chain(b)[m] \in Chunks /\ UNCHANGED <<head, next>>
          /\ pairs' = [pairs EXCEPT ![Chain(b)[m]][x] = P] /\ q = m * NPairs + x
      BY <1>1, <1>3, <2>3, <3>1
    <3>3. Overwrites(b, q, P)
      BY ONLY <3>2, SlotWritten
    <3>4. QED
      BY <3>1, <3>3
  <2>5. \A i \in 0..size[b] - 1 :
          PairAt(b, i)' = IF i = loc[t].i THEN PairAt(b, size[b] - 1) ELSE PairAt(b, i)
    BY <2>2, <2>4 DEF Overwrites
  <2>6. \A c \in Buckets : c # b => Unmoved(c)
    BY <1>3, <2>4 DEF Unmoved, Overwrites
  <2> DEFINE l == [loc[t] EXCEPT !.prev = prev, !.last = Chain(b)[k]]
  <2>7. loc' = [loc EXCEPT ![t] = l]
    BY <1>1, <1>5 DEF TypesOK
  <2>8. /\ l \in LocType /\ l.b = b /\ l.call = loc[t].call /\ l.i = loc[t].i /\ l.cur = loc[t].cur
    <3>1. Chain(b)[k] \in Chunks \cup {Null}
      BY <1>3
    <3>2. QED
      BY ONLY <1>1, <3>1, b = loc[t].b, prev \in Chunks \cup {Null} DEF LocType
  <2> HIDE DEF l
  <2>9. PICK p \in Pcs \cup {"oob"} :
           p = (IF Emptied(j, prev) THEN "release" ELSE "shrink") /\ p \in {"release", "shrink"}
    BY DEF Pcs
  <2>10. Goto(t, p)
    BY <1>5, <2>9
  <2>11. Alone(t) /\ pc'[t] = p /\ loc'[t] = l
    BY <1>1, <2>7, <2>8, <2>10, Steps
  <2>12. QED
    BY <2>5, <2>6, <2>8, <2>9, <2>11
<1>6. QED
  BY <1>2, <1>3, <1>4, <1>5 DEF MovesTo

(* A Release or Shrink takes the last pair out of reach, and no other one. *)
Drops(t, b) ==
    /\ \A c \in Buckets : c # b => Unmoved(c)
    /\ size[b] \in Nat \ {0} /\ loc[t].cur = size[b]
    /\ \A i \in 0..size[b] - 2 : PairAt(b, i)' = PairAt(b, i)
    /\ \/ size'[b] = size[b] /\ PairAt(b, size[b] - 1)' = NoPair
       \/ size'[b] = size[b] - 1

(* A Release cuts the emptied last chunk off, the last pair with it. *)
LEMMA ReleaseDrops ==
    ASSUME HashtabInv, NEW t \in Threads, Release(t), NEW b \in Buckets, b = loc[t].b
    PROVE  /\ Drops(t, b) /\ Alone(t) /\ pc[t] = "release" /\ pc'[t] = "shrink"
           /\ loc'[t] = loc[t] /\ result' = result /\ calls' = calls
           /\ size' = size /\ PairAt(b, size[b] - 1)' = NoPair
<1>1. /\ TypesOK /\ LocksOK /\ RemoveOK(t) /\ ChunksApart /\ FilledOK /\ \A u \in Threads : RemoveOK(u)
  BY DEF HashtabInv
<1>2. /\ pc[t] = "release" /\ Goto(t, "shrink") /\ loc' = loc
      /\ UNCHANGED <<size, head, pairs, allocated, calls, result>>
      /\ next' = [next EXCEPT ![loc[t].prev] = Null, ![loc[t].last] = freeList]
      /\ freeList' = loc[t].last
  BY DEF Release
<1>3. /\ In(t, {"release", "shrink"}, b) /\ Top(b) = size[b] - 1 /\ Top(b) \in Nat /\ size[b] \in Nat
      /\ loc[t].cur = size[b]
  <2>1. In(t, {"release", "shrink"}, b)
    BY <1>2 DEF In
  <2>2. Top(b) = size[b] - 1 /\ size[b] \in Nat /\ Top(b) \in Nat
    BY <1>1, <2>1, TopIs, TopType
  <2>3. QED
    BY <1>1, <1>2, <2>1, <2>2 DEF RemoveOK
<1>4. PICK n \in 1..NChunks :
         /\ size[b] - 1 = n * NPairs
         /\ Chain(b)[n] # Null /\ next[Chain(b)[n]] = Null /\ Released(b, n)
  <2>1. PICK n \in 1..NChunks :
           /\ loc[t].cur - 1 = n * NPairs
           /\ loc[t].prev = Chain(b)[n - 1] /\ loc[t].last = Chain(b)[n]
           /\ loc[t].last # Null /\ next[loc[t].last] = Null
    BY <1>1, <1>2 DEF RemoveOK
  <2>2. Released(b, n)
    BY <1>2, <2>1 DEF Released
  <2>3. QED
    BY <1>3, <2>1, <2>2
<1>5. /\ \A d \in Buckets : d # b => Chain(d)' = Chain(d)
      /\ \A q \in 0..n - 1 : Chain(b)'[q] = Chain(b)[q]
      /\ \A q \in n..NChunks : Chain(b)'[q] = Null
  <2>1. /\ \A p \in Places : p # b /\ p # HashTableSize => Line(p)' = Line(p)
        /\ \A q \in 0..n - 1 : Line(b)'[q] = Line(b)[q]
        /\ \A q \in n..NChunks : Line(b)'[q] = Null
    BY <1>1, <1>4, ReleaseLines
  <2>2. \A d \in Buckets : Chain(d) = Line(d) /\ Chain(d)' = Line(d)' /\ d \in Places /\ d # HashTableSize
    BY ChainIsLine DEF Chain, Line, First
  <2>3. QED
    BY <2>1, <2>2
<1>6. \A d \in Buckets : d # b => Unmoved(d)
  BY <1>2, <1>5, ChainUnmoved DEF Unmoved
<1>7. ASSUME NEW i \in 0..size[b] - 2 PROVE PairAt(b, i)' = PairAt(b, i)
  <2>1. i \in 0..Top(b) - 1
    BY <1>3
  <2>2. PICK q, r : q = i \div NPairs /\ r = i % NPairs
    OBVIOUS
  <2>3. q \in 0..NChunks /\ r \in Slots /\ i = q * NPairs + r
    BY <1>1, <2>1, <2>2, PairHasSlot
  <2>4. q < n
    <3> SUFFICES ASSUME n <= q PROVE FALSE
      BY <2>3, HashtabAssumption
    <3>1. n * NPairs <= q * NPairs /\ n * NPairs \in Nat /\ q * NPairs \in Nat
      BY <2>3, Rows, HashtabAssumption
    <3>2. PICK Q, N : Q = q * NPairs /\ N = n * NPairs
      OBVIOUS
    <3>3. Q \in Nat /\ N \in Nat /\ N <= Q /\ i = Q + r /\ r \in Nat /\ size[b] - 1 = N /\ size[b] \in Nat
      BY <1>3, <1>4, <2>3, <3>1, <3>2, HashtabAssumption DEF Slots
    <3>4. QED
      BY ONLY <3>3, i \in 0..size[b] - 2
  <2>5. Chain(b)'[q] = Chain(b)[q]
    BY <1>5, <2>3, <2>4, HashtabAssumption
  <2>6. QED
    BY <1>2, <2>2, <2>5 DEF PairAt
<1>8. PairAt(b, size[b] - 1)' = NoPair
  <2>1. PICK i : i = size[b] - 1
    OBVIOUS
  <2>2. i \div NPairs = n
    <3>1. 0 \in 0..NPairs - 1 /\ n \in Nat /\ NPairs \in Nat \ {0} /\ i = n * NPairs + 0
      <4>1. n * NPairs \in Nat
        BY Rows, HashtabAssumption
      <4>2. QED
        BY <1>4, <2>1, <4>1, HashtabAssumption
    <3>2. QED
      BY ONLY <3>1, SlotIs
  <2>3. Chain(b)'[n] = Null
    BY <1>5, HashtabAssumption
  <2>4. PairAt(b, i)' = NoPair
    BY <2>2, <2>3 DEF PairAt
  <2>5. size' = size
    BY <1>2
  <2>6. QED
    BY <2>1, <2>4, <2>5
<1>9. Alone(t) /\ pc'[t] = "shrink" /\ loc'[t] = loc[t]
  BY <1>1, <1>2, StepsStay DEF Pcs
<1>10. Drops(t, b)
  BY <1>2, <1>3, <1>6, <1>7, <1>8 DEF Drops
<1>11. QED
  BY <1>2, <1>8, <1>9, <1>10

(* A Shrink takes the last pair out by the store of the bucket's size. *)
LEMMA ShrinkDrops ==
    ASSUME HashtabInv, NEW t \in Threads, Shrink(t), NEW b \in Buckets, b = loc[t].b
    PROVE  /\ Drops(t, b) /\ Alone(t) /\ pc[t] = "shrink"
           /\ pc'[t] = (IF Op(t) = "remove_if" THEN "iftest" ELSE "wunlock")
           /\ loc'[t].b = b /\ loc'[t].call = loc[t].call
           /\ result' = result /\ calls' = calls
<1>1. /\ TypesOK /\ LocksOK /\ RemoveOK(t) /\ loc[t] \in LocType /\ \A u \in Threads : RemoveOK(u)
  BY InTheBucket DEF HashtabInv
<1>2. /\ pc[t] = "shrink" /\ UNCHANGED <<head, next, pairs, calls, result>>
      /\ size' = [size EXCEPT ![b] = loc[t].cur - 1]
      /\ loc' = [loc EXCEPT ![t].cur = loc[t].cur - 1, ![t].prev = Null, ![t].last = Null]
      /\ Goto(t, IF Op(t) = "remove_if" THEN "iftest" ELSE "wunlock")
  BY DEF Shrink, chunkVars
<1>3. /\ Top(b) = size[b] - 1 /\ Top(b) \in Nat /\ size[b] \in Nat /\ loc[t].cur = size[b]
  <2>1. In(t, {"release", "shrink"}, b)
    BY <1>2 DEF In
  <2>2. Top(b) = size[b] - 1 /\ size[b] \in Nat /\ Top(b) \in Nat
    BY <1>1, <2>1, TopIs, TopType
  <2>3. QED
    BY <1>1, <1>2, <2>1, <2>2 DEF RemoveOK
<1>4. \A c, i : PairAt(c, i)' = PairAt(c, i)
  BY <1>2 DEF PairAt, Chain
<1>5. size'[b] = size[b] - 1 /\ \A c \in Buckets : c # b => size'[c] = size[c]
  BY <1>1, <1>2, <1>3 DEF TypesOK
<1>6. Drops(t, b)
  BY <1>3, <1>4, <1>5 DEF Drops, Unmoved
<1> DEFINE l == [loc[t] EXCEPT !.cur = loc[t].cur - 1, !.prev = Null, !.last = Null]
<1>7. loc' = [loc EXCEPT ![t] = l]
  BY <1>1, <1>2 DEF TypesOK
<1>8. l \in LocType /\ l.b = b /\ l.call = loc[t].call
  <2>1. loc[t].cur - 1 \in Nat
    BY <1>3
  <2>2. QED
    BY ONLY <1>1, <2>1, b = loc[t].b DEF LocType
<1> HIDE DEF l
<1>9. PICK p \in Pcs \cup {"oob"} : p = IF Op(t) = "remove_if" THEN "iftest" ELSE "wunlock"
  BY DEF Pcs
<1>10. Goto(t, p)
  BY <1>2, <1>9
<1>11. Alone(t) /\ pc'[t] = p /\ loc'[t] = l
  BY <1>1, <1>7, <1>8, <1>10, Steps
<1>12. QED
  BY <1>2, <1>6, <1>8, <1>9, <1>11

-----------------------------------------------------------------------------
(* EffectsOK: what a call has to do with its effect. *)

(* No call has taken effect at the start. *)
LEMMA InitEffects == Init => EffectsOK
  BY DEF Init, EffectsOK, EffectOK, Unpublished, Searching

(* Another thread's call keeps its relation to its effect. *)
LEMMA OthersEffect ==
    ASSUME HashtabInv, EffectsOK, NEW t \in Threads, Alone(t), NEW u \in Threads, u # t,
           result'[u] = result[u], calls' \in Nat, calls' >= calls,
           pc[u] \in Removing => Unmoved(loc[u].b),
           pc'[t] \in Unpublished /\ Op(t)' = "insert" =>
             \/ pc[t] \in Unpublished /\ Op(t) = "insert" /\ loc'[t].id = loc[t].id
             \/ loc'[t].id \notin 1..calls
    PROVE  EffectOK(u)'
<1>1. /\ pc'[u] = pc[u] /\ loc'[u] = loc[u] /\ EffectOK(u) /\ RemoveOK(u) /\ calls \in Nat
      /\ size[loc[u].b] \in Nat /\ loc[u] \in LocType
  BY TopType, InTheBucket, HashtabAssumption DEF Alone, EffectsOK, HashtabInv, TypesOK
<1>2. Op(u)' = Op(u) /\ \A k : Matches(u, k)' <=> Matches(u, k)
  BY <1>1 DEF Op, Matches
<1>3. PICK b, i, s : b = loc[u].b /\ i = loc[u].i /\ s = loc[u].cur - 1
  OBVIOUS
<1>4. /\ pc[u] \in {"move", "oob"} => PairAt(b, i)' = PairAt(b, i)
      /\ pc[u] \in {"release", "shrink"} => PairAt(b, s)' = PairAt(b, s)
      /\ pc[u] \in {"release", "shrink"} /\ i < s => PairAt(b, i)' = PairAt(b, i)
  <2>1. i \in Nat
    BY <1>1, <1>3 DEF LocType
  <2>2. pc[u] \in {"move", "oob", "release", "shrink"} =>
          /\ \A n \in 0..size[b] - 1 : PairAt(b, n)' = PairAt(b, n)
          /\ loc[u].cur = size[b] /\ i < size[b]
    BY <1>1, <1>3 DEF Unmoved, RemoveOK, Removing
  <2>3. QED
    BY <1>1, <1>3, <2>1, <2>2
<1>5. /\ pc'[u] \in Unpublished \cup {"idle", "wlock", "search"} => result'[u] = None
      /\ pc'[u] # "idle" /\ Op(u)' = "remove_if" => result'[u] = None
      /\ pc'[u] \in {"move", "oob"} /\ Op(u)' # "remove_if" => result'[u] = PairAt(b, i)'.val
  BY <1>1, <1>2, <1>3, <1>4 DEF EffectOK
<1>6. ASSUME pc[u] \in {"release", "shrink"}, PairAt(b, s)' # NoPair
      PROVE  /\ PairAt(b, s)'.key \in Keys /\ BucketIdx[PairAt(b, s)'.key] = b
             /\ PairAt(b, s)'.val \in 1..calls'
             /\ i < s => PairAt(b, s)' = PairAt(b, i)'
             /\ i = s => Matches(u, PairAt(b, s).key)' /\ (Op(u) # "remove_if" => result'[u] = PairAt(b, s)'.val)
             /\ \A w \in Threads : pc'[w] \in Unpublished /\ Op(w)' = "insert" => PairAt(b, s)'.val # loc'[w].id
  <2>1. PICK P : P = PairAt(b, s) /\ PairAt(b, s)' = P
    BY <1>4, <1>6
  <2>2. /\ P.key \in Keys /\ BucketIdx[P.key] = b /\ P.val \in 1..calls
        /\ i < s => P = PairAt(b, i)
        /\ i = s => Matches(u, P.key) /\ (Op(u) # "remove_if" => result[u] = P.val)
        /\ \A w \in Threads : pc[w] \in Unpublished /\ Op(w) = "insert" => P.val # loc[w].id
    BY <1>1, <1>3, <1>6, <2>1 DEF EffectOK
  <2>3. P.val \in 1..calls'
    BY <1>1, <2>2
  <2>4. \A w \in Threads : pc'[w] \in Unpublished /\ Op(w)' = "insert" => P.val # loc'[w].id
    BY <2>2 DEF Alone, Op
  <2>5. i = s => Matches(u, P.key)'
    BY <1>2, <2>2
  <2>6. i < s => P = PairAt(b, i)'
    BY <1>4, <1>6, <2>2
  <2>7. QED
    BY <2>1, <2>2, <2>3, <2>4, <2>5, <2>6
<1>7. QED
  BY <1>1, <1>2, <1>3, <1>5, <1>6 DEF EffectOK

(* A step of thread t as the other threads see it: it may change the bucket
   it is in when it holds one of its locks, and a call it begins has a new
   value. *)
Local(t) ==
    /\ Alone(t) /\ \A u \in Threads : u # t => result'[u] = result[u]
    /\ calls' \in Nat /\ calls' >= calls
    /\ \A c \in Buckets :
         \/ Unmoved(c)
         \/ c = loc[t].b /\ pc[t] \in Removing
         \/ c = loc[t].b /\ pc[t] \in Reading /\ \A i \in 0..size[c] - 1 : PairAt(c, i)' = PairAt(c, i)
    /\ pc'[t] \in Unpublished /\ Op(t)' = "insert" =>
         \/ pc[t] \in Unpublished /\ Op(t) = "insert" /\ loc'[t].id = loc[t].id
         \/ loc'[t].id \notin 1..calls

(* The call that thread t is in goes on. *)
Continues(t) ==
    loc'[t].call = loc[t].call /\ loc'[t].id = loc[t].id /\ loc'[t].b = loc[t].b

(* A local step keeps EffectsOK when it keeps the thread's own part. *)
LEMMA EffectsFrom ==
    ASSUME HashtabInv, EffectsOK, NEW t \in Threads, Local(t), EffectOK(t)'
    PROVE  EffectsOK'
<1>1. TypesOK /\ LocksOK /\ loc[t].b \in Buckets
  BY InTheBucket DEF HashtabInv
<1>2. ASSUME NEW u \in Threads, u # t PROVE EffectOK(u)'
  <2>1. PICK b \in Buckets : b = loc[u].b
    BY <1>1, InTheBucket
  <2>2. loc'[u].b = b
    BY <1>2, <2>1 DEF Local, Alone
  <2>3. pc[u] \in Removing => Unmoved(b)
    <3> SUFFICES ASSUME pc[u] \in Removing, ~Unmoved(b) PROVE FALSE
      OBVIOUS
    <3>1. In(u, Removing, b) /\ (In(t, Removing, b) \/ In(t, Reading, b))
      BY <2>1 DEF Local, In
    <3>2. QED
      BY <1>1, <1>2, <3>1, Exclusion
  <2>4. QED
    BY <1>2, <2>1, <2>2, <2>3, OthersEffect DEF Local
<1>3. QED
  BY <1>2 DEF EffectsOK

(* A step that leaves the buckets alone. *)
LEMMA QuietLocal ==
    ASSUME TypesOK, NEW t \in Threads, Alone(t), UNCHANGED <<size, head, next, pairs, calls>>,
           \A u \in Threads : u # t => result'[u] = result[u],
           pc'[t] \in Unpublished /\ Op(t)' = "insert" =>
             pc[t] \in Unpublished /\ Op(t) = "insert" /\ loc'[t].id = loc[t].id
    PROVE  Local(t)
<1>1. \A c \in Buckets : Unmoved(c)
  BY QuietUnmoved
<1>2. loc[t].b \in Buckets /\ calls \in Nat
  BY InTheBucket, HashtabAssumption DEF TypesOK
<1>3. QED
  BY <1>1, <1>2 DEF Local

(* A load of the size, as the other threads see it. *)
LEMMA LoadSizeLocal ==
    ASSUME TypesOK, NEW t \in Threads, NEW p, LoadSize(t, p), pc[t] \in Searching
    PROVE  Local(t) /\ Continues(t) /\ pc'[t] = p /\ result' = result
<1>1. /\ UNCHANGED <<size, head, next, pairs, calls, result>> /\ Goto(t, p)
      /\ loc' = [loc EXCEPT ![t].cur = size[loc[t].b]]
  BY DEF LoadSize, chunkVars
<1>2. Alone(t) /\ pc'[t] = p
  BY <1>1 DEF TypesOK, Goto, Alone
<1>3. Continues(t)
  BY <1>1 DEF TypesOK, LocType, Continues
<1>4. Local(t)
  BY <1>1, <1>2, <1>3, QuietLocal DEF Continues, Unpublished, Op
<1>5. QED
  BY <1>1, <1>2, <1>3, <1>4

(* A step that changes locals and locks only, as the other threads see it. *)
LEMMA StayLocal ==
    ASSUME TypesOK, NEW t \in Threads, NEW p, Goto(t, p), loc' = loc,
           UNCHANGED <<size, head, next, pairs, calls>>,
           \A u \in Threads : u # t => result'[u] = result[u],
           pc[t] \in Unpublished \/ p \notin Unpublished
    PROVE  Local(t) /\ Continues(t) /\ loc'[t] = loc[t] /\ pc'[t] = p
<1>1. Alone(t) /\ pc'[t] = p /\ loc'[t] = loc[t]
  BY DEF TypesOK, Goto, Alone
<1>2. Continues(t)
  BY <1>1 DEF Continues
<1>3. Local(t)
  BY <1>1, QuietLocal DEF Op
<1>4. QED
  BY <1>1, <1>2, <1>3

-----------------------------------------------------------------------------
(* Steps before the effect of a call. *)

(* The points of control at which a call has not taken effect. *)
Pending == Unpublished \cup {"wlock", "search", "ifload", "iftest", "move", "oob"}

(* A step inside a call, neither its effect nor one that others see. *)
Waits(t) ==
    /\ Local(t) /\ loc'[t].call = loc[t].call /\ \A c \in Buckets : Unmoved(c)
    /\ pc[t] \in Pending /\ pc'[t] \in Pending

(* A call without a result so far has nothing to say in EffectOK. *)
LEMMA NoEffect ==
    ASSUME NEW t \in Threads, result'[t] = None, pc'[t] \notin {"release", "shrink"},
           pc'[t] \in {"move", "oob"} => Op(t)' = "remove_if"
    PROVE  EffectOK(t)'
  BY DEF EffectOK

(* Nor has a call on one key that goes on to unlock. *)
LEMMA HadEffect ==
    ASSUME NEW t \in Threads, pc'[t] \in {"iunlock", "read", "runlock", "wunlock"},
           Op(t)' # "remove_if"
    PROVE  EffectOK(t)'
  BY DEF EffectOK, Unpublished, Searching

(* SCOREP_RWLock_ReaderLock is no effect of a call. *)
LEMMA RLockWaits ==
    ASSUME HashtabInv, EffectsOK, NEW t \in Threads, RLock(t)
    PROVE  Waits(t) /\ EffectOK(t)'
<1>1. TypesOK /\ EffectOK(t)
  BY DEF HashtabInv, EffectsOK
<1>2. pc[t] = "rlock" /\ Goto(t, "load") /\ UNCHANGED <<size, head, next, pairs, calls, loc, result>>
  BY DEF RLock, chunkVars
<1>3. Local(t) /\ loc'[t] = loc[t] /\ pc'[t] = "load" /\ \A c \in Buckets : Unmoved(c)
  BY <1>1, <1>2, StayLocal, QuietUnmoved DEF Unpublished
<1>4. EffectOK(t)'
  BY <1>1, <1>2, <1>3, NoEffect DEF EffectOK, Unpublished
<1>5. QED
  BY <1>2, <1>3, <1>4 DEF Waits, Pending, Unpublished, Searching

(* Loading the size of the bucket, in a search that goes on. *)
LEMMA LoadSizeWaits ==
    ASSUME HashtabInv, EffectsOK, NEW t \in Threads, NEW p \in Searching, LoadSize(t, p),
           pc[t] \in Searching
    PROVE  Waits(t) /\ EffectOK(t)'
<1>1. TypesOK /\ EffectOK(t)
  BY DEF HashtabInv, EffectsOK
<1>2. Local(t) /\ Continues(t) /\ pc'[t] = p /\ result' = result
  BY <1>1, LoadSizeLocal
<1>3. \A c \in Buckets : Unmoved(c)
  BY QuietUnmoved DEF LoadSize, chunkVars
<1>4. EffectOK(t)'
  BY <1>1, <1>2, NoEffect DEF EffectOK, Unpublished, Searching
<1>5. QED
  BY <1>2, <1>3, <1>4 DEF Waits, Continues, Pending, Unpublished

(* The loads of the size that start a search are no effect of a call. *)
LEMMA LoadWaits ==
    ASSUME HashtabInv, EffectsOK, NEW t \in Threads, Load(t) \/ Reload(t) \/ LockedLoad(t)
    PROVE  Waits(t) /\ EffectOK(t)'
<1>1. pc[t] \in Searching /\ \E p \in Searching : LoadSize(t, p)
  BY DEF Load, Reload, LockedLoad, Searching
<1>2. QED
  BY <1>1, LoadSizeWaits

(* SCOREP_Mutex_Trylock, and a search without success before it, are no
   effect of a call. *)
LEMMA TryLockWaits ==
    ASSUME HashtabInv, EffectsOK, NEW t \in Threads, TryLock(t) \/ EndRescan(t)
    PROVE  Waits(t) /\ EffectOK(t)'
<1>1. TypesOK /\ EffectOK(t)
  BY DEF HashtabInv, EffectsOK
<1>2. PICK p \in Searching : Goto(t, p)
  BY DEF TryLock, EndRescan, Searching
<1>3. pc[t] \in Searching /\ UNCHANGED <<size, head, next, pairs, calls, loc, result>>
  BY DEF TryLock, EndRescan, ScanDone, Searching, chunkVars
<1>4. Local(t) /\ loc'[t] = loc[t] /\ pc'[t] = p /\ \A c \in Buckets : Unmoved(c)
  BY <1>1, <1>2, <1>3, StayLocal, QuietUnmoved DEF Unpublished
<1>5. EffectOK(t)'
  BY <1>1, <1>3, <1>4, NoEffect DEF EffectOK, Unpublished, Searching
<1>6. QED
  BY <1>3, <1>4, <1>5 DEF Waits, Pending, Unpublished

(* NEW_CHUNK and ASSIGN_NEW_CHUNK are no effect of a call. *)
LEMMA NewChunkWaits ==
    ASSUME HashtabInv, EffectsOK, NEW t \in Threads, NewChunk(t)
    PROVE  Waits(t) /\ EffectOK(t)'
<1>1. TypesOK /\ EffectOK(t) /\ calls \in Nat
  BY HashtabAssumption DEF HashtabInv, EffectsOK, TypesOK
<1>2. PICK b \in Buckets, m \in 0..NChunks : ChunkReady(t, b, m)
  BY NewChunkReady
<1>3. /\ pc[t] = "lscan" /\ pc'[t] = "write" /\ Alone(t) /\ calls' = calls /\ result' = result
      /\ loc'[t].call = loc[t].call /\ loc'[t].id = loc[t].id /\ b = loc[t].b
  BY <1>2 DEF ChunkReady
<1>4. \A c \in Buckets : Unmoved(c)
  BY NewChunkUnmoved
<1>5. Local(t)
  BY <1>1, <1>3, <1>4 DEF Local, Unpublished, Searching, Op
<1>6. EffectOK(t)'
  BY <1>1, <1>3, NoEffect DEF EffectOK, Unpublished, Searching
<1>7. QED
  BY <1>3, <1>4, <1>5, <1>6 DEF Waits, Pending, Unpublished, Searching

(* INSERT_2 writes the pair where no search looks yet. *)
LEMMA WriteWaits ==
    ASSUME HashtabInv, EffectsOK, NEW t \in Threads, Write(t)
    PROVE  Waits(t) /\ EffectOK(t)'
<1>1. TypesOK /\ EffectOK(t) /\ calls \in Nat /\ loc[t].b \in Buckets
  BY InTheBucket, HashtabAssumption DEF HashtabInv, EffectsOK, TypesOK
<1>2. pc[t] = "write" /\ Goto(t, "publish") /\ UNCHANGED <<calls, loc, result>>
  BY DEF Write
<1>3. Alone(t) /\ pc'[t] = "publish"
  BY <1>1, <1>2 DEF TypesOK, Goto, Alone
<1>4. \A c \in Buckets : Unmoved(c)
  BY WriteUnmoved
<1>5. Local(t)
  BY <1>1, <1>2, <1>3, <1>4 DEF Local, Unpublished, Op
<1>6. EffectOK(t)'
  BY <1>1, <1>2, <1>3, NoEffect DEF EffectOK, Unpublished
<1>7. QED
  BY <1>2, <1>3, <1>4, <1>5, <1>6 DEF Waits, Pending, Unpublished

(* SCOREP_RWLock_WriterLock is no effect of a call. *)
LEMMA WLockWaits ==
    ASSUME HashtabInv, EffectsOK, NEW t \in Threads, WLock(t)
    PROVE  Waits(t) /\ EffectOK(t)'
<1>1. TypesOK /\ EffectOK(t)
  BY DEF HashtabInv, EffectsOK
<1>2. PICK p \in {"ifload", "search"} : Goto(t, p)
  BY DEF WLock
<1>3. pc[t] = "wlock" /\ UNCHANGED <<size, head, next, pairs, calls, loc, result>>
  BY DEF WLock, chunkVars
<1>4. Local(t) /\ loc'[t] = loc[t] /\ pc'[t] = p /\ \A c \in Buckets : Unmoved(c)
  BY <1>1, <1>2, <1>3, StayLocal, QuietUnmoved DEF Unpublished, Searching
<1>5. EffectOK(t)'
  BY <1>1, <1>3, <1>4, NoEffect DEF EffectOK
<1>6. QED
  BY <1>3, <1>4, <1>5 DEF Waits, Pending

(* The load of a bucket's size and first chunk by remove_if is no effect of
   the call. *)
LEMMA IfLoadWaits ==
    ASSUME HashtabInv, EffectsOK, NEW t \in Threads, IfLoad(t)
    PROVE  Waits(t) /\ EffectOK(t)'
<1>1. TypesOK /\ EffectOK(t) /\ CallOK(t)
  BY DEF HashtabInv, EffectsOK, CallsOK
<1>2. /\ pc[t] = "ifload" /\ Goto(t, "iftest") /\ UNCHANGED <<size, head, next, pairs, calls, result>>
      /\ loc' = [loc EXCEPT ![t].cur = size[loc[t].b], ![t].at = head[loc[t].b]]
  BY DEF IfLoad, chunkVars
<1>3. Alone(t) /\ pc'[t] = "iftest" /\ loc'[t].call = loc[t].call
  BY <1>1, <1>2 DEF TypesOK, LocType, Goto, Alone
<1>4. Local(t)
  BY <1>1, <1>2, <1>3, QuietLocal DEF Unpublished, Searching
<1>5. \A c \in Buckets : Unmoved(c)
  BY <1>2, QuietUnmoved
<1>6. EffectOK(t)'
  BY <1>1, <1>2, <1>3, NoEffect DEF EffectOK, CallOK
<1>7. QED
  BY <1>2, <1>3, <1>4, <1>5, <1>6 DEF Waits, Pending

-----------------------------------------------------------------------------
(* Status and result, and the steps of each kind. *)

(* What HashtabSpec's status and result are at each point of control. *)
StatusOK ==
    \A t \in Threads :
        /\ pc[t] \in {"iunlock", "read", "runlock"} => AbsStatus(t) = "done"
        /\ pc[t] \in {"iunlock", "read"} =>
             AbsResult(t) = pairs[Deref(loc[t].b, loc[t].at)][loc[t].j].val
        /\ pc[t] = "runlock" => AbsResult(t) = result[t]
        /\ pc[t] = "wunlock" /\ (Op(t) = "remove_if" => loc[t].b + 1 \notin Buckets) =>
             AbsStatus(t) = "done" /\ AbsResult(t) = result[t]
        /\ pc[t] = "wunlock" /\ Op(t) = "remove_if" /\ loc[t].b + 1 \in Buckets =>
             AbsStatus(t) = "invoked" /\ AbsResult(t) = None
        /\ pc[t] \in Pending => AbsStatus(t) = "invoked" /\ AbsResult(t) = None
        /\ pc[t] \in {"release", "shrink"} /\ Op(t) = "remove_if" =>
             AbsStatus(t) = "invoked" /\ AbsResult(t) = None
        /\ pc[t] = "idle" => AbsStatus(t) = "idle" /\ AbsResult(t) = None

(* The refinement mapping's status and result, for each point of control. *)
LEMMA DoneAt == StatusOK
<1> SUFFICES ASSUME NEW t \in Threads
             PROVE  /\ pc[t] \in {"iunlock", "read", "runlock"} => AbsStatus(t) = "done"
                    /\ pc[t] = "wunlock" /\ (Op(t) = "remove_if" => loc[t].b + 1 \notin Buckets) =>
                         AbsStatus(t) = "done"
                    /\ pc[t] = "wunlock" /\ Op(t) = "remove_if" /\ loc[t].b + 1 \in Buckets =>
                         AbsStatus(t) = "invoked"
                    /\ pc[t] \in Pending => AbsStatus(t) = "invoked"
                    /\ pc[t] \in {"release", "shrink"} /\ Op(t) = "remove_if" => AbsStatus(t) = "invoked"
                    /\ pc[t] = "idle" => AbsStatus(t) = "idle"
  BY DEF StatusOK, AbsResult
<1>1. AbsStatus(t) =
        IF pc[t] = "idle" THEN "idle"
        ELSE IF \/ pc[t] \in {"iunlock", "read", "runlock"}
                \/ /\ pc[t] = "wunlock"
                   /\ Op(t) = "remove_if" => loc[t].b + 1 \notin Buckets
                \/ /\ pc[t] \in {"release", "shrink"} /\ Op(t) # "remove_if"
                   /\ \A k \in loc[t].call.keys : Map[k] = None
             THEN "done" ELSE "invoked"
  BY DEF AbsStatus
<1>2. QED
  BY <1>1 DEF Pending, Unpublished, Searching

(* A call that has found its pair knows where it is. *)
ReadOK ==
    \A t \in Threads : pc[t] \in {"iunlock", "read"} =>
        /\ loc[t].i \in 0..size[loc[t].b] - 1
        /\ pairs[Deref(loc[t].b, loc[t].at)][loc[t].j] = PairAt(loc[t].b, loc[t].i)

(* The slot that get_and_insert reads the value from is the i-th pair of the
   bucket, after the unlock of insert_lock too. *)
LEMMA ReadFacts == HashtabInv => ReadOK
<1> SUFFICES ASSUME HashtabInv, NEW t \in Threads, pc[t] \in {"iunlock", "read"}
             PROVE  /\ loc[t].i \in 0..size[loc[t].b] - 1
                    /\ pairs[Deref(loc[t].b, loc[t].at)][loc[t].j] = PairAt(loc[t].b, loc[t].i)
  BY DEF ReadOK
<1>1. /\ TypesOK /\ LocksOK /\ ChunksApart /\ FilledOK /\ SearchOK(t) /\ \A u \in Threads : RemoveOK(u)
  BY DEF HashtabInv
<1>2. PICK b \in Buckets : b = loc[t].b /\ loc[t] \in LocType
  BY <1>1, InTheBucket
<1>3. /\ loc[t].i < size[b] /\ loc[t].i \in Nat /\ loc[t].j \in Slots /\ size[b] \in Nat
  BY <1>1, <1>2, TopType DEF SearchOK, LocType
<1>4. PICK m \in 0..NChunks : AtCell(loc[t], m)
  BY <1>1 DEF SearchOK
<1>5. loc[t].i = m * NPairs + loc[t].j /\ loc[t].at = Cell(b, m) /\ (m > 0 => Cell(b, m) # Null)
  BY <1>2, <1>4 DEF AtCell
<1>6. Deref(b, loc[t].at) = Chain(b)[m]
  BY <1>1, <1>5, CellChunk
<1>7. Chain(b)[m] # Null
  <2>1. Top(b) = size[b]
    BY <1>1, <1>2, TopIs DEF In, Reading
  <2>2. m * NPairs \in Nat
    BY Rows, HashtabAssumption
  <2>3. PICK M : M = m * NPairs
    OBVIOUS
  <2>4. M \in Nat /\ loc[t].j \in Nat /\ loc[t].i = M + loc[t].j
    BY <1>3, <1>5, <2>2, <2>3, HashtabAssumption DEF Slots
  <2>5. M < Top(b)
    BY ONLY <1>3, <2>1, <2>4
  <2>6. QED
    BY <1>1, <2>3, <2>5 DEF FilledOK
<1>8. PairAt(b, m * NPairs + loc[t].j) = pairs[Chain(b)[m]][loc[t].j]
  BY <1>3, <1>7, PairIn
<1>9. QED
  BY <1>2, <1>3, <1>5, <1>6, <1>8

(* A get or get_and_insert sees the pair of its key. *)
Sees(t) ==
    /\ Local(t) /\ loc'[t].call = loc[t].call /\ \A c \in Buckets : Unmoved(c)
    /\ pc[t] \in Searching /\ pc'[t] \in {"iunlock", "runlock"}
    /\ loc[t].i \in 0..size[loc[t].b] - 1 /\ Matches(t, PairAt(loc[t].b, loc[t].i).key)
    /\ AbsResult(t)' = PairAt(loc[t].b, loc[t].i).val

(* A comparison finds the key, which is the effect of get and of a
   get_and_insert that finds it, or the search goes on. *)
LEMMA CompareFinds ==
    ASSUME HashtabInv, EffectsOK, NEW t \in Threads, Compare(t)
    PROVE  EffectOK(t)' /\ (Waits(t) \/ Sees(t))
<1>1. TypesOK /\ EffectOK(t) /\ CallOK(t) /\ loc[t] \in LocType /\ size[loc[t].b] \in Nat
  BY InTheBucket, TopType DEF HashtabInv, EffectsOK, CallsOK
<1>2. PICK b \in Buckets : b = loc[t].b
  BY <1>1, InTheBucket
<1>3. PICK cell, j : /\ cell = IF loc[t].j = NPairs THEN Deref(loc[t].b, loc[t].at) ELSE loc[t].at
                     /\ j = IF loc[t].j = NPairs THEN 0 ELSE loc[t].j
  OBVIOUS
<1>4. /\ pc[t] \in ScanPcs /\ pc[t] \in Searching /\ loc[t].i < loc[t].cur
      /\ UNCHANGED <<size, head, next, pairs, calls>>
  BY DEF Compare, chunkVars, ScanPcs, Searching
<1>5. PICK p : p = PairAt(b, loc[t].i)
  OBVIOUS
<1>6. pairs[Deref(b, cell)][j] = p /\ loc[t].i < size[b] /\ loc[t].i \in Nat
  BY <1>1, <1>2, <1>3, <1>4, <1>5, Looks DEF LocType
<1>7. \/ /\ Matches(t, p.key)
         /\ loc' = [loc EXCEPT ![t].at = cell, ![t].j = j]
         /\ IF pc[t] = "lscan"
            THEN Goto(t, "iunlock") /\ UNCHANGED result
            ELSE Goto(t, "runlock") /\ result' = [result EXCEPT ![t] = p.val]
      \/ /\ ~Matches(t, p.key)
         /\ loc' = [loc EXCEPT ![t].at = cell, ![t].i = loc[t].i + 1, ![t].j = j + 1]
         /\ UNCHANGED <<pc, result>>
  BY <1>2, <1>3, <1>6 DEF Compare, Equals
<1>8. \A c \in Buckets : Unmoved(c)
  BY <1>4, QuietUnmoved
<1>9. ASSUME NEW q \in Nat, loc' = [loc EXCEPT ![t].at = cell, ![t].i = loc[t].i + 1, ![t].j = q],
             UNCHANGED <<pc, result>>
      PROVE  EffectOK(t)' /\ Waits(t)
  <2>1. Alone(t) /\ loc'[t].call = loc[t].call /\ loc'[t].id = loc[t].id
    BY <1>1, <1>9 DEF TypesOK, LocType, Alone
  <2>2. Local(t)
    BY <1>1, <1>4, <1>9, <2>1, QuietLocal DEF Op
  <2>3. EffectOK(t)'
    BY <1>1, <1>4, <1>9, NoEffect DEF EffectOK, Unpublished, Searching
  <2>4. QED
    BY <1>4, <1>8, <1>9, <2>1, <2>2, <2>3 DEF Waits, Pending, Unpublished
<1>10. CASE Matches(t, p.key)
  <2>1. PICK q \in {"iunlock", "runlock"} :
           /\ Goto(t, q)
           /\ q = "iunlock" => result' = result
           /\ q = "runlock" => result' = [result EXCEPT ![t] = p.val]
    BY <1>7, <1>10
  <2>2. loc' = [loc EXCEPT ![t].at = cell, ![t].j = j]
    BY <1>7, <1>10
  <2>3. Alone(t) /\ pc'[t] = q
    BY <1>1, <2>1, <2>2 DEF TypesOK, Goto, Alone
  <2>4. /\ loc'[t].call = loc[t].call /\ loc'[t].id = loc[t].id /\ loc'[t].b = b
        /\ loc'[t].at = cell /\ loc'[t].j = j
    BY <1>1, <1>2, <2>2 DEF TypesOK, LocType
  <2>5. \A u \in Threads : u # t => result'[u] = result[u]
    BY <1>1, <2>1 DEF TypesOK
  <2>6. Local(t)
    BY <1>1, <1>4, <2>1, <2>3, <2>5, QuietLocal DEF Unpublished, Searching
  <2>7. Op(t) # "remove_if" /\ Op(t)' = Op(t)
    BY <1>1, <1>4, <2>4 DEF CallOK, Reading, Op
  <2>8. EffectOK(t)'
    BY <2>1, <2>3, <2>7, HadEffect
  <2>9. AbsResult(t)' = p.val
    <3>1. StatusOK'
      BY DoneAt, PTL
    <3>2. CASE q = "iunlock"
      <4>1. AbsResult(t)' = pairs'[Deref(loc[t].b, loc[t].at)'][loc'[t].j].val
        BY <2>3, <3>1, <3>2 DEF StatusOK
      <4>2. Deref(loc[t].b, loc[t].at)' = Deref(b, cell)
        BY <1>4, <2>4 DEF Deref
      <4>3. QED
        BY <1>4, <1>6, <2>4, <4>1, <4>2
    <3>3. CASE q = "runlock"
      <4>1. AbsResult(t)' = result'[t]
        BY <2>3, <3>1, <3>3 DEF StatusOK
      <4>2. QED
        BY <1>1, <2>1, <3>3, <4>1 DEF TypesOK
    <3>4. QED
      BY <2>1, <3>2, <3>3
  <2>10. QED
    BY <1>1, <1>2, <1>4, <1>5, <1>6, <1>8, <1>10, <2>1, <2>3, <2>4, <2>6, <2>8, <2>9 DEF Sees
<1>11. CASE ~Matches(t, p.key)
  <2>1. j \in Nat /\ j + 1 \in Nat
    BY <1>1, <1>3, HashtabAssumption DEF LocType
  <2>2. QED
    BY <1>7, <1>9, <1>11, <2>1
<1>12. QED
  BY <1>10, <1>11

(* A step that HashtabSpec does not see. *)
Stays(t) ==
    /\ Local(t) /\ loc'[t].call = loc[t].call /\ \A c \in Buckets : Unmoved(c)
    /\ AbsStatus(t)' = AbsStatus(t) /\ AbsResult(t)' = AbsResult(t)

(* A call sees that there is no pair of its key, or remove_if that it has
   gone through all buckets. *)
Misses(t) ==
    /\ Local(t) /\ loc'[t].call = loc[t].call /\ \A c \in Buckets : Unmoved(c)
    /\ pc[t] # "idle" /\ Op(t) # "insert"
    /\ Op(t) # "remove_if" => NoneBefore(t, size[loc[t].b])
    /\ AbsStatus(t) = "invoked" /\ AbsStatus(t)' = "done" /\ AbsResult(t)' = None

(* The unlock with which a function returns. *)
Returns(t) ==
    /\ Local(t) /\ loc'[t].call = None /\ \A c \in Buckets : Unmoved(c)
    /\ AbsStatus(t) = "done" /\ pc'[t] = "idle"

(* A step without an effect is none for HashtabSpec. *)
LEMMA WaitsStays ==
    ASSUME NEW t \in Threads, Waits(t)
    PROVE  Stays(t)
<1>1. StatusOK /\ StatusOK'
  BY DoneAt, PTL
<1>2. QED
  BY <1>1 DEF Waits, Stays, StatusOK

(* A get returns false when the size has not grown, or its search goes on; a
   get_and_insert tries the lock. *)
LEMMA EndScanMisses ==
    ASSUME HashtabInv, EffectsOK, NEW t \in Threads, EndScan(t)
    PROVE  EffectOK(t)' /\ (Stays(t) \/ Misses(t))
<1>1. /\ TypesOK /\ EffectOK(t) /\ CallOK(t) /\ SearchOK(t) /\ loc[t] \in LocType
      /\ size[loc[t].b] \in Nat
  BY InTheBucket, TopType DEF HashtabInv, EffectsOK, CallsOK
<1>2. PICK p : p = IF size[loc[t].b] > loc[t].cur THEN "scan" ELSE IF Op(t) = "get" THEN "runlock" ELSE "trylock"
  OBVIOUS
<1>3. pc[t] = "scan" /\ loc[t].i >= loc[t].cur /\ LoadSize(t, p)
  BY <1>2 DEF EndScan, ScanDone
<1>4. CASE p \in Searching
  BY <1>3, <1>4, LoadSizeWaits, WaitsStays DEF Searching
<1>5. CASE p = "runlock"
  <2>1. /\ Local(t) /\ Continues(t) /\ pc'[t] = "runlock" /\ result' = result
    BY <1>1, <1>3, <1>5, LoadSizeLocal DEF Searching
  <2>2. \A c \in Buckets : Unmoved(c)
    BY <1>3, QuietUnmoved DEF LoadSize, chunkVars
  <2>3. Op(t) = "get" /\ ~(size[loc[t].b] > loc[t].cur)
    BY <1>2, <1>5
  <2>4. NoneBefore(t, size[loc[t].b])
    <3>1. loc[t].i \in Nat /\ loc[t].cur \in Nat /\ loc[t].i <= loc[t].cur /\ loc[t].cur <= size[loc[t].b] /\ NoneBefore(t, loc[t].i)
      BY <1>1, <1>3 DEF SearchOK, Searching, LocType
    <3>2. loc[t].i = size[loc[t].b]
      BY <1>1, <1>3, <2>3, <3>1
    <3>3. QED
      BY <3>1, <3>2
  <2>5. result'[t] = None
    BY <1>1, <1>3, <2>1 DEF EffectOK, Unpublished, Searching
  <2>6. EffectOK(t)'
    BY <2>1, <2>5, NoEffect
  <2>7. StatusOK /\ StatusOK'
    BY DoneAt, PTL
  <2>8. AbsStatus(t) = "invoked" /\ AbsStatus(t)' = "done" /\ AbsResult(t)' = None
    BY <1>3, <2>1, <2>5, <2>7 DEF StatusOK, Pending, Unpublished, Searching
  <2>9. QED
    BY <1>3, <2>1, <2>2, <2>3, <2>4, <2>6, <2>8 DEF Misses, Continues
<1>6. QED
  BY <1>2, <1>4, <1>5 DEF Searching

(* The unlock of insert_lock and the read of the value behind it: the value
   is the one that was found or published. *)
LEMMA IUnlockStays ==
    ASSUME HashtabInv, EffectsOK, NEW t \in Threads, IUnlock(t) \/ ReadValue(t)
    PROVE  EffectOK(t)' /\ Stays(t)
<1>1. TypesOK /\ CallOK(t)
  BY DEF HashtabInv, CallsOK
<1>2. PICK p \in {"read", "runlock"} :
         /\ Goto(t, p) /\ UNCHANGED <<size, head, next, pairs, calls, loc>>
         /\ pc[t] \in {"iunlock", "read"}
         /\ p = "read" => result' = result
         /\ p = "runlock" => result' = [result EXCEPT ![t] = pairs[Deref(loc[t].b, loc[t].at)][loc[t].j].val]
  BY DEF IUnlock, ReadValue, chunkVars
<1>3. \A u \in Threads : u # t => result'[u] = result[u]
  BY <1>1, <1>2 DEF TypesOK
<1>4. Local(t) /\ loc'[t] = loc[t] /\ pc'[t] = p /\ \A c \in Buckets : Unmoved(c)
  BY <1>1, <1>2, <1>3, StayLocal, QuietUnmoved DEF Unpublished, Searching
<1>5. Op(t) # "remove_if" /\ Op(t)' = Op(t)
  BY <1>1, <1>2, <1>4 DEF CallOK, Reading, Op
<1>6. EffectOK(t)'
  BY <1>2, <1>4, <1>5, HadEffect
<1>7. StatusOK /\ StatusOK'
  BY DoneAt, PTL
<1>8. /\ AbsStatus(t) = "done" /\ AbsStatus(t)' = "done"
      /\ AbsResult(t) = pairs[Deref(loc[t].b, loc[t].at)][loc[t].j].val
  BY <1>2, <1>4, <1>7 DEF StatusOK
<1>9. AbsResult(t)' = AbsResult(t)
  <2>1. CASE p = "read"
    <3>1. AbsResult(t)' = pairs'[Deref(loc[t].b, loc[t].at)'][loc'[t].j].val
      BY <1>4, <1>7, <2>1 DEF StatusOK
    <3>2. QED
      BY <1>2, <1>8, <3>1 DEF Deref
  <2>2. CASE p = "runlock"
    <3>1. AbsResult(t)' = result'[t]
      BY <1>4, <1>7, <2>2 DEF StatusOK
    <3>2. QED
      BY <1>1, <1>2, <1>8, <2>2, <3>1 DEF TypesOK
  <2>3. QED
    BY <1>2, <2>1, <2>2
<1>10. QED
  BY <1>4, <1>6, <1>8, <1>9 DEF Stays

(* Whoever leaves a function returns its call. *)
LEMMA LeaveReturns ==
    ASSUME TypesOK, NEW t \in Threads, Leave(t), UNCHANGED <<size, head, next, pairs, calls>>,
           AbsStatus(t) = "done"
    PROVE  EffectOK(t)' /\ Returns(t)
<1>1. Alone(t) /\ pc'[t] = "idle" /\ loc'[t] = NoLoc
  BY LeaveStep
<1>2. result'[t] = None /\ \A u \in Threads : u # t => result'[u] = result[u]
  BY DEF Leave, TypesOK
<1>3. Local(t)
  BY <1>1, <1>2, QuietLocal DEF Unpublished, Searching
<1>4. EffectOK(t)'
  BY <1>1, <1>2, NoEffect
<1>5. QED
  BY <1>1, <1>3, <1>4, QuietUnmoved DEF Returns, NoLoc

(* SCOREP_RWLock_ReaderUnlock ends a get or get_and_insert. *)
LEMMA RUnlockReturns ==
    ASSUME HashtabInv, EffectsOK, NEW t \in Threads, RUnlock(t)
    PROVE  EffectOK(t)' /\ Returns(t)
<1>1. TypesOK /\ pc[t] = "runlock" /\ Leave(t) /\ UNCHANGED <<size, head, next, pairs, calls>>
  BY DEF RUnlock, chunkVars, HashtabInv
<1>2. AbsStatus(t) = "done"
  BY <1>1, DoneAt DEF StatusOK
<1>3. QED
  BY <1>1, <1>2, LeaveReturns

(* SCOREP_RWLock_WriterUnlock ends a removal, or remove_if goes on to the
   next bucket. *)
LEMMA WUnlockReturns ==
    ASSUME HashtabInv, EffectsOK, NEW t \in Threads, WUnlock(t)
    PROVE  EffectOK(t)' /\ (Stays(t) \/ Returns(t))
<1>1. /\ TypesOK /\ EffectOK(t) /\ pc[t] = "wunlock" /\ UNCHANGED <<size, head, next, pairs, calls>>
      /\ loc[t] \in LocType
  BY InTheBucket DEF WUnlock, chunkVars, HashtabInv, EffectsOK
<1>2. CASE Op(t) = "remove_if" /\ loc[t].b + 1 \in Buckets
  <2> DEFINE l == [NoLoc EXCEPT !.call = loc[t].call, !.b = loc[t].b + 1]
  <2>1. Goto(t, "wlock") /\ loc' = [loc EXCEPT ![t] = l] /\ result' = result
    BY <1>2 DEF WUnlock
  <2>2. l.call = loc[t].call
    BY DEF NoLoc
  <2> HIDE DEF l
  <2>3. Alone(t) /\ pc'[t] = "wlock" /\ loc'[t] = l
    BY <1>1, <2>1 DEF TypesOK, Goto, Alone
  <2>4. Local(t)
    BY <1>1, <2>1, <2>3, QuietLocal DEF Unpublished, Searching
  <2>5. result'[t] = None
    BY <1>1, <1>2, <2>1 DEF EffectOK
  <2>6. EffectOK(t)'
    BY <2>3, <2>5, NoEffect
  <2>7. StatusOK /\ StatusOK'
    BY DoneAt, PTL
  <2>8. AbsStatus(t)' = AbsStatus(t) /\ AbsResult(t)' = AbsResult(t)
    BY <1>1, <1>2, <2>3, <2>7 DEF StatusOK, Pending
  <2>9. QED
    BY <1>1, <2>2, <2>3, <2>4, <2>6, <2>8, QuietUnmoved DEF Stays
<1>3. CASE ~(Op(t) = "remove_if" /\ loc[t].b + 1 \in Buckets)
  <2>1. Leave(t)
    BY <1>3 DEF WUnlock
  <2>2. AbsStatus(t) = "done"
    BY <1>1, <1>3, DoneAt DEF StatusOK
  <2>3. QED
    BY <1>1, <2>1, <2>2, LeaveReturns
<1>4. QED
  BY <1>2, <1>3

(* The start of a call. *)
Invokes(t) ==
    /\ Local(t) /\ loc'[t].call \in Calls /\ \A c \in Buckets : Unmoved(c)
    /\ pc[t] = "idle" /\ pc'[t] \in Pending

(* A call starts with a new value for HashtabSpec to insert. *)
LEMMA CallInvokes ==
    ASSUME HashtabInv, EffectsOK, NEW t \in Threads, Call(t)
    PROVE  EffectOK(t)' /\ Invokes(t)
<1>1. TypesOK /\ EffectOK(t) /\ calls \in Nat /\ loc[t].b \in Buckets
  BY InTheBucket, HashtabAssumption DEF HashtabInv, EffectsOK, TypesOK
<1>2. pc[t] = "idle" /\ calls' = calls + 1 /\ UNCHANGED <<size, head, next, pairs, result>>
  BY DEF Call, chunkVars
<1>3. PICK c \in Calls : \E b :
        /\ loc' = [loc EXCEPT ![t] =
               [NoLoc EXCEPT !.call = c, !.id = IF c.op = "insert" THEN calls + 1 ELSE None, !.b = b]]
        /\ Goto(t, IF c.op \in {"get", "insert"} THEN "rlock" ELSE "wlock")
  BY DEF Call
<1>0. PICK b :
        /\ loc' = [loc EXCEPT ![t] =
               [NoLoc EXCEPT !.call = c, !.id = IF c.op = "insert" THEN calls + 1 ELSE None, !.b = b]]
        /\ Goto(t, IF c.op \in {"get", "insert"} THEN "rlock" ELSE "wlock")
  BY <1>3
<1>4. PICK p \in {"rlock", "wlock"} : Goto(t, p)
  BY <1>0
<1> DEFINE l == [NoLoc EXCEPT !.call = c, !.id = IF c.op = "insert" THEN calls + 1 ELSE None, !.b = b]
<1>5. l.call = c /\ (c.op = "insert" => l.id = calls + 1)
  <2>1. l.call = c /\ l.id = (IF c.op = "insert" THEN calls + 1 ELSE None)
    BY DEF NoLoc
  <2>2. QED
    BY <2>1
<1>6. loc' = [loc EXCEPT ![t] = l]
  BY <1>0
<1> HIDE DEF l
<1>7. Alone(t) /\ pc'[t] = p /\ loc'[t] = l
  BY <1>1, <1>4, <1>6 DEF TypesOK, Goto, Alone
<1>8. \A d \in Buckets : Unmoved(d)
  BY <1>2, QuietUnmoved
<1>9. Local(t)
  <2>1. Op(t)' = "insert" => loc'[t].id \notin 1..calls
    BY <1>1, <1>5, <1>7 DEF Op
  <2>2. QED
    BY <1>1, <1>2, <1>7, <1>8, <2>1 DEF Local
<1>10. EffectOK(t)'
  BY <1>1, <1>2, <1>4, <1>7, NoEffect DEF EffectOK
<1>11. QED
  BY <1>2, <1>4, <1>5, <1>7, <1>8, <1>9, <1>10 DEF Invokes, Pending, Unpublished

(* The search of remove and get_and_remove: without a match it is the effect
   of the call, otherwise the pair is still there. *)
LEMMA SearchMisses ==
    ASSUME HashtabInv, EffectsOK, NEW t \in Threads, Search(t)
    PROVE  EffectOK(t)' /\ (Stays(t) \/ Misses(t))
<1> DEFINE found == {n \in 0..size[loc[t].b] - 1 : Matches(t, PairAt(loc[t].b, n).key)}
           i == CHOOSE n \in found : \A q \in found : n <= q
<1>1. /\ TypesOK /\ EffectOK(t) /\ CallOK(t) /\ loc[t].b \in Buckets /\ loc[t] \in LocType
  BY InTheBucket DEF HashtabInv, CallsOK, EffectsOK
<1>2. pc[t] = "search" /\ UNCHANGED <<size, head, next, pairs, calls>>
  BY DEF Search, chunkVars
<1>3. \/ /\ found = {}
         /\ Goto(t, "wunlock")
         /\ UNCHANGED <<loc, result>>
      \/ /\ found # {}
         /\ loc' = [loc EXCEPT ![t].cur = size[loc[t].b], ![t].i = i, ![t].j = i % NPairs,
                               ![t].at = Chain(loc[t].b)[i \div NPairs],
                               ![t].prev = IF i \div NPairs = 0 THEN Null ELSE Chain(loc[t].b)[i \div NPairs - 1]]
         /\ result' = [result EXCEPT ![t] = PairAt(loc[t].b, i).val]
         /\ Goto(t, "move")
  BY DEF Search
<1>4. Op(t) \in {"remove", "get_and_remove"} /\ result[t] = None
  BY <1>1, <1>2 DEF CallOK, Removing, EffectOK
<1>5. \A c \in Buckets : Unmoved(c)
  BY <1>2, QuietUnmoved
<1>6. StatusOK /\ StatusOK'
  BY DoneAt, PTL
<1>7. AbsStatus(t) = "invoked" /\ AbsResult(t) = None
  BY <1>2, <1>6 DEF StatusOK, Pending
<1>8. CASE found = {}
  <2>1. NoneBefore(t, size[loc[t].b])
    BY <1>8 DEF NoneBefore
  <2>2. Goto(t, "wunlock") /\ UNCHANGED <<loc, result>>
    BY <1>3, <1>8
  <2> HIDE DEF found, i
  <2>3. Local(t) /\ loc'[t] = loc[t] /\ pc'[t] = "wunlock"
    BY <1>1, <1>2, <2>2, StayLocal DEF Unpublished, Searching
  <2>4. Op(t)' = Op(t)
    BY <2>3 DEF Op
  <2>5. EffectOK(t)'
    BY <1>4, <2>3, <2>4, HadEffect
  <2>6. AbsStatus(t)' = "done" /\ AbsResult(t)' = None
    BY <1>4, <1>6, <2>2, <2>3, <2>4 DEF StatusOK
  <2>7. QED
    BY <1>2, <1>4, <1>5, <1>7, <2>1, <2>3, <2>5, <2>6 DEF Misses
<1>9. CASE found # {}
  <2> HIDE DEF found, i
  <2>1. PICK n : n = i
    OBVIOUS
  <2>2. PICK v : v = PairAt(loc[t].b, n).val
    OBVIOUS
  <2>3. Goto(t, "move") /\ result' = [result EXCEPT ![t] = v]
    BY <1>3, <1>9, <2>1, <2>2
  <2>4. Alone(t) /\ loc'[t].i = n /\ loc'[t].b = loc[t].b /\ loc'[t].call = loc[t].call
    <3>1. PICK j, c : j = i % NPairs /\ c = Chain(loc[t].b)[i \div NPairs]
      OBVIOUS
    <3>2. PICK p : p = IF i \div NPairs = 0 THEN Null ELSE Chain(loc[t].b)[i \div NPairs - 1]
      OBVIOUS
    <3>3. loc' = [loc EXCEPT ![t].cur = size[loc[t].b], ![t].i = i, ![t].j = j, ![t].at = c, ![t].prev = p]
      BY <1>3, <1>9, <3>1, <3>2
    <3>4. loc' = [loc EXCEPT ![t].cur = size[loc[t].b], ![t].i = n, ![t].j = j, ![t].at = c, ![t].prev = p]
      BY <2>1, <3>3
    <3>5. QED
      BY ONLY <1>1, <2>3, <3>4 DEF TypesOK, LocType, Goto, Alone
  <2>5. pc'[t] = "move" /\ result'[t] = v /\ \A u \in Threads : u # t => result'[u] = result[u]
    BY <1>1, <2>3 DEF TypesOK, Goto
  <2>6. Local(t)
    BY <1>1, <1>2, <2>4, <2>5, QuietLocal DEF Unpublished, Searching
  <2>7. PairAt(loc[t].b, loc[t].i)' = PairAt(loc[t].b, n)
    <3>1. \A c, q : PairAt(c, q)' = PairAt(c, q)
      BY <1>2, ViewSame
    <3>2. QED
      BY <2>4, <3>1
  <2>8. EffectOK(t)'
    <3>1. Op(t)' = Op(t)
      BY <2>4 DEF Op
    <3>2. QED
      BY <1>4, <2>2, <2>5, <2>7, <3>1 DEF EffectOK, Unpublished, Searching
  <2>9. AbsStatus(t)' = "invoked" /\ AbsResult(t)' = None
    BY <1>6, <2>5 DEF StatusOK, Pending
  <2>10. QED
    BY <1>5, <1>7, <2>4, <2>6, <2>8, <2>9 DEF Stays
<1>10. QED
  BY <1>8, <1>9

(* A round of remove_if's loops is no effect; the last bucket's end is its
   last. *)
LEMMA IfTestStays ==
    ASSUME HashtabInv, EffectsOK, NEW t \in Threads, IfTest(t)
    PROVE  EffectOK(t)' /\ (Stays(t) \/ Misses(t))
<1>1. /\ TypesOK /\ EffectOK(t) /\ CallOK(t) /\ loc[t] \in LocType
  BY InTheBucket DEF HashtabInv, CallsOK, EffectsOK
<1>2. pc[t] = "iftest" /\ UNCHANGED <<size, head, next, pairs, calls, result>>
  BY DEF IfTest, chunkVars
<1>3. \/ Goto(t, "wunlock") /\ loc' = loc
      \/ loc' = [loc EXCEPT ![t].at = next[loc[t].at], ![t].j = 0] /\ pc' = pc
      \/ loc' = [loc EXCEPT ![t].prev = Null] /\ Goto(t, "move")
      \/ loc' = [loc EXCEPT ![t].i = loc[t].i + 1, ![t].j = loc[t].j + 1] /\ pc' = pc
  BY DEF IfTest
<1>4. /\ Alone(t) /\ loc'[t].call = loc[t].call /\ loc'[t].b = loc[t].b
      /\ pc'[t] \in {"iftest", "move", "wunlock"}
  <2>1. CASE Goto(t, "wunlock") /\ loc' = loc
    BY <1>1, <2>1 DEF TypesOK, Goto, Alone
  <2>2. CASE loc' = [loc EXCEPT ![t].at = next[loc[t].at], ![t].j = 0] /\ pc' = pc
    BY <1>1, <1>2, <2>2 DEF TypesOK, LocType, Alone
  <2>3. CASE loc' = [loc EXCEPT ![t].prev = Null] /\ Goto(t, "move")
    BY <1>1, <2>3 DEF TypesOK, LocType, Goto, Alone
  <2>4. CASE loc' = [loc EXCEPT ![t].i = loc[t].i + 1, ![t].j = loc[t].j + 1] /\ pc' = pc
    BY <1>1, <1>2, <2>4 DEF TypesOK, LocType, Alone
  <2>5. QED
    BY <1>3, <2>1, <2>2, <2>3, <2>4
<1>5. Op(t) = "remove_if" /\ Op(t)' = Op(t) /\ result'[t] = None
  BY <1>1, <1>2, <1>4 DEF CallOK, EffectOK, Op
<1>6. Local(t)
  BY <1>1, <1>2, <1>4, QuietLocal DEF Unpublished, Searching
<1>7. EffectOK(t)'
  BY <1>4, <1>5, NoEffect
<1>8. \A c \in Buckets : Unmoved(c)
  BY <1>2, QuietUnmoved
<1>9. StatusOK /\ StatusOK'
  BY DoneAt, PTL
<1>10. AbsStatus(t) = "invoked" /\ AbsResult(t) = None
  BY <1>2, <1>9 DEF StatusOK, Pending
<1>11. CASE pc'[t] = "wunlock" /\ loc[t].b + 1 \notin Buckets
  <2>1. AbsStatus(t)' = "done" /\ AbsResult(t)' = None
    <3>1. loc'[t].b + 1 \notin Buckets
      BY <1>4, <1>11
    <3>2. AbsStatus(t)' = "done" /\ AbsResult(t)' = result'[t]
      BY <1>9, <1>11, <3>1 DEF StatusOK
    <3>3. QED
      BY <1>5, <3>2
  <2>2. QED
    BY <1>2, <1>4, <1>5, <1>6, <1>7, <1>8, <1>10, <2>1 DEF Misses
<1>12. CASE ~(pc'[t] = "wunlock" /\ loc[t].b + 1 \notin Buckets)
  <2>1. AbsStatus(t)' = "invoked" /\ AbsResult(t)' = None
    <3>1. CASE pc'[t] = "wunlock"
      <4>1. loc'[t].b + 1 \in Buckets
        BY <1>4, <1>12, <3>1
      <4>2. QED
        BY <1>5, <1>9, <3>1, <4>1 DEF StatusOK
    <3>2. CASE pc'[t] \in {"iftest", "move"}
      BY <1>9, <3>2 DEF StatusOK, Pending
    <3>3. QED
      BY <1>4, <3>1, <3>2
  <2>2. QED
    BY <1>4, <1>6, <1>7, <1>8, <1>10, <2>1 DEF Stays
<1>13. QED
  BY <1>11, <1>12

(* An insertion publishes its pair, and the key had none. *)
Publishes(t) ==
    /\ Local(t) /\ loc'[t].call = loc[t].call
    /\ pc[t] = "publish" /\ AbsStatus(t)' = "done" /\ AbsResult(t)' = loc[t].id
    /\ \A c \in Buckets : c # loc[t].b => Unmoved(c)
    /\ \E b \in Buckets, k \in Keys :
         /\ b = loc[t].b /\ loc[t].call.keys = {k} /\ BucketIdx[k] = b /\ NoneBefore(t, size[b])
         /\ PairAt(b, size[b]) = [key |-> k, val |-> loc[t].id]
         /\ \A i : PairAt(b, i)' = PairAt(b, i)
         /\ size[b] \in Nat /\ size'[b] = size[b] + 1

(* A Publish is the effect of a get_and_insert that inserts. *)
LEMMA PublishPublishes ==
    ASSUME HashtabInv, EffectsOK, NEW t \in Threads, Publish(t)
    PROVE  EffectOK(t)' /\ Publishes(t)
<1>1. TypesOK /\ CallOK(t) /\ loc[t].b \in Buckets /\ calls \in Nat
  BY InTheBucket, HashtabAssumption DEF HashtabInv, CallsOK, TypesOK
<1>2. pc[t] = "publish" /\ Goto(t, "iunlock") /\ UNCHANGED <<head, next, pairs, calls, loc, result>>
  BY DEF Publish, chunkVars
<1>3. PICK b \in Buckets : b = loc[t].b
  BY <1>1
<1>4. /\ \A c \in Buckets : c # b => Unmoved(c)
      /\ \A i : PairAt(b, i)' = PairAt(b, i)
      /\ size[b] \in Nat /\ size'[b] = size[b] + 1
      /\ \E k \in Keys :
           /\ loc[t].call.keys = {k} /\ BucketIdx[k] = b /\ NoneBefore(t, size[b])
           /\ PairAt(b, size[b]) = [key |-> k, val |-> loc[t].id]
           /\ PairAt(b, size[b]) = pairs[Deref(b, loc[t].at)][loc[t].j]
  <2>1. Appends(t, b)
    BY <1>3, PublishAppends
  <2>2. QED
    BY <2>1 DEF Appends
<1>5. Alone(t) /\ pc'[t] = "iunlock" /\ loc'[t] = loc[t]
  BY <1>1, <1>2 DEF TypesOK, Goto, Alone
<1>6. Op(t) = "insert" /\ Op(t)' = Op(t)
  BY <1>1, <1>2, <1>5 DEF CallOK, Inserting, Op
<1>7. EffectOK(t)'
  BY <1>5, <1>6, HadEffect
<1>8. Local(t)
  BY <1>1, <1>2, <1>3, <1>4, <1>5 DEF Local, Reading, Unpublished, Searching
<1>9. AbsStatus(t)' = "done" /\ AbsResult(t)' = loc[t].id
  <2>1. StatusOK'
    BY DoneAt, PTL
  <2>2. AbsStatus(t)' = "done" /\ AbsResult(t)' = pairs'[Deref(loc[t].b, loc[t].at)'][loc'[t].j].val
    BY <1>5, <2>1 DEF StatusOK
  <2>3. Deref(loc[t].b, loc[t].at)' = Deref(b, loc[t].at)
    BY <1>2, <1>3 DEF Deref
  <2>4. QED
    BY <1>2, <1>4, <2>2, <2>3
<1>10. QED
  BY <1>2, <1>3, <1>4, <1>5, <1>7, <1>8, <1>9 DEF Publishes

(* A Move puts the last pair in the place of the one that goes. *)
Replaces(t, b) ==
    /\ \A c \in Buckets : c # b => Unmoved(c)
    /\ size'[b] = size[b]
    /\ \A i \in 0..size[b] - 1 :
         PairAt(b, i)' = IF i = loc[t].i THEN PairAt(b, size[b] - 1) ELSE PairAt(b, i)

(* A step of a removal that writes to the bucket. *)
Writes(t) ==
    /\ Local(t) /\ loc'[t].call = loc[t].call /\ loc'[t].b = loc[t].b /\ result' = result
    /\ pc[t] \in {"move", "release", "shrink"}
    /\ pc'[t] \in {"release", "shrink", "iftest", "wunlock"}
    /\ pc'[t] = "iftest" => Op(t) = "remove_if"
    /\ pc'[t] = "wunlock" => Op(t) # "remove_if"
    /\ \E b \in Buckets :
         /\ b = loc[t].b
         /\ \/ pc[t] = "move" /\ Replaces(t, b)
            \/ pc[t] \in {"release", "shrink"} /\ Drops(t, b)

(* A step of a removal, alone in its bucket, as the other threads see it. *)
LEMMA RemovesLocally ==
    ASSUME HashtabInv, NEW t \in Threads, Alone(t), NEW b \in Buckets, b = loc[t].b,
           \A c \in Buckets : c # b => Unmoved(c), result' = result, calls' = calls,
           pc[t] \in Removing, pc'[t] \in Removing
    PROVE  Local(t)
<1>1. calls \in Nat
  BY HashtabAssumption DEF HashtabInv, TypesOK
<1>2. pc'[t] \notin Unpublished
  BY DEF Removing, Unpublished, Searching
<1>3. QED
  BY <1>1, <1>2 DEF Local

(* MOVE_LAST_TO_REMOVED overwrites the removed pair. *)
LEMMA MoveWrites ==
    ASSUME HashtabInv, EffectsOK, NEW t \in Threads, Move(t)
    PROVE  EffectOK(t)' /\ (Stays(t) \/ Writes(t))
<1>1. /\ TypesOK /\ LocksOK /\ EffectOK(t) /\ CallOK(t) /\ RemoveOK(t) /\ FilledOK /\ ValuesOK
      /\ loc[t] \in LocType /\ \A u \in Threads : RemoveOK(u)
  BY InTheBucket DEF HashtabInv, CallsOK, EffectsOK
<1>2. PICK b \in Buckets : b = loc[t].b
  BY <1>1, InTheBucket
<1>3. /\ \A c \in Buckets : c # b => Unmoved(c)
      /\ pc[t] = "move" /\ size' = size /\ result' = result /\ calls' = calls /\ Alone(t)
      /\ loc'[t].b = b /\ loc'[t].call = loc[t].call
      /\ loc'[t].i = loc[t].i /\ loc'[t].cur = loc[t].cur
  BY <1>2, MoveOverwrites
<1>4. Op(t)' = Op(t) /\ \A k : Matches(t, k)' <=> Matches(t, k)
  BY <1>3 DEF Op, Matches
<1>5. /\ size[b] \in Nat /\ Top(b) = size[b] /\ loc[t].cur = size[b]
      /\ loc[t].i \in 0..size[b] - 1 /\ Matches(t, PairAt(b, loc[t].i).key)
      /\ Op(t) # "remove_if" => result[t] = PairAt(b, loc[t].i).val
      /\ Op(t) = "remove_if" => result[t] = None
  <2>1. In(t, Removing \ {"release", "shrink"}, b)
    BY <1>2, <1>3 DEF In, Removing
  <2>2. size[b] \in Nat /\ Top(b) = size[b]
    BY <1>1, <2>1, TopIs, TopType
  <2>3. loc[t].cur = size[b] /\ loc[t].i < size[b] /\ loc[t].i \in Nat /\ Matches(t, PairAt(b, loc[t].i).key)
    BY <1>1, <1>2, <1>3 DEF RemoveOK, LocType
  <2>4. /\ Op(t) # "remove_if" => result[t] = PairAt(b, loc[t].i).val
        /\ Op(t) = "remove_if" => result[t] = None
    BY <1>1, <1>2, <1>3 DEF EffectOK
  <2>5. QED
    BY <2>2, <2>3, <2>4
<1>6. CASE pc'[t] = "oob" /\ Unmoved(b)
  <2>1. Local(t)
    BY <1>2, <1>3, <1>6, RemovesLocally DEF Removing
  <2>2. PairAt(b, loc[t].i)' = PairAt(b, loc[t].i)
    <3>1. PICK i : i = loc[t].i /\ i = loc'[t].i
      BY <1>3
    <3>2. PairAt(b, i)' = PairAt(b, i)
      BY <1>5, <1>6, <3>1 DEF Unmoved
    <3>3. QED
      BY <3>1, <3>2
  <2>3. EffectOK(t)'
    BY <1>3, <1>4, <1>5, <1>6, <2>2 DEF EffectOK, Unpublished, Searching
  <2>4. StatusOK /\ StatusOK'
    BY DoneAt, PTL
  <2>5. AbsStatus(t)' = AbsStatus(t) /\ AbsResult(t)' = AbsResult(t)
    BY <1>3, <1>6, <2>4 DEF StatusOK, Pending
  <2>6. QED
    BY <1>3, <1>6, <2>1, <2>3, <2>5 DEF Stays
<1>7. CASE /\ pc'[t] \in {"release", "shrink"}
           /\ \A i \in 0..size[b] - 1 :
                PairAt(b, i)' = IF i = loc[t].i THEN PairAt(b, size[b] - 1) ELSE PairAt(b, i)
  <2>1. Local(t)
    BY <1>2, <1>3, <1>7, RemovesLocally DEF Removing
  <2>2. PICK P, i, s : P = PairAt(b, size[b] - 1) /\ i = loc[t].i /\ s = size[b] - 1
    OBVIOUS
  <2>3. s \in 0..Top(b) - 1 /\ s \in 0..size[b] - 1 /\ i \in 0..size[b] - 1 /\ PairAt(b, s) = P
    BY <1>5, <2>2
  <2>4. PairAt(b, s)' = P /\ PairAt(b, i)' = P
    BY <1>7, <2>2, <2>3
  <2>5. P.key \in Keys /\ BucketIdx[P.key] = b /\ P.val \in 1..calls
    BY <1>1, <2>3 DEF FilledOK
  <2>6. i = s => Matches(t, P.key) /\ (Op(t) # "remove_if" => result[t] = P.val)
    BY <1>5, <2>2, <2>3
  <2>7. ASSUME NEW u \in Threads, pc'[u] \in Unpublished, Op(u)' = "insert" PROVE P.val # loc'[u].id
    <3>1. u # t
      BY <1>7, <2>7 DEF Unpublished, Searching
    <3>2. pc[u] \in Unpublished /\ Op(u) = "insert" /\ loc'[u] = loc[u]
      BY <1>3, <2>7, <3>1 DEF Alone, Op
    <3>3. QED
      BY <1>1, <2>3, <3>2 DEF ValuesOK, Unpublished
  <2>8. PairAt(loc[t].b, loc[t].cur - 1)' = P /\ PairAt(loc[t].b, loc[t].i)' = P
    <3>1. loc'[t].b = b /\ loc'[t].cur - 1 = s /\ loc'[t].i = i
      BY <1>3, <1>5, <2>2
    <3>2. QED
      BY <2>4, <3>1
  <2>9. loc'[t].i = i /\ loc'[t].cur - 1 = s
    BY <1>3, <1>5, <2>2
  <2>10. EffectOK(t)'
    <3>1. i = s => Matches(t, P.key)'
      BY <1>4, <2>6
    <3>2. pc'[t] \notin Unpublished \cup {"idle", "wlock", "search", "move", "oob"}
      BY <1>7 DEF Unpublished, Searching
    <3>3. Op(t)' = "remove_if" => result'[t] = None
      BY <1>3, <1>4, <1>5
    <3>4. i = s => (Op(t)' # "remove_if" => result'[t] = P.val)
      BY <1>3, <1>4, <2>6
    <3>5. P.val \in 1..calls'
      BY <1>3, <2>5
    <3>6. loc'[t].b = b
      BY <1>3
    <3>7. QED
      BY <2>5, <2>7, <2>8, <2>9, <3>1, <3>2, <3>3, <3>4, <3>5, <3>6 DEF EffectOK
  <2>11. QED
    <3>1. Replaces(t, b)
      BY <1>3, <1>7 DEF Replaces
    <3>2. QED
      BY <1>2, <1>3, <1>7, <2>1, <2>10, <3>1 DEF Writes
<1>8. QED
  BY <1>2, <1>6, <1>7, MoveOverwrites

(* The release of the last chunk and the store of the size drop the last
   pair. *)
LEMMA DropWrites ==
    ASSUME HashtabInv, EffectsOK, NEW t \in Threads, Release(t) \/ Shrink(t)
    PROVE  EffectOK(t)' /\ Writes(t)
<1>1. TypesOK /\ EffectOK(t) /\ CallOK(t) /\ RemoveOK(t)
  BY DEF HashtabInv, CallsOK, EffectsOK
<1>2. PICK b \in Buckets : b = loc[t].b
  BY <1>1, InTheBucket
<1>3. CASE Release(t)
  <2>1. /\ Drops(t, b) /\ Alone(t) /\ pc[t] = "release" /\ pc'[t] = "shrink"
        /\ loc'[t] = loc[t] /\ result' = result /\ calls' = calls
        /\ size' = size /\ PairAt(b, size[b] - 1)' = NoPair
    BY <1>2, <1>3, ReleaseDrops
  <2>2. Local(t)
    BY <1>2, <2>1, RemovesLocally DEF Removing, Drops
  <2>3. PairAt(loc[t].b, loc[t].cur - 1)' = NoPair
    <3>1. loc'[t].b = b /\ loc'[t].cur - 1 = size'[b] - 1
      BY <1>2, <2>1 DEF Drops
    <3>2. QED
      BY <2>1, <3>1
  <2>4. Op(t)' = Op(t)
    BY <2>1 DEF Op
  <2>5. EffectOK(t)'
    BY <1>1, <2>1, <2>3, <2>4 DEF EffectOK, Unpublished, Searching
  <2>6. QED
    BY <1>2, <2>1, <2>2, <2>5 DEF Writes
<1>4. CASE Shrink(t)
  <2>1. /\ Drops(t, b) /\ Alone(t) /\ pc[t] = "shrink"
        /\ pc'[t] = (IF Op(t) = "remove_if" THEN "iftest" ELSE "wunlock")
        /\ loc'[t].b = b /\ loc'[t].call = loc[t].call
        /\ result' = result /\ calls' = calls
    BY <1>2, <1>4, ShrinkDrops
  <2>2. Local(t)
    BY <1>2, <2>1, RemovesLocally DEF Removing, Drops
  <2>3. Op(t)' = Op(t)
    BY <2>1 DEF Op
  <2>4. EffectOK(t)'
    BY <1>1, <2>1, <2>3 DEF EffectOK, Unpublished, Searching
  <2>5. QED
    BY <1>2, <2>1, <2>2, <2>4 DEF Writes
<1>5. QED
  BY <1>3, <1>4

-----------------------------------------------------------------------------
(* Every step, and EffectsOK. *)

(* What a step of a thread can be for HashtabSpec. *)
Outcome(t) ==
    Stays(t) \/ Misses(t) \/ Sees(t) \/ Returns(t) \/ Invokes(t) \/ Publishes(t) \/ Writes(t)

(* Each step of a thread is one of the outcomes. *)
LEMMA Outcomes ==
    ASSUME HashtabInv, EffectsOK, NEW t \in Threads, Call(t) \/ Step(t)
    PROVE  EffectOK(t)' /\ Local(t) /\ Outcome(t)
<1>1. EffectOK(t)' /\ Outcome(t)
  <2>1. CASE Call(t)
    BY <2>1, CallInvokes DEF Outcome
  <2>2. CASE RLock(t)
    BY <2>2, RLockWaits, WaitsStays DEF Outcome
  <2>3. CASE Load(t) \/ Reload(t) \/ LockedLoad(t)
    BY <2>3, LoadWaits, WaitsStays DEF Outcome
  <2>4. CASE TryLock(t) \/ EndRescan(t)
    BY <2>4, TryLockWaits, WaitsStays DEF Outcome
  <2>5. CASE Compare(t)
    BY <2>5, CompareFinds, WaitsStays DEF Outcome
  <2>6. CASE EndScan(t)
    BY <2>6, EndScanMisses DEF Outcome
  <2>7. CASE RUnlock(t)
    BY <2>7, RUnlockReturns DEF Outcome
  <2>8. CASE NewChunk(t)
    BY <2>8, NewChunkWaits, WaitsStays DEF Outcome
  <2>9. CASE Write(t)
    BY <2>9, WriteWaits, WaitsStays DEF Outcome
  <2>10. CASE Publish(t)
    BY <2>10, PublishPublishes DEF Outcome
  <2>11. CASE IUnlock(t) \/ ReadValue(t)
    BY <2>11, IUnlockStays DEF Outcome
  <2>12. CASE WLock(t)
    BY <2>12, WLockWaits, WaitsStays DEF Outcome
  <2>13. CASE Search(t)
    BY <2>13, SearchMisses DEF Outcome
  <2>14. CASE Move(t)
    BY <2>14, MoveWrites DEF Outcome
  <2>15. CASE Release(t) \/ Shrink(t)
    BY <2>15, DropWrites DEF Outcome
  <2>16. CASE WUnlock(t)
    BY <2>16, WUnlockReturns DEF Outcome
  <2>17. CASE IfLoad(t)
    BY <2>17, IfLoadWaits, WaitsStays DEF Outcome
  <2>18. CASE IfTest(t)
    BY <2>18, IfTestStays DEF Outcome
  <2>19. QED
    BY <2>1, <2>2, <2>3, <2>4, <2>5, <2>6, <2>7, <2>8, <2>9, <2>10, <2>11, <2>12, <2>13, <2>14,
       <2>15, <2>16, <2>17, <2>18 DEF Step
<1>2. Outcome(t) => Local(t)
  BY DEF Outcome, Stays, Misses, Sees, Returns, Invokes, Publishes, Writes
<1>3. QED
  BY <1>1, <1>2

(* EffectsOK is kept by every step. *)
LEMMA NextEffects ==
    ASSUME HashtabInv, EffectsOK, [Next]_vars
    PROVE  EffectsOK'
<1>1. ASSUME NEW t \in Threads, Call(t) \/ Step(t) PROVE EffectsOK'
  BY <1>1, Outcomes, EffectsFrom
<1>2. CASE FreeChunks
  <2>1. ASSUME NEW t \in Threads PROVE EffectOK(t)'
    <3>1. EffectOK(t) /\ pc[t] = "idle" /\ pc'[t] = "idle" /\ result'[t] = result[t]
      BY <1>2 DEF EffectsOK, FreeChunks
    <3>2. QED
      BY <3>1, NoEffect DEF EffectOK
  <2>2. QED
    BY <2>1 DEF EffectsOK
<1>3. CASE UNCHANGED vars
  <2>1. UNCHANGED <<size, head, next, pairs, calls, pc, loc, result>>
    BY <1>3 DEF vars, chunkVars
  <2>2. \A b, i : PairAt(b, i)' = PairAt(b, i)
    BY <2>1, ViewSame
  <2>3. ASSUME NEW t \in Threads PROVE EffectOK(t)'
    <3>1. EffectOK(t) /\ \A k : Matches(t, k)' <=> Matches(t, k)
      BY <2>1 DEF EffectsOK, Matches
    <3>2. /\ PairAt(loc[t].b, loc[t].cur - 1)' = PairAt(loc[t].b, loc[t].cur - 1)
          /\ PairAt(loc[t].b, loc[t].i)' = PairAt(loc[t].b, loc[t].i)
      BY <2>1, <2>2
    <3>3. \A u \in Threads : Op(u)' = Op(u)
      BY <2>1 DEF Op
    <3>4. PICK P, Q : P = PairAt(loc[t].b, loc[t].cur - 1) /\ Q = PairAt(loc[t].b, loc[t].i)
      OBVIOUS
    <3>5. PairAt(loc[t].b, loc[t].cur - 1)' = P /\ PairAt(loc[t].b, loc[t].i)' = Q /\ (Matches(t, P.key)' <=> Matches(t, P.key))
      BY <3>1, <3>2, <3>4
    <3>6. Matches(t, PairAt(loc[t].b, loc[t].cur - 1).key)' <=> Matches(t, P.key)
      BY <2>1, <3>5 DEF Matches
    <3>7. QED
      BY <2>1, <3>1, <3>3, <3>4, <3>5, <3>6 DEF EffectOK
  <2>4. QED
    BY <2>3 DEF EffectsOK
<1>4. QED
  BY <1>1, <1>2, <1>3 DEF Next

(* A call's result is set no earlier than its effect. *)
THEOREM EffectsAlways == Spec => []EffectsOK
<1>1. Init => EffectsOK
  BY InitEffects
<1>2. HashtabInv /\ EffectsOK /\ [Next]_vars => EffectsOK'
  BY NextEffects
<1>3. QED
  BY <1>1, <1>2, Invariance, PTL DEF Spec

-----------------------------------------------------------------------------
(* The map and the other calls after a step. *)

(* The value of a key, told from the pairs of its bucket. *)
LEMMA Absent ==
    ASSUME MapOK, NEW k \in Keys,
           \A i \in 0..size[BucketIdx[k]] - 1 : PairAt(BucketIdx[k], i).key # k
    PROVE  Map[k] = None
<1>1. \A v \in Values : ~HasPair(k, v)
  BY DEF HasPair
<1>2. Map[k] \in Values \cup {None} /\ \A v \in Values : Map[k] = v <=> HasPair(k, v)
  BY DEF MapOK
<1>3. QED
  BY <1>1, <1>2

(* A pair of the key gives its value. *)
LEMMA Present ==
    ASSUME MapOK, NEW k \in Keys, NEW i \in 0..size[BucketIdx[k]] - 1,
           PairAt(BucketIdx[k], i).key = k, PairAt(BucketIdx[k], i).val \in Values
    PROVE  Map[k] = PairAt(BucketIdx[k], i).val
<1>1. PICK v \in Values : v = PairAt(BucketIdx[k], i).val
  OBVIOUS
<1>2. HasPair(k, v)
  BY <1>1 DEF HasPair
<1>3. QED
  BY <1>1, <1>2 DEF MapOK

(* The same pairs give the same value. *)
LEMMA MapAgrees ==
    ASSUME MapOK, MapOK', NEW k \in Keys, \A v \in Values : HasPair(k, v)' <=> HasPair(k, v)
    PROVE  Map'[k] = Map[k]
<1>1. Map[k] \in Values \cup {None} /\ \A v \in Values : Map[k] = v <=> HasPair(k, v)
  BY DEF MapOK
<1>2. Map'[k] \in Values \cup {None} /\ \A v \in Values : Map'[k] = v <=> HasPair(k, v)'
  BY DEF MapOK
<1>3. QED
  BY <1>1, <1>2

(* A key whose bucket is not moved keeps its value. *)
LEMMA MapUnmoved ==
    ASSUME MapOK, MapOK', NEW k \in Keys, Unmoved(BucketIdx[k])
    PROVE  Map'[k] = Map[k]
<1>1. ASSUME NEW v \in Values PROVE HasPair(k, v)' <=> HasPair(k, v)
  BY DEF HasPair, Unmoved
<1>2. QED
  BY <1>1, MapAgrees

(* The map stays the same when no bucket is moved. *)
LEMMA AllUnmoved ==
    ASSUME MapOK, MapOK', \A c \in Buckets : Unmoved(c)
    PROVE  Map' = Map
<1>1. \A k \in Keys : Map'[k] = Map[k]
  BY MapUnmoved, HashtabAssumption
<1>2. Map \in [Keys -> Values \cup {None}] /\ Map' \in [Keys -> Values \cup {None}]
  BY DEF MapOK
<1>3. QED
  BY <1>1, <1>2

(* The facts of a step that hold before and after it. *)
LEMMA BothStates ==
    ASSUME HashtabInv, EffectsOK, HashtabInv', EffectsOK'
    PROVE  MapOK /\ MapOK' /\ ReadOK /\ ReadOK' /\ StatusOK /\ StatusOK'
<1>1. (HashtabInv /\ EffectsOK => MapOK)' /\ (HashtabInv => ReadOK)' /\ StatusOK /\ StatusOK'
  BY MapIs, ReadFacts, DoneAt, PTL
<1>2. QED
  BY <1>1, MapIs, ReadFacts

(* A step of thread t is none of the calls of the others. *)
LEMMA OthersFrame ==
    ASSUME HashtabInv, EffectsOK, HashtabInv', EffectsOK',
           NEW t \in Threads, Local(t), NEW u \in Threads, u # t
    PROVE  AbsStatus(u)' = AbsStatus(u) /\ AbsResult(u)' = AbsResult(u) /\ loc'[u].call = loc[u].call
<1>1. /\ MapOK /\ MapOK' /\ ReadOK /\ ReadOK' /\ StatusOK /\ StatusOK'
      /\ TypesOK /\ LocksOK /\ CallOK(u)
  BY BothStates DEF HashtabInv, CallsOK
<1>2. pc'[u] = pc[u] /\ loc'[u] = loc[u] /\ result'[u] = result[u] /\ Op(u)' = Op(u)
  BY DEF Local, Alone, Op
<1>3. PICK b \in Buckets : b = loc[u].b
  BY <1>1, InTheBucket
<1>4. CASE pc[u] \in {"iunlock", "read"}
  <2>1. AbsStatus(u) = "done" /\ AbsStatus(u)' = "done"
    BY <1>1, <1>2, <1>4 DEF StatusOK
  <2>2. AbsResult(u) = PairAt(b, loc[u].i).val /\ loc[u].i \in 0..size[b] - 1
    BY <1>1, <1>3, <1>4 DEF StatusOK, ReadOK
  <2>3. AbsResult(u)' = PairAt(loc[u].b, loc[u].i)'.val
    <3>1. AbsResult(u)' = (pairs[Deref(loc[u].b, loc[u].at)][loc[u].j].val)'
      BY <1>1, <1>2, <1>4 DEF StatusOK
    <3>2. pairs[Deref(loc[u].b, loc[u].at)][loc[u].j]' = PairAt(loc[u].b, loc[u].i)'
      BY <1>1, <1>2, <1>4 DEF ReadOK
    <3>3. QED
      BY <3>1, <3>2
  <2>4. PairAt(loc[u].b, loc[u].i)' = PairAt(b, loc[u].i)'
    BY <1>2, <1>3
  <2>5. \A i \in 0..size[b] - 1 : PairAt(b, i)' = PairAt(b, i)
    <3>1. ~(b = loc[t].b /\ pc[t] \in Removing)
      BY <1>1, <1>3, <1>4, Exclusion DEF In, Reading
    <3>2. CASE Unmoved(b)
      BY <3>2 DEF Unmoved
    <3>3. QED
      BY <3>1, <3>2 DEF Local
  <2>6. PairAt(b, loc[u].i)' = PairAt(b, loc[u].i)
    <3>1. PICK i \in 0..size[b] - 1 : i = loc[u].i
      BY <2>2
    <3>2. PairAt(b, loc[u].i)' = PairAt(b, i)'
      BY <1>2, <3>1
    <3>3. QED
      BY <2>5, <3>1, <3>2
  <2>7. QED
    BY <1>2, <2>1, <2>2, <2>3, <2>4, <2>6
<1>5. CASE pc[u] \in {"release", "shrink"} /\ Op(u) # "remove_if"
  <2>1. PICK k \in Keys : loc[u].call.keys = {k} /\ b = BucketIdx[k]
    BY <1>1, <1>3, <1>5 DEF CallOK
  <2>2. Unmoved(b)
    <3>1. ~(b = loc[t].b /\ (pc[t] \in Removing \/ pc[t] \in Reading))
      BY <1>1, <1>3, <1>5, Exclusion DEF In, Removing
    <3>2. QED
      BY <3>1 DEF Local
  <2>3. Map'[k] = Map[k]
    BY <1>1, <2>1, <2>2, MapUnmoved
  <2>4. /\ AbsStatus(u) = IF Map[k] = None THEN "done" ELSE "invoked"
        /\ AbsStatus(u)' = IF Map'[k] = None THEN "done" ELSE "invoked"
    BY <1>2, <1>5, <2>1 DEF AbsStatus
  <2>5. AbsStatus(u)' = AbsStatus(u)
    BY <2>3, <2>4
  <2>6. /\ AbsResult(u) = IF AbsStatus(u) # "done" THEN None ELSE result[u]
        /\ AbsResult(u)' = IF AbsStatus(u)' # "done" THEN None ELSE result'[u]
    BY <1>2, <1>5 DEF AbsResult
  <2>7. QED
    BY <1>2, <2>5, <2>6
<1>6. CASE pc[u] \in Pending \cup {"idle"} \/ (pc[u] \in {"release", "shrink"} /\ Op(u) = "remove_if")
  BY <1>1, <1>2, <1>6 DEF StatusOK
<1>7. CASE pc[u] \in {"runlock", "wunlock"}
  BY <1>1, <1>2, <1>7 DEF StatusOK
<1>8. pc[u] \in Pcs \cup {"oob"}
  BY <1>1 DEF TypesOK
<1>9. QED
  BY <1>4, <1>5, <1>6, <1>7, <1>8 DEF Pcs, ScanPcs, Pending, Unpublished, Searching

(* HashtabSpec's variables. *)
CallOf == [t \in Threads |-> loc[t].call]
StatusOf == [t \in Threads |-> AbsStatus(t)]
ResultOf == [t \in Threads |-> AbsResult(t)]

(* What the calls look for. *)
LEMMA CallIs ==
    ASSUME HashtabInv, NEW t \in Threads, pc[t] # "idle"
    PROVE  /\ Op(t) \in KeyOps \cup {"remove_if"} /\ loc[t].call.keys \subseteq Keys
           /\ Op(t) # "remove_if" => \E k \in Keys : loc[t].call.keys = {k} /\ loc[t].b = BucketIdx[k]
<1>1. CallOK(t)
  BY DEF HashtabInv, CallsOK
<1>2. loc[t].call \in Calls /\ (Op(t) # "remove_if" => \E k \in Keys : loc[t].call.keys = {k} /\ loc[t].b = BucketIdx[k])
  BY <1>1 DEF CallOK
<1>3. \A c \in Calls : c.op \in KeyOps \cup {"remove_if"} /\ c.keys \subseteq Keys
  BY HashtabAssumption DEF Calls
<1>4. QED
  BY <1>2, <1>3 DEF Op

(* A step of one thread, on HashtabSpec's variables. *)
LEMMA Becomes ==
    ASSUME HashtabInv, EffectsOK, HashtabInv', EffectsOK', NEW t \in Threads, Local(t),
           NEW c, NEW s, NEW r, loc'[t].call = c, AbsStatus(t)' = s, AbsResult(t)' = r
    PROVE  /\ CallOf' = [CallOf EXCEPT ![t] = c]
           /\ StatusOf' = [StatusOf EXCEPT ![t] = s]
           /\ ResultOf' = [ResultOf EXCEPT ![t] = r]
<1>1. ASSUME NEW u \in Threads
      PROVE  /\ loc'[u].call = IF u = t THEN c ELSE loc[u].call
             /\ AbsStatus(u)' = IF u = t THEN s ELSE AbsStatus(u)
             /\ AbsResult(u)' = IF u = t THEN r ELSE AbsResult(u)
  <2>1. CASE u = t
    BY <2>1
  <2>2. CASE u # t
    BY <2>2, OthersFrame
  <2>3. QED
    BY <2>1, <2>2
<1>2. CallOf' = [CallOf EXCEPT ![t] = c]
  BY <1>1 DEF CallOf
<1>3. StatusOf' = [StatusOf EXCEPT ![t] = s]
  BY <1>1 DEF StatusOf
<1>4. ResultOf' = [ResultOf EXCEPT ![t] = r]
  BY <1>1 DEF ResultOf
<1>5. QED
  BY <1>2, <1>3, <1>4

(* A step that its own call does not show, either. *)
LEMMA StaysStep ==
    ASSUME HashtabInv, EffectsOK, HashtabInv', EffectsOK', NEW t \in Threads, Local(t),
           loc'[t].call = loc[t].call, AbsStatus(t)' = AbsStatus(t), AbsResult(t)' = AbsResult(t)
    PROVE  UNCHANGED <<CallOf, StatusOf, ResultOf>>
<1>1. ASSUME NEW u \in Threads
      PROVE  loc'[u].call = loc[u].call /\ AbsStatus(u)' = AbsStatus(u) /\ AbsResult(u)' = AbsResult(u)
  BY OthersFrame
<1>2. CallOf' = CallOf
  BY <1>1 DEF CallOf
<1>3. StatusOf' = StatusOf
  BY <1>1 DEF StatusOf
<1>4. ResultOf' = ResultOf
  BY <1>1 DEF ResultOf
<1>5. QED
  BY <1>2, <1>3, <1>4

(* A call that takes effect. *)
LEMMA Finishes ==
    ASSUME HashtabInv, EffectsOK, HashtabInv', EffectsOK', NEW t \in Threads, Local(t),
           loc'[t].call = loc[t].call, AbsStatus(t) = "invoked", AbsStatus(t)' = "done",
           NEW r, AbsResult(t)' = r
    PROVE  Table!Finish(t, r)
<1>1. PICK c : c = loc[t].call
  OBVIOUS
<1>2. /\ CallOf' = [CallOf EXCEPT ![t] = c]
      /\ StatusOf' = [StatusOf EXCEPT ![t] = "done"]
      /\ ResultOf' = [ResultOf EXCEPT ![t] = r]
  <2>1. loc'[t].call = c
    BY <1>1
  <2>2. QED
    BY <2>1, Becomes
<1>3. CallOf' = CallOf /\ StatusOf[t] = "invoked"
  BY <1>1, <1>2 DEF CallOf, StatusOf
<1>4. QED
  BY <1>2, <1>3 DEF Table!Finish, CallOf, StatusOf, ResultOf

-----------------------------------------------------------------------------
(* The effect of each kind of step. *)

(* A call of thread t, as HashtabSpec's actions see it. *)
LEMMA CallSeen ==
    ASSUME NEW t \in Threads
    PROVE  /\ [u \in Threads |-> loc[u].call][t] = loc[t].call
           /\ [u \in Threads |-> AbsStatus(u)][t] = AbsStatus(t)
  OBVIOUS

(* A call that does not find its key takes effect, and so does a remove_if at
   its end. *)
LEMMA MissesStep ==
    ASSUME HashtabInv, EffectsOK, HashtabInv', EffectsOK', NEW t \in Threads, Misses(t)
    PROVE  Table!SpecNext
<1>1. MapOK /\ MapOK' /\ AbsStatus(t) = "invoked"
  BY BothStates DEF Misses
<1>2. Map' = Map
  BY <1>1, AllUnmoved DEF Misses
<1>3. Table!Finish(t, None)
  BY Finishes DEF Misses
<1>4. /\ Op(t) \in KeyOps \cup {"remove_if"} /\ Op(t) # "insert"
      /\ Op(t) # "remove_if" => \E k \in Keys : loc[t].call.keys = {k} /\ loc[t].b = BucketIdx[k]
  BY CallIs DEF Misses
<1>5. ASSUME Op(t) # "remove_if"
      PROVE  \E k \in loc[t].call.keys : k \in Keys /\ Map[k] = None
  <2>1. PICK k \in Keys : loc[t].call.keys = {k} /\ loc[t].b = BucketIdx[k]
    BY <1>4, <1>5
  <2>2. \A i \in 0..size[BucketIdx[k]] - 1 : PairAt(BucketIdx[k], i).key # k
    BY <1>5, <2>1 DEF Misses, NoneBefore, Matches
  <2>3. Map[k] = None
    BY <1>1, <2>2, Absent
  <2>4. QED
    BY <2>1, <2>3
<1>6. CASE Op(t) = "get"
  <2>1. PICK k \in loc[t].call.keys : k \in Keys /\ Map[k] = None
    BY <1>5, <1>6
  <2>2. Table!Get(t)
    BY <1>2, <1>3, <1>6, <2>1, CallSeen DEF Table!Get, Op
  <2>3. QED
    BY <1>1, <2>2, CallSeen DEF Table!SpecNext
<1>7. CASE Op(t) \in {"remove", "get_and_remove"}
  <2>1. PICK k \in loc[t].call.keys : k \in Keys /\ Map[k] = None
    BY <1>5, <1>7
  <2>2. Map' = [Map EXCEPT ![k] = None]
    BY <1>1, <1>2, <2>1 DEF MapOK
  <2>3. Table!Remove(t)
    BY <1>3, <1>7, <2>1, <2>2, CallSeen DEF Table!Remove, Op
  <2>4. QED
    BY <1>1, <2>3, CallSeen DEF Table!SpecNext
<1>8. CASE Op(t) = "remove_if"
  <2>1. Table!RemoveIfDone(t)
    BY <1>2, <1>3, <1>8, CallSeen DEF Table!RemoveIfDone, Op
  <2>2. QED
    BY <1>1, <2>1, CallSeen DEF Table!SpecNext
<1>9. QED
  BY <1>4, <1>6, <1>7, <1>8 DEF KeyOps

(* A get or get_and_insert that finds its key takes effect. *)
LEMMA FindsStep ==
    ASSUME HashtabInv, EffectsOK, HashtabInv', EffectsOK', NEW t \in Threads, Sees(t)
    PROVE  Table!SpecNext
<1>1. /\ MapOK /\ MapOK' /\ StatusOK /\ StatusOK' /\ CallOK(t)
      /\ pc[t] \in Searching /\ pc'[t] \in {"iunlock", "runlock"}
  BY BothStates DEF Sees, HashtabInv, CallsOK
<1>2. Map' = Map
  BY <1>1, AllUnmoved DEF Sees
<1>3. AbsStatus(t) = "invoked" /\ AbsStatus(t)' = "done"
  BY <1>1 DEF StatusOK, Pending, Unpublished
<1>4. PICK b \in Buckets, i \in Nat : b = loc[t].b /\ i = loc[t].i
  BY InTheBucket DEF HashtabInv, LocType
<1>5. i \in 0..size[b] - 1 /\ Matches(t, PairAt(b, i).key) /\ AbsResult(t)' = PairAt(b, i).val
  BY <1>4 DEF Sees
<1>6. Op(t) \in {"get", "insert"} /\ pc[t] # "idle"
  BY <1>1 DEF CallOK, Reading, Searching
<1>7. PICK k \in Keys : loc[t].call.keys = {k} /\ b = BucketIdx[k]
  BY <1>4, <1>6, CallIs
<1>8. PairAt(b, i).key = k
  BY <1>5, <1>7 DEF Matches
<1>9. PairAt(b, i).val \in Values
  BY <1>5, <1>7, <1>8, PairsAgree
<1>10. PICK v \in Values : v = PairAt(b, i).val
  BY <1>9
<1>11. Map[k] = v /\ v # None
  BY <1>1, <1>5, <1>7, <1>8, <1>10, Present, HashtabAssumption
<1>12. Table!Finish(t, v)
  BY <1>3, <1>5, <1>10, Finishes DEF Sees
<1>13. CASE Op(t) = "get"
  <2>1. Table!Get(t)
    BY <1>2, <1>7, <1>11, <1>12, <1>13, CallSeen DEF Table!Get, Op
  <2>2. QED
    BY <1>3, <2>1, CallSeen DEF Table!SpecNext
<1>14. CASE Op(t) = "insert"
  <2>1. Table!GetAndInsert(t)
    BY <1>2, <1>7, <1>11, <1>12, <1>14, CallSeen DEF Table!GetAndInsert, Op
  <2>2. QED
    BY <1>3, <2>1, CallSeen DEF Table!SpecNext
<1>15. QED
  BY <1>6, <1>13, <1>14

(* A return is one for HashtabSpec. *)
LEMMA ReturnsStep ==
    ASSUME HashtabInv, EffectsOK, HashtabInv', EffectsOK', NEW t \in Threads, Returns(t)
    PROVE  Table!SpecNext
<1>1. MapOK /\ MapOK' /\ StatusOK'
  BY BothStates
<1>2. Map' = Map
  BY <1>1, AllUnmoved DEF Returns
<1>3. AbsStatus(t)' = "idle" /\ AbsResult(t)' = None
  BY <1>1 DEF StatusOK, Returns
<1>4. /\ CallOf' = [CallOf EXCEPT ![t] = None]
      /\ StatusOf' = [StatusOf EXCEPT ![t] = "idle"]
      /\ ResultOf' = [ResultOf EXCEPT ![t] = None]
  BY <1>3, Becomes DEF Returns
<1>5. Table!Return(t)
  BY <1>2, <1>4, CallSeen DEF Table!Return, CallOf, StatusOf, ResultOf, Returns
<1>6. QED
  BY <1>5 DEF Table!SpecNext

(* The start of a call is one for HashtabSpec. *)
LEMMA InvokesStep ==
    ASSUME HashtabInv, EffectsOK, HashtabInv', EffectsOK', NEW t \in Threads, Invokes(t)
    PROVE  Table!SpecNext
<1>1. MapOK /\ MapOK' /\ StatusOK /\ StatusOK'
  BY BothStates
<1>2. Map' = Map
  BY <1>1, AllUnmoved DEF Invokes
<1>3. AbsStatus(t) = "idle" /\ AbsResult(t) = None /\ AbsStatus(t)' = "invoked" /\ AbsResult(t)' = None
  BY <1>1 DEF StatusOK, Invokes
<1>4. PICK c \in Calls : loc'[t].call = c
  BY DEF Invokes
<1>5. /\ CallOf' = [CallOf EXCEPT ![t] = c]
      /\ StatusOf' = [StatusOf EXCEPT ![t] = "invoked"]
      /\ ResultOf' = [ResultOf EXCEPT ![t] = None]
  BY <1>3, <1>4, Becomes DEF Invokes
<1>6. ResultOf' = ResultOf
  BY <1>3, <1>5 DEF ResultOf
<1>7. c \in Table!Calls
  BY DEF Calls, Table!Calls, KeyOps, Table!KeyOps
<1>8. Table!Invoke(t)
  BY <1>2, <1>3, <1>5, <1>6, <1>7, CallSeen DEF Table!Invoke, CallOf, StatusOf, ResultOf
<1>9. QED
  BY <1>8 DEF Table!SpecNext

(* The value of an insertion in progress is not in the table. *)
LEMMA NewValue ==
    ASSUME HashtabInv, EffectsOK, NEW t \in Threads, pc[t] = "publish", NEW k \in Keys
    PROVE  Map[k] # loc[t].id /\ loc[t].id \in Values
<1>1. /\ TypesOK /\ MapOK /\ CallOK(t) /\ ValuesOK
  BY MapIs DEF HashtabInv, CallsOK
<1>2. Op(t) = "insert" /\ loc[t].id \in Values
  <2>1. Op(t) = "insert" /\ loc[t].id \in 1..calls
    BY <1>1 DEF CallOK, Inserting
  <2>2. QED
    BY <1>1, <2>1, HashtabAssumption DEF TypesOK, Values
<1>3. ASSUME NEW i \in 0..size[BucketIdx[k]] - 1, PairAt(BucketIdx[k], i).key = k,
             PairAt(BucketIdx[k], i).val = loc[t].id
      PROVE  FALSE
  <2>1. PICK b \in Buckets : b = BucketIdx[k]
    BY HashtabAssumption
  <2>2. CASE i < Top(b)
    <3>1. i \in 0..Top(b) - 1
      BY <1>1, <1>3, <2>1, <2>2, TopType DEF HashtabInv
    <3>2. QED
      BY <1>1, <1>2, <1>3, <2>1, <3>1 DEF ValuesOK
  <2>3. CASE ~(i < Top(b))
    <3>1. PICK u \in Threads : /\ In(u, {"release", "shrink"}, b) /\ loc[u].b = b
                               /\ i = size[b] - 1 /\ loc[u].cur = size[b]
      BY <1>3, <2>1, <2>3, LastOne
    <3>2. PairAt(b, i) = PairAt(loc[u].b, loc[u].cur - 1)
      BY <3>1
    <3>3. PairAt(b, i) # NoPair
      <4>1. NoPair.key \notin Keys
        BY HashtabAssumption DEF NoPair
      <4>2. QED
        BY <1>3, <2>1, <4>1
    <3>4. PairAt(b, i).val # loc[t].id
      BY <1>2, <3>1, <3>2, <3>3 DEF EffectsOK, EffectOK, In, Unpublished
    <3>5. QED
      BY <1>3, <2>1, <3>4
  <2>4. QED
    BY <2>2, <2>3
<1>4. ~HasPair(k, loc[t].id)
  BY <1>3 DEF HasPair
<1>5. QED
  BY <1>1, <1>2, <1>4 DEF MapOK

(* The store of the size inserts a new value under a key without one. *)
LEMMA PublishesStep ==
    ASSUME HashtabInv, EffectsOK, HashtabInv', EffectsOK', NEW t \in Threads, Publishes(t)
    PROVE  Table!SpecNext
<1>1. MapOK /\ MapOK' /\ StatusOK /\ CallOK(t) /\ pc[t] = "publish"
  BY BothStates DEF Publishes, HashtabInv, CallsOK
<1>2. PICK b \in Buckets, k \in Keys :
         /\ b = loc[t].b /\ loc[t].call.keys = {k} /\ BucketIdx[k] = b /\ NoneBefore(t, size[b])
         /\ PairAt(b, size[b]) = [key |-> k, val |-> loc[t].id]
         /\ \A i : PairAt(b, i)' = PairAt(b, i)
         /\ size[b] \in Nat /\ size'[b] = size[b] + 1
  BY DEF Publishes
<1>3. PICK v \in Values : v = loc[t].id /\ \A q \in Keys : Map[q] # v
  BY <1>1, NewValue
<1>4. Map[k] = None
  <2>1. \A i \in 0..size[BucketIdx[k]] - 1 : PairAt(BucketIdx[k], i).key # k
    BY <1>2 DEF NoneBefore, Matches
  <2>2. QED
    BY <1>1, <2>1, Absent
<1>5. Map'[k] = v
  <2>1. size[b] \in 0..size'[b] - 1
    BY <1>2
  <2>2. PICK n \in 0..size'[b] - 1 : PairAt(b, n) = [key |-> k, val |-> v]
    BY <1>2, <1>3, <2>1
  <2>3. PairAt(b, n)'.key = k /\ PairAt(b, n)'.val = v
    BY <1>2, <2>2
  <2>4. HasPair(k, v)'
    BY <1>2, <2>3 DEF HasPair
  <2>5. QED
    BY <1>1, <2>4 DEF MapOK
<1>6. ASSUME NEW q \in Keys, q # k PROVE Map'[q] = Map[q]
  <2>1. CASE BucketIdx[q] # b
    <3>1. Unmoved(BucketIdx[q])
      BY <1>2, <2>1, HashtabAssumption DEF Publishes
    <3>2. QED
      BY <1>1, <3>1, MapUnmoved
  <2>2. CASE BucketIdx[q] = b
    <3>1. PairAt(b, size[b]).key = k
      BY <1>2
    <3>2. ASSUME NEW w \in Values PROVE HasPair(q, w)' <=> HasPair(q, w)
      <4>1. \A i \in 0..size'[b] - 1 : i = size[b] \/ i \in 0..size[b] - 1
        BY <1>2
      <4>2. \A i \in 0..size[b] - 1 : i \in 0..size'[b] - 1
        BY <1>2
      <4>3. QED
        BY <1>2, <1>6, <2>2, <3>1, <4>1, <4>2 DEF HasPair
    <3>3. QED
      BY <1>1, <3>2, MapAgrees
  <2>3. QED
    BY <2>1, <2>2
<1>7. Map' = [Map EXCEPT ![k] = v]
  BY <1>1, <1>5, <1>6 DEF MapOK
<1>8. AbsStatus(t) = "invoked" /\ Op(t) = "insert"
  BY <1>1 DEF StatusOK, Pending, Unpublished, CallOK, Inserting
<1>9. Table!Finish(t, v)
  BY <1>3, <1>8, Finishes DEF Publishes
<1>10. v \in Values \ {Map[q] : q \in Keys}
  BY <1>3
<1>11. Table!GetAndInsert(t)
  BY <1>2, <1>4, <1>7, <1>8, <1>9, <1>10, CallSeen DEF Table!GetAndInsert, Op
<1>12. QED
  BY <1>8, <1>11, CallSeen DEF Table!SpecNext

-----------------------------------------------------------------------------
(* Removals. *)

(* A call that removes its key has taken effect when the key is gone. *)
RemoverOK ==
    \A t \in Threads, k \in Keys : loc[t].call.keys = {k} /\ Op(t) # "remove_if" =>
        /\ pc[t] = "move" => Map[k] # None
        /\ pc[t] \in {"release", "shrink", "wunlock"} =>
             /\ AbsStatus(t) = IF Map[k] = None THEN "done" ELSE "invoked"
             /\ AbsResult(t) = IF Map[k] = None THEN result[t] ELSE None

(* RemoverOK follows from the invariants. *)
LEMMA RemoverFacts == HashtabInv /\ EffectsOK => RemoverOK
<1> SUFFICES ASSUME HashtabInv, EffectsOK, NEW t \in Threads, NEW k \in Keys,
                    loc[t].call.keys = {k}, Op(t) # "remove_if"
             PROVE  /\ pc[t] = "move" => Map[k] # None
                    /\ pc[t] \in {"release", "shrink", "wunlock"} =>
                         /\ AbsStatus(t) = IF Map[k] = None THEN "done" ELSE "invoked"
                         /\ AbsResult(t) = IF Map[k] = None THEN result[t] ELSE None
  BY DEF RemoverOK
<1>1. /\ TypesOK /\ LocksOK /\ FilledOK /\ CallOK(t) /\ RemoveOK(t) /\ MapOK /\ StatusOK
      /\ \A u \in Threads : RemoveOK(u)
  BY MapIs, DoneAt DEF HashtabInv, CallsOK
<1>2. PICK b \in Buckets : b = loc[t].b /\ loc[t] \in LocType
  BY <1>1, InTheBucket
<1>3. pc[t] # "idle" => b = BucketIdx[k]
  BY <1>1, <1>2 DEF CallOK
<1>4. CASE pc[t] = "move"
  <2>1. PICK i \in 0..size[b] - 1 : i = loc[t].i
    BY <1>1, <1>2, <1>4, TopType DEF RemoveOK, LocType
  <2>2. Matches(t, PairAt(b, i).key)
    BY <1>1, <1>2, <1>4, <2>1 DEF RemoveOK
  <2>3. PairAt(b, i).key = k
    BY <2>2 DEF Matches
  <2>4. PairAt(b, i).val \in Values
    BY <2>3, PairsAgree
  <2>5. Map[k] = PairAt(b, i).val
    BY <1>1, <1>3, <1>4, <2>3, <2>4, Present
  <2>6. QED
    BY <1>4, <2>4, <2>5, HashtabAssumption
<1>5. CASE pc[t] = "wunlock"
  <2>1. \A i \in 0..size[b] - 1 : PairAt(b, i).key # k
    BY <1>1, <1>2, <1>5 DEF RemoveOK, NoneBefore, Matches
  <2>2. Map[k] = None
    BY <1>1, <1>3, <1>5, <2>1, Absent
  <2>3. AbsStatus(t) = "done" /\ AbsResult(t) = result[t]
    BY <1>1, <1>5 DEF StatusOK
  <2>4. QED
    BY <1>5, <2>2, <2>3
<1>6. CASE pc[t] \in {"release", "shrink"}
  <2>1. AbsStatus(t) = IF Map[k] = None THEN "done" ELSE "invoked"
    BY <1>6 DEF AbsStatus
  <2>2. AbsResult(t) = IF AbsStatus(t) # "done" THEN None ELSE result[t]
    BY <1>6 DEF AbsResult
  <2>3. QED
    BY <1>6, <2>1, <2>2
<1>7. QED
  BY <1>4, <1>5, <1>6

(* The key k goes out of bucket b, and no other one. *)
LEMMA KeyGone ==
    ASSUME MapOK, MapOK', NEW b \in Buckets, NEW k \in Keys,
           \A c \in Buckets : c # b => Unmoved(c),
           \A q \in Keys, v \in Values : q # k /\ BucketIdx[q] = b => (HasPair(q, v)' <=> HasPair(q, v)),
           \A v \in Values : ~HasPair(k, v)'
    PROVE  Map' = [Map EXCEPT ![k] = None]
<1>1. Map'[k] = None
  BY DEF MapOK
<1>2. ASSUME NEW q \in Keys, q # k PROVE Map'[q] = Map[q]
  <2>1. CASE BucketIdx[q] = b
    BY <1>2, <2>1, MapAgrees
  <2>2. CASE BucketIdx[q] # b
    <3>1. Unmoved(BucketIdx[q])
      BY <2>2, HashtabAssumption
    <3>2. QED
      BY <3>1, MapUnmoved
  <2>3. QED
    BY <2>1, <2>2
<1>3. QED
  BY <1>1, <1>2 DEF MapOK

(* No key of bucket b comes or goes. *)
LEMMA KeysKept ==
    ASSUME MapOK, MapOK', NEW b \in Buckets,
           \A c \in Buckets : c # b => Unmoved(c),
           \A q \in Keys, v \in Values : BucketIdx[q] = b => (HasPair(q, v)' <=> HasPair(q, v))
    PROVE  Map' = Map
<1>1. ASSUME NEW q \in Keys PROVE Map'[q] = Map[q]
  <2>1. CASE BucketIdx[q] = b
    BY <2>1, MapAgrees
  <2>2. CASE BucketIdx[q] # b
    <3>1. Unmoved(BucketIdx[q])
      BY <2>2, HashtabAssumption
    <3>2. QED
      BY <3>1, MapUnmoved
  <2>3. QED
    BY <2>1, <2>2
<1>2. QED
  BY <1>1 DEF MapOK

(* What a write of a removal does to the map. *)
Takes(t) ==
    \/ Map' = Map
    \/ \E k \in loc[t].call.keys :
         /\ k \in Keys /\ Map[k] # None /\ Map' = [Map EXCEPT ![k] = None]
         /\ Op(t) # "remove_if" => result[t] = Map[k]

(* The overwriting takes the removed key, unless its pair is the last one. *)
LEMMA ReplacesTakes ==
    ASSUME HashtabInv, EffectsOK, MapOK, MapOK', NEW t \in Threads, pc[t] = "move",
           NEW b \in Buckets, b = loc[t].b, Replaces(t, b)
    PROVE  Takes(t)
<1>1. /\ TypesOK /\ LocksOK /\ FilledOK /\ PairsUnique /\ CallOK(t) /\ RemoveOK(t) /\ EffectOK(t)
      /\ \A u \in Threads : RemoveOK(u)
  BY DEF HashtabInv, CallsOK, EffectsOK
<1>2. /\ size[b] \in Nat \ {0} /\ Top(b) = size[b] /\ loc[t].i \in 0..size[b] - 1
      /\ Matches(t, PairAt(b, loc[t].i).key)
  <2>1. In(t, Removing \ {"release", "shrink"}, b) /\ loc[t] \in LocType
    BY <1>1, InTheBucket DEF In, Removing
  <2>2. Top(b) = size[b] /\ size[b] \in Nat /\ loc[t].i \in Nat
    BY <1>1, <2>1, TopIs, TopType DEF LocType
  <2>3. loc[t].i < size[b] /\ Matches(t, PairAt(b, loc[t].i).key)
    BY <1>1 DEF RemoveOK
  <2>4. QED
    BY <2>2, <2>3
<1>3. PICK n, i : n = size[b] - 1 /\ i = loc[t].i
  OBVIOUS
<1>4. /\ n \in 0..size[b] - 1 /\ i \in 0..size[b] - 1 /\ size'[b] = size[b]
      /\ \A c \in Buckets : c # b => Unmoved(c)
      /\ \A j \in 0..size[b] - 1 : PairAt(b, j)' = IF j = i THEN PairAt(b, n) ELSE PairAt(b, j)
  BY <1>2, <1>3 DEF Replaces
<1>5. CASE i = n
  <2>1. \A q \in Keys, v \in Values : BucketIdx[q] = b => (HasPair(q, v)' <=> HasPair(q, v))
    BY <1>4, <1>5 DEF HasPair
  <2>2. QED
    BY <1>4, <2>1, KeysKept DEF Takes
<1>6. CASE i # n
  <2>1. PICK k : k = PairAt(b, i).key
    OBVIOUS
  <2>2. k \in Keys /\ BucketIdx[k] = b /\ k \in loc[t].call.keys
    BY <1>1, <1>2, <1>3, <1>4, <2>1 DEF FilledOK, Matches
  <2>3. Map[k] = PairAt(b, i).val /\ Map[k] # None
    <3>1. PairAt(b, i).val \in Values
      BY <1>4, <2>1, <2>2, PairsAgree
    <3>2. Map[k] = PairAt(b, i).val
      BY <1>4, <2>1, <2>2, <3>1, Present
    <3>3. QED
      BY <3>1, <3>2, HashtabAssumption
  <2>4. \A j \in 0..size[b] - 1 : j # i => PairAt(b, j).key # k
    BY <1>1, <1>2, <1>4, <2>1 DEF PairsUnique
  <2>5. \A j \in 0..size[b] - 1 : PairAt(b, j)'.key # k
    BY <1>4, <1>6, <2>4
  <2>6. \A v \in Values : ~HasPair(k, v)'
    BY <1>4, <2>2, <2>5 DEF HasPair
  <2>7. ASSUME NEW q \in Keys, NEW v \in Values, q # k, BucketIdx[q] = b
        PROVE  HasPair(q, v)' <=> HasPair(q, v)
    BY <1>4, <2>1, <2>7 DEF HasPair
  <2>8. Map' = [Map EXCEPT ![k] = None]
    BY <1>4, <2>2, <2>6, <2>7, KeyGone
  <2>9. Op(t) # "remove_if" => result[t] = Map[k]
    BY <1>1, <1>3, <2>3 DEF EffectOK
  <2>10. QED
    BY <2>2, <2>3, <2>8, <2>9 DEF Takes
<1>7. QED
  BY <1>5, <1>6

(* The last pair takes its key along if it is the one removed; otherwise it
   has been moved before. *)
LEMMA DropsTakes ==
    ASSUME HashtabInv, EffectsOK, MapOK, MapOK', NEW t \in Threads, pc[t] \in {"release", "shrink"},
           NEW b \in Buckets, b = loc[t].b, Drops(t, b)
    PROVE  Takes(t)
<1>1. /\ TypesOK /\ CallOK(t) /\ RemoveOK(t) /\ EffectOK(t) /\ loc[t] \in LocType
  BY InTheBucket DEF HashtabInv, CallsOK, EffectsOK
<1>2. PICK n, i, p : n = size[b] - 1 /\ i = loc[t].i /\ p = PairAt(b, n)
  OBVIOUS
<1>3. /\ n \in 0..size[b] - 1 /\ \A c \in Buckets : c # b => Unmoved(c)
      /\ \A j \in 0..size[b] - 1 : j # n => PairAt(b, j)' = PairAt(b, j)
      /\ \A j \in 0..size[b] - 1 : j # n => j \in 0..size'[b] - 1
      /\ \A j \in 0..size'[b] - 1 : j \in 0..size[b] - 1
      /\ n \in 0..size'[b] - 1 => PairAt(b, n)' = NoPair
      /\ loc[t].cur - 1 = n
  BY <1>2 DEF Drops
<1>4. NoPair.key \notin Keys
  BY HashtabAssumption DEF NoPair
<1>5. i \in 0..size[b] - 1
  BY <1>1, <1>2 DEF RemoveOK, Drops, LocType
<1>6. p # NoPair =>
        /\ p.key \in Keys /\ BucketIdx[p.key] = b /\ p.val \in 1..calls
        /\ i < n => p = PairAt(b, i)
        /\ i = n => Matches(t, p.key) /\ (Op(t) # "remove_if" => result[t] = p.val)
  BY <1>1, <1>2, <1>3 DEF EffectOK
<1>7. ASSUME NEW q \in Keys, NEW v \in Values, BucketIdx[q] = b, p.key # q
      PROVE  HasPair(q, v)' <=> HasPair(q, v)
  BY <1>2, <1>3, <1>4, <1>7 DEF HasPair
<1>8. CASE p = NoPair
  <2>1. \A q \in Keys : p.key # q
    BY <1>4, <1>8
  <2>2. QED
    BY <1>3, <1>7, <2>1, KeysKept DEF Takes
<1>9. CASE p # NoPair /\ i # n
  <2>1. p = PairAt(b, i)
    BY <1>2, <1>3, <1>5, <1>6, <1>9
  <2>2. ASSUME NEW q \in Keys, NEW v \in Values, BucketIdx[q] = b, p.key = q
        PROVE  HasPair(q, v)' <=> HasPair(q, v)
    <3>1. ASSUME HasPair(q, v) PROVE HasPair(q, v)'
      <4>1. PICK j \in 0..size[b] - 1 : PairAt(b, j).key = q /\ PairAt(b, j).val = v
        BY <2>2, <3>1 DEF HasPair
      <4>2. PICK m \in 0..size[b] - 1 : m # n /\ PairAt(b, m).key = q /\ PairAt(b, m).val = v
        BY <1>2, <1>5, <1>9, <2>1, <2>2, <4>1, PairsAgree
      <4>3. m \in 0..size'[b] - 1 /\ PairAt(b, m)'.key = q /\ PairAt(b, m)'.val = v
        BY <1>3, <4>2
      <4>4. QED
        BY <2>2, <4>3 DEF HasPair
    <3>2. ASSUME HasPair(q, v)' PROVE HasPair(q, v)
      <4>1. PICK j \in 0..size'[b] - 1 : PairAt(b, j)'.key = q /\ PairAt(b, j)'.val = v
        BY <2>2, <3>2 DEF HasPair
      <4>2. j # n
        BY <1>3, <1>4, <4>1
      <4>3. j \in 0..size[b] - 1 /\ PairAt(b, j).key = q /\ PairAt(b, j).val = v
        BY <1>3, <4>1, <4>2
      <4>4. QED
        BY <2>2, <4>3 DEF HasPair
    <3>3. QED
      BY <3>1, <3>2
  <2>3. \A q \in Keys, v \in Values : BucketIdx[q] = b => (HasPair(q, v)' <=> HasPair(q, v))
    BY <1>7, <2>2
  <2>4. QED
    BY <1>3, <2>3, KeysKept DEF Takes
<1>10. CASE p # NoPair /\ i = n
  <2>1. PICK k \in Keys : k = p.key /\ BucketIdx[k] = b
    BY <1>6, <1>10
  <2>2. Matches(t, k) /\ k \in loc[t].call.keys
    BY <1>6, <1>10, <2>1 DEF Matches
  <2>3. Map[k] = p.val /\ Map[k] # None
    <3>1. p.val \in Values
      BY <1>2, <1>3, <2>1, PairsAgree
    <3>2. Map[k] = p.val
      BY <1>2, <1>3, <2>1, <3>1, Present
    <3>3. QED
      BY <3>1, <3>2, HashtabAssumption
  <2>4. NoneBefore(t, n)
    BY <1>1, <1>2, <1>3, <1>10 DEF RemoveOK
  <2>5. \A j \in 0..size[b] - 1 : j # n => PairAt(b, j).key # k
    <3>1. \A j \in 0..size[b] - 1 : j # n => j \in 0..n - 1
      BY <1>2 DEF Drops
    <3>2. QED
      BY <2>2, <2>4, <3>1 DEF NoneBefore
  <2>6. \A j \in 0..size'[b] - 1 : PairAt(b, j)'.key # k
    BY <1>3, <1>4, <2>5
  <2>7. \A v \in Values : ~HasPair(k, v)'
    BY <2>1, <2>6 DEF HasPair
  <2>8. Map' = [Map EXCEPT ![k] = None]
    BY <1>3, <1>7, <2>1, <2>7, KeyGone
  <2>9. Op(t) # "remove_if" => result[t] = Map[k]
    BY <1>6, <1>10, <2>3
  <2>10. QED
    BY <2>2, <2>3, <2>8, <2>9 DEF Takes
<1>11. QED
  BY <1>8, <1>9, <1>10

-----------------------------------------------------------------------------
(* The refinement. *)

(* The write that makes a key unreachable is the effect of its removal; no
   other write of a removal shows. *)
LEMMA WritesStep ==
    ASSUME HashtabInv, EffectsOK, HashtabInv', EffectsOK', NEW t \in Threads, Writes(t)
    PROVE  Table!SpecNext \/ UNCHANGED <<Map, CallOf, StatusOf, ResultOf>>
<1>1. /\ MapOK /\ MapOK' /\ StatusOK /\ StatusOK' /\ CallOK(t)
      /\ Local(t) /\ loc'[t].call = loc[t].call /\ result' = result
      /\ pc[t] \in {"move", "release", "shrink"}
      /\ pc'[t] \in {"release", "shrink", "iftest", "wunlock"}
      /\ pc'[t] = "iftest" => Op(t) = "remove_if"
      /\ pc'[t] = "wunlock" => Op(t) # "remove_if"
  BY BothStates DEF Writes, HashtabInv, CallsOK
<1>2. RemoverOK /\ RemoverOK'
  <2>1. (HashtabInv /\ EffectsOK => RemoverOK)'
    BY RemoverFacts, PTL
  <2>2. QED
    BY <2>1, RemoverFacts
<1>3. Takes(t)
  BY <1>1, ReplacesTakes, DropsTakes DEF Writes
<1>4. Op(t)' = Op(t)
  BY <1>1 DEF Op
<1>5. Op(t) \in {"remove", "get_and_remove", "remove_if"} /\ pc[t] # "idle"
  BY <1>1 DEF CallOK, Removing
<1>6. CASE Op(t) = "remove_if"
  <2>1. /\ AbsStatus(t) = "invoked" /\ AbsResult(t) = None
        /\ AbsStatus(t)' = "invoked" /\ AbsResult(t)' = None
    BY <1>1, <1>4, <1>6 DEF StatusOK, Pending
  <2>2. UNCHANGED <<CallOf, StatusOf, ResultOf>>
    BY <1>1, <2>1, StaysStep
  <2>3. CASE Map' = Map
    BY <2>2, <2>3
  <2>4. CASE Map' # Map
    <3>1. PICK k \in loc[t].call.keys : Map[k] # None /\ Map' = [Map EXCEPT ![k] = None]
      BY <1>3, <2>4 DEF Takes
    <3>2. Table!RemoveMatching(t)
      BY <1>6, <2>1, <2>2, <3>1, CallSeen DEF Table!RemoveMatching, Op, CallOf, StatusOf, ResultOf
    <3>3. QED
      BY <2>1, <3>2, CallSeen DEF Table!SpecNext
  <2>5. QED
    BY <2>3, <2>4
<1>7. CASE Op(t) # "remove_if"
  <2>1. PICK k \in Keys : loc[t].call.keys = {k}
    BY <1>5, <1>7, CallIs
  <2>2. /\ pc[t] = "move" => Map[k] # None
        /\ pc[t] \in {"release", "shrink"} =>
             /\ AbsStatus(t) = IF Map[k] = None THEN "done" ELSE "invoked"
             /\ AbsResult(t) = IF Map[k] = None THEN result[t] ELSE None
        /\ pc[t] = "move" => AbsStatus(t) = "invoked" /\ AbsResult(t) = None
    BY <1>1, <1>2, <1>7, <2>1 DEF RemoverOK, StatusOK, Pending
  <2>3. /\ AbsStatus(t) = IF Map[k] = None THEN "done" ELSE "invoked"
        /\ AbsResult(t) = IF Map[k] = None THEN result[t] ELSE None
    BY <1>1, <2>2
  <2>4. /\ AbsStatus(t)' = IF Map'[k] = None THEN "done" ELSE "invoked"
        /\ AbsResult(t)' = IF Map'[k] = None THEN result[t] ELSE None
    <3>1. pc'[t] \in {"release", "shrink", "wunlock"} /\ loc'[t].call.keys = {k} /\ result'[t] = result[t]
      BY <1>1, <1>7, <2>1
    <3>2. QED
      BY <1>2, <1>4, <1>7, <3>1 DEF RemoverOK
  <2>5. CASE Map' = Map
    <3>1. AbsStatus(t)' = AbsStatus(t) /\ AbsResult(t)' = AbsResult(t)
      BY <2>3, <2>4, <2>5
    <3>2. QED
      BY <1>1, <2>5, <3>1, StaysStep
  <2>6. CASE Map' # Map
    <3>1. Map[k] # None /\ Map' = [Map EXCEPT ![k] = None] /\ result[t] = Map[k]
      BY <1>3, <1>7, <2>1, <2>6 DEF Takes
    <3>2. Map'[k] = None
      BY <1>1, <3>1 DEF MapOK
    <3>3. AbsStatus(t) = "invoked" /\ AbsStatus(t)' = "done" /\ AbsResult(t)' = Map[k]
      BY <2>3, <2>4, <3>1, <3>2
    <3>4. PICK r : r = Map[k]
      OBVIOUS
    <3>5. Table!Finish(t, r)
      BY <1>1, <3>3, <3>4, Finishes
    <3>6. Table!Remove(t)
      BY <1>5, <1>7, <2>1, <3>1, <3>4, <3>5, CallSeen DEF Table!Remove, Op
    <3>7. QED
      BY <3>3, <3>6, CallSeen DEF Table!SpecNext
  <2>7. QED
    BY <2>5, <2>6
<1>8. QED
  BY <1>6, <1>7

(* The clean-up empties the map. *)
LEMMA FreeChunksStep ==
    ASSUME HashtabInv, EffectsOK, HashtabInv', EffectsOK', FreeChunks
    PROVE  Table!SpecNext
<1>1. MapOK' /\ StatusOK /\ StatusOK'
  BY BothStates
<1>2. /\ \A t \in Threads : pc[t] = "idle"
      /\ size' = [b \in Buckets |-> 0] /\ UNCHANGED <<pc, loc, result>>
  BY DEF FreeChunks
<1>3. Map' = [k \in Keys |-> None]
  <2>1. ASSUME NEW k \in Keys PROVE Map'[k] = None
    <3>1. size'[BucketIdx[k]] = 0
      BY <1>2, HashtabAssumption
    <3>2. \A v \in Values : ~HasPair(k, v)'
      BY <3>1 DEF HasPair
    <3>3. QED
      BY <1>1, <3>2 DEF MapOK
  <2>2. QED
    BY <1>1, <2>1 DEF MapOK
<1>4. ASSUME NEW t \in Threads
      PROVE  /\ AbsStatus(t) = "idle" /\ AbsStatus(t)' = "idle"
             /\ AbsResult(t)' = AbsResult(t) /\ loc'[t].call = loc[t].call
  BY <1>1, <1>2 DEF StatusOK
<1>5. CallOf' = CallOf
  BY <1>4 DEF CallOf
<1>6. StatusOf' = StatusOf
  BY <1>4 DEF StatusOf
<1>7. ResultOf' = ResultOf
  BY <1>4 DEF ResultOf
<1>8. Table!FreeChunks
  BY <1>3, <1>4, <1>5, <1>6, <1>7, CallSeen DEF Table!FreeChunks, CallOf, StatusOf, ResultOf
<1>9. QED
  BY <1>8 DEF Table!SpecNext

(* The table that the code sets up is the empty map. *)
LEMMA TableInit == Init => Table!SpecInit
<1> SUFFICES ASSUME Init PROVE Table!SpecInit
  OBVIOUS
<1>1. StatusOK /\ \A t \in Threads : pc[t] = "idle" /\ loc[t].call = None
  BY DoneAt DEF Init, NoLoc
<1>2. ASSUME NEW k \in Keys PROVE Map[k] = None
  <2>1. size[BucketIdx[k]] = 0
    BY HashtabAssumption DEF Init
  <2>2. PICK b : b = BucketIdx[k]
    OBVIOUS
  <2>3. {i \in 0..size[b] - 1 : PairAt(b, i).key = k} = {}
    BY <2>1, <2>2
  <2>4. QED
    BY <2>2, <2>3 DEF Map
<1>3. Map = [k \in Keys |-> None]
  BY <1>2 DEF Map
<1>4. ASSUME NEW t \in Threads PROVE AbsStatus(t) = "idle" /\ AbsResult(t) = None
  BY <1>1 DEF StatusOK
<1>5. QED
  BY <1>1, <1>3, <1>4 DEF Table!SpecInit

(* Each step is one of HashtabSpec, or none. *)
LEMMA TableStep ==
    ASSUME HashtabInv, EffectsOK, HashtabInv', EffectsOK', [Next]_vars
    PROVE  [Table!SpecNext]_(Table!specVars)
<1>1. ASSUME NEW t \in Threads, Call(t) \/ Step(t)
      PROVE  Table!SpecNext \/ UNCHANGED <<Map, CallOf, StatusOf, ResultOf>>
  <2>1. Local(t) /\ Outcome(t)
    BY <1>1, Outcomes
  <2>2. CASE Stays(t)
    <3>1. UNCHANGED <<CallOf, StatusOf, ResultOf>>
      BY <2>1, <2>2, StaysStep DEF Stays
    <3>2. Map' = Map
      BY <2>2, BothStates, AllUnmoved DEF Stays
    <3>3. QED
      BY <3>1, <3>2
  <2>3. QED
    BY <2>1, <2>2, MissesStep, FindsStep, ReturnsStep, InvokesStep, PublishesStep, WritesStep DEF Outcome
<1>2. CASE UNCHANGED vars
  <2>1. /\ UNCHANGED <<size, head, next, pairs, pc, loc, result>>
        /\ MapOK /\ MapOK'
    BY <1>2, BothStates DEF vars, chunkVars
  <2>2. Map' = Map
    BY <2>1, QuietUnmoved, AllUnmoved
  <2>3. ASSUME NEW t \in Threads
        PROVE  AbsStatus(t)' = AbsStatus(t) /\ AbsResult(t)' = AbsResult(t) /\ loc'[t].call = loc[t].call
    <3>1. AbsStatus(t)' = AbsStatus(t)
      BY <2>1, <2>2 DEF AbsStatus, Op
    <3>2. QED
      BY <2>1, <3>1 DEF AbsResult, Deref
  <2>4. CallOf' = CallOf
    BY <2>3 DEF CallOf
  <2>5. StatusOf' = StatusOf
    BY <2>3 DEF StatusOf
  <2>6. ResultOf' = ResultOf
    BY <2>3 DEF ResultOf
  <2>7. QED
    BY <2>2, <2>4, <2>5, <2>6 DEF Table!specVars, CallOf, StatusOf, ResultOf
<1>3. Next => Table!SpecNext \/ UNCHANGED <<Map, CallOf, StatusOf, ResultOf>>
  BY <1>1, FreeChunksStep DEF Next
<1>4. UNCHANGED <<Map, CallOf, StatusOf, ResultOf>> => UNCHANGED Table!specVars
  BY DEF Table!specVars, CallOf, StatusOf, ResultOf
<1>5. QED
  BY <1>2, <1>3, <1>4

(* Every call of get, get_and_insert, remove and get_and_remove takes effect
   at one instant between its invocation and its return. *)
THEOREM Refinement == Spec => ImplementsHashtabSpec
<1>1. Init => Table!SpecInit
  BY TableInit
<1>2. HashtabInv /\ EffectsOK /\ HashtabInv' /\ EffectsOK' /\ [Next]_vars => [Table!SpecNext]_(Table!specVars)
  BY TableStep
<1>3. QED
  BY <1>1, <1>2, Invariance, EffectsAlways, PTL DEF Spec, ImplementsHashtabSpec, Table!Spec
=============================================================================

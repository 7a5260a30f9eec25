-------------------------- MODULE FastHashtabProofs --------------------------
(***************************************************************************)
(* The concurrent hash table for any number of threads, keys, buckets,     *)
(* chunks and pairs in a chunk.  HashtabInv is inductive: a key has one    *)
(* pair however insertions race, remove_if leaves no matching pair, every  *)
(* value alive is in the table, no chunk is in two places.  Where          *)
(* remove_if is called to remove every pair (WholeTable), NoneEmpty is     *)
(* inductive too: no chunk is lost or left empty, no access is outside of  *)
(* a chunk.  Each step of the code has a lemma for either invariant.       *)
(***************************************************************************)
EXTENDS FastHashtab, TLAPS, FiniteSetTheorems, WellFoundedInduction

-----------------------------------------------------------------------------
(* Natural numbers, and the paths that links of chunks make. *)

(* A non-empty set of natural numbers has a least one: the intervals up to
   its members have a smallest one among them. *)
LEMMA SmallestOf ==
    ASSUME NEW S \in SUBSET Nat, S # {}
    PROVE  \E n \in S : \A m \in S : n <= m
<1> DEFINE R == StrictSubsetOrdering(Nat)
           T == {1..n : n \in S}
<1>1. IsWellFoundedOn(R, FiniteSubsetsOf(Nat))
  BY FS_StrictSubsetOrderingWellFounded
<1>2. T \subseteq FiniteSubsetsOf(Nat) /\ T # {}
  <2>1. \A n \in S : IsFiniteSet(1..n) /\ 1..n \subseteq Nat
    BY FS_Interval
  <2>2. QED
    BY <2>1 DEF FiniteSubsetsOf
<1>3. \E x \in T : \A y \in T : ~ (<<y, x>> \in R)
  <2> HIDE DEF R, T
  <2> QED
    BY <1>1, <1>2, WFMin
<1>4. PICK n \in S : \A m \in S : ~ (<<1..m, 1..n>> \in R)
  BY <1>3
<1>5. ASSUME NEW m \in S, ~(n <= m)  PROVE FALSE
  <2>1. 1..m \subseteq 1..n /\ n \in 1..n /\ n \notin 1..m
    BY <1>5
  <2>2. 1..m # 1..n
    BY <2>1
  <2>3. <<1..m, 1..n>> \in R
    BY <2>1, <2>2 DEF StrictSubsetOrdering
  <2>4. QED
    BY <1>4, <2>3
<1>6. QED
  BY <1>5

(* Induction, for a set instead of a predicate. *)
LEMMA SetInduction ==
    ASSUME NEW S, 0 \in S, \A n \in Nat : n \in S => n + 1 \in S
    PROVE  Nat \subseteq S
<1>1. SUFFICES ASSUME Nat \ S # {}  PROVE  FALSE
  OBVIOUS
<1>2. PICK n \in Nat \ S : \A m \in Nat \ S : n <= m
  BY <1>1, SmallestOf
<1>3. n - 1 \in Nat /\ n - 1 \in S
  BY <1>2
<1>4. QED
  BY <1>2, <1>3

(* Induction up to a bound. *)
LEMMA UpTo ==
    ASSUME NEW S, NEW k \in Nat, 0 \in S,
           \A n \in 1..k : n - 1 \in S => n \in S
    PROVE  0..k \subseteq S
<1> DEFINE T == {n \in Nat : n <= k => n \in S}
<1>1. 0 \in T
  OBVIOUS
<1>2. \A n \in Nat : n \in T => n + 1 \in T
  <2> SUFFICES ASSUME NEW n \in Nat, n \in T, n + 1 <= k PROVE n + 1 \in S
    OBVIOUS
  <2>1. n \in S /\ n + 1 \in 1..k /\ (n + 1) - 1 = n
    OBVIOUS
  <2>2. QED
    BY <2>1
<1>3. Nat \subseteq T
  <2> HIDE DEF T
  <2> QED
    BY <1>1, <1>2, SetInduction
<1>4. QED
  BY <1>3
-----------------------------------------------------------------------------
(* The recursion that defines a path has a solution: for every n there is
   one as far as n. *)
PathUpTo(nx, c, n, f) ==
    /\ f \in [0..n -> Chunks \cup {Null}]
    /\ f[0] = c
    /\ \A m \in 1..n : f[m] = IF f[m - 1] = Null THEN Null ELSE nx[f[m - 1]]

(* There is a function that follows the links: by induction on its length. *)
LEMMA PathExists ==
    ASSUME NEW nx \in [Chunks -> Chunks \cup {Null}], NEW c \in Chunks \cup {Null}
    PROVE  \E f : PathUpTo(nx, c, NChunks, f)
<1> DEFINE S == {n \in Nat : \E f : PathUpTo(nx, c, n, f)}
<1>1. 0 \in S
  <2> DEFINE f == [m \in 0..0 |-> c]
  <2>1. PathUpTo(nx, c, 0, f)
    BY DEF PathUpTo
  <2>2. QED
    BY <2>1
<1>2. ASSUME NEW n \in Nat, n \in S PROVE n + 1 \in S
  <2>1. PICK f : PathUpTo(nx, c, n, f)
    BY <1>2
  <2> DEFINE d == IF f[n] = Null THEN Null ELSE nx[f[n]]
             g == [m \in 0..n + 1 |-> IF m = n + 1 THEN d ELSE f[m]]
  <2>2. f \in [0..n -> Chunks \cup {Null}] /\ f[0] = c /\ n \in 0..n
    BY <2>1 DEF PathUpTo
  <2>3. d \in Chunks \cup {Null}
    BY <2>2
  <2>4. g \in [0..n + 1 -> Chunks \cup {Null}] /\ g[0] = c
    <3> HIDE DEF d
    <3> QED
      BY <2>2, <2>3
  <2>5. ASSUME NEW m \in 1..n + 1
        PROVE  g[m] = IF g[m - 1] = Null THEN Null ELSE nx[g[m - 1]]
    <3>1. CASE m = n + 1
      <4>1. m - 1 \in 0..n /\ m - 1 = n /\ m \in 0..n + 1 /\ n \in 0..n + 1 /\ n # n + 1
        BY <3>1
      <4>2. g[m] = d /\ g[m - 1] = f[n]
        BY <3>1, <4>1
      <4>3. QED
        BY <4>2
    <3>2. CASE m # n + 1
      <4>1. m \in 1..n /\ m \in 0..n + 1 /\ m - 1 \in 0..n + 1 /\ m - 1 # n + 1
        BY <3>2
      <4>2. g[m] = f[m] /\ g[m - 1] = f[m - 1]
        BY <3>2, <4>1
      <4>3. f[m] = IF f[m - 1] = Null THEN Null ELSE nx[f[m - 1]]
        BY <2>1, <4>1 DEF PathUpTo
      <4>4. QED
        BY <4>2, <4>3
    <3>3. QED
      BY <3>1, <3>2
  <2>6. PathUpTo(nx, c, n + 1, g)
    <3> HIDE DEF g
    <3> QED
      BY <2>4, <2>5 DEF PathUpTo
  <2>7. QED
    BY <2>6
<1>3. Nat \subseteq S
  <2> HIDE DEF S
  <2> QED
    BY <1>1, <1>2, SetInduction
<1>4. QED
  BY <1>3, HashtabAssumption

(* Path, defined through a recursive function, obeys its recursion. *)
LEMMA PathStep ==
    ASSUME NEW nx \in [Chunks -> Chunks \cup {Null}], NEW c \in Chunks \cup {Null}
    PROVE  /\ Path(nx, c) \in [0..NChunks -> Chunks \cup {Null}]
           /\ Path(nx, c)[0] = c
           /\ \A n \in 1..NChunks :
                Path(nx, c)[n] = IF Path(nx, c)[n - 1] = Null THEN Null
                                 ELSE nx[Path(nx, c)[n - 1]]
<1>1. PICK f : PathUpTo(nx, c, NChunks, f)
  BY PathExists
<1>2. f = [n \in 0..NChunks |-> IF n = 0 THEN c ELSE
                                IF f[n - 1] = Null THEN Null ELSE nx[f[n - 1]]]
  <2> DEFINE g == [n \in 0..NChunks |-> IF n = 0 THEN c ELSE
                                IF f[n - 1] = Null THEN Null ELSE nx[f[n - 1]]]
  <2>1. f \in [0..NChunks -> Chunks \cup {Null}] /\ f[0] = c
    BY <1>1 DEF PathUpTo
  <2>2. ASSUME NEW n \in 0..NChunks PROVE f[n] = g[n]
    <3>1. CASE n = 0
      BY <3>1, <2>1
    <3>2. CASE n # 0
      <4>1. n \in 1..NChunks
        BY <3>2
      <4>2. QED
        BY <3>2, <4>1, <1>1 DEF PathUpTo
    <3>3. QED
      BY <3>1, <3>2
  <2>3. g = [n \in 0..NChunks |-> g[n]] /\ f = [n \in 0..NChunks |-> f[n]]
    BY <2>1
  <2>4. QED
    <3> HIDE DEF g
    <3>1. f = g
      BY <2>2, <2>3
    <3>2. QED
      BY <3>1 DEF g
<1>3. Path(nx, c) = [n \in 0..NChunks |-> IF n = 0 THEN c ELSE
                       IF Path(nx, c)[n - 1] = Null THEN Null
                       ELSE nx[Path(nx, c)[n - 1]]]
  BY <1>2 DEF Path
<1> DEFINE p == Path(nx, c)
<1>4. p[0] = c
  BY <1>3, HashtabAssumption
<1>5. \A n \in 1..NChunks : p[n] = IF p[n - 1] = Null THEN Null ELSE nx[p[n - 1]]
  <2> TAKE n \in 1..NChunks
  <2>1. n \in 0..NChunks /\ n # 0
    OBVIOUS
  <2>2. QED
    BY <2>1, <1>3
<1>6. \A n \in 0..NChunks : p[n] \in Chunks \cup {Null}
  <2> DEFINE S == {n \in 0..NChunks : p[n] \in Chunks \cup {Null}}
  <2>1. 0 \in S
    BY <1>4, HashtabAssumption
  <2>2. \A n \in 1..NChunks : n - 1 \in S => n \in S
    BY <1>5
  <2>3. 0..NChunks \subseteq S
    <3> HIDE DEF S
    <3> QED
      BY <2>1, <2>2, UpTo, HashtabAssumption
  <2>4. QED
    BY <2>3
<1>7. p \in [0..NChunks -> Chunks \cup {Null}]
  <2>1. p = [n \in 0..NChunks |-> p[n]]
    <3> DEFINE q == [n \in 0..NChunks |-> IF n = 0 THEN c ELSE
                       IF p[n - 1] = Null THEN Null ELSE nx[p[n - 1]]]
    <3>1. q = [n \in 0..NChunks |-> q[n]]
      OBVIOUS
    <3>2. p = q
      BY <1>3
    <3> HIDE DEF p, q
    <3>3. QED
      BY <3>1, <3>2
  <2> HIDE DEF p
  <2>2. QED
    BY <2>1, <1>6
<1>8. QED
  BY <1>4, <1>5, <1>7

(* Two tables of links that agree on the first k chunks of a path. *)
LEMMA PathFrame ==
    ASSUME NEW nx \in [Chunks -> Chunks \cup {Null}],
           NEW ny \in [Chunks -> Chunks \cup {Null}],
           NEW c \in Chunks \cup {Null}, NEW k \in 0..NChunks,
           \A n \in 0..k - 1 : Path(nx, c)[n] # Null =>
                                 ny[Path(nx, c)[n]] = nx[Path(nx, c)[n]]
    PROVE  \A n \in 0..k : Path(ny, c)[n] = Path(nx, c)[n]
<1> DEFINE p == Path(nx, c)
           q == Path(ny, c)
           S == {n \in 0..k : q[n] = p[n]}
<1>1. /\ p[0] = c /\ q[0] = c
      /\ \A n \in 1..NChunks : /\ p[n] = IF p[n - 1] = Null THEN Null ELSE nx[p[n - 1]]
                               /\ q[n] = IF q[n - 1] = Null THEN Null ELSE ny[q[n - 1]]
  BY PathStep
<1>2. 0 \in S
  BY <1>1, HashtabAssumption
<1>3. ASSUME NEW n \in 1..k, n - 1 \in S PROVE n \in S
  <2>1. n \in 1..NChunks /\ n - 1 \in 0..k - 1
    BY HashtabAssumption
  <2>2. q[n - 1] = p[n - 1]
    BY <1>3
  <2>3. p[n - 1] # Null => ny[p[n - 1]] = nx[p[n - 1]]
    BY <2>1
  <2>4. q[n] = p[n]
    <3> HIDE DEF p, q
    <3> QED
      BY <2>1, <2>2, <2>3, <1>1
  <2>5. QED
    BY <2>4
<1>4. 0..k \subseteq S
  <2>1. k \in Nat
    BY HashtabAssumption
  <2> HIDE DEF S
  <2> QED
    BY <1>2, <1>3, <2>1, UpTo
<1>5. QED
  BY <1>4

(* Changes of links that a path does not follow leave the path alone. *)
LEMMA PathSame ==
    ASSUME NEW nx \in [Chunks -> Chunks \cup {Null}],
           NEW ny \in [Chunks -> Chunks \cup {Null}],
           NEW c \in Chunks \cup {Null},
           \A n \in 0..NChunks : Path(nx, c)[n] # Null =>
                                   ny[Path(nx, c)[n]] = nx[Path(nx, c)[n]]
    PROVE  Path(ny, c) = Path(nx, c)
<1>1. \A n \in 0..NChunks : Path(ny, c)[n] = Path(nx, c)[n]
  <2>1. NChunks \in 0..NChunks /\ 0..NChunks - 1 \subseteq 0..NChunks
    BY HashtabAssumption
  <2>2. QED
    BY <2>1, PathFrame
<1>2. /\ Path(nx, c) \in [0..NChunks -> Chunks \cup {Null}]
      /\ Path(ny, c) \in [0..NChunks -> Chunks \cup {Null}]
  BY PathStep
<1> DEFINE p == Path(nx, c)
           q == Path(ny, c)
<1>3. p = [n \in 0..NChunks |-> p[n]] /\ q = [n \in 0..NChunks |-> q[n]]
  <2> HIDE DEF p, q
  <2> QED
    BY <1>2 DEF p, q
<1>4. p = q
  <2>1. \A n \in 0..NChunks : p[n] = q[n]
    BY <1>1
  <2> HIDE DEF p, q
  <2>2. QED
    BY <1>3, <2>1
<1>5. QED
  BY <1>4

(* A path continues as the path from any of its chunks. *)
LEMMA PathShift ==
    ASSUME NEW nx \in [Chunks -> Chunks \cup {Null}],
           NEW c \in Chunks \cup {Null}, NEW m \in 0..NChunks
    PROVE  \A n \in 0..NChunks - m :
             Path(nx, Path(nx, c)[m])[n] = Path(nx, c)[m + n]
<1> DEFINE p == Path(nx, c)
           q == Path(nx, p[m])
           k == NChunks - m
           S == {n \in 0..k : q[n] = p[m + n]}
<1>1. /\ p \in [0..NChunks -> Chunks \cup {Null}]
      /\ \A n \in 1..NChunks : p[n] = IF p[n - 1] = Null THEN Null ELSE nx[p[n - 1]]
  BY PathStep
<1>2. /\ q[0] = p[m]
      /\ \A n \in 1..NChunks : q[n] = IF q[n - 1] = Null THEN Null ELSE nx[q[n - 1]]
  <2>1. p[m] \in Chunks \cup {Null}
    BY <1>1
  <2>2. QED
    BY <2>1, PathStep
<1> HIDE DEF p, q
<1>3. k \in Nat /\ k <= NChunks /\ m \in Nat /\ NChunks \in Nat
  BY HashtabAssumption
<1>4. 0 \in S
  BY <1>2, <1>3
<1>5. ASSUME NEW n \in 1..k, n - 1 \in S PROVE n \in S
  <2>1. n \in 1..NChunks /\ m + n \in 1..NChunks /\ (m + n) - 1 = m + (n - 1)
    BY <1>3
  <2>2. q[n - 1] = p[(m + n) - 1]
    BY <1>5, <2>1
  <2>3. q[n] = p[m + n]
    BY <2>1, <2>2, <1>1, <1>2
  <2>4. QED
    BY <2>3, <1>3
<1>6. 0..k \subseteq S
  <2> HIDE DEF S, k
  <2> QED
    BY <1>3, <1>4, <1>5, UpTo
<1>7. QED
  BY <1>6 DEF p, q

(* Behind the end of a path is nothing. *)
LEMMA PathNull ==
    ASSUME NEW nx \in [Chunks -> Chunks \cup {Null}],
           NEW c \in Chunks \cup {Null},
           NEW m \in 0..NChunks, Path(nx, c)[m] = Null,
           NEW n \in m..NChunks
    PROVE  Path(nx, c)[n] = Null
<1>1. n - m \in 0..NChunks - m /\ m + (n - m) = n
  BY HashtabAssumption
<1>2. Path(nx, Null)[n - m] = Path(nx, c)[n]
  BY <1>1, PathShift
<1> DEFINE q == Path(nx, Null)
           S == {k \in 0..NChunks : q[k] = Null}
<1>3. /\ q[0] = Null
      /\ \A k \in 1..NChunks : q[k] = IF q[k - 1] = Null THEN Null ELSE nx[q[k - 1]]
  BY PathStep
<1> HIDE DEF q
<1>4. 0 \in S
  BY <1>3, HashtabAssumption
<1>5. \A k \in 1..NChunks : k - 1 \in S => k \in S
  BY <1>3
<1>6. 0..NChunks \subseteq S
  <2> HIDE DEF S
  <2> QED
    BY <1>4, <1>5, HashtabAssumption, UpTo
<1>7. n - m \in 0..NChunks
  BY HashtabAssumption
<1>8. QED
  BY <1>2, <1>6, <1>7 DEF q

(* There are not enough chunks for a path without a cycle that is longer. *)
LEMMA PathEnds ==
    ASSUME NEW nx \in [Chunks -> Chunks \cup {Null}],
           NEW c \in Chunks \cup {Null},
           \A m, n \in 0..NChunks :
             Path(nx, c)[m] # Null /\ Path(nx, c)[m] = Path(nx, c)[n] => m = n
    PROVE  Path(nx, c)[NChunks] = Null
<1> DEFINE p == Path(nx, c)
<1>1. SUFFICES ASSUME p[NChunks] # Null PROVE FALSE
  OBVIOUS
<1>2. p \in [0..NChunks -> Chunks \cup {Null}]
  BY PathStep
<1>3. \A n \in 0..NChunks : p[n] # Null
  <2> TAKE n \in 0..NChunks
  <2>1. NChunks \in n..NChunks
    BY HashtabAssumption
  <2>2. QED
    BY <2>1, <1>1, PathNull
<1>4. p \in [0..NChunks -> Chunks]
  <2> HIDE DEF p
  <2> QED
    BY <1>2, <1>3
<1>5. /\ IsFiniteSet(0..NChunks) /\ Cardinality(0..NChunks) = NChunks + 1
      /\ IsFiniteSet(1..NChunks) /\ Cardinality(1..NChunks) = NChunks
      /\ Cardinality(1..NChunks) < Cardinality(0..NChunks)
  <2>1. NChunks \in Nat
    BY HashtabAssumption
  <2>2. Cardinality(0..NChunks) = NChunks + 1 /\ IsFiniteSet(0..NChunks)
    BY <2>1, FS_Interval
  <2>3. Cardinality(1..NChunks) = NChunks /\ IsFiniteSet(1..NChunks)
    BY <2>1, FS_Interval
  <2> HIDE DEF p
  <2>4. QED
    BY <2>1, <2>2, <2>3
<1>6. PICK x, y \in 0..NChunks : x # y /\ p[x] = p[y]
  <2> HIDE DEF p
  <2>1. Cardinality(1..NChunks) < Cardinality(0..NChunks)
    BY <1>5
  <2>2. p \in [0..NChunks -> 1..NChunks]
    BY <1>4 DEF Chunks
  <2> DEFINE S == 0..NChunks
             T == 1..NChunks
  <2>3. IsFiniteSet(S) /\ IsFiniteSet(T) /\ Cardinality(T) < Cardinality(S) /\ p \in [S -> T]
    BY <1>5, <2>2
  <2> HIDE DEF S, T
  <2>4. \E x, y \in S : x # y /\ p[x] = p[y]
    BY <2>3, FS_PigeonHole
  <2>5. QED
    BY <2>4 DEF S
<1>7. QED
  BY <1>3, <1>6
-----------------------------------------------------------------------------
(* The slot of a pair. *)
LEMMA SlotOf ==
    ASSUME NEW P \in Nat \ {0}, NEW i \in Nat
    PROVE  /\ i \div P \in Nat /\ i % P \in 0..P - 1
           /\ i = (i \div P) * P + (i % P)
  OBVIOUS

(* The slot j of the m-th chunk, and back from its number. *)
LEMMA SlotIs ==
    ASSUME NEW P \in Nat \ {0}, NEW m \in Nat, NEW j \in 0..P - 1
    PROVE  (m * P + j) \div P = m /\ (m * P + j) % P = j
  OBVIOUS

(* Numbers of the first pairs of chunks. *)
LEMMA Rows ==
    ASSUME NEW P \in Nat \ {0}, NEW m \in Nat, NEW n \in Nat
    PROVE  /\ m * P \in Nat /\ (m + 1) * P = m * P + P
           /\ m < n => (m + 1) * P <= n * P
           /\ m <= n => m * P <= n * P
           /\ n >= 1 => (n - 1) * P + P = n * P
           /\ m <= m * P
  OBVIOUS

-----------------------------------------------------------------------------
(* Types. *)

(* The table that the code sets up has the types. *)
LEMMA InitTypes == Init => TypesOK
<1> SUFFICES ASSUME Init PROVE TypesOK
  OBVIOUS
<1> USE HashtabAssumption
<1>1. 0 \in 0..NChunks * NPairs
  BY Rows
<1>2. NoLoc \in LocType
  BY DEF NoLoc, LocType, Buckets
<1>3. [j \in Slots |-> NoPair] \in [Slots -> [key : Keys \cup {None}, val : Values \cup {None}]]
  BY DEF NoPair
<1>4. QED
  BY <1>1, <1>2, <1>3 DEF Init, TypesOK, Pcs, Buckets, Chunks, Null

(* An update of a thread's locals. *)
LEMMA Locals ==
    ASSUME NEW t \in Threads, NEW l \in LocType, TypesOK,
           loc' = [loc EXCEPT ![t] = l]
    PROVE  /\ loc' \in [Threads -> LocType] /\ loc'[t] = l
           /\ \A u \in Threads : u # t => loc'[u] = loc[u]
BY DEF TypesOK

(* What Goto leaves of pc. *)
LEMMA Control ==
    ASSUME NEW t \in Threads, NEW l \in Pcs \cup {"oob"}, TypesOK, Goto(t, l)
    PROVE  /\ pc' \in [Threads -> Pcs \cup {"oob"}] /\ pc'[t] = l
           /\ \A u \in Threads : u # t => pc'[u] = pc[u]
BY DEF TypesOK, Goto

(* A load of the size keeps the types. *)
LEMMA LoadSizeTypes ==
    ASSUME NEW t \in Threads, NEW p \in Pcs, TypesOK, LoadSize(t, p)
    PROVE  TypesOK'
<1> DEFINE l == [loc[t] EXCEPT !.cur = size[loc[t].b]]
<1>1. loc' = [loc EXCEPT ![t] = l] /\ Goto(t, p)
     /\ UNCHANGED <<size, head, insertLock, readers, writers, next, pairs, freeList, allocated, alive, calls, result>>
  BY DEF LoadSize, lockVars, chunkVars
<1>2. l \in LocType
  <2>1. loc[t] \in LocType /\ size[loc[t].b] \in 0..NChunks * NPairs
    BY DEF TypesOK, LocType
  <2>2. size[loc[t].b] \in Nat
    BY <2>1
  <2>3. QED
    BY <2>1, <2>2 DEF LocType
<1>3. pc' \in [Threads -> Pcs \cup {"oob"}]
  BY <1>1, Control
<1>4. loc' \in [Threads -> LocType]
  BY <1>1, <1>2, Locals
<1>5. QED
  BY <1>1, <1>3, <1>4 DEF TypesOK

-----------------------------------------------------------------------------
(* Chains, pairs, and where a thread stands. *)

(* The chains of the buckets and the free list are paths that end. *)
LEMMA Lines ==
    ASSUME TypesOK, ChunksApart, NEW p \in Places
    PROVE  /\ First(p) \in Chunks \cup {Null}
           /\ Line(p) \in [0..NChunks -> Chunks \cup {Null}]
           /\ Line(p)[0] = First(p)
           /\ \A n \in 1..NChunks :
                Line(p)[n] = IF Line(p)[n - 1] = Null THEN Null ELSE next[Line(p)[n - 1]]
           /\ Line(p)[NChunks] = Null
           /\ \A m \in 0..NChunks : \A n \in m..NChunks : Line(p)[m] = Null => Line(p)[n] = Null
<1>1. next \in [Chunks -> Chunks \cup {Null}]
  BY DEF TypesOK
<1>2. First(p) \in Chunks \cup {Null}
  <2> QED
    BY HashtabAssumption DEF First, Places, TypesOK, Buckets
<1>3. \A m, n \in 0..NChunks : Line(p)[m] # Null /\ Line(p)[m] = Line(p)[n] => m = n
  BY DEF ChunksApart
<1>4. Line(p)[NChunks] = Null
  BY <1>1, <1>2, <1>3, PathEnds DEF Line
<1>5. ASSUME NEW m \in 0..NChunks, NEW n \in m..NChunks, Line(p)[m] = Null
      PROVE  Line(p)[n] = Null
  BY <1>1, <1>2, <1>5, PathNull DEF Line
<1>6. QED
  BY <1>1, <1>2, <1>4, <1>5, PathStep DEF Line

(* A bucket's chain is one of the lines. *)
LEMMA ChainIsLine ==
    ASSUME NEW b \in Buckets
    PROVE  b \in Places /\ b # HashTableSize /\ First(b) = head[b] /\ Chain(b) = Line(b)
BY HashtabAssumption DEF Places, Buckets, First, Line, Chain

(* Lines, for the chain of a bucket. *)
LEMMA Chains ==
    ASSUME TypesOK, ChunksApart, NEW b \in Buckets
    PROVE  /\ head[b] \in Chunks \cup {Null}
           /\ Chain(b) \in [0..NChunks -> Chunks \cup {Null}]
           /\ Chain(b)[0] = head[b]
           /\ \A n \in 1..NChunks :
                Chain(b)[n] = IF Chain(b)[n - 1] = Null THEN Null ELSE next[Chain(b)[n - 1]]
           /\ Chain(b)[NChunks] = Null
           /\ \A m \in 0..NChunks : \A n \in m..NChunks : Chain(b)[m] = Null => Chain(b)[n] = Null
           /\ \A m, n \in 0..NChunks : Chain(b)[m] # Null /\ Chain(b)[m] = Chain(b)[n] => m = n
BY Lines, ChainIsLine DEF ChunksApart

(* The pair in a slot of the m-th chunk of a bucket. *)
LEMMA PairIn ==
    ASSUME NEW b \in Buckets, NEW m \in 0..NChunks, NEW j \in Slots,
           Chain(b)[m] # Null
    PROVE  PairAt(b, m * NPairs + j) = pairs[Chain(b)[m]][j]
<1>1. (m * NPairs + j) \div NPairs = m /\ (m * NPairs + j) % NPairs = j
  BY SlotIs, HashtabAssumption DEF Slots
<1>2. QED
  BY <1>1 DEF PairAt

(* The number of pairs of a bucket that are not on their way out. *)
LEMMA TopType ==
    ASSUME TypesOK, \A t \in Threads : RemoveOK(t), NEW b \in Buckets
    PROVE  Top(b) \in Nat /\ Top(b) <= size[b] /\ size[b] \in Nat /\ size[b] <= NChunks * NPairs
<1>1. size[b] \in 0..NChunks * NPairs /\ NChunks * NPairs \in Nat
  BY Rows, HashtabAssumption DEF TypesOK
<1>2. ASSUME NEW t \in Threads, In(t, {"release", "shrink"}, b)
      PROVE  size[b] >= 1
  <2>1. loc[t].cur = size[b] /\ loc[t].i < loc[t].cur /\ loc[t].i \in Nat
    BY <1>2 DEF RemoveOK, In, TypesOK, LocType
  <2>2. QED
    BY <2>1, <1>1
<1>3. QED
  BY <1>1, <1>2 DEF Top

(* Every pair has its slot in a chunk of the chain. *)
LEMMA PairHasSlot ==
    ASSUME TypesOK, ChunksApart, FilledOK, \A t \in Threads : RemoveOK(t),
           NEW b \in Buckets, NEW i \in 0..Top(b) - 1
    PROVE  /\ i \div NPairs \in 0..NChunks /\ i % NPairs \in Slots
           /\ i = (i \div NPairs) * NPairs + (i % NPairs)
           /\ Chain(b)[i \div NPairs] \in Chunks
           /\ PairAt(b, i) = pairs[Chain(b)[i \div NPairs]][i % NPairs]
<1>1. Top(b) \in Nat
  BY TopType
<1>2. /\ i \div NPairs \in Nat /\ i % NPairs \in Slots
      /\ i = (i \div NPairs) * NPairs + (i % NPairs)
  <2>1. i \in Nat
    BY <1>1
  <2>2. QED
    BY <2>1, SlotOf, HashtabAssumption DEF Slots
<1> DEFINE m == i \div NPairs
           j == i % NPairs
<1> HIDE DEF m, j
<1>3. m \in Nat /\ j \in Slots /\ i = m * NPairs + j
  BY <1>2 DEF m, j
<1>4. \A n \in 0..NChunks : n * NPairs < Top(b) => Chain(b)[n] # Null
  BY DEF FilledOK
<1>5. NChunks * NPairs >= Top(b)
  <2>1. NChunks \in 0..NChunks /\ NChunks * NPairs \in Nat /\ Chain(b)[NChunks] = Null
    BY Rows, Chains, HashtabAssumption
  <2>2. QED
    BY <2>1, <1>1, <1>4
<1>6. m < NChunks
  <2>1. SUFFICES ASSUME NChunks <= m PROVE FALSE
    BY <1>3, HashtabAssumption
  <2>2. NChunks * NPairs <= m * NPairs /\ m * NPairs \in Nat
    BY <2>1, <1>3, Rows, HashtabAssumption
  <2>3. QED
    BY <2>2, <1>1, <1>3, <1>5, HashtabAssumption DEF Slots
<1>7. m * NPairs < Top(b)
  <2>1. m * NPairs \in Nat
    BY <1>3, Rows, HashtabAssumption
  <2>2. QED
    BY <2>1, <1>1, <1>3 DEF Slots
<1>8. m \in 0..NChunks /\ Chain(b)[m] # Null
  BY <1>3, <1>4, <1>6, <1>7, HashtabAssumption
<1>9. Chain(b)[m] \in Chunks
  <2>1. Chain(b) \in [0..NChunks -> Chunks \cup {Null}]
    BY Chains
  <2>2. QED
    BY <2>1, <1>8
<1>10. PairAt(b, i) = pairs[Chain(b)[m]][j]
  BY <1>3, <1>8, PairIn
<1>11. QED
  BY <1>3, <1>8, <1>9, <1>10 DEF m, j

(* Two threads in one bucket: a remover is alone, an inserter is the only one. *)
LEMMA Exclusion ==
    ASSUME LocksOK, NEW b \in Buckets, NEW t \in Threads, NEW u \in Threads,
           t # u
    PROVE  /\ In(t, Removing, b) => ~In(u, Removing, b) /\ ~In(u, Reading, b)
           /\ In(t, Reading, b) => ~In(u, Removing, b)
           /\ In(t, Inserting, b) => ~In(u, Inserting, b)
BY DEF LocksOK

(* What Top is follows from where one thread in the bucket stands: no other
   removal is going on. *)
LEMMA TopIs ==
    ASSUME LocksOK, NEW b \in Buckets, NEW t \in Threads
    PROVE  /\ In(t, Reading, b) => Top(b) = size[b]
           /\ In(t, Removing \ {"release", "shrink"}, b) => Top(b) = size[b]
           /\ In(t, {"release", "shrink"}, b) => Top(b) = size[b] - 1
<1>1. ASSUME NEW u \in Threads, In(u, {"release", "shrink"}, b)
      PROVE  In(u, Removing, b) /\ ~In(u, Reading, b) /\ ~In(u, Removing \ {"release", "shrink"}, b)
  BY <1>1 DEF In, Removing, Reading, Searching
<1>2. ASSUME In(t, Reading, b) \/ In(t, Removing \ {"release", "shrink"}, b)
      PROVE  Top(b) = size[b]
  <2>1. In(t, Reading, b) \/ In(t, Removing, b)
    BY <1>2 DEF In
  <2>2. ~ \E u \in Threads : In(u, {"release", "shrink"}, b)
    BY <1>1, <1>2, <2>1, Exclusion
  <2>3. QED
    BY <2>2 DEF Top
<1>3. QED
  BY <1>2 DEF Top

(* A thread is in the bucket of its locals. *)
LEMMA InTheBucket ==
    ASSUME TypesOK, NEW t \in Threads
    PROVE  /\ loc[t].b \in Buckets /\ loc[t] \in LocType
           /\ \A S : pc[t] \in S => In(t, S, loc[t].b)
BY DEF TypesOK, LocType, In

(* A cell of a chain and the chunk behind it. *)
LEMMA CellChunk ==
    ASSUME TypesOK, ChunksApart, NEW b \in Buckets, NEW m \in 0..NChunks,
           m > 0 => Cell(b, m) # Null
    PROVE  /\ Cell(b, m) \in Chunks \cup {Null}
           /\ Cell(b, m) = Null <=> m = 0
           /\ Deref(b, Cell(b, m)) = Chain(b)[m]
           /\ m < NChunks => Cell(b, m + 1) = Chain(b)[m]
<1>1. CASE m = 0
  BY <1>1, Chains, HashtabAssumption DEF Cell, Deref, Null
<1>2. CASE m > 0
  <2>1. m \in 1..NChunks /\ m - 1 \in 0..NChunks
    BY <1>2, HashtabAssumption
  <2>2. Cell(b, m) = Chain(b)[m - 1] /\ Cell(b, m) # Null
    BY <1>2 DEF Cell
  <2>3. Chain(b)[m - 1] \in Chunks \cup {Null}
    BY <2>1, Chains
  <2>4. Chain(b)[m] = next[Chain(b)[m - 1]]
    BY <2>1, <2>2, Chains
  <2>5. m + 1 # 0 /\ (m + 1) - 1 = m
    BY <2>1
  <2>6. QED
    BY <1>2, <2>2, <2>3, <2>4, <2>5 DEF Cell, Deref
<1>3. QED
  BY <1>1, <1>2, HashtabAssumption

(* Where Compare looks. *)
LEMMA Looks ==
    ASSUME HashtabInv, NEW t \in Threads, pc[t] \in Searching, loc[t].i < loc[t].cur,
           NEW cell, cell = IF loc[t].j = NPairs THEN Deref(loc[t].b, loc[t].at) ELSE loc[t].at,
           NEW j, j = IF loc[t].j = NPairs THEN 0 ELSE loc[t].j
    PROVE  \E m \in 0..NChunks :
             /\ cell = Cell(loc[t].b, m) /\ cell \in Chunks \cup {Null} /\ (m > 0 => cell # Null)
             /\ j \in Slots /\ loc[t].i = m * NPairs + j
             /\ Chain(loc[t].b)[m] \in Chunks /\ Deref(loc[t].b, cell) = Chain(loc[t].b)[m]
             /\ pairs[Chain(loc[t].b)[m]][j] = PairAt(loc[t].b, loc[t].i)
             /\ loc[t].i < size[loc[t].b]
<1> DEFINE l == loc[t]
           b == loc[t].b
<1>1. TypesOK /\ LocksOK /\ ChunksApart /\ FilledOK /\ SearchOK(t) /\ \A u \in Threads : RemoveOK(u)
  BY DEF HashtabInv
<1>2. b \in Buckets /\ l \in LocType /\ In(t, Reading, b)
  BY <1>1, InTheBucket DEF Reading
<1>3. Top(b) = size[b] /\ size[b] \in Nat
  BY <1>1, <1>2, TopIs, TopType
<1>4. l.i <= l.cur /\ l.cur <= size[b] /\ l.j \in 0..NPairs /\ l.i \in Nat /\ l.cur \in Nat
  BY <1>1, <1>2 DEF SearchOK, LocType
<1>5. PICK m \in 0..NChunks : AtCell(l, m)
  BY <1>1 DEF SearchOK
<1>6. /\ l.i = m * NPairs + l.j /\ l.at = Cell(b, m) /\ (m > 0 => l.at # Null)
      /\ m \in Nat /\ m * NPairs \in Nat /\ (m + 1) * NPairs = m * NPairs + NPairs
      /\ NPairs \in Nat \ {0} /\ NChunks \in Nat
  BY <1>5, Rows, HashtabAssumption DEF AtCell
<1>7. m * NPairs < Top(b)
  BY <1>3, <1>4, <1>6
<1>8. Chain(b)[m] # Null /\ Chain(b)[m] \in Chunks \cup {Null} /\ m < NChunks
  <2>1. Chain(b)[m] # Null /\ Chain(b)[m] \in Chunks \cup {Null}
    BY ZenonT(40), <1>1, <1>2, <1>7, Chains DEF FilledOK
  <2>2. QED
    BY <1>1, <1>2, <1>6, <2>1, Chains
<1>9. Deref(b, l.at) = Chain(b)[m] /\ Cell(b, m + 1) = Chain(b)[m] /\ Cell(b, m) \in Chunks \cup {Null}
  BY <1>1, <1>2, <1>6, <1>8, CellChunk
<1>10. CASE l.j = NPairs
  <2>1. l.j = NPairs /\ cell = Chain(b)[m] /\ j = 0 /\ m + 1 \in 0..NChunks
    <3>1. m + 1 \in 0..NChunks
      BY <1>8, HashtabAssumption
    <3>2. QED
      BY <1>9, <1>10, <3>1
  <2>2. l.i = (m + 1) * NPairs + j
    BY <1>6, <2>1
  <2>3. (m + 1) * NPairs < Top(b)
    BY <1>3, <1>4, <1>6, <2>1
  <2>4. Chain(b)[m + 1] # Null /\ Chain(b)[m + 1] \in Chunks \cup {Null}
    <3>1. Chain(b)[m + 1] # Null
      BY <1>1, <1>2, <2>1, <2>3 DEF FilledOK
    <3>2. Chain(b) \in [0..NChunks -> Chunks \cup {Null}]
      BY <1>1, <1>2, Chains
    <3>3. QED
      BY <2>1, <3>1, <3>2
  <2>5. cell = Cell(b, m + 1) /\ j \in Slots
    BY <1>9, <2>1, <1>6 DEF Slots
  <2>6. Deref(b, cell) = Chain(b)[m + 1]
    BY <1>1, <1>2, <1>8, <2>1, <2>5, CellChunk
  <2>7. PairAt(b, l.i) = pairs[Chain(b)[m + 1]][j]
    BY <1>2, <2>1, <2>2, <2>4, <2>5, PairIn
  <2>8. l.i < size[b]
    BY <1>3, <1>4
  <2>9. QED
    BY <1>8, <2>1, <2>2, <2>4, <2>5, <2>6, <2>7, <2>8
<1>11. CASE l.j # NPairs
  <2>1. cell = l.at /\ j = l.j /\ j \in Slots
    BY <1>11, <1>4, HashtabAssumption DEF Slots
  <2>2. PairAt(b, l.i) = pairs[Chain(b)[m]][j]
    BY <1>2, <1>6, <1>8, <2>1, PairIn
  <2>3. l.i < size[b]
    BY <1>3, <1>4
  <2>4. QED
    BY <1>6, <1>8, <1>9, <2>1, <2>2, <2>3
<1>12. QED
  BY <1>10, <1>11

(* What Search finds. *)
LEMMA Finds ==
    ASSUME HashtabInv, NEW t \in Threads, pc[t] = "search",
           NEW found, found = {i \in 0..size[loc[t].b] - 1 : Matches(t, PairAt(loc[t].b, i).key)},
           NEW i \in found, \A m \in found : i <= m
    PROVE  /\ i \in 0..size[loc[t].b] - 1 /\ i \in Nat
           /\ Matches(t, PairAt(loc[t].b, i).key) /\ NoneBefore(t, i)
           /\ i \div NPairs \in 0..NChunks /\ i % NPairs \in Slots
           /\ i = (i \div NPairs) * NPairs + (i % NPairs)
           /\ Chain(loc[t].b)[i \div NPairs] \in Chunks
           /\ Cell(loc[t].b, i \div NPairs) \in Chunks \cup {Null}
<1> DEFINE b == loc[t].b
<1>1. TypesOK /\ LocksOK /\ ChunksApart /\ FilledOK /\ \A u \in Threads : RemoveOK(u)
  BY DEF HashtabInv
<1>2. b \in Buckets /\ In(t, Removing \ {"release", "shrink"}, b)
  BY <1>1, InTheBucket DEF Removing
<1>3. Top(b) = size[b] /\ size[b] \in Nat
  BY <1>1, <1>2, TopIs, TopType
<1>6. i \in found /\ \A m \in found : i <= m
  OBVIOUS
<1>7. i \in 0..Top(b) - 1 /\ i \in Nat /\ Matches(t, PairAt(b, i).key)
  BY <1>3, <1>6
<1>8. NoneBefore(t, i)
  <2>1. ASSUME NEW q \in 0..i - 1, Matches(t, PairAt(b, q).key) PROVE FALSE
    <3>1. q \in 0..size[b] - 1 /\ ~(i <= q)
      BY <1>3, <1>7
    <3>2. QED
      BY <2>1, <3>1, <1>6
  <2>2. QED
    BY <2>1 DEF NoneBefore
<1>9. /\ i \div NPairs \in 0..NChunks /\ i % NPairs \in Slots
      /\ i = (i \div NPairs) * NPairs + (i % NPairs)
      /\ Chain(b)[i \div NPairs] \in Chunks
  BY <1>1, <1>2, <1>7, PairHasSlot
<1>10. \A n \in 0..NChunks : Cell(b, n) \in Chunks \cup {Null}
  <2>1. Chain(b) \in [0..NChunks -> Chunks \cup {Null}]
    BY <1>1, <1>2, Chains
  <2>2. QED
    BY <2>1, HashtabAssumption DEF Cell
<1>11. QED
  BY <1>3, <1>7, <1>8, <1>9, <1>10

(* The last chunk of a chain, counted from the m-th one. *)
LEMMA LastChunk ==
    ASSUME TypesOK, ChunksApart, NEW b \in Buckets, NEW m \in 0..NChunks,
           Chain(b)[m] # Null,
           NEW rest, rest = Rest(Chain(b)[m])
    PROVE  /\ \E n \in 0..NChunks : rest[n] # Null /\ next[rest[n]] = Null
           /\ \A n \in 0..NChunks :
                rest[n] # Null /\ next[rest[n]] = Null =>
                  /\ n \in 0..NChunks - m - 1
                  /\ rest[n] = Chain(b)[m + n] /\ Chain(b)[m + n] \in Chunks
                  /\ next[Chain(b)[m + n]] = Null
                  /\ n > 0 => rest[n - 1] = Chain(b)[m + n - 1]
<1>1. /\ head[b] \in Chunks \cup {Null} /\ next \in [Chunks -> Chunks \cup {Null}]
      /\ Chain(b) \in [0..NChunks -> Chunks \cup {Null}]
      /\ \A k \in 1..NChunks :
           Chain(b)[k] = IF Chain(b)[k - 1] = Null THEN Null ELSE next[Chain(b)[k - 1]]
      /\ Chain(b)[NChunks] = Null
      /\ NChunks \in Nat /\ m \in Nat /\ NChunks - m \in Nat /\ m < NChunks
  <2>1. NChunks \in Nat /\ m \in Nat /\ NChunks - m \in Nat /\ m <= NChunks
    BY HashtabAssumption
  <2>2. /\ Chain(b) \in [0..NChunks -> Chunks \cup {Null}] /\ Chain(b)[NChunks] = Null
        /\ head[b] \in Chunks \cup {Null}
        /\ \A k \in 1..NChunks :
             Chain(b)[k] = IF Chain(b)[k - 1] = Null THEN Null ELSE next[Chain(b)[k - 1]]
    BY Chains
  <2>3. m < NChunks
    BY <2>1, <2>2
  <2>4. QED
    BY <2>1, <2>2, <2>3 DEF TypesOK
<1>2. \A q \in 0..NChunks - m : rest[q] = Chain(b)[m + q]
  BY <1>1, PathShift DEF Rest, Chain
<1>3. \A q \in 0..NChunks : rest[q] # Null => q < NChunks - m
  <2> SUFFICES ASSUME NEW q \in 0..NChunks, rest[q] # Null, ~(q < NChunks - m)
               PROVE  FALSE
    BY <1>1
  <2>1. NChunks - m \in 0..NChunks /\ q \in NChunks - m..NChunks /\ m + (NChunks - m) = NChunks
    BY <1>1
  <2>2. rest[NChunks - m] = Null
    BY <1>1, <1>2, <2>1
  <2>3. Chain(b)[m] \in Chunks \cup {Null}
    BY <1>1
  <2>4. rest[q] = Null
    BY <1>1, <2>1, <2>2, <2>3, PathNull DEF Rest
  <2>5. QED
    BY <2>4
<1>4. \E q \in 0..NChunks : rest[q] # Null /\ next[rest[q]] = Null
  <2> DEFINE S == {k \in Nat : m < k /\ k <= NChunks /\ Chain(b)[k] = Null}
  <2>1. S \in SUBSET Nat /\ NChunks \in S
    BY <1>1
  <2>2. PICK k \in S : \A q \in S : k <= q
    <3> HIDE DEF S
    <3> QED
      BY <2>1, SmallestOf
  <2>3. k \in 1..NChunks /\ k - 1 \in 0..NChunks /\ k - 1 \in Nat /\ m <= k - 1 /\ Chain(b)[k] = Null
    BY <1>1
  <2>4. Chain(b)[k - 1] # Null
    <3>1. CASE k - 1 = m
      BY <3>1
    <3>2. CASE k - 1 # m
      <4>1. k - 1 \notin S
        BY <2>2, <2>3
      <4>2. m < k - 1 /\ k - 1 <= NChunks
        BY <2>3, <3>2, <1>1
      <4>3. QED
        BY <2>3, <4>1, <4>2
    <3>3. QED
      BY <3>1, <3>2
  <2>5. next[Chain(b)[k - 1]] = Null
    BY <2>3, <2>4, <1>1
  <2>6. k - 1 - m \in 0..NChunks - m /\ m + (k - 1 - m) = k - 1 /\ k - 1 - m \in 0..NChunks
    BY <1>1, <2>3
  <2>7. rest[k - 1 - m] = Chain(b)[k - 1]
    BY <1>2, <2>6
  <2>8. QED
    BY <2>4, <2>5, <2>6, <2>7
<1>5. ASSUME NEW n \in 0..NChunks, rest[n] # Null, next[rest[n]] = Null
      PROVE  /\ n \in 0..NChunks - m - 1
             /\ rest[n] = Chain(b)[m + n] /\ Chain(b)[m + n] \in Chunks
             /\ next[Chain(b)[m + n]] = Null
             /\ n > 0 => rest[n - 1] = Chain(b)[m + n - 1]
  <2>1. n < NChunks - m
    BY <1>3, <1>5
  <2>2. n \in 0..NChunks - m - 1 /\ n \in 0..NChunks - m /\ m + n \in 0..NChunks /\ n \in Nat
    BY <1>1, <2>1
  <2>3. rest[n] = Chain(b)[m + n] /\ Chain(b)[m + n] \in Chunks \cup {Null}
    BY <1>1, <1>2, <2>2
  <2>4. ASSUME n > 0 PROVE rest[n - 1] = Chain(b)[m + n - 1]
    <3>1. n - 1 \in 0..NChunks - m /\ m + (n - 1) = m + n - 1
      BY <1>1, <2>2, <2>4
    <3>2. QED
      BY <1>2, <3>1
  <2>5. QED
    BY <1>5, <2>2, <2>3, <2>4
<1>6. QED
  BY <1>4, <1>5

(* MOVE_LAST_TO_REMOVED's walk along the chain finds a last chunk. *)
LEMMA HasLast ==
    ASSUME HashtabInv, NEW t \in Threads, pc[t] = "move"
    PROVE  LET rest == Rest(loc[t].at)
           IN  \E m \in 0..NChunks : rest[m] # Null /\ next[rest[m]] = Null
<1>1. TypesOK /\ ChunksApart /\ RemoveOK(t) /\ loc[t].b \in Buckets
  BY InTheBucket DEF HashtabInv
<1>2. PICK m \in 0..NChunks : AtChunk(loc[t], m)
  BY <1>1 DEF RemoveOK
<1>3. Chain(loc[t].b)[m] # Null /\ Rest(loc[t].at) = Rest(Chain(loc[t].b)[m])
  BY <1>2 DEF AtChunk
<1>4. QED
  BY <1>1, <1>3, LastChunk

(* Where Move looks. *)
LEMMA Moves ==
    ASSUME HashtabInv, NEW t \in Threads, pc[t] = "move",
           NEW rest, rest = Rest(loc[t].at),
           NEW n \in 0..NChunks, rest[n] # Null, next[rest[n]] = Null,
           NEW prev, prev = IF n = 0 THEN loc[t].prev ELSE rest[n - 1]
    PROVE  \E m, k \in 0..NChunks, j \in Int :
             /\ j = loc[t].cur - (loc[t].i - loc[t].j + n * NPairs) - 1
             /\ m <= k /\ k < NChunks
             /\ loc[t].i = m * NPairs + loc[t].j /\ loc[t].j \in Slots
             /\ loc[t].at = Chain(loc[t].b)[m] /\ loc[t].at \in Chunks
             /\ rest[n] = Chain(loc[t].b)[k] /\ rest[n] \in Chunks /\ next[rest[n]] = Null
             /\ prev = Null \/ (k >= 1 /\ prev = Chain(loc[t].b)[k - 1] /\ prev \in Chunks)
             /\ (m = k => prev = IF Op(t) = "remove_if" THEN Null ELSE Cell(loc[t].b, m))
             /\ (m < k => prev = Chain(loc[t].b)[k - 1] /\ prev \in Chunks)
             /\ loc[t].cur - 1 = k * NPairs + j
             /\ j \in Slots => pairs[rest[n]][j] = PairAt(loc[t].b, loc[t].cur - 1)
<1> DEFINE l == loc[t]
           b == loc[t].b
<1>1. TypesOK /\ ChunksApart /\ RemoveOK(t)
  BY DEF HashtabInv
<1>2. b \in Buckets /\ l \in LocType
  BY <1>1, InTheBucket
<1>3. PICK m \in 0..NChunks :
        /\ AtChunk(l, m)
        /\ l.prev = IF Op(t) = "remove_if" THEN Null ELSE Cell(b, m)
  BY <1>1 DEF RemoveOK
<1>4. /\ l.i = m * NPairs + l.j /\ l.at = Chain(b)[m] /\ l.at # Null
  BY <1>3 DEF AtChunk
<1>5. l.j \in Slots
  BY <1>1 DEF RemoveOK
<1>6. /\ n \in 0..NChunks - m - 1
      /\ rest[n] = Chain(b)[m + n] /\ Chain(b)[m + n] \in Chunks
      /\ next[Chain(b)[m + n]] = Null
      /\ n > 0 => rest[n - 1] = Chain(b)[m + n - 1]
  <2>1. Chain(b)[m] # Null /\ rest = Rest(Chain(b)[m])
    BY <1>4
  <2>2. QED
    BY <1>1, <1>2, <2>1, LastChunk
<1> NChunks \in Nat /\ NPairs \in Nat \ {0} /\ m \in Nat /\ m <= NChunks
  BY HashtabAssumption
<1>5a. n \in Nat /\ m + n < NChunks
  <2>1. n \in 0..NChunks - m - 1
    BY <1>6
  <2>2. QED
    BY ONLY <2>1, NChunks \in Nat, m \in Nat
<1>7. PICK k \in 0..NChunks : k = m + n /\ m <= k /\ k < NChunks /\ n = k - m
  <2>1. m + n \in 0..NChunks /\ m + n < NChunks /\ m <= m + n /\ n = (m + n) - m
    BY <1>5a
  <2>2. QED
    BY <2>1
<1>8. Chain(b) \in [0..NChunks -> Chunks \cup {Null}]
      /\ \A q \in 1..NChunks : Chain(b)[q] # Null => Chain(b)[q - 1] # Null
  BY <1>1, <1>2, Chains
<1>9. ASSUME k >= 1 PROVE Chain(b)[k - 1] \in Chunks
  <2>1. k \in 1..NChunks /\ k - 1 \in 0..NChunks /\ Chain(b)[k] # Null
    <3>1. 0 \notin Chunks
      BY DEF Chunks
    <3>2. QED
      BY <1>6, <1>7, <1>9, <3>1 DEF Null
  <2>2. QED
    BY <2>1, <1>8
<1> DEFINE PrevOK == /\ prev = Null \/ (k >= 1 /\ prev = Chain(b)[k - 1] /\ prev \in Chunks)
                     /\ (m = k => prev = IF Op(t) = "remove_if" THEN Null ELSE Cell(b, m))
                     /\ (m < k => prev = Chain(b)[k - 1] /\ prev \in Chunks)
<1>10. PrevOK
  <2>1. CASE n = 0
    <3>1. prev = l.prev /\ k = m
      BY <1>7, <2>1
    <3>2. Cell(b, m) = Null \/ (k >= 1 /\ Cell(b, m) = Chain(b)[k - 1])
      BY <3>1, HashtabAssumption DEF Cell
    <3>3. prev = Null \/ (k >= 1 /\ prev = Chain(b)[k - 1] /\ prev \in Chunks)
      BY <1>3, <1>9, <3>1, <3>2
    <3>4. (m = k => prev = IF Op(t) = "remove_if" THEN Null ELSE Cell(b, m)) /\ ~(m < k)
      BY <1>3, <3>1, HashtabAssumption
    <3>5. QED
      BY <3>3, <3>4
  <2>2. CASE n # 0
    <3>1. n > 0 /\ k >= 1 /\ m # k /\ m + n - 1 = k - 1
      BY <1>5a, <1>7, <2>2
    <3>2. prev = Chain(b)[k - 1]
      BY <1>6, <2>2, <3>1
    <3>3. QED
      BY <1>9, <3>1, <3>2
  <2>3. QED
    BY <2>1, <2>2
<1>11. PICK M \in Nat, N \in Nat, K \in Nat :
         M = m * NPairs /\ N = n * NPairs /\ K = k * NPairs /\ K = M + N
  <2>1. m \in Nat /\ n \in Nat /\ NPairs \in Nat
    BY <1>5a
  <2>2. (m + n) * NPairs = m * NPairs + n * NPairs /\ m * NPairs \in Nat /\ n * NPairs \in Nat
    BY <2>1
  <2>3. QED
    BY <1>7, <2>2
<1>12. PICK j \in Int : j = l.cur - (l.i - l.j + n * NPairs) - 1 /\ l.cur - 1 = k * NPairs + j
  <2>1. l.i = M + l.j /\ l.cur \in Nat /\ l.j \in Nat /\ l.i \in Nat
    BY <1>2, <1>4, <1>11 DEF LocType
  <2>2. l.cur - 1 = K + (l.cur - (l.i - l.j + N) - 1) /\ (l.cur - (l.i - l.j + N) - 1) \in Int
    BY <1>11, <2>1
  <2>3. QED
    BY <1>11, <2>2
<1>13. ASSUME j \in Slots PROVE pairs[rest[n]][j] = PairAt(b, l.cur - 1)
  <2>1. Chain(b)[k] # Null /\ rest[n] = Chain(b)[k]
    <3>1. 0 \notin Chunks
      BY DEF Chunks
    <3>2. QED
      BY <1>6, <1>7, <3>1 DEF Null
  <2>2. QED
    BY <1>2, <1>12, <1>13, <2>1, PairIn
<1>14. /\ rest[n] = Chain(b)[k] /\ rest[n] \in Chunks /\ next[rest[n]] = Null /\ l.at \in Chunks
  BY <1>4, <1>6, <1>7, <1>8
<1>15. QED
  <2>1. /\ m <= k /\ k < NChunks
        /\ l.i = m * NPairs + l.j /\ l.j \in Slots
        /\ l.at = Chain(b)[m] /\ l.at \in Chunks
        /\ rest[n] = Chain(b)[k] /\ rest[n] \in Chunks /\ next[rest[n]] = Null
    BY <1>4, <1>5, <1>7, <1>14
  <2>2. j \in Slots => pairs[rest[n]][j] = PairAt(b, l.cur - 1)
    BY <1>13
  <2>3. PrevOK
    BY <1>10
  <2> HIDE DEF PrevOK
  <2>4. /\ j = l.cur - (l.i - l.j + n * NPairs) - 1
        /\ l.cur - 1 = k * NPairs + j
    BY <1>12
  <2>5. QED
    BY <2>1, <2>2, <2>3, <2>4, Zenon DEF PrevOK

-----------------------------------------------------------------------------
(* What the assignment and the release of a chunk do to the chains. *)

(* A path on which the link behind the k-th chunk is another one. *)
LEMMA PathCut ==
    ASSUME NEW nx \in [Chunks -> Chunks \cup {Null}],
           NEW ny \in [Chunks -> Chunks \cup {Null}],
           NEW c \in Chunks \cup {Null}, NEW k \in 0..NChunks,
           Path(nx, c)[k] # Null,
           \A n \in 0..k - 1 : ny[Path(nx, c)[n]] = nx[Path(nx, c)[n]]
    PROVE  /\ \A n \in 0..k : Path(ny, c)[n] = Path(nx, c)[n]
           /\ \A n \in 0..NChunks - k - 1 : Path(ny, c)[k + 1 + n] = Path(ny, ny[Path(nx, c)[k]])[n]
<1> DEFINE d == ny[Path(nx, c)[k]]
<1>1. \A n \in 0..k : Path(ny, c)[n] = Path(nx, c)[n]
  BY PathFrame
<1>2. NChunks \in Nat /\ k \in Nat /\ k <= NChunks
  BY HashtabAssumption
<1>3. ASSUME NEW n \in 0..NChunks - k - 1 PROVE Path(ny, c)[k + 1 + n] = Path(ny, d)[n]
  <2>1. k + 1 \in 0..NChunks /\ n \in 0..NChunks - (k + 1) /\ k + 1 \in 1..NChunks
        /\ (k + 1) - 1 = k /\ k \in 0..k
    BY <1>2
  <2>2. Path(ny, c)[k + 1] = d
    <3>1. Path(ny, c)[k] = Path(nx, c)[k]
      BY <1>1, <2>1
    <3>2. Path(ny, c)[k + 1] = IF Path(ny, c)[k] = Null THEN Null ELSE ny[Path(ny, c)[k]]
      <4>1. \A q \in 1..NChunks : Path(ny, c)[q] = IF Path(ny, c)[q - 1] = Null THEN Null
                                                   ELSE ny[Path(ny, c)[q - 1]]
        BY PathStep
      <4>2. QED
        BY <2>1, <4>1
    <3>3. QED
      BY <3>1, <3>2
  <2>3. Path(ny, Path(ny, c)[k + 1])[n] = Path(ny, c)[k + 1 + n]
    BY <2>1, PathShift
  <2>4. QED
    BY <2>2, <2>3
<1>4. QED
  BY <1>1, <1>3

(* No chunk follows Null. *)
LEMMA EmptyPath ==
    ASSUME NEW nx \in [Chunks -> Chunks \cup {Null}], NEW n \in 0..NChunks
    PROVE  Path(nx, Null)[n] = Null
<1>1. 0 \in 0..NChunks /\ n \in 0..NChunks
  BY HashtabAssumption
<1>2. Path(nx, Null)[0] = Null
  BY PathStep
<1>3. QED
  BY <1>1, <1>2, PathNull

(* A path whose k-th chunk becomes the last one. *)
LEMMA PathShortened ==
    ASSUME NEW nx \in [Chunks -> Chunks \cup {Null}],
           NEW ny \in [Chunks -> Chunks \cup {Null}],
           NEW c \in Chunks \cup {Null}, NEW k \in 0..NChunks,
           Path(nx, c)[k] # Null,
           \A n \in 0..k - 1 : ny[Path(nx, c)[n]] = nx[Path(nx, c)[n]],
           ny[Path(nx, c)[k]] = Null
    PROVE  /\ \A n \in 0..k : Path(ny, c)[n] = Path(nx, c)[n]
           /\ \A n \in k + 1..NChunks : Path(ny, c)[n] = Null
<1>1. /\ \A n \in 0..k : Path(ny, c)[n] = Path(nx, c)[n]
      /\ \A n \in 0..NChunks - k - 1 :
           Path(ny, c)[k + 1 + n] = Path(ny, ny[Path(nx, c)[k]])[n]
  BY PathCut
<1>2. ASSUME NEW n \in k + 1..NChunks PROVE Path(ny, c)[n] = Null
  <2>1. n - k - 1 \in 0..NChunks - k - 1 /\ k + 1 + (n - k - 1) = n /\ n - k - 1 \in 0..NChunks
    BY HashtabAssumption
  <2>2. QED
    BY <1>1, <2>1, EmptyPath
<1>3. QED
  BY <1>1, <1>2

(* A chunk put before a path. *)
LEMMA PathPushed ==
    ASSUME NEW nx \in [Chunks -> Chunks \cup {Null}],
           NEW ny \in [Chunks -> Chunks \cup {Null}],
           NEW d \in Chunks \cup {Null}, NEW c \in Chunks, ny[c] = d,
           \A n \in 0..NChunks : Path(nx, d)[n] # Null =>
                                   ny[Path(nx, d)[n]] = nx[Path(nx, d)[n]]
    PROVE  /\ Path(ny, c)[0] = c
           /\ \A n \in 1..NChunks : Path(ny, c)[n] = Path(nx, d)[n - 1]
<1>1. Path(ny, d) = Path(nx, d)
  BY PathSame
<1>2. Path(ny, c)[0] = c
  BY PathStep
<1>3. c # Null /\ NChunks \in Nat
  BY HashtabAssumption DEF Chunks, Null
<1>4. ASSUME NEW n \in 1..NChunks PROVE Path(ny, c)[n] = Path(nx, d)[n - 1]
  <2>1. 1 \in 1..NChunks /\ 1 \in 0..NChunks /\ n - 1 \in 0..NChunks - 1 /\ 1 + (n - 1) = n /\ 1 - 1 = 0
    BY <1>3
  <2>2. Path(ny, c)[1] = d
    <3>1. Path(ny, c)[1] = IF Path(ny, c)[1 - 1] = Null THEN Null ELSE ny[Path(ny, c)[1 - 1]]
      BY <2>1, PathStep
    <3>2. QED
      BY <3>1, <2>1, <1>2, <1>3
  <2>3. Path(ny, Path(ny, c)[1])[n - 1] = Path(ny, c)[1 + (n - 1)]
    BY <2>1, PathShift
  <2>4. QED
    BY <1>1, <2>1, <2>2, <2>3
<1>5. QED
  BY <1>2, <1>4

(* Chunk c is assigned to the m-th cell of bucket b: it comes from the free
   list, or else it is a new one. *)
Assigned(b, m, c) ==
    /\ freeList # Null => c = freeList
    /\ freeList = Null => c \notin allocated
    /\ freeList' = IF freeList # Null THEN next[freeList] ELSE Null
    /\ allocated' = allocated \cup {c}
    /\ head' = IF m = 0 THEN [head EXCEPT ![b] = c] ELSE head
    /\ next' = [(IF m = 0 THEN next ELSE [next EXCEPT ![Cell(b, m)] = c]) EXCEPT ![c] = Null]

(* ChunkFor assigns some chunk to the cell. *)
LEMMA ChunkForCell ==
    ASSUME TypesOK, ChunksApart, NEW t \in Threads, NEW m \in 0..NChunks,
           m > 0 => Cell(loc[t].b, m) # Null, ChunkFor(t, Cell(loc[t].b, m))
    PROVE  \E c \in Chunks : Assigned(loc[t].b, m, c)
<1> DEFINE b == loc[t].b
           fresh == CHOOSE n \in Chunks \ allocated : \A q \in Chunks \ allocated : n <= q
           c == IF freeList # Null THEN freeList ELSE fresh
<1>1. freeList = Null => fresh \in Chunks \ allocated
  <2> SUFFICES ASSUME freeList = Null PROVE fresh \in Chunks \ allocated
    OBVIOUS
  <2>1. Chunks \ allocated # {}
    BY DEF ChunkFor
  <2>2. Chunks \ allocated \in SUBSET Nat
    BY HashtabAssumption DEF Chunks
  <2>3. \E n \in Chunks \ allocated : \A q \in Chunks \ allocated : n <= q
    BY <2>1, <2>2, SmallestOf
  <2>4. QED
    BY <2>3
<1>2. c \in Chunks /\ (freeList = Null => c \notin allocated) /\ (freeList # Null => c = freeList)
  <2>1. freeList \in Chunks \cup {Null}
    BY DEF TypesOK
  <2>2. QED
    BY <1>1, <2>1
<1>3. Cell(b, m) = Null <=> m = 0
  BY CellChunk, InTheBucket
<1>4. Assigned(b, m, c)
  <2>1. /\ freeList' = IF freeList # Null THEN next[freeList] ELSE Null
        /\ allocated' = allocated \cup {c}
        /\ head' = IF Cell(b, m) = Null THEN [head EXCEPT ![b] = c] ELSE head
        /\ next' = [(IF Cell(b, m) = Null THEN next ELSE [next EXCEPT ![Cell(b, m)] = c])
                       EXCEPT ![c] = Null]
    BY DEF ChunkFor
  <2> HIDE DEF c
  <2>2. QED
    BY <1>2, <1>3, <2>1, Zenon DEF Assigned
<1>5. QED
  BY <1>2, <1>4

(* The three shapes of NewChunk: the chunk is there, the first one is used
   again, or a chunk is assigned to a cell. *)
GetsChunk(t, b, l) ==
    /\ pc[t] = "lscan" /\ In(t, Inserting, b) /\ In(t, Reading, b) /\ b \in Buckets /\ Top(b) = size[b]
    /\ l.i = l.cur /\ l.cur = size[b] /\ NoneBefore(t, l.i)
    /\ Goto(t, "write")
    /\ UNCHANGED <<size, insertLock, readers, writers, pairs, alive, calls, result>>
    /\ \/ /\ UNCHANGED <<head, next, freeList, allocated, loc>>
          /\ \E m \in 0..NChunks : AtCell(l, m) /\ Chain(b)[m] # Null /\ l.j \in Slots
       \/ /\ UNCHANGED <<head, freeList, allocated>>
          /\ size[b] = 0 /\ head[b] # Null /\ l.i = 0 /\ l.j = 0
          /\ next' = [next EXCEPT ![head[b]] = Null]
          /\ loc' = [loc EXCEPT ![t] = [l EXCEPT !.at = Null]]
       \/ \E m \in 0..NChunks, c \in Chunks :
            /\ l.i = m * NPairs /\ (m > 0 => Cell(b, m) # Null) /\ (m = 0 => head[b] = Null)
            /\ Assigned(b, m, c)
            /\ loc' = [loc EXCEPT ![t] = [l EXCEPT !.at = Cell(b, m), !.j = 0]]

(* The three things that NewChunk may do. *)
LEMMA NewChunks ==
    ASSUME HashtabInv, NEW t \in Threads, NewChunk(t),
           NEW b, b = loc[t].b, NEW l, l = loc[t]
    PROVE  GetsChunk(t, b, l)
<1> SUFFICES /\ pc[t] = "lscan" /\ In(t, Inserting, b) /\ In(t, Reading, b) /\ b \in Buckets /\ Top(b) = size[b]
             /\ l.i = l.cur /\ l.cur = size[b] /\ NoneBefore(t, l.i)
             /\ Goto(t, "write")
             /\ UNCHANGED <<size, insertLock, readers, writers, pairs, alive, calls, result>>
             /\ \/ /\ UNCHANGED <<head, next, freeList, allocated, loc>>
                   /\ \E m \in 0..NChunks : AtCell(l, m) /\ Chain(b)[m] # Null /\ l.j \in Slots
                \/ /\ UNCHANGED <<head, freeList, allocated>>
                   /\ size[b] = 0 /\ head[b] # Null /\ l.i = 0 /\ l.j = 0
                   /\ next' = [next EXCEPT ![head[b]] = Null]
                   /\ loc' = [loc EXCEPT ![t] = [l EXCEPT !.at = Null]]
                \/ \E m \in 0..NChunks, c \in Chunks :
                     /\ l.i = m * NPairs /\ (m > 0 => Cell(b, m) # Null) /\ (m = 0 => head[b] = Null)
                     /\ Assigned(b, m, c)
                     /\ loc' = [loc EXCEPT ![t] = [l EXCEPT !.at = Cell(b, m), !.j = 0]]
  BY DEF GetsChunk
<1>1. TypesOK /\ LocksOK /\ ChunksApart /\ FilledOK /\ SearchOK(t) /\ \A u \in Threads : RemoveOK(u)
  BY DEF HashtabInv
<1>2. /\ pc[t] = "lscan" /\ l.i >= l.cur /\ Goto(t, "write")
      /\ UNCHANGED <<size, insertLock, readers, writers, pairs, alive, calls, result>>
  BY DEF NewChunk, ScanDone, lockVars
<1>3. b \in Buckets /\ l \in LocType /\ In(t, Reading, b) /\ In(t, Inserting, b)
  BY <1>1, <1>2, InTheBucket DEF Reading, Searching, Inserting
<1>4. Top(b) = size[b] /\ size[b] \in Nat
  BY <1>1, <1>3, TopIs, TopType
<1>5. /\ l.i <= l.cur /\ l.cur = size[b] /\ NoneBefore(t, l.i)
      /\ l.j \in 0..NPairs /\ (l.j = 0 => l.i = 0) /\ l.i \in Nat /\ l.j \in Nat
  BY <1>1, <1>2, <1>3 DEF SearchOK, Searching, LocType
<1>6. l.i = l.cur
  BY <1>2, <1>4, <1>5
<1>7. PICK m \in 0..NChunks : AtCell(l, m)
  BY <1>1, <1>2 DEF SearchOK, Searching
<1>8. l.i = m * NPairs + l.j /\ l.at = Cell(b, m) /\ (m > 0 => l.at # Null)
  BY <1>7 DEF AtCell
<1>9. /\ NPairs \in Nat \ {0} /\ NChunks \in Nat /\ m \in Nat /\ m <= NChunks /\ 0 \in 0..NChunks
  BY HashtabAssumption
<1>10. /\ m * NPairs \in Nat /\ (m + 1) * NPairs = m * NPairs + NPairs /\ m <= m * NPairs
  BY <1>9, Rows
<1>11. l.j > 0 => Chain(b)[m] # Null /\ m < NChunks
  <2> SUFFICES ASSUME l.j > 0 PROVE Chain(b)[m] # Null /\ m < NChunks
    OBVIOUS
  <2>1. m * NPairs < Top(b)
    BY <1>4, <1>5, <1>6, <1>8, <1>10
  <2>2. Chain(b)[m] # Null
    BY <1>1, <1>3, <2>1 DEF FilledOK
  <2>3. QED
    BY <1>1, <1>3, <1>9, <2>2, Chains
<1>12. CASE l.cur = 0
  <2>1. l.i = 0 /\ l.j = 0 /\ m = 0
    <3>1. l.i = 0
      BY <1>6, <1>12
    <3>2. QED
      BY <3>1, <1>5, <1>8, <1>9, <1>10
  <2>2. Cell(b, 0) = Null /\ 0 * NPairs = 0
    BY <1>9 DEF Cell
  <2>3. \/ /\ Kept(b)
           /\ next' = [next EXCEPT ![head[b]] = Null]
           /\ loc' = [loc EXCEPT ![t].at = Null]
           /\ UNCHANGED <<head, freeList, allocated>>
        \/ /\ ~Kept(b) /\ ChunkFor(t, Null)
           /\ loc' = [loc EXCEPT ![t].at = Null]
    BY <1>12 DEF NewChunk
  <2>4. CASE Kept(b) /\ next' = [next EXCEPT ![head[b]] = Null] /\ loc' = [loc EXCEPT ![t].at = Null]
             /\ UNCHANGED <<head, freeList, allocated>>
    <3>1. loc' = [loc EXCEPT ![t] = [l EXCEPT !.at = Null]]
      BY <2>4
    <3>2. size[b] = 0 /\ head[b] # Null
      BY <1>5, <1>12, <2>4 DEF Kept
    <3>3. QED
      BY <1>2, <1>3, <1>4, <1>5, <1>6, <2>1, <2>4, <3>1, <3>2
  <2>5. CASE ~Kept(b) /\ ChunkFor(t, Null) /\ loc' = [loc EXCEPT ![t].at = Null]
    <3>1. PICK c \in Chunks : Assigned(b, 0, c)
      BY <1>1, <1>9, <2>2, <2>5, ChunkForCell
    <3>2. loc' = [loc EXCEPT ![t] = [l EXCEPT !.at = Cell(b, 0), !.j = 0]]
      <4>1. [l EXCEPT !.at = Null] = [l EXCEPT !.at = Null, !.j = 0]
        BY <1>3, <2>1 DEF LocType
      <4>2. QED
        BY <2>2, <2>5, <4>1
    <3>3. l.i = 0 * NPairs /\ ~(0 > 0) /\ head[b] = Null
      BY <2>1, <2>2, <2>5 DEF Kept
    <3>4. \E m1 \in 0..NChunks, c1 \in Chunks :
            /\ l.i = m1 * NPairs /\ (m1 > 0 => Cell(b, m1) # Null) /\ (m1 = 0 => head[b] = Null)
            /\ Assigned(b, m1, c1)
            /\ loc' = [loc EXCEPT ![t] = [l EXCEPT !.at = Cell(b, m1), !.j = 0]]
      BY <1>9, <3>1, <3>2, <3>3, Zenon
    <3>5. QED
      BY <1>2, <1>3, <1>4, <1>5, <1>6, <3>4
  <2>6. QED
    BY <2>3, <2>4, <2>5
<1>13. CASE l.cur # 0
  <2>1. l.j > 0
    BY <1>5, <1>6, <1>13
  <2>2. \/ /\ l.j = NPairs
           /\ ChunkFor(t, Deref(b, l.at))
           /\ loc' = [loc EXCEPT ![t].at = Deref(b, l.at), ![t].j = 0]
        \/ /\ l.j # NPairs
           /\ UNCHANGED <<head, next, freeList, allocated, loc>>
    BY <1>13 DEF NewChunk
  <2>3. CASE l.j = NPairs /\ ChunkFor(t, Deref(b, l.at))
             /\ loc' = [loc EXCEPT ![t].at = Deref(b, l.at), ![t].j = 0]
    <3>1. m + 1 \in 0..NChunks
      BY <1>9, <1>11, <2>1
    <3>2. Deref(b, l.at) = Cell(b, m + 1) /\ Cell(b, m + 1) # Null
      <4>1. Deref(b, l.at) = Chain(b)[m] /\ Cell(b, m + 1) = Chain(b)[m]
        BY <1>1, <1>3, <1>8, <1>11, <2>1, CellChunk
      <4>2. QED
        BY <4>1, <1>11, <2>1
    <3>3. PICK c \in Chunks : Assigned(b, m + 1, c)
      BY <1>1, <2>3, <3>1, <3>2, ChunkForCell
    <3>4. loc' = [loc EXCEPT ![t] = [l EXCEPT !.at = Cell(b, m + 1), !.j = 0]]
      BY <2>3, <3>2
    <3>5. l.i = (m + 1) * NPairs /\ m + 1 # 0
      BY <1>8, <1>9, <1>10, <2>3
    <3>6. PICK n \in 0..NChunks : n = m + 1
      BY <3>1
    <3>7. /\ l.i = n * NPairs /\ (n > 0 => Cell(b, n) # Null) /\ (n = 0 => head[b] = Null)
          /\ Assigned(b, n, c)
          /\ loc' = [loc EXCEPT ![t] = [l EXCEPT !.at = Cell(b, n), !.j = 0]]
      BY <3>2, <3>3, <3>4, <3>5, <3>6
    <3>8. QED
      BY <1>2, <1>3, <1>4, <1>5, <1>6, <3>7
  <2>4. CASE l.j # NPairs /\ UNCHANGED <<head, next, freeList, allocated, loc>>
    <3>1. l.j \in Slots
      BY <1>5, <1>9, <2>4 DEF Slots
    <3>2. QED
      BY <1>2, <1>3, <1>4, <1>5, <1>6, <1>7, <1>11, <2>1, <2>4, <3>1
  <2>5. QED
    BY <2>2, <2>3, <2>4
<1>14. QED
  BY <1>12, <1>13

(* A chunk without a next one is a whole path. *)
LEMMA SinglePath ==
    ASSUME NEW nx \in [Chunks -> Chunks \cup {Null}], NEW c \in Chunks, nx[c] = Null
    PROVE  /\ Path(nx, c)[0] = c
           /\ \A n \in 1..NChunks : Path(nx, c)[n] = Null
<1>1. Path(nx, c)[0] = c /\ c # Null /\ 0 \in 0..NChunks /\ NChunks \in Nat
  BY PathStep, HashtabAssumption DEF Chunks, Null
<1>2. \A n \in 0 + 1..NChunks : Path(nx, c)[n] = Null
  <2>1. \A n \in 0..0 - 1 : nx[Path(nx, c)[n]] = nx[Path(nx, c)[n]]
    OBVIOUS
  <2>2. Path(nx, c)[0] # Null /\ nx[Path(nx, c)[0]] = Null
    BY <1>1
  <2>3. QED
    BY <1>1, <2>1, <2>2, PathShortened
<1>3. QED
  BY <1>1, <1>2

(* The places of chunks: where a chunk is, and that it is nowhere else. *)
LEMMA Apart ==
    ASSUME TypesOK, ChunksApart, NEW p \in Places, NEW q \in Places,
           NEW m \in 0..NChunks, NEW n \in 0..NChunks, Line(p)[m] # Null
    PROVE  /\ Line(p)[m] \in allocated /\ Line(p)[m] \in Chunks
           /\ Line(p)[m] = Line(q)[n] => p = q /\ m = n
<1>1. Line(p) \in [0..NChunks -> Chunks \cup {Null}]
  BY Lines
<1>2. /\ Line(p)[m] \in allocated
      /\ Line(p)[m] = Line(q)[n] => p = q /\ m = n
  BY DEF ChunksApart
<1>3. QED
  BY <1>1, <1>2

(* The free list is one of the lines. *)
LEMMA FreeLine ==
    ASSUME TypesOK, ChunksApart
    PROVE  /\ HashTableSize \in Places /\ First(HashTableSize) = freeList
           /\ freeList \in Chunks \cup {Null}
           /\ Line(HashTableSize)[0] = freeList
<1>1. HashTableSize \in Places /\ First(HashTableSize) = freeList
  BY HashtabAssumption DEF Places, First
<1>2. QED
  BY <1>1, Lines

(* After ASSIGN_NEW_CHUNK the bucket ends with the chunk and the free list
   has lost it; the other lines are the same. *)
LEMMA AssignedLines ==
    ASSUME TypesOK, ChunksApart, NEW b \in Buckets, NEW m \in 0..NChunks,
           m > 0 => Cell(b, m) # Null, NEW c \in Chunks, Assigned(b, m, c)
    PROVE  /\ next' \in [Chunks -> Chunks \cup {Null}] /\ head' \in [Buckets -> Chunks \cup {Null}]
           /\ freeList' \in Chunks \cup {Null} /\ allocated' \in SUBSET Chunks
           /\ \A q \in Places, n \in 0..NChunks : q # HashTableSize => Line(q)[n] # c
           /\ c \in allocated => c = Line(HashTableSize)[0]
           /\ m < NChunks
           /\ \A p \in Places : p # b /\ p # HashTableSize => Line(p)' = Line(p)
           /\ \A n \in 0..m - 1 : Line(b)'[n] = Line(b)[n]
           /\ Line(b)'[m] = c
           /\ \A n \in m + 1..NChunks : Line(b)'[n] = Null
           /\ \A n \in 0..NChunks - 1 : Line(HashTableSize)'[n] = Line(HashTableSize)[n + 1]
           /\ Line(HashTableSize)'[NChunks] = Null
<1> DEFINE F == HashTableSize
<1>0. NChunks \in Nat /\ 0 \in 0..NChunks /\ m \in Nat /\ m <= NChunks /\ c # Null /\ Null \notin Chunks
  BY HashtabAssumption DEF Chunks, Null
<1>1. /\ next \in [Chunks -> Chunks \cup {Null}] /\ head \in [Buckets -> Chunks \cup {Null}]
      /\ freeList \in Chunks \cup {Null} /\ allocated \in SUBSET Chunks
  BY DEF TypesOK
<1>2. /\ b \in Places /\ b # F /\ Chain(b) = Line(b) /\ Line(b) = Path(next, head[b])
      /\ Line(b)' = Path(next', head'[b])
  BY ChainIsLine DEF Line, First
<1>3. Cell(b, m) \in Chunks \cup {Null} /\ (Cell(b, m) = Null <=> m = 0)
  BY CellChunk
<1>4. m > 0 => Cell(b, m) = Line(b)[m - 1] /\ Cell(b, m) \in allocated
  <2> SUFFICES ASSUME m > 0 PROVE Cell(b, m) = Line(b)[m - 1] /\ Cell(b, m) \in allocated
    OBVIOUS
  <2>1. m - 1 \in 0..NChunks /\ Cell(b, m) = Line(b)[m - 1]
    BY <1>0, <1>2 DEF Cell
  <2>2. QED
    BY <1>2, <1>3, <1>0, <2>1, Apart
<1>5. /\ next' \in [Chunks -> Chunks \cup {Null}] /\ head' \in [Buckets -> Chunks \cup {Null}]
      /\ freeList' \in Chunks \cup {Null} /\ allocated' \in SUBSET Chunks
  BY <1>1 DEF Assigned
<1>6. F \in Places /\ Line(F)[0] = freeList /\ Line(F) = Path(next, freeList)
      /\ Line(F)' = Path(next', freeList')
  BY FreeLine DEF Line, First
<1>7. c \in allocated => c = Line(F)[0]
  BY <1>6 DEF Assigned
<1>8. ASSUME NEW q \in Places, NEW n \in 0..NChunks, Line(q)[n] = c PROVE q = F /\ n = 0
  <2>1. c \in allocated
    BY <1>0, <1>8, Apart
  <2>2. QED
    BY <1>0, <1>6, <1>7, <1>8, <2>1, Apart
<1>9. c # Cell(b, m)
  <2>1. CASE m = 0
    BY <2>1, <1>0, <1>3
  <2>2. CASE m > 0
    <3>1. m - 1 \in 0..NChunks
      BY <1>0, <2>2
    <3>2. QED
      BY <1>2, <1>4, <1>8, <2>2, <3>1
  <2>3. QED
    BY <1>0, <2>1, <2>2
<1>10. /\ next'[c] = Null
       /\ m > 0 => next'[Cell(b, m)] = c
       /\ \A d \in Chunks : d # c /\ d # Cell(b, m) => next'[d] = next[d]
  <2>1. CASE m = 0
    BY <1>0, <1>1, <2>1 DEF Assigned
  <2>2. CASE m > 0
    <3>1. next' = [[next EXCEPT ![Cell(b, m)] = c] EXCEPT ![c] = Null] /\ Cell(b, m) \in Chunks
      BY <1>0, <1>3, <2>2 DEF Assigned
    <3>2. QED
      BY <1>1, <1>9, <3>1
  <2>3. QED
    BY <1>0, <2>1, <2>2
<1>11. ASSUME NEW p \in Places, p # b, p # F PROVE Line(p)' = Line(p)
  <2>1. ASSUME NEW n \in 0..NChunks, Line(p)[n] # Null PROVE next'[Line(p)[n]] = next[Line(p)[n]]
    <3>1. Line(p)[n] \in Chunks
      BY <2>1, Apart
    <3>2. Line(p)[n] # c
      BY <1>8, <1>11
    <3>3. Line(p)[n] # Cell(b, m)
      <4>1. CASE m = 0
        BY <4>1, <2>1, <1>3
      <4>2. CASE m > 0
        <5>1. m - 1 \in 0..NChunks
          BY <1>0, <4>2
        <5>2. QED
          BY <1>2, <1>4, <1>11, <2>1, <4>2, <5>1, Apart
      <4>3. QED
        BY <1>0, <4>1, <4>2
    <3>4. QED
      BY <1>10, <3>1, <3>2, <3>3
  <2>2. p \in Buckets /\ First(p) = head[p] /\ First(p)' = head'[p] /\ head'[p] = head[p]
    <3>1. p \in Buckets
      BY <1>11, HashtabAssumption DEF Places, Buckets
    <3>2. First(p) = head[p] /\ First(p)' = head'[p]
      BY <1>11 DEF First
    <3>3. head'[p] = head[p]
      BY <1>1, <1>11, <3>1 DEF Assigned
    <3>4. QED
      BY <3>1, <3>2, <3>3
  <2>3. Line(p) = Path(next, head[p]) /\ Line(p)' = Path(next', head[p])
    BY <2>2 DEF Line
  <2>4. head[p] \in Chunks \cup {Null}
    BY <1>1, <2>2
  <2>5. QED
    BY <1>1, <1>5, <2>1, <2>3, <2>4, PathSame
<1>12. /\ \A n \in 0..m - 1 : Line(b)'[n] = Line(b)[n]
       /\ Line(b)'[m] = c
       /\ \A n \in m + 1..NChunks : Line(b)'[n] = Null
  <2>1. Path(next', c)[0] = c /\ \A n \in 1..NChunks : Path(next', c)[n] = Null
    BY <1>5, <1>10, SinglePath
  <2>2. CASE m = 0
    <3>1. head'[b] = c
      BY <1>1, <2>2 DEF Assigned
    <3>2. QED
      BY <1>0, <1>2, <2>1, <2>2, <3>1
  <2>3. CASE m > 0
    <3>1. PICK k \in 0..NChunks : k = m - 1 /\ m = k + 1
      BY <1>0, <2>3
    <3>2. head' = head
      BY <1>0, <2>3 DEF Assigned
    <3>3. Path(next, head[b])[k] # Null /\ next'[Path(next, head[b])[k]] = c /\ head[b] \in Chunks \cup {Null}
      BY <1>1, <1>2, <1>4, <1>10, <2>3, <3>1
    <3>4. ASSUME NEW n \in 0..k - 1 PROVE next'[Path(next, head[b])[n]] = next[Path(next, head[b])[n]]
      <4>1. n \in 0..NChunks /\ k \in n..NChunks /\ n # k
        BY <1>0, <3>1
      <4>2. Line(b)[n] # Null
        BY <1>2, <3>3, <4>1, Lines
      <4>3. Line(b)[n] \in Chunks /\ Line(b)[n] # Line(b)[k]
        BY <1>2, <4>1, <4>2, Apart
      <4>4. Line(b)[n] # c /\ Line(b)[n] # Cell(b, m)
        BY <1>2, <1>4, <1>8, <2>3, <3>1, <4>1, <4>3
      <4>5. QED
        BY <1>2, <1>10, <4>3, <4>4
    <3>5. /\ \A n \in 0..k : Path(next', head[b])[n] = Path(next, head[b])[n]
          /\ \A n \in 0..NChunks - k - 1 : Path(next', head[b])[k + 1 + n] = Path(next', c)[n]
      <4>1. \A n \in 0..k - 1 : next'[Path(next, head[b])[n]] = next[Path(next, head[b])[n]]
        BY <3>4
      <4>2. next' \in [Chunks -> Chunks \cup {Null}]
        BY <1>5
      <4>3. /\ \A n \in 0..k : Path(next', head[b])[n] = Path(next, head[b])[n]
            /\ \A n \in 0..NChunks - k - 1 :
                 Path(next', head[b])[k + 1 + n] = Path(next', next'[Path(next, head[b])[k]])[n]
        BY <1>1, <3>3, <4>1, <4>2, PathCut
      <4>4. QED
        BY <3>3, <4>3
    <3>6. \A n \in 0..m - 1 : Line(b)'[n] = Line(b)[n]
      BY <1>2, <3>1, <3>2, <3>5
    <3>7. Line(b)'[m] = c
      <4>1. 0 \in 0..NChunks - k - 1 /\ k + 1 + 0 = m
        BY <1>0, <3>1
      <4>2. QED
        BY <1>2, <2>1, <3>2, <3>5, <4>1
    <3>8. ASSUME NEW n \in m + 1..NChunks PROVE Line(b)'[n] = Null
      <4>1. n - m \in 0..NChunks - k - 1 /\ k + 1 + (n - m) = n /\ n - m \in 1..NChunks
        BY <1>0, <3>1
      <4>2. QED
        BY <1>2, <2>1, <3>2, <3>5, <4>1
    <3>9. QED
      BY <3>6, <3>7, <3>8
  <2>4. QED
    BY <1>0, <2>2, <2>3
<1>13. m < NChunks
  <2>1. SUFFICES ASSUME m = NChunks PROVE FALSE
    BY <1>0
  <2>2. \A n \in 0..NChunks : n < m \/ n = m
    BY <1>0, <2>1
  <2>3. ASSUME NEW n \in 0..NChunks, NEW q \in 0..NChunks, Line(b)'[n] # Null, Line(b)'[n] = Line(b)'[q]
        PROVE  n = q
    <3>1. CASE n < m /\ q < m
      <4>1. Line(b)[n] # Null /\ Line(b)[n] = Line(b)[q]
        BY <1>0, <1>12, <2>3, <3>1
      <4>2. QED
        BY <1>2, <4>1, Apart
    <3>2. CASE n < m /\ q = m
      <4>1. Line(b)[n] = c
        BY <1>0, <1>12, <2>3, <3>2
      <4>2. QED
        BY <1>2, <1>8, <4>1
    <3>3. CASE n = m /\ q < m
      <4>1. Line(b)[q] = c
        BY <1>0, <1>12, <2>3, <3>3
      <4>2. QED
        BY <1>2, <1>8, <4>1
    <3>4. QED
      BY <2>2, <3>1, <3>2, <3>3
  <2>4. Path(next', head'[b])[NChunks] = Null
    <3>1. head'[b] \in Chunks \cup {Null}
      BY <1>5
    <3>2. QED
      BY <1>2, <1>5, <2>3, <3>1, PathEnds
  <2>5. QED
    BY <1>0, <1>2, <1>12, <2>1, <2>4
<1>14. /\ \A n \in 0..NChunks - 1 : Line(F)'[n] = Line(F)[n + 1]
       /\ Line(F)'[NChunks] = Null
  <2>1. CASE freeList = Null
    <3>1. freeList' = Null
      BY <2>1 DEF Assigned
    <3>2. \A n \in 0..NChunks : Line(F)'[n] = Null /\ Line(F)[n] = Null
      BY <1>1, <1>5, <1>6, <2>1, <3>1, EmptyPath
    <3>3. QED
      BY <1>0, <3>2
  <2>2. CASE freeList # Null
    <3>1. freeList' = next[freeList] /\ c = freeList /\ 1 <= NChunks
      BY <1>13, <1>0, <2>2 DEF Assigned
    <3>2. 1 \in 1..NChunks /\ 1 - 1 = 0 /\ 1 \in 0..NChunks
      BY <1>0, <3>1
    <3>3. Line(F)[1] = next[freeList]
      <4>1. Line(F)[1] = IF Line(F)[1 - 1] = Null THEN Null ELSE next[Line(F)[1 - 1]]
        BY <1>6, <3>2, Lines
      <4>2. QED
        BY <4>1, <3>2, <1>6, <2>2
    <3>4. \A n \in 0..NChunks - 1 : Path(next, freeList')[n] = Line(F)[1 + n]
      BY <1>1, <1>6, <3>1, <3>2, <3>3, PathShift
    <3>5. ASSUME NEW n \in 0..NChunks, Path(next, freeList')[n] # Null
          PROVE  n <= NChunks - 1 /\ next'[Path(next, freeList')[n]] = next[Path(next, freeList')[n]]
      <4>1. n <= NChunks - 1
        <5>1. SUFFICES ASSUME n = NChunks PROVE FALSE
          BY <1>0
        <5>2. NChunks - 1 \in 0..NChunks - 1 /\ NChunks - 1 \in 0..NChunks /\ NChunks \in NChunks - 1..NChunks
              /\ 1 + (NChunks - 1) = NChunks
          BY <1>0, <3>1
        <5>3. Path(next, freeList')[NChunks - 1] = Null
          BY <1>6, <3>4, <5>2, Lines
        <5>4. Path(next, freeList')[NChunks] = Null
          BY <1>1, <1>5, <5>2, <5>3, PathNull
        <5>5. QED
          BY <3>5, <5>1, <5>4
      <4>2. n \in 0..NChunks - 1 /\ 1 + n \in 0..NChunks /\ 1 + n # 0
        BY <1>0, <4>1
      <4>3. Path(next, freeList')[n] = Line(F)[1 + n] /\ Line(F)[1 + n] # Null
        BY <3>4, <3>5, <4>2
      <4>4. Line(F)[1 + n] \in Chunks /\ Line(F)[1 + n] # c
        BY <1>6, <1>8, <4>2, <4>3, Apart
      <4>5. Line(F)[1 + n] # Cell(b, m)
        <5>1. CASE m = 0
          BY <5>1, <4>3, <1>3
        <5>2. CASE m > 0
          <6>1. m - 1 \in 0..NChunks
            BY <1>0, <5>2
          <6>2. QED
            BY <1>2, <1>4, <1>6, <4>2, <4>3, <5>2, <6>1, Apart
        <5>3. QED
          BY <1>0, <5>1, <5>2
      <4>6. QED
        BY <1>10, <4>1, <4>3, <4>4, <4>5
    <3>6. Line(F)' = Path(next, freeList')
      BY <1>1, <1>5, <1>6, <3>5, PathSame
    <3>7. \A n \in 0..NChunks - 1 : 1 + n = n + 1
      OBVIOUS
    <3>8. Line(F)'[NChunks] = Null
      <4>1. NChunks \in 0..NChunks /\ ~(NChunks <= NChunks - 1)
        BY <1>0
      <4>2. QED
        BY <3>5, <3>6, <4>1
    <3>9. QED
      BY <3>4, <3>6, <3>7, <3>8
  <2>3. QED
    BY <2>1, <2>2
<1>15. \A q \in Places, n \in 0..NChunks : q # F => Line(q)[n] # c
  BY <1>8
<1>16. QED
  BY <1>5, <1>7, <1>11, <1>12, <1>13, <1>14, <1>15

(* A line none of whose chunks gets another link. *)
LEMMA LineSame ==
    ASSUME TypesOK, ChunksApart, NEW p \in Places,
           next' \in [Chunks -> Chunks \cup {Null}], First(p)' = First(p),
           \A n \in 0..NChunks : Line(p)[n] # Null => next'[Line(p)[n]] = next[Line(p)[n]]
    PROVE  Line(p)' = Line(p)
<1>1. next \in [Chunks -> Chunks \cup {Null}] /\ First(p) \in Chunks \cup {Null}
  BY Lines DEF TypesOK
<1>2. Line(p) = Path(next, First(p)) /\ Line(p)' = Path(next', First(p))
  BY DEF Line
<1>3. QED
  BY <1>1, <1>2, PathSame

(* An emptied bucket keeps its first chunk only. *)
LEMMA KeptLines ==
    ASSUME TypesOK, ChunksApart, NEW b \in Buckets, head[b] # Null,
           next' = [next EXCEPT ![head[b]] = Null], head' = head, freeList' = freeList
    PROVE  /\ next' \in [Chunks -> Chunks \cup {Null}]
           /\ \A p \in Places : p # b => Line(p)' = Line(p)
           /\ Line(b)'[0] = Line(b)[0]
           /\ \A n \in 1..NChunks : Line(b)'[n] = Null
<1>0. /\ next \in [Chunks -> Chunks \cup {Null}] /\ head[b] \in Chunks
      /\ 0 \in 0..NChunks
  BY HashtabAssumption DEF TypesOK
<1>1. /\ next' \in [Chunks -> Chunks \cup {Null}] /\ next'[head[b]] = Null
      /\ \A d \in Chunks : d # head[b] => next'[d] = next[d]
  BY <1>0
<1>2. b \in Places /\ Line(b)[0] = head[b] /\ Line(b)' = Path(next', head[b])
  <2>1. b \in Places /\ First(b) = head[b] /\ First(b)' = head'[b]
    BY ChainIsLine, HashtabAssumption DEF First, Buckets
  <2>2. QED
    BY <2>1, Lines DEF Line
<1>3. ASSUME NEW p \in Places, p # b PROVE Line(p)' = Line(p)
  <2>1. First(p)' = First(p)
    BY DEF First
  <2>2. ASSUME NEW n \in 0..NChunks, Line(p)[n] # Null PROVE next'[Line(p)[n]] = next[Line(p)[n]]
    <3>1. Line(p)[n] \in Chunks /\ Line(p)[n] # head[b]
      BY <1>0, <1>2, <1>3, <2>2, Apart
    <3>2. QED
      BY <1>1, <3>1
  <2>3. QED
    BY <1>1, <2>1, <2>2, LineSame
<1>4. /\ Path(next', head[b])[0] = head[b]
      /\ \A n \in 1..NChunks : Path(next', head[b])[n] = Null
  BY <1>0, <1>1, SinglePath
<1>5. QED
  BY <1>1, <1>2, <1>3, <1>4

(* The last chunk, the n-th one of bucket b, goes to the free list. *)
Released(b, n) ==
    /\ next' = [next EXCEPT ![Chain(b)[n - 1]] = Null, ![Chain(b)[n]] = freeList]
    /\ freeList' = Chain(b)[n]
    /\ UNCHANGED <<head, allocated>>

(* After the release of an emptied last chunk the bucket ends before it and
   the free list begins with it; the other lines are the same. *)
LEMMA ReleaseLines ==
    ASSUME TypesOK, ChunksApart, NEW b \in Buckets, NEW n \in 1..NChunks,
           Chain(b)[n] # Null, next[Chain(b)[n]] = Null,
           Released(b, n)
    PROVE  /\ next' \in [Chunks -> Chunks \cup {Null}] /\ Chain(b)[n] \in Chunks
           /\ \A p \in Places : p # b /\ p # HashTableSize => Line(p)' = Line(p)
           /\ \A q \in 0..n - 1 : Line(b)'[q] = Line(b)[q]
           /\ \A q \in n..NChunks : Line(b)'[q] = Null
           /\ Line(HashTableSize)'[0] = Chain(b)[n]
           /\ \A q \in 1..NChunks : Line(HashTableSize)'[q] = Line(HashTableSize)[q - 1]
<1> DEFINE F == HashTableSize
           last == Chain(b)[n]
           prev == Chain(b)[n - 1]
<1>0. NChunks \in Nat /\ n \in 0..NChunks /\ n - 1 \in 0..NChunks /\ n - 1 # n /\ n \in Nat /\ n - 1 \in Nat
  BY HashtabAssumption
<1>0a. /\ next' = [next EXCEPT ![prev] = Null, ![last] = freeList]
      /\ freeList' = last /\ head' = head
  BY DEF Released
<1>1. /\ b \in Places /\ b # F /\ Chain(b) = Line(b) /\ First(b) = head[b] /\ First(b)' = head'[b]
  BY ChainIsLine, HashtabAssumption DEF First
<1>2. prev # Null /\ prev \in Chunks /\ last \in Chunks /\ prev # last
  <2>1. n \in n - 1..NChunks
    BY <1>0
  <2>2. prev # Null
    BY <1>0, <1>1, <2>1, Lines
  <2>3. QED
    BY <1>0, <1>1, <2>2, Apart
<1>3. /\ next \in [Chunks -> Chunks \cup {Null}] /\ freeList \in Chunks \cup {Null}
      /\ head[b] \in Chunks \cup {Null}
  BY DEF TypesOK
<1>4. /\ next' \in [Chunks -> Chunks \cup {Null}] /\ next'[prev] = Null /\ next'[last] = freeList
      /\ \A d \in Chunks : d # prev /\ d # last => next'[d] = next[d]
  BY <1>2, <1>3, <1>0a
<1>5. ASSUME NEW p \in Places, p # b, NEW q \in 0..NChunks, Line(p)[q] # Null
      PROVE  next'[Line(p)[q]] = next[Line(p)[q]]
  <2>1. Line(p)[q] \in Chunks /\ Line(p)[q] # prev /\ Line(p)[q] # last
    BY <1>0, <1>1, <1>2, <1>5, Apart
  <2>2. QED
    BY <1>4, <2>1
<1>6. ASSUME NEW p \in Places, p # b, p # F PROVE Line(p)' = Line(p)
  <2>1. First(p)' = First(p)
    BY <1>6, <1>0a, HashtabAssumption DEF First
  <2>2. QED
    BY <1>4, <1>5, <1>6, <2>1, LineSame
<1>7. Line(b) = Path(next, head[b]) /\ Line(b)' = Path(next', head[b])
  BY <1>1, <1>0a DEF Line
<1>8. /\ \A q \in 0..n - 1 : Line(b)'[q] = Line(b)[q]
      /\ \A q \in n - 1 + 1..NChunks : Line(b)'[q] = Null
  <2>1. ASSUME NEW q \in 0..(n - 1) - 1
        PROVE next'[Path(next, head[b])[q]] = next[Path(next, head[b])[q]]
    <3>1. q \in 0..NChunks /\ n - 1 \in q..NChunks /\ q # n - 1 /\ q # n
      BY <1>0
    <3>2. Line(b)[q] # Null
      BY <1>1, <1>2, <3>1, Lines
    <3>3. Line(b)[q] \in Chunks /\ Line(b)[q] # prev /\ Line(b)[q] # last
      BY <1>0, <1>1, <3>1, <3>2, Apart
    <3>4. QED
      BY <1>4, <1>7, <3>3
  <2>2. \A q \in 0..(n - 1) - 1 : next'[Path(next, head[b])[q]] = next[Path(next, head[b])[q]]
    BY <2>1
  <2>3. Path(next, head[b])[n - 1] # Null /\ next'[Path(next, head[b])[n - 1]] = Null
    BY <1>1, <1>2, <1>4, <1>7
  <2> HIDE DEF prev
  <2>4. PICK k \in 0..NChunks : k = n - 1
    BY <1>0
  <2>5. /\ \A q \in 0..k : Path(next', head[b])[q] = Path(next, head[b])[q]
        /\ \A q \in k + 1..NChunks : Path(next', head[b])[q] = Null
    <3>1. /\ \A q \in 0..k - 1 : next'[Path(next, head[b])[q]] = next[Path(next, head[b])[q]]
          /\ Path(next, head[b])[k] # Null /\ next'[Path(next, head[b])[k]] = Null
      BY <2>2, <2>3, <2>4
    <3>2. next' \in [Chunks -> Chunks \cup {Null}]
      BY <1>4
    <3>3. QED
      BY ONLY <1>3, <3>1, <3>2, PathShortened
  <2>6. QED
    BY <1>7, <2>4, <2>5
<1>9. F \in Places /\ Line(F) = Path(next, freeList) /\ Line(F)' = Path(next', last)
  BY <1>0a, FreeLine DEF Line, First
<1>10. /\ Line(F)'[0] = last
       /\ \A q \in 1..NChunks : Line(F)'[q] = Line(F)[q - 1]
  <2>1. \A q \in 0..NChunks : Path(next, freeList)[q] # Null =>
           next'[Path(next, freeList)[q]] = next[Path(next, freeList)[q]]
    BY <1>1, <1>5, <1>9
  <2>2. next'[last] = freeList /\ last \in Chunks /\ freeList \in Chunks \cup {Null}
    BY <1>2, <1>3, <1>4
  <2>3. /\ Path(next', last)[0] = last
        /\ \A q \in 1..NChunks : Path(next', last)[q] = Path(next, freeList)[q - 1]
    BY ONLY <1>3, <1>4, <2>1, <2>2, PathPushed
  <2>4. QED
    BY <1>9, <2>3
<1>11. n - 1 + 1 = n
  BY <1>0
<1>12. QED
  BY <1>2, <1>4, <1>6, <1>8, <1>10, <1>11

-----------------------------------------------------------------------------
(* ChunksApart. *)

(* A chunk that a bucket gets is in no other place. *)
LEMMA ApartNewChunk ==
    ASSUME TypesOK, ChunksApart, NEW b \in Buckets, NEW m \in 0..NChunks,
           m > 0 => Cell(b, m) # Null, NEW c \in Chunks, Assigned(b, m, c)
    PROVE  ChunksApart'
<1> DEFINE F == HashTableSize
<1>0. NChunks \in Nat /\ b \in Places /\ b # F /\ F \in Places /\ m \in Nat /\ 0 \in 0..NChunks
  BY ChainIsLine, FreeLine, HashtabAssumption
<1>1. /\ \A q \in Places, n \in 0..NChunks : q # F => Line(q)[n] # c
      /\ c \in allocated => c = Line(F)[0]
      /\ \A p \in Places : p # b /\ p # F => Line(p)' = Line(p)
      /\ \A n \in 0..m - 1 : Line(b)'[n] = Line(b)[n]
      /\ Line(b)'[m] = c
      /\ \A n \in m + 1..NChunks : Line(b)'[n] = Null
      /\ \A n \in 0..NChunks - 1 : Line(F)'[n] = Line(F)[n + 1]
      /\ Line(F)'[NChunks] = Null
  BY AssignedLines
<1>2. allocated' = allocated \cup {c}
  BY DEF Assigned
<1> DEFINE S(p, n) == IF p = F THEN n + 1 ELSE n
<1>3. ASSUME NEW p \in Places, NEW n \in 0..NChunks, Line(p)'[n] # Null
      PROVE  \/ p = b /\ n = m /\ Line(p)'[n] = c
             \/ /\ S(p, n) \in 0..NChunks /\ Line(p)'[n] = Line(p)[S(p, n)]
                /\ Line(p)'[n] \in allocated /\ Line(p)'[n] # c
  <2>1. CASE p = b
    <3>1. n < m \/ n = m
      <4>1. SUFFICES ASSUME ~(n < m), n # m PROVE FALSE
        OBVIOUS
      <4>2. n \in m + 1..NChunks
        BY <1>0, <4>1
      <4>3. QED
        BY <1>1, <1>3, <2>1, <4>2
    <3>2. CASE n < m
      <4>1. n \in 0..m - 1
        BY <1>0, <3>2
      <4>2. Line(b)'[n] = Line(b)[n]
        BY <1>1, <4>1
      <4>3. Line(b)[n] \in allocated /\ Line(b)[n] # c
        BY <1>0, <1>1, <1>3, <2>1, <4>2, Apart
      <4>4. S(p, n) = n
        BY <1>0, <2>1
      <4> HIDE DEF S
      <4>5. QED
        BY <2>1, <4>2, <4>3, <4>4
    <3>3. QED
      BY <1>1, <2>1, <3>1, <3>2
  <2>2. CASE p = F
    <3>1. n \in 0..NChunks - 1
      <4>1. SUFFICES ASSUME n = NChunks PROVE FALSE
        BY <1>0
      <4>2. QED
        BY <1>1, <1>3, <2>2, <4>1
    <3>2. Line(F)'[n] = Line(F)[n + 1] /\ n + 1 \in 0..NChunks /\ n + 1 # 0
      BY <1>0, <1>1, <3>1
    <3>3. Line(F)[n + 1] \in allocated
      BY <1>0, <1>3, <2>2, <3>2, Apart
    <3>4. Line(F)[n + 1] # c
      <4>1. SUFFICES ASSUME Line(F)[n + 1] = c PROVE FALSE
        OBVIOUS
      <4>2. Line(F)[n + 1] = Line(F)[0] /\ Line(F)[n + 1] # Null
        BY <1>1, <1>3, <2>2, <3>2, <3>3, <4>1
      <4>3. QED
        BY <1>0, <3>2, <4>2, Apart
    <3>5. QED
      BY <2>2, <3>2, <3>3, <3>4
  <2>3. CASE p # b /\ p # F
    <3>1. Line(p)' = Line(p)
      BY <1>1, <2>3
    <3>2. Line(p)[n] \in allocated /\ Line(p)[n] # c
      BY <1>1, <1>3, <2>3, <3>1, Apart
    <3>3. QED
      BY <2>3, <3>1, <3>2
  <2>4. QED
    BY <2>1, <2>2, <2>3
<1>4. ASSUME NEW p \in Places, NEW q \in Places, NEW n \in 0..NChunks, NEW k \in 0..NChunks,
             Line(p)'[n] # Null
      PROVE  /\ Line(p)'[n] \in allocated'
             /\ Line(p)'[n] = Line(q)'[k] => p = q /\ n = k
  <2>1. Line(p)'[n] \in allocated'
    BY <1>2, <1>3, <1>4
  <2>2. ASSUME Line(p)'[n] = Line(q)'[k] PROVE p = q /\ n = k
    <3>1. Line(q)'[k] # Null
      BY <1>4, <2>2
    <3>2. CASE Line(p)'[n] = c
      BY ZenonT(40), <1>3, <1>4, <2>2, <3>1, <3>2
    <3>3. CASE Line(p)'[n] # c
      <4>1. /\ S(p, n) \in 0..NChunks /\ Line(p)'[n] = Line(p)[S(p, n)]
            /\ S(q, k) \in 0..NChunks /\ Line(q)'[k] = Line(q)[S(q, k)]
        BY <1>3, <1>4, <2>2, <3>1, <3>3
      <4>2. p = q /\ S(p, n) = S(q, k)
        <5>1. PICK x \in 0..NChunks, y \in 0..NChunks : x = S(p, n) /\ y = S(q, k)
          <6> HIDE DEF S
          <6> QED
            BY <4>1
        <5>2. Line(p)[x] # Null /\ Line(p)[x] = Line(q)[y]
          <6> HIDE DEF S
          <6> QED
            BY <1>4, <2>2, <4>1, <5>1
        <5>3. p = q /\ x = y
          BY <5>2, Apart
        <5>4. QED
          BY <5>1, <5>3
      <4>3. QED
        BY <1>0, <4>2
    <3>4. QED
      BY <3>2, <3>3
  <2>3. QED
    BY <2>1, <2>2
<1>5. QED
  BY <1>4 DEF ChunksApart

(* Cutting an emptied bucket behind its first chunk leaves no chunk in two
   places. *)
LEMMA ApartKept ==
    ASSUME TypesOK, ChunksApart, NEW b \in Buckets, head[b] # Null,
           next' = [next EXCEPT ![head[b]] = Null], head' = head, freeList' = freeList,
           allocated' = allocated
    PROVE  ChunksApart'
<1>1. /\ \A p \in Places : p # b => Line(p)' = Line(p)
      /\ Line(b)'[0] = Line(b)[0]
      /\ \A n \in 1..NChunks : Line(b)'[n] = Null
  BY KeptLines
<1>2. ASSUME NEW p \in Places, NEW n \in 0..NChunks, Line(p)'[n] # Null
      PROVE  Line(p)'[n] = Line(p)[n]
  <2>1. CASE p = b
    <3>1. n = 0 \/ n \in 1..NChunks
      BY HashtabAssumption
    <3>2. QED
      BY <1>1, <1>2, <2>1, <3>1
  <2>2. CASE p # b
    BY <1>1, <2>2
  <2>3. QED
    BY <2>1, <2>2
<1>3. ASSUME NEW p \in Places, NEW q \in Places, NEW n \in 0..NChunks, NEW k \in 0..NChunks,
             Line(p)'[n] # Null
      PROVE  /\ Line(p)'[n] \in allocated'
             /\ Line(p)'[n] = Line(q)'[k] => p = q /\ n = k
  BY <1>2, <1>3, Apart
<1>4. QED
  BY <1>3 DEF ChunksApart

(* A chunk given back leaves its bucket. *)
LEMMA ApartRelease ==
    ASSUME TypesOK, ChunksApart, NEW b \in Buckets, NEW m \in 1..NChunks,
           Chain(b)[m] # Null, next[Chain(b)[m]] = Null,
           Released(b, m)
    PROVE  ChunksApart'
<1> DEFINE F == HashTableSize
           last == Chain(b)[m]
<1>0. NChunks \in Nat /\ b \in Places /\ b # F /\ F \in Places /\ m \in Nat /\ m \in 0..NChunks
      /\ last = Line(b)[m] /\ 0 \in 0..NChunks
  BY ChainIsLine, FreeLine, HashtabAssumption
<1>1. /\ \A p \in Places : p # b /\ p # F => Line(p)' = Line(p)
      /\ \A q \in 0..m - 1 : Line(b)'[q] = Line(b)[q]
      /\ \A q \in m..NChunks : Line(b)'[q] = Null
      /\ Line(F)'[0] = last
      /\ \A q \in 1..NChunks : Line(F)'[q] = Line(F)[q - 1]
  BY ReleaseLines
<1>2. last \in allocated
  BY <1>0, Apart
<1> DEFINE S(p, n) == IF p = F THEN n - 1 ELSE n
<1>3. ASSUME NEW p \in Places, NEW n \in 0..NChunks, Line(p)'[n] # Null
      PROVE  \/ p = F /\ n = 0 /\ Line(p)'[n] = last
             \/ /\ S(p, n) \in 0..NChunks /\ Line(p)'[n] = Line(p)[S(p, n)]
                /\ Line(p)'[n] \in allocated /\ Line(p)'[n] # last
  <2>1. CASE p = b
    <3>1. n < m /\ n \in 0..m - 1
      <4>1. n \notin m..NChunks
        BY <1>1, <1>3, <2>1
      <4>2. QED
        BY <1>0, <4>1
    <3>2. Line(p)'[n] = Line(p)[n]
      BY <1>1, <2>1, <3>1
    <3>3. Line(p)[n] \in allocated /\ Line(p)[n] # last
      BY <1>0, <1>3, <2>1, <3>1, <3>2, Apart
    <3>4. S(p, n) = n
      BY <1>0, <2>1
    <3> HIDE DEF S
    <3>5. QED
      BY <3>2, <3>3, <3>4
  <2>2. CASE p = F
    <3>1. CASE n = 0
      BY <1>1, <2>2, <3>1
    <3>2. CASE n # 0
      <4>1. n \in 1..NChunks /\ n - 1 \in 0..NChunks
        BY <1>0, <3>2
      <4>2. Line(F)'[n] = Line(F)[n - 1]
        BY <1>1, <4>1
      <4>3. Line(F)[n - 1] \in allocated /\ Line(F)[n - 1] # last
        BY <1>0, <1>3, <2>2, <4>1, <4>2, Apart
      <4>4. QED
        BY <2>2, <4>1, <4>2, <4>3
    <3>3. QED
      BY <3>1, <3>2
  <2>3. CASE p # b /\ p # F
    <3>1. Line(p)' = Line(p)
      BY <1>1, <2>3
    <3>2. Line(p)[n] \in allocated /\ Line(p)[n] # last
      BY <1>0, <1>3, <2>3, <3>1, Apart
    <3>3. QED
      BY <2>3, <3>1, <3>2
  <2>4. QED
    BY <2>1, <2>2, <2>3
<1>4. ASSUME NEW p \in Places, NEW q \in Places, NEW n \in 0..NChunks, NEW k \in 0..NChunks,
             Line(p)'[n] # Null
      PROVE  /\ Line(p)'[n] \in allocated'
             /\ Line(p)'[n] = Line(q)'[k] => p = q /\ n = k
  <2>1. Line(p)'[n] \in allocated'
    BY <1>2, <1>3, <1>4 DEF Released
  <2>2. ASSUME Line(p)'[n] = Line(q)'[k] PROVE p = q /\ n = k
    <3>1. Line(q)'[k] # Null
      BY <1>4, <2>2
    <3>2. CASE Line(p)'[n] = last
      BY <1>3, <1>4, <2>2, <3>1, <3>2
    <3>3. CASE Line(p)'[n] # last
      <4>1. /\ S(p, n) \in 0..NChunks /\ Line(p)'[n] = Line(p)[S(p, n)]
            /\ S(q, k) \in 0..NChunks /\ Line(q)'[k] = Line(q)[S(q, k)]
        BY <1>3, <1>4, <2>2, <3>1, <3>3
      <4>2. p = q /\ S(p, n) = S(q, k)
        <5>1. PICK x \in 0..NChunks, y \in 0..NChunks : x = S(p, n) /\ y = S(q, k)
          <6> HIDE DEF S
          <6> QED
            BY <4>1
        <5>2. Line(p)[x] # Null /\ Line(p)[x] = Line(q)[y]
          <6> HIDE DEF S
          <6> QED
            BY <1>4, <2>2, <4>1, <5>1
        <5>3. p = q /\ x = y
          BY <5>2, Apart
        <5>4. QED
          BY <5>1, <5>3
      <4>3. QED
        BY <1>0, <4>2
    <3>4. QED
      BY <3>2, <3>3
  <2>3. QED
    BY <2>1, <2>2
<1>5. QED
  BY <1>4 DEF ChunksApart

(* A step that touches no link leaves the chunks where they are. *)
LEMMA ApartSame ==
    ASSUME ChunksApart, UNCHANGED <<head, next, freeList, allocated>>
    PROVE  ChunksApart'
BY DEF ChunksApart, Line, First

-----------------------------------------------------------------------------
(* What a step leaves of the other buckets and of the other threads. *)

(* A step that leaves a bucket as it is. *)
Same(b) ==
    /\ size'[b] = size[b] /\ head'[b] = head[b] /\ Chain(b)' = Chain(b)
    /\ \A n \in 0..NChunks : Chain(b)[n] # Null =>
         pairs'[Chain(b)[n]] = pairs[Chain(b)[n]] /\ next'[Chain(b)[n]] = next[Chain(b)[n]]

(* A step that may append to a bucket: its pairs stay where they are. *)
Grows(b) ==
    /\ size'[b] >= size[b]
    /\ \A n \in 0..NChunks : n * NPairs < size[b] => Chain(b)'[n] = Chain(b)[n]
    /\ \A i \in 0..size[b] - 1 : PairAt(b, i)' = PairAt(b, i)

(* A bucket whose chain and chunks are not written to is the same. *)
LEMMA SameFromChain ==
    ASSUME TypesOK, ChunksApart, NEW b \in Buckets,
           next' \in [Chunks -> Chunks \cup {Null}], head' \in [Buckets -> Chunks \cup {Null}],
           size'[b] = size[b], Chain(b)' = Chain(b),
           \A n \in 0..NChunks : Chain(b)[n] # Null => pairs'[Chain(b)[n]] = pairs[Chain(b)[n]]
    PROVE  Same(b)
<1>1. ASSUME NEW n \in 0..NChunks, Chain(b)[n] # Null PROVE next'[Chain(b)[n]] = next[Chain(b)[n]]
  <2>1. n + 1 \in 1..NChunks /\ (n + 1) - 1 = n
    <3>1. n # NChunks
      BY <1>1, Chains
    <3>2. QED
      BY <3>1, HashtabAssumption
  <2>2. Chain(b)[n + 1] = next[Chain(b)[n]]
    <3>1. Chain(b)[n + 1] = IF Chain(b)[(n + 1) - 1] = Null THEN Null ELSE next[Chain(b)[(n + 1) - 1]]
      BY <2>1, Chains
    <3>2. QED
      BY <1>1, <2>1, <3>1
  <2>3. Chain(b)'[n + 1] = next'[Chain(b)'[n]]
    <3>1. Chain(b)' = Path(next', head'[b]) /\ head'[b] \in Chunks \cup {Null}
      BY DEF Chain
    <3>2. \A q \in 1..NChunks : Path(next', head'[b])[q] =
            IF Path(next', head'[b])[q - 1] = Null THEN Null ELSE next'[Path(next', head'[b])[q - 1]]
      BY <3>1, PathStep
    <3>3. Chain(b)'[n + 1] = IF Chain(b)'[(n + 1) - 1] = Null THEN Null ELSE next'[Chain(b)'[(n + 1) - 1]]
      BY <2>1, <3>1, <3>2
    <3>4. QED
      BY <1>1, <2>1, <3>3
  <2>4. QED
    BY <2>2, <2>3
<1>2. head'[b] = head[b]
  <2>1. Chain(b)' = Path(next', head'[b]) /\ head'[b] \in Chunks \cup {Null}
    BY DEF Chain
  <2>2. Path(next', head'[b])[0] = head'[b]
    BY <2>1, PathStep
  <2>3. Chain(b)[0] = head[b]
    BY Chains
  <2>4. QED
    BY <2>1, <2>2, <2>3
<1>3. QED
  BY <1>1, <1>2 DEF Same

(* A bucket that is the same has the same pairs. *)
LEMMA SamePairs ==
    ASSUME TypesOK, ChunksApart, FilledOK, \A t \in Threads : RemoveOK(t),
           NEW b \in Buckets, Same(b), NEW i \in 0..Top(b) - 1
    PROVE  PairAt(b, i)' = PairAt(b, i)
<1>1. i \div NPairs \in 0..NChunks /\ Chain(b)[i \div NPairs] \in Chunks
  BY PairHasSlot
<1>2. Null \notin Chunks
  BY DEF Chunks, Null
<1>3. PairAt(b, i) = pairs[Chain(b)[i \div NPairs]][i % NPairs]
  BY PairHasSlot
<1>4. PairAt(b, i)' = IF Chain(b)'[i \div NPairs] = Null THEN NoPair
                      ELSE pairs'[Chain(b)'[i \div NPairs]][i % NPairs]
  BY DEF PairAt
<1>5. QED
  BY <1>1, <1>2, <1>3, <1>4 DEF Same

(* A bucket that is the same has not lost anything. *)
LEMMA SameGrows ==
    ASSUME TypesOK, ChunksApart, FilledOK, \A t \in Threads : RemoveOK(t),
           NEW b \in Buckets, Same(b), Top(b) = size[b]
    PROVE  Grows(b)
<1>1. \A i \in 0..size[b] - 1 : PairAt(b, i)' = PairAt(b, i)
  BY SamePairs
<1>2. size[b] \in Nat
  BY TopType
<1>3. QED
  BY <1>1, <1>2 DEF Same, Grows

(* No pair of those that the thread has seen gets the key it looks for. *)
LEMMA NoneBeforeKept ==
    ASSUME NEW u \in Threads, NEW n, loc'[u] = loc[u],
           \A i \in 0..n - 1 : PairAt(loc[u].b, i)' = PairAt(loc[u].b, i),
           NoneBefore(u, n)
    PROVE  \A i \in 0..n - 1 : ~Matches(u, PairAt(loc[u].b, i).key)'
<1> SUFFICES ASSUME NEW i \in 0..n - 1 PROVE ~Matches(u, PairAt(loc[u].b, i).key)'
  OBVIOUS
<1>1. PairAt(loc[u].b, i)' = PairAt(loc[u].b, i)
  OBVIOUS
<1>2. ~Matches(u, PairAt(loc[u].b, i).key)
  BY DEF NoneBefore
<1>3. QED
  BY <1>1, <1>2 DEF Matches

(* The cell where a search stands stays when the bucket grows: it is behind
   a chunk that pairs before the i-th one fill. *)
LEMMA CellKept ==
    ASSUME TypesOK, NEW b \in Buckets, NEW l \in LocType, l.b = b, NEW m \in 0..NChunks, AtCell(l, m),
           l.i <= size[b], l.j = 0 => l.i = 0, Grows(b)
    PROVE  Cell(b, m)' = Cell(b, m) /\ m - 1 \in Int
<1>1. l.i = m * NPairs + l.j /\ l.i \in Nat /\ l.j \in Nat /\ size[b] \in 0..NChunks * NPairs
  BY DEF AtCell, LocType, TypesOK
<1>2. m \in Nat /\ NPairs \in Nat \ {0} /\ NChunks \in Nat /\ m <= NChunks
  BY HashtabAssumption
<1>3. CASE m = 0
  BY <1>3 DEF Cell
<1>4. CASE m > 0
  <2>1. m - 1 \in 0..NChunks /\ m - 1 \in Nat
    BY <1>2, <1>4
  <2>2. (m - 1) * NPairs + NPairs = m * NPairs /\ (m - 1) * NPairs \in Nat /\ m * NPairs \in Nat
        /\ NChunks * NPairs \in Nat
    BY <1>2, <1>4, <2>1, Rows
  <2>3. (m - 1) * NPairs < size[b]
    BY <1>1, <1>2, <2>2
  <2>4. Chain(b)'[m - 1] = Chain(b)[m - 1]
    BY <2>1, <2>3 DEF Grows
  <2>5. QED
    BY <1>4, <2>1, <2>4 DEF Cell
<1>5. QED
  BY <1>2, <1>3, <1>4

(* What a thread that does not move knows of its bucket: a search outlives
   insertions by others, while a search under insert_lock and a removal need
   the bucket unchanged. *)
LEMMA OthersKeep ==
    ASSUME HashtabInv, NEW u \in Threads, pc'[u] = pc[u], loc'[u] = loc[u],
           size' \in [Buckets -> 0..NChunks * NPairs],
           In(u, Reading, loc[u].b) => Grows(loc[u].b),
           pc[u] \in {"lscan", "write", "publish"} \cup Removing => Same(loc[u].b)
    PROVE  SearchOK(u)' /\ RemoveOK(u)'
<1> DEFINE l == loc[u]
           b == loc[u].b
<1>1. TypesOK /\ LocksOK /\ ChunksApart /\ FilledOK /\ SearchOK(u) /\ \A t \in Threads : RemoveOK(t)
  BY DEF HashtabInv
<1>2. b \in Buckets /\ l \in LocType /\ \A S : pc[u] \in S => In(u, S, b)
  BY <1>1, InTheBucket
<1>3. l.i \in Nat /\ l.cur \in Nat /\ l.j \in Nat
  BY <1>2 DEF LocType
<1>4. size[b] \in Nat /\ size'[b] \in Nat /\ NChunks * NPairs \in Nat
  <2>1. NChunks * NPairs \in Nat /\ size'[b] \in 0..NChunks * NPairs
    BY <1>2, Rows, HashtabAssumption
  <2>2. QED
    BY <1>1, <1>2, <2>1, TopType
<1>5. ASSUME pc[u] \in Searching PROVE SearchOK(u)'
  <2>1. Grows(b)
    BY <1>2, <1>5 DEF Reading
  <2>2. /\ l.i <= l.cur /\ l.cur <= size[b] /\ NoneBefore(u, l.i)
        /\ l.j \in 0..NPairs /\ (l.j = 0 => l.i = 0)
    BY <1>1, <1>5 DEF SearchOK
  <2>3. PICK m \in 0..NChunks : AtCell(l, m)
    BY <1>1, <1>5 DEF SearchOK
  <2>4. l.i <= size[b] /\ l.cur <= size'[b]
    BY <1>3, <1>4, <2>1, <2>2 DEF Grows
  <2>5. Cell(b, m)' = Cell(b, m)
    BY <1>1, <1>2, <2>1, <2>2, <2>3, <2>4, CellKept
  <2>6. \A i \in 0..l.i - 1 : ~Matches(u, PairAt(b, i).key)'
    <3>1. \A i \in 0..l.i - 1 : PairAt(b, i)' = PairAt(b, i)
      BY <1>3, <1>4, <2>1, <2>4 DEF Grows
    <3>2. QED
      BY <2>2, <3>1, NoneBeforeKept
  <2>7. NoneBefore(u, loc[u].i)'
    BY <2>6 DEF NoneBefore
  <2>8. AtCell(loc[u], m)'
    BY <2>3, <2>5 DEF AtCell
  <2>9. pc[u] = "lscan" => l.cur = size'[b]
    BY <1>1 DEF SearchOK, Same
  <2>10. /\ pc'[u] \notin {"write", "publish", "iunlock", "read"}
         /\ (pc[u] = "lscan") = (pc'[u] = "lscan")
    BY <1>5 DEF Searching
  <2>11. /\ loc'[u].i <= loc'[u].cur /\ loc'[u].cur <= size'[loc'[u].b]
         /\ loc'[u].j \in 0..NPairs /\ (loc'[u].j = 0 => loc'[u].i = 0)
    BY <2>2, <2>4
  <2>12. QED
    BY <2>7, <2>8, <2>9, <2>10, <2>11 DEF SearchOK
<1>6. ASSUME pc[u] \in {"iunlock", "read"} PROVE SearchOK(u)'
  <2>1. Grows(b)
    BY <1>2, <1>6 DEF Reading
  <2>2. /\ l.i < size[b] /\ Matches(u, PairAt(b, l.i).key) /\ l.j \in Slots
    BY <1>1, <1>6 DEF SearchOK
  <2>3. PICK m \in 0..NChunks : AtCell(l, m)
    BY <1>1, <1>6 DEF SearchOK
  <2>4. l.i <= size[b] /\ l.i < size'[b]
    BY <1>3, <1>4, <2>1, <2>2 DEF Grows
  <2>5. Cell(b, m)' = Cell(b, m)
    <3>1. CASE m = 0
      BY <3>1 DEF Cell
    <3>2. CASE m > 0
      <4>1. m - 1 \in 0..NChunks /\ m - 1 \in Nat /\ m \in Nat
        BY <3>2, HashtabAssumption
      <4>2. (m - 1) * NPairs + NPairs = m * NPairs /\ (m - 1) * NPairs \in Nat /\ m * NPairs \in Nat
            /\ NPairs \in Nat \ {0}
        BY <3>2, <4>1, Rows, HashtabAssumption
      <4>3. l.i = m * NPairs + l.j
        BY <2>3 DEF AtCell
      <4>4. (m - 1) * NPairs < size[b]
        BY <1>3, <1>4, <2>4, <4>2, <4>3
      <4>5. QED
        BY <3>2, <4>1, <4>4, <2>1 DEF Grows, Cell
    <3>3. QED
      BY <3>1, <3>2, HashtabAssumption
  <2>6. PairAt(b, l.i)' = PairAt(b, l.i)
    <3>1. l.i \in 0..size[b] - 1
      BY <1>3, <1>4, <2>2
    <3>2. \A i \in 0..size[b] - 1 : PairAt(b, i)' = PairAt(b, i)
      BY <2>1 DEF Grows
    <3>3. PICK i \in 0..size[b] - 1 : i = l.i
      BY <3>1
    <3>4. PairAt(b, i)' = PairAt(b, i)
      BY <3>2
    <3>5. loc'[u].i = i
      BY <3>3
    <3>6. QED
      BY <3>3, <3>4, <3>5
  <2>7. Matches(u, PairAt(loc[u].b, loc[u].i).key)'
    BY <2>2, <2>6 DEF Matches
  <2>8. AtCell(loc[u], m)'
    BY <2>3, <2>5 DEF AtCell
  <2>9. pc'[u] \notin Searching \cup {"write", "publish"}
    BY <1>6 DEF Searching
  <2>10. loc'[u].i < size'[loc'[u].b] /\ loc'[u].j \in Slots
    BY <2>2, <2>4
  <2>11. QED
    BY <2>7, <2>8, <2>9, <2>10 DEF SearchOK, Searching
<1>7. ASSUME pc[u] \in {"write", "publish"} PROVE SearchOK(u)'
  <2>1. Same(b) /\ Top(b) = size[b]
    BY <1>1, <1>2, <1>7, TopIs DEF Reading
  <2>2. /\ l.i = l.cur /\ l.cur = size[b] /\ NoneBefore(u, l.i) /\ l.j \in Slots
    BY <1>1, <1>7 DEF SearchOK
  <2>3. PICK m \in 0..NChunks : AtCell(l, m) /\ Chain(b)[m] # Null
    BY <1>1, <1>7 DEF SearchOK
  <2>4. Chain(b)' = Chain(b) /\ size'[b] = size[b]
    BY <2>1 DEF Same
  <2>5. Cell(b, m)' = Cell(b, m)
    BY <2>4 DEF Cell
  <2>6. \A i \in 0..l.i - 1 : ~Matches(u, PairAt(b, i).key)'
    <3>1. \A i \in 0..l.i - 1 : PairAt(b, i)' = PairAt(b, i)
      BY <1>1, <1>2, <2>1, <2>2, SamePairs
    <3>2. QED
      BY <2>2, <3>1, NoneBeforeKept
  <2>7. NoneBefore(u, loc[u].i)'
    BY <2>6 DEF NoneBefore
  <2>8. AtCell(loc[u], m)' /\ Chain(loc[u].b)'[m] # Null
    BY <2>3, <2>4, <2>5 DEF AtCell
  <2>9. ASSUME pc[u] = "publish"
        PROVE  \E k \in loc'[u].call.keys : pairs'[Deref(loc[u].b, loc[u].at)'][loc'[u].j] = [key |-> k, val |-> loc'[u].id]
    <3>1. PICK k \in l.call.keys : pairs[Deref(b, l.at)][l.j] = [key |-> k, val |-> l.id]
      BY <1>1, <2>9 DEF SearchOK
    <3>2. l.at = Cell(b, m) /\ (m > 0 => Cell(b, m) # Null)
      BY <2>3 DEF AtCell
    <3>3. Deref(b, l.at) = Chain(b)[m]
      BY <1>1, <1>2, <3>2, CellChunk
    <3>4. Deref(b, l.at)' = Chain(b)[m]
      <4>1. CASE m = 0
        <5>1. l.at = Null /\ Chain(b)[0] = head[b]
          BY <1>1, <1>2, <3>2, <4>1, Chains DEF Cell
        <5>2. QED
          BY <2>1, <4>1, <5>1 DEF Deref, Same
      <4>2. CASE m > 0
        <5>1. PICK q \in 0..NChunks : q = m - 1
          BY <4>2, HashtabAssumption
        <5>2. l.at = Chain(b)[q] /\ l.at # Null
          BY <3>2, <4>2, <5>1 DEF Cell
        <5>3. next'[l.at] = next[l.at]
          BY <2>1, <5>2 DEF Same
        <5>4. Deref(b, l.at) = next[l.at] /\ Deref(b, l.at)' = next'[l.at]
          BY <5>2 DEF Deref
        <5>5. QED
          BY <3>3, <5>3, <5>4
      <4>3. QED
        BY <4>1, <4>2, HashtabAssumption
    <3>5. pairs'[Chain(b)[m]] = pairs[Chain(b)[m]]
      BY <2>1, <2>3 DEF Same
    <3>6. QED
      BY <3>1, <3>3, <3>4, <3>5
  <2>10. pc'[u] \notin Searching \cup {"iunlock", "read"}
    BY <1>7 DEF Searching
  <2>11. loc'[u].i = loc'[u].cur /\ loc'[u].cur = size'[loc'[u].b] /\ loc'[u].j \in Slots
    BY <2>2, <2>4
  <2>12. QED
    BY <2>7, <2>8, <2>9, <2>10, <2>11 DEF SearchOK, Searching
<1>8. SearchOK(u)'
  <2>1. ASSUME pc[u] \notin Searching \cup {"iunlock", "read", "write", "publish"} PROVE SearchOK(u)'
    BY <2>1 DEF SearchOK, Searching
  <2>2. QED
    BY <1>5, <1>6, <1>7, <2>1
<1>9. ASSUME pc[u] \in Removing PROVE RemoveOK(u)'
  <2>1. Same(b) /\ In(u, Removing, b)
    BY <1>2, <1>9
  <2>2. Chain(b)' = Chain(b) /\ size'[b] = size[b] /\ \A m : Cell(b, m)' = Cell(b, m)
    BY <2>1 DEF Same, Cell
  <2>3. \A i \in 0..Top(b) - 1 : PairAt(b, i)' = PairAt(b, i)
    BY <1>1, <1>2, <2>1, SamePairs
  <2>4. /\ pc[u] \in {"release", "shrink"} => Top(b) = size[b] - 1
        /\ pc[u] \notin {"release", "shrink"} => Top(b) = size[b]
    BY <1>1, <1>2, <1>9, TopIs
  <2>5. ASSUME NEW n \in Nat, n <= Top(b), NoneBefore(u, n)
        PROVE  \A i \in 0..n - 1 : ~Matches(u, PairAt(b, i).key)'
    <3>1. \A i \in 0..n - 1 : PairAt(b, i)' = PairAt(b, i)
      BY <1>1, <1>2, <2>3, <2>5, TopType
    <3>2. QED
      BY <2>5, <3>1, NoneBeforeKept
  <2>6. CASE pc[u] \in {"move", "oob"}
    <3>1. /\ l.cur = size[b] /\ l.i < l.cur /\ Matches(u, PairAt(b, l.i).key) /\ l.j \in Slots
          /\ Op(u) = "remove_if" => NoneBefore(u, l.i)
      BY <1>1, <2>6 DEF RemoveOK
    <3>2. PICK m \in 0..NChunks :
            AtChunk(l, m) /\ l.prev = IF Op(u) = "remove_if" THEN Null ELSE Cell(b, m)
      BY <1>1, <2>6 DEF RemoveOK
    <3>3. Top(b) = size[b]
      BY <2>4, <2>6
    <3>4. PICK i \in 0..Top(b) - 1 : i = l.i
      BY <1>3, <1>4, <3>1, <3>3
    <3>5. PairAt(b, i)' = PairAt(b, i)
      BY <2>3
    <3>6. loc'[u].i = i
      BY <3>4
    <3>7. Matches(u, PairAt(loc[u].b, loc[u].i).key)'
      BY <3>1, <3>4, <3>5, <3>6 DEF Matches
    <3>8. AtChunk(loc[u], m)' /\ loc'[u].prev = IF Op(u)' = "remove_if" THEN Null ELSE Cell(loc[u].b, m)'
      BY <2>2, <3>2 DEF AtChunk, Op
    <3>9. Op(u)' = "remove_if" => NoneBefore(u, loc[u].i)'
      <4>1. Op(u)' = Op(u)
        BY DEF Op
      <4>2. Op(u) = "remove_if" => \A q \in 0..l.i - 1 : ~Matches(u, PairAt(b, q).key)'
        BY <1>3, <1>4, <2>5, <3>1, <3>3
      <4>3. QED
        BY <4>1, <4>2 DEF NoneBefore
    <3>10. loc'[u].cur = size'[loc'[u].b] /\ loc'[u].i < loc'[u].cur /\ loc'[u].j \in Slots
      BY <2>2, <3>1
    <3>11. pc'[u] \notin {"release", "shrink", "iftest", "wunlock"}
      BY <2>6
    <3>12. QED
      BY <3>7, <3>8, <3>9, <3>10, <3>11 DEF RemoveOK
  <2>7. CASE pc[u] \in {"release", "shrink"}
    <3>1. /\ l.cur = size[b] /\ l.i < l.cur
          /\ Op(u) = "remove_if" => NoneBefore(u, l.i)
          /\ Op(u) # "remove_if" => NoneBefore(u, l.cur - 1)
      BY <1>1, <2>7 DEF RemoveOK
    <3>2. Top(b) = size[b] - 1
      BY <2>4, <2>7
    <3>3. l.cur - 1 \in Nat /\ l.cur - 1 <= Top(b) /\ l.i <= Top(b)
      BY <1>3, <1>4, <3>1, <3>2
    <3>4. Op(u)' = Op(u)
      BY DEF Op
    <3>5. Op(u)' = "remove_if" => NoneBefore(u, loc[u].i)'
      <4>1. Op(u) = "remove_if" => \A q \in 0..l.i - 1 : ~Matches(u, PairAt(b, q).key)'
        BY <1>3, <2>5, <3>1, <3>3
      <4>2. QED
        BY <3>4, <4>1 DEF NoneBefore
    <3>6. Op(u)' # "remove_if" => NoneBefore(u, loc[u].cur - 1)'
      <4>1. Op(u) # "remove_if" => \A q \in 0..(l.cur - 1) - 1 : ~Matches(u, PairAt(b, q).key)'
        BY <2>5, <3>1, <3>3
      <4>2. QED
        BY <3>4, <4>1 DEF NoneBefore
    <3>7. ASSUME pc[u] = "release"
          PROVE  \E n \in 1..NChunks :
                   /\ loc'[u].cur - 1 = n * NPairs
                   /\ loc'[u].prev = Chain(b)'[n - 1] /\ loc'[u].last = Chain(b)'[n]
                   /\ loc'[u].last # Null /\ next'[loc'[u].last] = Null
      <4>1. PICK n \in 1..NChunks :
               /\ l.cur - 1 = n * NPairs
               /\ l.prev = Chain(b)[n - 1] /\ l.last = Chain(b)[n]
               /\ l.last # Null /\ next[l.last] = Null
        BY <1>1, <3>7 DEF RemoveOK
      <4>2. n \in 0..NChunks
        BY HashtabAssumption
      <4>3. next'[l.last] = next[l.last]
        BY <2>1, <4>1, <4>2 DEF Same
      <4>4. QED
        BY <2>2, <4>1, <4>3
    <3>8. loc'[u].cur = size'[loc'[u].b] /\ loc'[u].i < loc'[u].cur
      BY <2>2, <3>1
    <3>9. pc'[u] \notin {"move", "oob", "iftest", "wunlock"}
      BY <2>7
    <3>10. ASSUME Op(u)' = "remove_if", loc'[u].i < loc'[u].cur - 1
           PROVE  loc'[u].j \in Slots /\ \E m \in 0..NChunks : AtChunk(loc[u], m)'
      <4>1. l.j \in Slots /\ \E m \in 0..NChunks : AtChunk(l, m)
        BY <1>1, <2>7, <3>4, <3>10 DEF RemoveOK
      <4>2. QED
        BY <2>2, <4>1 DEF AtChunk
    <3>11. QED
      BY <3>5, <3>6, <3>7, <3>8, <3>9, <3>10 DEF RemoveOK
  <2>8. CASE pc[u] = "iftest"
    <3>1. /\ l.cur = size[b] /\ l.i <= l.cur
          /\ l.i < l.cur => l.j \in 0..NPairs /\ \E m \in 0..NChunks : AtChunk(l, m)
          /\ Op(u) = "remove_if" => NoneBefore(u, l.i)
      BY <1>1, <2>8 DEF RemoveOK
    <3>2. Top(b) = size[b] /\ Op(u)' = Op(u)
      BY <2>4, <2>8 DEF Op
    <3>3. Op(u)' = "remove_if" => NoneBefore(u, loc[u].i)'
      <4>1. Op(u) = "remove_if" => \A q \in 0..l.i - 1 : ~Matches(u, PairAt(b, q).key)'
        BY <1>3, <2>5, <3>1, <3>2
      <4>2. QED
        BY <3>2, <4>1 DEF NoneBefore
    <3>4. ASSUME l.i < l.cur PROVE \E m \in 0..NChunks : AtChunk(loc[u], m)'
      BY <2>2, <3>1, <3>4 DEF AtChunk
    <3>5. /\ loc'[u].cur = size'[loc'[u].b] /\ loc'[u].i <= loc'[u].cur
          /\ loc'[u].i < loc'[u].cur => loc'[u].j \in 0..NPairs
      BY <2>2, <3>1
    <3>6. pc'[u] \notin {"move", "oob", "release", "shrink", "wunlock"}
      BY <2>8
    <3>7. QED
      BY <3>3, <3>4, <3>5, <3>6 DEF RemoveOK
  <2>9. CASE pc[u] = "wunlock"
    <3>1. NoneBefore(u, size[b])
      BY <1>1, <2>9 DEF RemoveOK
    <3>2. \A q \in 0..size[b] - 1 : ~Matches(u, PairAt(b, q).key)'
      BY <1>4, <2>4, <2>5, <2>9, <3>1
    <3>3. NoneBefore(u, size[loc[u].b])'
      BY <2>2, <3>2 DEF NoneBefore
    <3>4. pc'[u] \notin {"move", "oob", "release", "shrink", "iftest"}
      BY <2>9
    <3>5. QED
      BY <3>3, <3>4 DEF RemoveOK
  <2>10. CASE pc[u] \in {"search", "ifload"}
    BY <2>10 DEF RemoveOK
  <2>11. QED
    BY <1>9, <2>6, <2>7, <2>8, <2>9, <2>10 DEF Removing
<1>10. RemoveOK(u)'
  <2>1. ASSUME pc[u] \notin Removing PROVE RemoveOK(u)'
    BY <2>1 DEF RemoveOK, Removing
  <2>2. QED
    BY <1>9, <2>1
<1>11. QED
  BY <1>8, <1>10

(* The other threads keep still in a step of t. *)
Alone(t) == \A u \in Threads : u # t => pc'[u] = pc[u] /\ loc'[u] = loc[u]

(* A step that begins and ends no removal of a pair leaves Top alone. *)
LEMMA TopSame ==
    ASSUME NEW t \in Threads, Alone(t), NEW b \in Buckets, size'[b] = size[b],
           In(t, {"release", "shrink"}, b)' <=> In(t, {"release", "shrink"}, b)
    PROVE  Top(b)' = Top(b)
<1>1. \A u \in Threads : In(u, {"release", "shrink"}, b)' <=> In(u, {"release", "shrink"}, b)
  BY DEF Alone, In
<1>2. (\E u \in Threads : In(u, {"release", "shrink"}, b)') <=> (\E u \in Threads : In(u, {"release", "shrink"}, b))
  BY <1>1
<1>3. QED
  BY <1>2 DEF Top

(* A step that writes neither sizes, links nor pairs leaves the view of the
   table alone. *)
LEMMA ViewSame ==
    ASSUME UNCHANGED <<size, head, next, pairs>>
    PROVE  /\ \A b : Chain(b)' = Chain(b)
           /\ \A b, i : PairAt(b, i)' = PairAt(b, i)
           /\ \A b \in Buckets : Same(b)
<1>1. \A b : Chain(b)' = Chain(b)
  BY DEF Chain
<1>2. \A b, i : PairAt(b, i)' = PairAt(b, i)
  BY <1>1 DEF PairAt
<1>3. QED
  BY <1>1, <1>2 DEF Same

(* FilledOK and PairsUnique after a step that does not write to the table. *)
LEMMA TableSame ==
    ASSUME HashtabInv, UNCHANGED <<size, head, next, pairs>>,
           calls' \in Nat, calls' >= calls,
           \A b \in Buckets : Top(b)' = Top(b)
    PROVE  FilledOK' /\ PairsUnique'
<1>1. FilledOK /\ PairsUnique /\ calls \in Nat
  BY HashtabAssumption DEF HashtabInv, TypesOK
<1>2. 1..calls \subseteq 1..calls'
  BY <1>1
<1>3. FilledOK'
  <2> SUFFICES ASSUME NEW b \in Buckets
               PROVE  /\ \A n \in 0..NChunks : n * NPairs < Top(b)' => Chain(b)'[n] # Null
                      /\ \A i \in 0..Top(b)' - 1 :
                           /\ PairAt(b, i)'.key \in Keys /\ BucketIdx[PairAt(b, i)'.key] = b
                           /\ PairAt(b, i)'.val \in 1..calls'
    BY DEF FilledOK
  <2>1. Top(b)' = Top(b) /\ Chain(b)' = Chain(b)
    BY ViewSame
  <2>2. \A n \in 0..NChunks : n * NPairs < Top(b)' => Chain(b)'[n] # Null
    BY <1>1, <2>1 DEF FilledOK
  <2>3. ASSUME NEW i \in 0..Top(b)' - 1
        PROVE  /\ PairAt(b, i)'.key \in Keys /\ BucketIdx[PairAt(b, i)'.key] = b
               /\ PairAt(b, i)'.val \in 1..calls'
    <3>1. PairAt(b, i)' = PairAt(b, i)
      BY ViewSame
    <3>2. /\ PairAt(b, i).key \in Keys /\ BucketIdx[PairAt(b, i).key] = b
          /\ PairAt(b, i).val \in 1..calls
      BY <1>1, <2>1, <2>3 DEF FilledOK
    <3>3. QED
      BY <3>1, <3>2, <1>2
  <2>4. QED
    BY <2>2, <2>3
<1>4. PairsUnique'
  <2> SUFFICES ASSUME NEW b \in Buckets, NEW i \in 0..Top(b)' - 1, NEW k \in 0..Top(b)' - 1,
                      PairAt(b, i)'.key = PairAt(b, k)'.key
               PROVE  i = k
    BY DEF PairsUnique
  <2>1. PairAt(b, i)' = PairAt(b, i) /\ PairAt(b, k)' = PairAt(b, k) /\ Top(b)' = Top(b)
    BY ViewSame
  <2>2. QED
    BY <1>1, <2>1 DEF PairsUnique
<1>5. QED
  BY <1>3, <1>4

(* ValuesOK after a step that does not write to the table. *)
LEMMA ValuesSame ==
    ASSUME HashtabInv, NEW t \in Threads, Alone(t), UNCHANGED <<size, head, next, pairs, alive>>,
           \A b \in Buckets : Top(b)' = Top(b),
           pc[t] \notin {"move", "oob", "publish"}, pc'[t] \notin {"move", "oob", "publish"},
           pc'[t] \in Unpublished /\ Op(t)' = "insert" =>
             \A b \in Buckets : \A i \in 0..Top(b) - 1 : PairAt(b, i).val # loc'[t].id
    PROVE  ValuesOK'
<1>1. ValuesOK
  BY DEF HashtabInv
<1>2. \A b, i : PairAt(b, i)' = PairAt(b, i)
  BY ViewSame
<1>3. \A b, i : Dead(b, i)' <=> Dead(b, i)
  <2> SUFFICES ASSUME NEW b, NEW i PROVE Dead(b, i)' <=> Dead(b, i)
    OBVIOUS
  <2>1. \A u \in Threads : (In(u, {"move", "oob"}, b) /\ loc[u].i = i)' <=> (In(u, {"move", "oob"}, b) /\ loc[u].i = i)
    BY DEF In, Alone
  <2>2. QED
    BY <2>1 DEF Dead
<1>4. ASSUME NEW b \in Buckets, NEW c \in Buckets, NEW i \in 0..Top(b)' - 1, NEW k \in 0..Top(c)' - 1,
             PairAt(b, i)'.val = PairAt(c, k)'.val
      PROVE  b = c /\ i = k
  <2>1. Top(b)' = Top(b) /\ Top(c)' = Top(c) /\ PairAt(b, i)' = PairAt(b, i) /\ PairAt(c, k)' = PairAt(c, k)
    BY <1>2
  <2>2. QED
    BY <1>1, <1>4, <2>1 DEF ValuesOK
<1>5. ASSUME NEW u \in Threads, pc'[u] \in Unpublished, Op(u)' = "insert",
             NEW b \in Buckets, NEW i \in 0..Top(b)' - 1
      PROVE  PairAt(b, i)'.val # loc'[u].id
  <2>1. Top(b)' = Top(b) /\ PairAt(b, i)' = PairAt(b, i)
    BY <1>2
  <2>2. CASE u = t
    BY <1>5, <2>1, <2>2
  <2>3. CASE u # t
    <3>1. pc[u] \in Unpublished /\ Op(u) = "insert" /\ loc'[u].id = loc[u].id
      BY <1>5, <2>3 DEF Alone, Op
    <3>2. QED
      BY <1>1, <1>5, <2>1, <3>1 DEF ValuesOK, Unpublished
  <2>4. QED
    BY <2>2, <2>3
<1>6. ASSUME NEW v \in Values
      PROVE  v \in alive' <=>
               \/ \E b \in Buckets : \E i \in 0..Top(b)' - 1 : PairAt(b, i)'.val = v /\ ~Dead(b, i)'
               \/ \E u \in Threads : pc'[u] = "publish" /\ loc'[u].id = v
  <2>1. (\E u \in Threads : pc'[u] = "publish" /\ loc'[u].id = v) <=> (\E u \in Threads : pc[u] = "publish" /\ loc[u].id = v)
    BY DEF Alone
  <2>2. (\E b \in Buckets : \E i \in 0..Top(b)' - 1 : PairAt(b, i)'.val = v /\ ~Dead(b, i)') <=>
        (\E b \in Buckets : \E i \in 0..Top(b) - 1 : PairAt(b, i).val = v /\ ~Dead(b, i))
    <3>1. ASSUME NEW b \in Buckets
          PROVE (\E i \in 0..Top(b)' - 1 : PairAt(b, i)'.val = v /\ ~Dead(b, i)') <=>
                (\E i \in 0..Top(b) - 1 : PairAt(b, i).val = v /\ ~Dead(b, i))
      <4>1. Top(b)' = Top(b)
        OBVIOUS
      <4>2. \A i : (PairAt(b, i)'.val = v /\ ~Dead(b, i)') <=> (PairAt(b, i).val = v /\ ~Dead(b, i))
        BY <1>2, <1>3
      <4>3. QED
        BY <4>1, <4>2
    <3>2. QED
      BY <3>1
  <2>3. QED
    BY <1>1, <2>1, <2>2 DEF ValuesOK
<1>7. QED
  BY <1>4, <1>5, <1>6 DEF ValuesOK, Unpublished

(* LocksOK after a step of one thread that takes and releases no lock. *)
LEMMA LocksSame ==
    ASSUME LocksOK, NEW t \in Threads, Alone(t), UNCHANGED <<readers, writers, insertLock>>,
           \A b \in Buckets : /\ In(t, Reading, b)' <=> In(t, Reading, b)
                              /\ In(t, Removing, b)' <=> In(t, Removing, b)
                              /\ In(t, Inserting, b)' <=> In(t, Inserting, b)
    PROVE  LocksOK'
<1>1. ASSUME NEW u \in Threads, NEW b \in Buckets
      PROVE  /\ In(u, Reading, b)' <=> In(u, Reading, b)
             /\ In(u, Removing, b)' <=> In(u, Removing, b)
             /\ In(u, Inserting, b)' <=> In(u, Inserting, b)
  BY DEF Alone, In
<1>2. QED
  BY <1>1 DEF LocksOK

(* CallsOK after a step of one thread that stays in its call, or leaves it. *)
LEMMA CallsKept ==
    ASSUME CallsOK, NEW t \in Threads, Alone(t), calls \in Nat, calls' \in Nat, calls' >= calls,
           CallOK(t)',
           pc'[t] # "idle" /\ Op(t)' = "insert" =>
             pc[t] # "idle" /\ Op(t) = "insert" /\ loc'[t].id = loc[t].id
    PROVE  CallsOK'
<1>1. ASSUME NEW u \in Threads, u # t PROVE CallOK(u)'
  <2>1. pc'[u] = pc[u] /\ loc'[u] = loc[u] /\ CallOK(u)
    BY <1>1 DEF Alone, CallsOK
  <2>2. loc[u].id \in 1..calls => loc[u].id \in 1..calls'
    OBVIOUS
  <2>3. Op(u)' = Op(u)
    BY <2>1 DEF Op
  <2>4. QED
    BY <2>1, <2>2, <2>3 DEF CallOK
<1>2. ASSUME NEW u \in Threads, pc'[u] # "idle", Op(u)' = "insert"
      PROVE  pc[u] # "idle" /\ Op(u) = "insert" /\ loc'[u].id = loc[u].id
  BY <1>2 DEF Alone, Op
<1>3. QED
  BY <1>1, <1>2 DEF CallsOK

(* A step of t that neither changes the table nor takes a value out of it. *)
LEMMA QuietStep ==
    ASSUME HashtabInv, NEW t \in Threads, Alone(t),
           UNCHANGED <<size, head, next, pairs, freeList, allocated, alive, calls>>,
           TypesOK', LocksOK', CallOK(t)', SearchOK(t)', RemoveOK(t)',
           pc'[t] # "idle" /\ Op(t)' = "insert" =>
             pc[t] # "idle" /\ Op(t) = "insert" /\ loc'[t].id = loc[t].id,
           pc'[t] \in Unpublished => pc[t] \in Unpublished,
           pc[t] \notin {"move", "oob", "publish", "release", "shrink"},
           pc'[t] \notin {"move", "oob", "publish", "release", "shrink"}
    PROVE  HashtabInv'
<1>1. TypesOK /\ LocksOK /\ CallsOK /\ ChunksApart /\ \A u \in Threads : RemoveOK(u)
  BY DEF HashtabInv
<1>2. \A b \in Buckets : Top(b)' = Top(b)
  BY TopSame DEF In
<1>3. calls \in Nat
  BY <1>1, HashtabAssumption DEF TypesOK
<1>4. FilledOK' /\ PairsUnique'
  BY <1>2, <1>3, TableSame
<1>5. ChunksApart'
  BY <1>1, ApartSame
<1>6. CallsOK'
  BY <1>1, <1>3, CallsKept
<1>7. ValuesOK'
  <2>1. pc'[t] \in Unpublished /\ Op(t)' = "insert" =>
          pc[t] \in Unpublished /\ Op(t) = "insert" /\ loc'[t].id = loc[t].id
    BY DEF Unpublished, Searching
  <2>2. pc'[t] \in Unpublished /\ Op(t)' = "insert" =>
          \A b \in Buckets : \A i \in 0..Top(b) - 1 : PairAt(b, i).val # loc'[t].id
    BY <2>1 DEF HashtabInv, ValuesOK, Unpublished
  <2>3. QED
    BY <1>2, <2>2, ValuesSame
<1>8. ASSUME NEW u \in Threads PROVE SearchOK(u)' /\ RemoveOK(u)'
  <2>1. CASE u = t
    BY <2>1
  <2>2. CASE u # t
    <3>1. pc'[u] = pc[u] /\ loc'[u] = loc[u]
      BY <2>2 DEF Alone
    <3>2. loc[u].b \in Buckets /\ Same(loc[u].b)
      BY <1>1, InTheBucket, ViewSame
    <3>3. In(u, Reading, loc[u].b) => Grows(loc[u].b)
      <4> SUFFICES ASSUME In(u, Reading, loc[u].b) PROVE Grows(loc[u].b)
        OBVIOUS
      <4>1. Top(loc[u].b) = size[loc[u].b]
        BY <1>1, <3>2, TopIs
      <4>2. FilledOK
        BY DEF HashtabInv
      <4>3. QED
        BY <1>1, <3>2, <4>1, <4>2, SameGrows
    <3>4. size' \in [Buckets -> 0..NChunks * NPairs]
      BY <1>1 DEF TypesOK
    <3>5. QED
      BY <3>1, <3>2, <3>3, <3>4, OthersKeep
  <2>3. QED
    BY <2>1, <2>2
<1>9. QED
  BY <1>4, <1>5, <1>6, <1>7, <1>8 DEF HashtabInv

-----------------------------------------------------------------------------
(* Searches and insert_lock. *)

(* What an action on the locals of t does to the control of the threads. *)
LEMMA Steps ==
    ASSUME TypesOK, NEW t \in Threads, NEW p \in Pcs \cup {"oob"}, Goto(t, p), NEW l \in LocType,
           loc' = [loc EXCEPT ![t] = l]
    PROVE  /\ Alone(t) /\ pc'[t] = p /\ loc'[t] = l
           /\ pc' \in [Threads -> Pcs \cup {"oob"}] /\ loc' \in [Threads -> LocType]
BY Control, Locals DEF Alone

(* What a search has passed stays passed while the table is not written to. *)
LEMMA NoneBeforeView ==
    ASSUME NEW t \in Threads, NEW n, UNCHANGED <<size, head, next, pairs>>,
           loc'[t].b = loc[t].b, loc'[t].call = loc[t].call, NoneBefore(t, n)
    PROVE  \A i \in 0..n - 1 : ~Matches(t, PairAt(loc[t].b, i).key)'
<1> SUFFICES ASSUME NEW i \in 0..n - 1 PROVE ~Matches(t, PairAt(loc[t].b, i).key)'
  OBVIOUS
<1>1. PairAt(loc[t].b, i)' = PairAt(loc[t].b, i)
  <2>1. \A b : PairAt(b, i)' = PairAt(b, i)
    BY ViewSame
  <2>2. QED
    BY <2>1
<1>2. ~Matches(t, PairAt(loc[t].b, i).key)
  BY DEF NoneBefore
<1>3. QED
  BY <1>1, <1>2 DEF Matches

(* A search that loads another size goes on from where it stands. *)
LEMMA SearchFrom ==
    ASSUME HashtabInv, NEW t \in Threads, UNCHANGED <<size, head, next, pairs>>,
           pc[t] \in Searching, pc'[t] \in Searching,
           NEW cur \in Nat, loc'[t] = [loc[t] EXCEPT !.cur = cur],
           loc[t].i <= cur, cur <= size[loc[t].b],
           pc'[t] = "lscan" => cur = size[loc[t].b]
    PROVE  SearchOK(t)'
<1>1. TypesOK /\ SearchOK(t) /\ loc[t] \in LocType
  BY InTheBucket DEF HashtabInv
<1>2. /\ NoneBefore(t, loc[t].i)
      /\ loc[t].j \in 0..NPairs /\ (loc[t].j = 0 => loc[t].i = 0)
  BY <1>1 DEF SearchOK
<1>3. PICK m \in 0..NChunks : AtCell(loc[t], m)
  BY <1>1 DEF SearchOK
<1>4. /\ loc'[t].i = loc[t].i /\ loc'[t].j = loc[t].j /\ loc'[t].at = loc[t].at /\ loc'[t].b = loc[t].b
      /\ loc'[t].call = loc[t].call /\ loc'[t].cur = cur
  BY <1>1 DEF LocType
<1>5. \A i \in 0..loc[t].i - 1 : ~Matches(t, PairAt(loc[t].b, i).key)'
  BY <1>2, <1>4, NoneBeforeView
<1>6. NoneBefore(t, loc[t].i)'
  BY <1>4, <1>5 DEF NoneBefore
<1>7. AtCell(loc[t], m)'
  <2>1. \A b : Cell(b, m)' = Cell(b, m)
    BY ViewSame DEF Cell
  <2>2. QED
    BY <1>3, <1>4, <2>1 DEF AtCell
<1>8. size' = size /\ pc'[t] \notin {"write", "publish", "iunlock", "read"}
  BY DEF Searching
<1>9. QED
  BY <1>2, <1>4, <1>6, <1>7, <1>8 DEF SearchOK

(* The four loads of a size, whichever part of the search they begin. *)
LEMMA LoadSizeStep ==
    ASSUME HashtabInv, NEW t \in Threads, NEW p \in Searching \cup {"runlock"}, LoadSize(t, p),
           pc[t] \in Searching, (p \in Inserting) = (pc[t] \in Inserting),
           p \in Inserting \cup {"trylock", "rescan"} => Op(t) = "insert",
           p # "reload"
    PROVE  HashtabInv'
<1> DEFINE l == [loc[t] EXCEPT !.cur = size[loc[t].b]]
<1>1. /\ loc' = [loc EXCEPT ![t] = l] /\ Goto(t, p)
      /\ UNCHANGED <<size, head, insertLock, readers, writers, next, pairs, freeList, allocated, alive, calls, result>>
  BY DEF LoadSize, lockVars, chunkVars
<1>2. TypesOK /\ LocksOK /\ CallOK(t) /\ SearchOK(t) /\ loc[t] \in LocType /\ loc[t].b \in Buckets
  BY InTheBucket DEF HashtabInv, CallsOK
<1>3. size[loc[t].b] \in Nat
  BY <1>2, TopType DEF HashtabInv
<1>4. l \in LocType
  BY <1>2, <1>3 DEF LocType
<1>5. p \in Pcs
  BY DEF Searching, Pcs, ScanPcs
<1>6. TypesOK'
  BY <1>2, <1>5, LoadSizeTypes
<1>7. Alone(t) /\ pc'[t] = p /\ loc'[t] = l
  BY <1>1, <1>2, <1>4, <1>5, Steps
<1>8. l.b = loc[t].b /\ l.call = loc[t].call /\ l.id = loc[t].id
  BY <1>2 DEF LocType
<1>9. LocksOK'
  <2>1. pc[t] \in Reading /\ p \in Reading /\ pc[t] \notin Removing /\ p \notin Removing
    BY DEF Reading, Searching, Removing
  <2>2. \A b \in Buckets : /\ In(t, Reading, b)' <=> In(t, Reading, b)
                           /\ In(t, Removing, b)' <=> In(t, Removing, b)
                           /\ In(t, Inserting, b)' <=> In(t, Inserting, b)
    BY <1>7, <1>8, <2>1 DEF In
  <2>3. QED
    BY <1>1, <1>2, <1>7, <2>2, LocksSame
<1>10. Op(t)' = Op(t) /\ loc'[t].call = loc[t].call
  BY <1>7, <1>8 DEF Op
<1>11. CallOK(t)'
  BY <1>1, <1>2, <1>7, <1>8, <1>10 DEF CallOK, Reading, Searching, Removing, Inserting
<1>12. RemoveOK(t)'
  BY <1>7 DEF RemoveOK, Searching
<1>13. SearchOK(t)'
  <2>1. CASE p = "runlock"
    BY <1>7, <2>1 DEF SearchOK, Searching
  <2>2. CASE p # "runlock"
    <3>1. p \in Searching /\ loc[t].i <= size[loc[t].b]
      <4>1. loc[t].i <= loc[t].cur /\ loc[t].cur <= size[loc[t].b] /\ loc[t].i \in Nat /\ loc[t].cur \in Nat
        BY <1>2 DEF SearchOK, LocType
      <4>2. QED
        BY <1>3, <2>2, <4>1
    <3>2. size[loc[t].b] <= size[loc[t].b]
      BY <1>3
    <3>3. QED
      BY <1>1, <1>3, <1>7, <3>1, <3>2, SearchFrom
  <2>3. QED
    BY <2>1, <2>2
<1>14. p \notin {"idle", "move", "oob", "publish", "release", "shrink"} /\ pc[t] \notin {"idle", "move", "oob", "publish", "release", "shrink"}
       /\ pc[t] \in Unpublished
  BY DEF Searching, Unpublished
<1>15. QED
  BY <1>1, <1>6, <1>7, <1>8, <1>9, <1>10, <1>11, <1>12, <1>13, <1>14, QuietStep

(* The first load of the size. *)
LEMMA LoadInv == ASSUME HashtabInv, NEW t \in Threads, Load(t) PROVE HashtabInv'
BY LoadSizeStep DEF Load, Searching, Inserting

(* The end of the search without a lock: again, return, or on to insert_lock. *)
LEMMA EndScanInv == ASSUME HashtabInv, NEW t \in Threads, EndScan(t) PROVE HashtabInv'
<1>1. CallOK(t) /\ pc[t] = "scan"
  BY DEF HashtabInv, CallsOK, EndScan, ScanDone
<1>2. Op(t) \in {"get", "insert"}
  BY <1>1 DEF CallOK, Reading, Searching
<1>3. PICK p \in {"scan", "runlock", "trylock"} : LoadSize(t, p) /\ (p = "trylock" => Op(t) = "insert")
  <2>1. LoadSize(t, IF size[loc[t].b] > loc[t].cur THEN "scan"
                    ELSE IF Op(t) = "get" THEN "runlock" ELSE "trylock")
    BY DEF EndScan
  <2>2. QED
    BY <1>2, <2>1
<1>4. QED
  BY <1>1, <1>3, LoadSizeStep DEF Searching, Inserting

(* The load after a failed try of insert_lock. *)
LEMMA ReloadInv == ASSUME HashtabInv, NEW t \in Threads, Reload(t) PROVE HashtabInv'
<1>1. CallOK(t) /\ pc[t] = "reload" /\ LoadSize(t, "rescan")
  BY DEF HashtabInv, CallsOK, Reload
<1>2. Op(t) = "insert"
  BY <1>1 DEF CallOK
<1>3. QED
  BY <1>1, <1>2, LoadSizeStep DEF Searching, Inserting

(* The load under insert_lock: from now on the size is that of the bucket. *)
LEMMA LockedLoadInv == ASSUME HashtabInv, NEW t \in Threads, LockedLoad(t) PROVE HashtabInv'
<1>1. CallOK(t) /\ pc[t] = "lockedload" /\ LoadSize(t, "lscan")
  BY DEF HashtabInv, CallsOK, LockedLoad
<1>2. Op(t) = "insert"
  BY <1>1 DEF CallOK, Inserting
<1>3. QED
  BY <1>1, <1>2, LoadSizeStep DEF Searching, Inserting

(* A step of one thread that writes none of its locals. *)
LEMMA StepsStay ==
    ASSUME TypesOK, NEW t \in Threads, NEW p \in Pcs \cup {"oob"}, Goto(t, p), loc' = loc
    PROVE  /\ Alone(t) /\ pc'[t] = p /\ loc'[t] = loc[t] /\ Op(t)' = Op(t)
           /\ pc' \in [Threads -> Pcs \cup {"oob"}] /\ loc' \in [Threads -> LocType]
BY Control DEF Alone, Op, TypesOK

(* A step that keeps t in a lock's section does so for every bucket. *)
LEMMA SameSections ==
    ASSUME NEW t \in Threads, loc'[t].b = loc[t].b,
           (pc'[t] \in Reading) = (pc[t] \in Reading),
           (pc'[t] \in Removing) = (pc[t] \in Removing),
           (pc'[t] \in Inserting) = (pc[t] \in Inserting)
    PROVE  \A b \in Buckets : /\ In(t, Reading, b)' <=> In(t, Reading, b)
                              /\ In(t, Removing, b)' <=> In(t, Removing, b)
                              /\ In(t, Inserting, b)' <=> In(t, Inserting, b)
BY DEF In

(* SearchOK after a step within the search that writes no local. *)
LEMMA SearchStays ==
    ASSUME HashtabInv, NEW t \in Threads, UNCHANGED <<size, head, next, pairs>>,
           pc[t] \in Searching, pc'[t] \in Searching \ {"lscan"}, loc'[t] = loc[t]
    PROVE  SearchOK(t)'
<1>1. loc[t] \in LocType /\ SearchOK(t)
  BY InTheBucket DEF HashtabInv
<1>2. loc'[t] = [loc[t] EXCEPT !.cur = loc[t].cur] /\ loc[t].cur \in Nat
  BY <1>1 DEF LocType
<1>3. loc[t].i <= loc[t].cur /\ loc[t].cur <= size[loc[t].b]
  BY <1>1 DEF SearchOK
<1>4. pc'[t] # "lscan" /\ pc'[t] \in Searching
  OBVIOUS
<1>5. QED
  BY <1>2, <1>3, <1>4, SearchFrom

(* The end of the search between two tries of insert_lock. *)
LEMMA EndRescanInv == ASSUME HashtabInv, NEW t \in Threads, EndRescan(t) PROVE HashtabInv'
<1>1. /\ pc[t] = "rescan" /\ Goto(t, "trylock") /\ loc' = loc
      /\ UNCHANGED <<size, head, insertLock, readers, writers, next, pairs, freeList, allocated, alive, calls, result>>
  BY DEF EndRescan, ScanDone, lockVars, chunkVars
<1>2. TypesOK /\ LocksOK /\ CallOK(t)
  BY DEF HashtabInv, CallsOK
<1>3. /\ Alone(t) /\ pc'[t] = "trylock" /\ loc'[t] = loc[t] /\ Op(t)' = Op(t)
      /\ pc' \in [Threads -> Pcs \cup {"oob"}] /\ loc' \in [Threads -> LocType]
  BY <1>1, <1>2, StepsStay DEF Pcs
<1>4. TypesOK'
  BY <1>1, <1>2, <1>3 DEF TypesOK
<1>5. LocksOK'
  <2>1. \A b \in Buckets : /\ In(t, Reading, b)' <=> In(t, Reading, b)
                           /\ In(t, Removing, b)' <=> In(t, Removing, b)
                           /\ In(t, Inserting, b)' <=> In(t, Inserting, b)
    BY <1>1, <1>3, SameSections DEF Reading, Searching, Removing, Inserting
  <2>2. QED
    BY <1>1, <1>2, <1>3, <2>1, LocksSame
<1>6. CallOK(t)'
  BY <1>1, <1>2, <1>3 DEF CallOK, Reading, Searching, Removing, Inserting
<1>7. SearchOK(t)'
  BY <1>1, <1>3, SearchStays DEF Searching
<1>8. RemoveOK(t)'
  BY <1>3 DEF RemoveOK
<1>9. QED
  BY <1>1, <1>3, <1>4, <1>5, <1>6, <1>7, <1>8, QuietStep DEF Unpublished, Searching

(* A try of insert_lock, successful or not. *)
LEMMA TryLockInv == ASSUME HashtabInv, NEW t \in Threads, TryLock(t) PROVE HashtabInv'
<1>1. /\ pc[t] = "trylock" /\ loc' = loc
      /\ UNCHANGED <<size, head, readers, writers, next, pairs, freeList, allocated, alive, calls, result>>
  BY DEF TryLock, chunkVars
<1>2. TypesOK /\ LocksOK /\ CallOK(t) /\ loc[t].b \in Buckets
  BY InTheBucket DEF HashtabInv, CallsOK
<1>3. PICK p \in {"lockedload", "reload"} :
        /\ Goto(t, p)
        /\ p = "lockedload" => insertLock[loc[t].b] = NoThread /\ insertLock' = [insertLock EXCEPT ![loc[t].b] = t]
        /\ p = "reload" => insertLock' = insertLock
  BY DEF TryLock
<1>4. /\ Alone(t) /\ pc'[t] = p /\ loc'[t] = loc[t] /\ Op(t)' = Op(t)
      /\ pc' \in [Threads -> Pcs \cup {"oob"}] /\ loc' \in [Threads -> LocType]
  BY <1>1, <1>2, <1>3, StepsStay DEF Pcs
<1>5. TypesOK'
  <2>1. insertLock' \in [Buckets -> Threads \cup {NoThread}]
    BY <1>2, <1>3 DEF TypesOK
  <2>2. QED
    BY <1>1, <1>2, <1>4, <2>1 DEF TypesOK
<1>6. LocksOK'
  <2>1. ASSUME NEW u \in Threads, NEW b \in Buckets
        PROVE  /\ In(u, Reading, b)' <=> In(u, Reading, b)
               /\ In(u, Removing, b)' <=> In(u, Removing, b)
               /\ u # t \/ b # loc[t].b \/ p = "reload" => (In(u, Inserting, b)' <=> In(u, Inserting, b))
    BY <1>1, <1>3, <1>4 DEF In, Alone, Reading, Searching, Removing, Inserting
  <2>2. p = "lockedload" => \A b \in Buckets : b = loc[t].b => In(t, Inserting, b)'
    BY <1>4 DEF In, Inserting
  <2>3. ASSUME NEW u \in Threads, NEW b \in Buckets
        PROVE  insertLock'[b] = u <=> In(u, Inserting, b)'
    <3>0. insertLock[b] = u <=> In(u, Inserting, b)
      BY <1>2 DEF LocksOK
    <3>1. CASE p = "reload"
      BY <1>3, <2>1, <3>0, <3>1
    <3>2. CASE p = "lockedload" /\ b # loc[t].b
      BY <1>2, <1>3, <2>1, <3>0, <3>2 DEF TypesOK
    <3>3. CASE p = "lockedload" /\ b = loc[t].b /\ u = t
      <4>1. insertLock'[b] = t
        BY <1>2, <1>3, <3>3 DEF TypesOK
      <4>2. QED
        BY <2>2, <3>3, <4>1
    <3>4. CASE p = "lockedload" /\ b = loc[t].b /\ u # t
      <4>1. insertLock'[b] = t /\ ~In(u, Inserting, b)
        BY <1>2, <1>3, <3>0, <3>4, HashtabAssumption DEF TypesOK
      <4>2. QED
        BY <2>1, <3>4, <4>1
    <3>5. QED
      BY <1>3, <3>1, <3>2, <3>3, <3>4
  <2>4. QED
    BY <1>1, <1>2, <2>1, <2>3 DEF LocksOK
<1>7. CallOK(t)'
  BY <1>1, <1>2, <1>4 DEF CallOK, Reading, Searching, Removing, Inserting
<1>8. SearchOK(t)'
  BY <1>1, <1>4, SearchStays DEF Searching
<1>9. RemoveOK(t)'
  BY <1>4 DEF RemoveOK
<1>10. QED
  BY <1>1, <1>4, <1>5, <1>6, <1>7, <1>8, <1>9, QuietStep DEF Unpublished, Searching

(* The release of insert_lock. *)
LEMMA IUnlockInv == ASSUME HashtabInv, NEW t \in Threads, IUnlock(t) PROVE HashtabInv'
<1>1. /\ pc[t] = "iunlock" /\ loc' = loc /\ Goto(t, "read")
      /\ insertLock' = [insertLock EXCEPT ![loc[t].b] = NoThread]
      /\ UNCHANGED <<size, head, readers, writers, next, pairs, freeList, allocated, alive, calls, result>>
  BY DEF IUnlock, chunkVars
<1>2. TypesOK /\ LocksOK /\ CallOK(t) /\ SearchOK(t) /\ loc[t].b \in Buckets
  BY InTheBucket DEF HashtabInv, CallsOK
<1>4. /\ Alone(t) /\ pc'[t] = "read" /\ loc'[t] = loc[t] /\ Op(t)' = Op(t)
      /\ pc' \in [Threads -> Pcs \cup {"oob"}] /\ loc' \in [Threads -> LocType]
  BY <1>1, <1>2, StepsStay DEF Pcs
<1>5. TypesOK'
  <2>1. insertLock' \in [Buckets -> Threads \cup {NoThread}]
    BY <1>1, <1>2 DEF TypesOK
  <2>2. QED
    BY <1>1, <1>2, <1>4, <2>1 DEF TypesOK
<1>6. LocksOK'
  <2>1. ASSUME NEW u \in Threads, NEW b \in Buckets
        PROVE  /\ In(u, Reading, b)' <=> In(u, Reading, b)
               /\ In(u, Removing, b)' <=> In(u, Removing, b)
               /\ u # t \/ b # loc[t].b => (In(u, Inserting, b)' <=> In(u, Inserting, b))
    BY <1>1, <1>4 DEF In, Alone, Reading, Searching, Removing, Inserting
  <2>2. (\A b \in Buckets : ~In(t, Inserting, b)') /\ In(t, Inserting, loc[t].b)
    BY <1>1, <1>4 DEF In, Inserting
  <2>3. ASSUME NEW u \in Threads, NEW b \in Buckets
        PROVE  insertLock'[b] = u <=> In(u, Inserting, b)'
    <3>0. insertLock[b] = u <=> In(u, Inserting, b)
      BY <1>2 DEF LocksOK
    <3>2. CASE b # loc[t].b
      BY <1>1, <1>2, <2>1, <3>0, <3>2 DEF TypesOK
    <3>3. CASE b = loc[t].b
      <4>1. insertLock'[b] # u /\ insertLock[b] = t
        BY <1>1, <1>2, <2>2, <3>3, HashtabAssumption DEF TypesOK, LocksOK
      <4>2. QED
        BY <2>1, <2>2, <3>0, <3>3, <4>1
    <3>5. QED
      BY <3>2, <3>3
  <2>4. QED
    BY <1>1, <1>2, <2>1, <2>3 DEF LocksOK
<1>7. CallOK(t)'
  BY <1>1, <1>2, <1>4 DEF CallOK, Reading, Searching, Removing, Inserting
<1>8. SearchOK(t)'
  <2>1. /\ loc[t].i < size[loc[t].b] /\ Matches(t, PairAt(loc[t].b, loc[t].i).key)
        /\ loc[t].j \in Slots /\ \E m \in 0..NChunks : AtCell(loc[t], m)
    BY <1>1, <1>2 DEF SearchOK
  <2>2. PairAt(loc[t].b, loc[t].i)' = PairAt(loc[t].b, loc[t].i)
    <3>1. \A b, i : PairAt(b, i)' = PairAt(b, i)
      BY <1>1, ViewSame
    <3>2. QED
      BY <1>4, <3>1
  <2>3. Matches(t, PairAt(loc[t].b, loc[t].i).key)'
    BY <1>4, <2>1, <2>2 DEF Matches
  <2>4. \A m : AtCell(loc[t], m)' <=> AtCell(loc[t], m)
    BY <1>1, <1>4, ViewSame DEF AtCell, Cell
  <2>5. QED
    BY <1>1, <1>4, <2>1, <2>3, <2>4 DEF SearchOK, Searching
<1>9. RemoveOK(t)'
  BY <1>4 DEF RemoveOK
<1>10. QED
  BY <1>1, <1>4, <1>5, <1>6, <1>7, <1>8, <1>9, QuietStep DEF Unpublished, Searching

(* The value is read, after insert_lock has been released. *)
LEMMA ReadValueInv == ASSUME HashtabInv, NEW t \in Threads, ReadValue(t) PROVE HashtabInv'
<1>1. /\ pc[t] = "read" /\ loc' = loc /\ Goto(t, "runlock")
      /\ result' = [result EXCEPT ![t] = pairs[Deref(loc[t].b, loc[t].at)][loc[t].j].val]
      /\ UNCHANGED <<size, head, insertLock, readers, writers, next, pairs, freeList, allocated, alive, calls>>
  BY DEF ReadValue, lockVars, chunkVars
<1>2. TypesOK /\ LocksOK /\ ChunksApart /\ FilledOK /\ CallOK(t) /\ SearchOK(t) /\ loc[t].b \in Buckets /\ In(t, Reading, loc[t].b)
  BY <1>1, InTheBucket DEF HashtabInv, CallsOK, Reading
<1>4. /\ Alone(t) /\ pc'[t] = "runlock" /\ loc'[t] = loc[t] /\ Op(t)' = Op(t)
      /\ pc' \in [Threads -> Pcs \cup {"oob"}] /\ loc' \in [Threads -> LocType]
  BY <1>1, <1>2, StepsStay DEF Pcs
<1>5. TypesOK'
  <2>1. Deref(loc[t].b, loc[t].at) \in Chunks /\ loc[t].j \in Slots
    <3>1. PICK m \in 0..NChunks : AtCell(loc[t], m)
      BY <1>1, <1>2 DEF SearchOK
    <3>2. loc[t].j \in Slots /\ loc[t].i < size[loc[t].b]
      BY <1>1, <1>2 DEF SearchOK
    <3>3. Deref(loc[t].b, loc[t].at) = Chain(loc[t].b)[m]
      <4>1. loc[t].at = Cell(loc[t].b, m) /\ (m > 0 => Cell(loc[t].b, m) # Null)
        BY <3>1 DEF AtCell
      <4>2. QED
        BY <1>2, <4>1, CellChunk
    <3>4. m * NPairs < Top(loc[t].b)
      <4>1. m * NPairs \in Nat
        BY Rows, HashtabAssumption
      <4>2. loc[t].i = m * NPairs + loc[t].j
        BY <3>1 DEF AtCell
      <4>3. Top(loc[t].b) = size[loc[t].b] /\ size[loc[t].b] \in Nat
        BY <1>2, TopIs, TopType DEF HashtabInv
      <4>4. QED
        BY <3>2, <4>1, <4>2, <4>3, HashtabAssumption DEF Slots
    <3>5. Chain(loc[t].b)[m] # Null
      BY <1>2, <3>4 DEF FilledOK
    <3>6. QED
      <4>1. Chain(loc[t].b) \in [0..NChunks -> Chunks \cup {Null}]
        BY <1>2, Chains
      <4>2. Chain(loc[t].b)[m] \in Chunks
        BY <3>5, <4>1
      <4>3. QED
        BY <3>2, <3>3, <4>2
  <2>2. result' \in [Threads -> Values \cup {None}]
    BY <1>1, <1>2, <2>1 DEF TypesOK
  <2>3. QED
    BY <1>1, <1>2, <1>4, <2>2 DEF TypesOK
<1>6. LocksOK'
  <2>1. \A b \in Buckets : /\ In(t, Reading, b)' <=> In(t, Reading, b)
                           /\ In(t, Removing, b)' <=> In(t, Removing, b)
                           /\ In(t, Inserting, b)' <=> In(t, Inserting, b)
    BY <1>1, <1>4, SameSections DEF Reading, Searching, Removing, Inserting
  <2>2. QED
    BY <1>1, <1>2, <1>4, <2>1, LocksSame
<1>7. CallOK(t)'
  BY <1>1, <1>2, <1>4 DEF CallOK, Reading, Searching, Removing, Inserting
<1>8. SearchOK(t)' /\ RemoveOK(t)'
  BY <1>4 DEF SearchOK, RemoveOK, Searching
<1>10. QED
  BY <1>1, <1>4, <1>5, <1>6, <1>7, <1>8, QuietStep DEF Unpublished, Searching

-----------------------------------------------------------------------------
(* The bucket's reader-writer lock; calls begin and end. *)

(* The bucket's reader lock is taken. *)
LEMMA RLockInv == ASSUME HashtabInv, NEW t \in Threads, RLock(t) PROVE HashtabInv'
<1>1. /\ pc[t] = "rlock" /\ loc' = loc /\ Goto(t, "load") /\ writers[loc[t].b] = {}
      /\ readers' = [readers EXCEPT ![loc[t].b] = @ \cup {t}]
      /\ UNCHANGED <<size, head, insertLock, writers, next, pairs, freeList, allocated, alive, calls, result>>
  BY DEF RLock, chunkVars
<1>2. TypesOK /\ LocksOK /\ CallOK(t) /\ loc[t].b \in Buckets /\ loc[t] \in LocType
  BY InTheBucket DEF HashtabInv, CallsOK
<1>4. /\ Alone(t) /\ pc'[t] = "load" /\ loc'[t] = loc[t] /\ Op(t)' = Op(t)
      /\ pc' \in [Threads -> Pcs \cup {"oob"}] /\ loc' \in [Threads -> LocType]
  BY <1>1, <1>2, StepsStay DEF Pcs
<1>5. TypesOK'
  <2>1. readers' \in [Buckets -> SUBSET Threads]
    BY <1>1, <1>2 DEF TypesOK
  <2>2. QED
    BY <1>1, <1>2, <1>4, <2>1 DEF TypesOK
<1>6. LocksOK'
  <2>1. ASSUME NEW u \in Threads, NEW b \in Buckets
        PROVE  /\ In(u, Inserting, b)' <=> In(u, Inserting, b)
               /\ In(u, Removing, b)' <=> In(u, Removing, b)
               /\ u # t \/ b # loc[t].b => (In(u, Reading, b)' <=> In(u, Reading, b))
    BY <1>1, <1>4 DEF In, Alone, Reading, Searching, Removing, Inserting
  <2>2. \A b \in Buckets : b = loc[t].b => In(t, Reading, b)'
    BY <1>4 DEF In, Reading, Searching
  <2>3. \A b \in Buckets : readers'[b] = IF b = loc[t].b THEN readers[b] \cup {t} ELSE readers[b]
    BY <1>1, <1>2 DEF TypesOK
  <2>4. ASSUME NEW u \in Threads, NEW b \in Buckets
        PROVE  u \in readers'[b] <=> In(u, Reading, b)'
    <3>0. u \in readers[b] <=> In(u, Reading, b)
      BY <1>2 DEF LocksOK
    <3>1. CASE b # loc[t].b
      BY <2>1, <2>3, <3>0, <3>1
    <3>2. CASE b = loc[t].b /\ u = t
      BY <2>2, <2>3, <3>2
    <3>3. CASE b = loc[t].b /\ u # t
      BY <2>1, <2>3, <3>0, <3>3
    <3>4. QED
      BY <3>1, <3>2, <3>3
  <2>5. ASSUME NEW b \in Buckets, NEW u \in writers[b]
        PROVE  readers'[b] = {} /\ writers[b] = {u}
    BY <1>1, <1>2, <2>3 DEF LocksOK
  <2>6. QED
    BY <1>1, <1>2, <2>1, <2>4, <2>5 DEF LocksOK
<1>7. CallOK(t)'
  BY <1>1, <1>2, <1>4 DEF CallOK, Reading, Searching, Removing, Inserting
<1>8. SearchOK(t)'
  <2>1. loc[t].cur = 0 /\ loc[t].i = 0 /\ loc[t].j = 0 /\ loc[t].at = Null
    BY <1>1, <1>2 DEF CallOK
  <2>2. size[loc[t].b] \in Nat
    BY <1>2, TopType DEF HashtabInv
  <2>3. AtCell(loc[t], 0)' /\ 0 \in 0..NChunks
    BY <1>4, <2>1, HashtabAssumption DEF AtCell, Cell
  <2>4. NoneBefore(t, 0)'
    BY DEF NoneBefore
  <2>5. loc'[t].i <= loc'[t].cur /\ loc'[t].cur <= size'[loc'[t].b] /\ NoneBefore(t, loc[t].i)'
    BY <1>1, <1>4, <2>1, <2>2, <2>4
  <2>6. loc'[t].j \in 0..NPairs
    BY <1>4, <2>1, HashtabAssumption
  <2>7. \E m \in 0..NChunks : AtCell(loc[t], m)'
    BY <2>3
  <2>8. QED
    BY <1>4, <2>1, <2>5, <2>6, <2>7 DEF SearchOK
<1>9. RemoveOK(t)'
  BY <1>4 DEF RemoveOK
<1>10. QED
  BY <1>1, <1>4, <1>5, <1>6, <1>7, <1>8, <1>9, QuietStep DEF Unpublished, Searching

(* A thread that has left its call knows nothing. *)
LEMMA LeaveStep ==
    ASSUME TypesOK, NEW t \in Threads, Leave(t)
    PROVE  /\ Alone(t) /\ pc'[t] = "idle" /\ loc'[t] = NoLoc
           /\ pc' \in [Threads -> Pcs \cup {"oob"}] /\ loc' \in [Threads -> LocType]
           /\ result' \in [Threads -> Values \cup {None}]
           /\ CallOK(t)' /\ SearchOK(t)' /\ RemoveOK(t)'
<1>1. NoLoc \in LocType
  BY HashtabAssumption DEF NoLoc, LocType, Buckets
<1>2. /\ Alone(t) /\ pc'[t] = "idle" /\ loc'[t] = NoLoc
      /\ pc' \in [Threads -> Pcs \cup {"oob"}] /\ loc' \in [Threads -> LocType]
  <2>1. Goto(t, "idle") /\ loc' = [loc EXCEPT ![t] = NoLoc] /\ "idle" \in Pcs
    BY DEF Leave, Pcs
  <2>2. QED
    BY <1>1, <2>1, Steps
<1>3. result' \in [Threads -> Values \cup {None}]
  BY DEF Leave, TypesOK
<1>4. QED
  BY <1>2, <1>3 DEF CallOK, SearchOK, RemoveOK, Reading, Searching, Removing, Inserting

(* The bucket's reader lock is released and the call returns. *)
LEMMA RUnlockInv == ASSUME HashtabInv, NEW t \in Threads, RUnlock(t) PROVE HashtabInv'
<1>1. /\ pc[t] = "runlock" /\ Leave(t)
      /\ readers' = [readers EXCEPT ![loc[t].b] = @ \ {t}]
      /\ UNCHANGED <<size, head, insertLock, writers, next, pairs, freeList, allocated, alive, calls>>
  BY DEF RUnlock, chunkVars
<1>2. TypesOK /\ LocksOK /\ loc[t].b \in Buckets /\ loc[t] \in LocType
  BY InTheBucket DEF HashtabInv, CallsOK
<1>4. /\ Alone(t) /\ pc'[t] = "idle" /\ loc'[t] = NoLoc
      /\ pc' \in [Threads -> Pcs \cup {"oob"}] /\ loc' \in [Threads -> LocType]
      /\ result' \in [Threads -> Values \cup {None}]
      /\ CallOK(t)' /\ SearchOK(t)' /\ RemoveOK(t)'
  BY <1>1, <1>2, LeaveStep
<1>5. TypesOK'
  <2>1. readers' \in [Buckets -> SUBSET Threads]
    BY <1>1, <1>2 DEF TypesOK
  <2>2. QED
    BY <1>1, <1>2, <1>4, <2>1 DEF TypesOK
<1>6. LocksOK'
  <2>1. ASSUME NEW u \in Threads, NEW b \in Buckets
        PROVE  /\ In(u, Inserting, b)' <=> In(u, Inserting, b)
               /\ In(u, Removing, b)' <=> In(u, Removing, b)
               /\ u # t => (In(u, Reading, b)' <=> In(u, Reading, b))
    BY <1>1, <1>4 DEF In, Alone, Reading, Searching, Removing, Inserting
  <2>2. \A b \in Buckets : ~In(t, Reading, b)'
    BY <1>4 DEF In, Reading, Searching
  <2>3. \A b \in Buckets : readers'[b] = IF b = loc[t].b THEN readers[b] \ {t} ELSE readers[b]
    BY <1>1, <1>2 DEF TypesOK
  <2>4. ASSUME NEW u \in Threads, NEW b \in Buckets
        PROVE  u \in readers'[b] <=> In(u, Reading, b)'
    <3>0. u \in readers[b] <=> In(u, Reading, b)
      BY <1>2 DEF LocksOK
    <3>1. CASE u # t
      BY <2>1, <2>3, <3>0, <3>1
    <3>2. CASE u = t
      <4>1. b # loc[t].b => t \notin readers[b]
        BY <3>0, <3>2 DEF In
      <4>2. QED
        BY <2>2, <2>3, <3>2, <4>1
    <3>4. QED
      BY <3>1, <3>2
  <2>5. ASSUME NEW b \in Buckets, NEW u \in writers[b]
        PROVE  readers'[b] = {} /\ writers[b] = {u}
    BY <1>1, <1>2, <2>3 DEF LocksOK
  <2>6. QED
    BY <1>1, <1>2, <2>1, <2>4, <2>5 DEF LocksOK
<1>10. QED
  BY <1>1, <1>4, <1>5, <1>6, QuietStep DEF Unpublished, Searching

(* The bucket's writer lock is taken: no thread reads the bucket, none is
   removing. *)
LEMMA WLockInv == ASSUME HashtabInv, NEW t \in Threads, WLock(t) PROVE HashtabInv'
<1>1. /\ pc[t] = "wlock" /\ loc' = loc /\ readers[loc[t].b] = {} /\ writers[loc[t].b] = {}
      /\ writers' = [writers EXCEPT ![loc[t].b] = {t}]
      /\ UNCHANGED <<size, head, insertLock, readers, next, pairs, freeList, allocated, alive, calls, result>>
  BY DEF WLock, chunkVars
<1>2. TypesOK /\ LocksOK /\ CallOK(t) /\ loc[t].b \in Buckets /\ loc[t] \in LocType
  BY InTheBucket DEF HashtabInv, CallsOK
<1>3. PICK p \in {"ifload", "search"} : Goto(t, p) /\ (p = "ifload" <=> Op(t) = "remove_if")
  BY DEF WLock
<1>4. /\ Alone(t) /\ pc'[t] = p /\ loc'[t] = loc[t] /\ Op(t)' = Op(t)
      /\ pc' \in [Threads -> Pcs \cup {"oob"}] /\ loc' \in [Threads -> LocType]
  BY <1>1, <1>2, <1>3, StepsStay DEF Pcs
<1>5. TypesOK'
  <2>1. writers' \in [Buckets -> SUBSET Threads]
    BY <1>1, <1>2 DEF TypesOK
  <2>2. QED
    BY <1>1, <1>2, <1>4, <2>1 DEF TypesOK
<1>6. LocksOK'
  <2>1. ASSUME NEW u \in Threads, NEW b \in Buckets
        PROVE  /\ In(u, Inserting, b)' <=> In(u, Inserting, b)
               /\ In(u, Reading, b)' <=> In(u, Reading, b)
               /\ u # t \/ b # loc[t].b => (In(u, Removing, b)' <=> In(u, Removing, b))
    BY <1>1, <1>3, <1>4 DEF In, Alone, Reading, Searching, Removing, Inserting
  <2>2. \A b \in Buckets : b = loc[t].b => In(t, Removing, b)'
    BY <1>4 DEF In, Removing
  <2>3. \A b \in Buckets : writers'[b] = IF b = loc[t].b THEN {t} ELSE writers[b]
    BY <1>1, <1>2 DEF TypesOK
  <2>4. ASSUME NEW u \in Threads, NEW b \in Buckets
        PROVE  u \in writers'[b] <=> In(u, Removing, b)'
    <3>0. u \in writers[b] <=> In(u, Removing, b)
      BY <1>2 DEF LocksOK
    <3>1. CASE b # loc[t].b
      BY <2>1, <2>3, <3>0, <3>1
    <3>2. CASE b = loc[t].b /\ u = t
      BY <2>2, <2>3, <3>2
    <3>3. CASE b = loc[t].b /\ u # t
      BY <1>1, <2>1, <2>3, <3>0, <3>3
    <3>4. QED
      BY <3>1, <3>2, <3>3
  <2>5. ASSUME NEW b \in Buckets, NEW u \in writers'[b]
        PROVE  readers[b] = {} /\ writers'[b] = {u}
    <3>1. CASE b = loc[t].b
      BY <1>1, <2>3, <2>5, <3>1
    <3>2. CASE b # loc[t].b
      BY <1>2, <2>3, <2>5, <3>2 DEF LocksOK
    <3>3. QED
      BY <3>1, <3>2
  <2>6. QED
    BY <1>1, <1>2, <2>1, <2>4, <2>5 DEF LocksOK
<1>7. CallOK(t)'
  BY <1>1, <1>2, <1>3, <1>4 DEF CallOK, Reading, Searching, Removing, Inserting
<1>8. SearchOK(t)' /\ RemoveOK(t)'
  BY <1>4 DEF SearchOK, RemoveOK, Searching
<1>10. QED
  BY <1>1, <1>4, <1>5, <1>6, <1>7, <1>8, QuietStep DEF Unpublished, Searching

(* The bucket's writer lock is released; remove_if goes on to the next
   bucket. *)
LEMMA WUnlockInv == ASSUME HashtabInv, NEW t \in Threads, WUnlock(t) PROVE HashtabInv'
<1>1. /\ pc[t] = "wunlock"
      /\ writers' = [writers EXCEPT ![loc[t].b] = @ \ {t}]
      /\ UNCHANGED <<size, head, insertLock, readers, next, pairs, freeList, allocated, alive, calls>>
  BY DEF WUnlock, chunkVars
<1>2. TypesOK /\ LocksOK /\ CallOK(t) /\ loc[t].b \in Buckets /\ loc[t] \in LocType
  BY InTheBucket DEF HashtabInv, CallsOK
<1>3. /\ Alone(t) /\ pc'[t] \in {"wlock", "idle"}
      /\ pc' \in [Threads -> Pcs \cup {"oob"}] /\ loc' \in [Threads -> LocType]
      /\ result' \in [Threads -> Values \cup {None}]
      /\ CallOK(t)' /\ SearchOK(t)' /\ RemoveOK(t)' /\ (pc'[t] # "idle" => Op(t)' = "remove_if")
  <2>1. CASE Op(t) = "remove_if" /\ loc[t].b + 1 \in Buckets
    <3> DEFINE l == [NoLoc EXCEPT !.call = loc[t].call, !.b = loc[t].b + 1]
    <3>1. Goto(t, "wlock") /\ loc' = [loc EXCEPT ![t] = l] /\ result' = result
      BY <2>1 DEF WUnlock
    <3>2. l \in LocType /\ l.call = loc[t].call /\ l.cur = 0 /\ l.i = 0 /\ l.j = 0 /\ l.at = Null /\ l.b = loc[t].b + 1
      BY <1>2, <2>1 DEF NoLoc, LocType
    <3>3. /\ Alone(t) /\ pc'[t] = "wlock" /\ loc'[t] = l
          /\ pc' \in [Threads -> Pcs \cup {"oob"}] /\ loc' \in [Threads -> LocType]
      BY <1>2, <3>1, <3>2, Steps DEF Pcs
    <3>4. Op(t)' = "remove_if"
      BY <2>1, <3>2, <3>3 DEF Op
    <3>5. CallOK(t)'
      <4>1. loc[t].call \in Calls
        BY <1>1, <1>2 DEF CallOK
      <4>2. loc'[t].cur = 0 /\ loc'[t].i = 0 /\ loc'[t].j = 0 /\ loc'[t].at = Null /\ loc'[t].call \in Calls
        BY <3>2, <3>3, <4>1
      <4>3. QED
        BY <3>3, <3>4, <4>2 DEF CallOK, Reading, Searching, Removing, Inserting
    <3>6. SearchOK(t)' /\ RemoveOK(t)'
      BY <3>3 DEF SearchOK, RemoveOK, Searching
    <3>7. QED
      BY <1>2, <3>1, <3>3, <3>4, <3>5, <3>6 DEF TypesOK
  <2>2. CASE ~(Op(t) = "remove_if" /\ loc[t].b + 1 \in Buckets)
    <3>1. Leave(t)
      BY <2>2 DEF WUnlock
    <3>2. QED
      BY <1>2, <3>1, LeaveStep
  <2>3. QED
    BY <2>1, <2>2
<1>5. TypesOK'
  <2>1. writers' \in [Buckets -> SUBSET Threads]
    BY <1>1, <1>2 DEF TypesOK
  <2>2. QED
    BY <1>1, <1>2, <1>3, <2>1 DEF TypesOK
<1>6. LocksOK'
  <2>1. ASSUME NEW u \in Threads, NEW b \in Buckets
        PROVE  /\ In(u, Inserting, b)' <=> In(u, Inserting, b)
               /\ In(u, Reading, b)' <=> In(u, Reading, b)
               /\ u # t => (In(u, Removing, b)' <=> In(u, Removing, b))
    BY <1>1, <1>3 DEF In, Alone, Reading, Searching, Removing, Inserting
  <2>2. \A b \in Buckets : ~In(t, Removing, b)'
    BY <1>3 DEF In, Removing
  <2>3. \A b \in Buckets : writers'[b] = IF b = loc[t].b THEN writers[b] \ {t} ELSE writers[b]
    BY <1>1, <1>2 DEF TypesOK
  <2>4. ASSUME NEW u \in Threads, NEW b \in Buckets
        PROVE  u \in writers'[b] <=> In(u, Removing, b)'
    <3>0. u \in writers[b] <=> In(u, Removing, b)
      BY <1>2 DEF LocksOK
    <3>1. CASE u # t
      BY <2>1, <2>3, <3>0, <3>1
    <3>2. CASE u = t
      <4>1. b # loc[t].b => t \notin writers[b]
        BY <3>0, <3>2 DEF In
      <4>2. QED
        BY <2>2, <2>3, <3>2, <4>1
    <3>4. QED
      BY <3>1, <3>2
  <2>5. ASSUME NEW b \in Buckets, NEW u \in writers'[b]
        PROVE  readers[b] = {} /\ writers'[b] = {u}
    <3>1. u \in writers[b]
      BY <2>3, <2>5
    <3>2. readers[b] = {} /\ writers[b] = {u}
      BY <1>2, <3>1 DEF LocksOK
    <3>3. QED
      BY <2>3, <2>5, <3>2
  <2>6. QED
    BY <1>1, <1>2, <2>1, <2>4, <2>5 DEF LocksOK
<1>10. QED
  BY <1>1, <1>3, <1>5, <1>6, QuietStep DEF Unpublished, Searching

-----------------------------------------------------------------------------
(* remove_if, comparisons and searches. *)

(* remove_if starts in a bucket. *)
LEMMA IfLoadInv == ASSUME HashtabInv, NEW t \in Threads, IfLoad(t) PROVE HashtabInv'
<1> DEFINE b == loc[t].b
           l == [loc[t] EXCEPT !.cur = size[b], !.at = head[b]]
<1>1. /\ pc[t] = "ifload" /\ Goto(t, "iftest")
      /\ UNCHANGED <<size, head, insertLock, readers, writers, next, pairs, freeList, allocated, alive, calls, result>>
  BY DEF IfLoad, lockVars, chunkVars
<1>2. /\ TypesOK /\ LocksOK /\ CallOK(t) /\ loc[t].b \in Buckets /\ loc[t] \in LocType /\ In(t, Removing, b)
      /\ ChunksApart /\ FilledOK
  BY <1>1, InTheBucket DEF HashtabInv, CallsOK, Removing
<1>3. loc' = [loc EXCEPT ![t] = l]
  BY <1>2 DEF IfLoad, TypesOK
<1>4. size[b] \in Nat /\ head[b] \in Chunks \cup {Null} /\ Top(b) = size[b]
  <2>1. Top(b) = size[b]
    BY <1>1, <1>2, TopIs DEF In, Removing
  <2>2. QED
    BY <1>2, <2>1, TopType, Chains DEF HashtabInv
<1>5. l \in LocType
  BY <1>2, <1>4 DEF LocType
<1>6. /\ Alone(t) /\ pc'[t] = "iftest" /\ loc'[t] = l
      /\ pc' \in [Threads -> Pcs \cup {"oob"}] /\ loc' \in [Threads -> LocType]
  BY <1>1, <1>2, <1>3, <1>5, Steps DEF Pcs
<1>7. TypesOK'
  BY <1>1, <1>2, <1>6 DEF TypesOK
<1>8. l.cur = size[b] /\ l.at = head[b] /\ l.b = b /\ l.i = loc[t].i /\ l.j = loc[t].j /\ l.call = loc[t].call /\ l.id = loc[t].id
  BY <1>2 DEF LocType
<1>9. Op(t)' = Op(t)
  BY <1>6, <1>8 DEF Op
<1>10. LocksOK'
  <2>1. \A c \in Buckets : /\ In(t, Reading, c)' <=> In(t, Reading, c)
                           /\ In(t, Removing, c)' <=> In(t, Removing, c)
                           /\ In(t, Inserting, c)' <=> In(t, Inserting, c)
    <3>1. loc'[t].b = loc[t].b
      BY <1>6, <1>8
    <3>2. /\ (pc'[t] \in Reading) = (pc[t] \in Reading)
          /\ (pc'[t] \in Removing) = (pc[t] \in Removing)
          /\ (pc'[t] \in Inserting) = (pc[t] \in Inserting)
      BY <1>1, <1>6 DEF Reading, Searching, Removing, Inserting
    <3>3. QED
      BY <3>1, <3>2, SameSections
  <2>2. QED
    BY <1>1, <1>2, <1>6, <2>1, LocksSame
<1>11. CallOK(t)'
  BY <1>1, <1>2, <1>6, <1>8, <1>9 DEF CallOK, Reading, Searching, Removing, Inserting
<1>12. SearchOK(t)'
  BY <1>6 DEF SearchOK, Searching
<1>13. RemoveOK(t)'
  <2>1. loc[t].i = 0 /\ loc[t].j = 0
    BY <1>1, <1>2 DEF CallOK
  <2>2. NoneBefore(t, loc[t].i)'
    BY <1>6, <1>8, <2>1 DEF NoneBefore
  <2>4. /\ loc'[t].cur = size'[loc'[t].b] /\ loc'[t].i <= loc'[t].cur
        /\ loc'[t].i < loc'[t].cur => loc'[t].j \in 0..NPairs /\ \E m \in 0..NChunks : AtChunk(loc[t], m)'
        /\ NoneBefore(t, loc[t].i)'
    <3>1. loc'[t].cur = size'[loc'[t].b] /\ loc'[t].i = 0 /\ loc'[t].j = 0 /\ 0 <= loc'[t].cur /\ loc'[t].cur = size[b]
      BY <1>1, <1>4, <1>6, <1>8, <2>1
    <3>2. loc'[t].i < loc'[t].cur => AtChunk(loc[t], 0)' /\ 0 \in 0..NChunks /\ 0 \in 0..NPairs
      <4>1. SUFFICES ASSUME 0 < size[b] PROVE AtChunk(loc[t], 0)' /\ 0 \in 0..NChunks /\ 0 \in 0..NPairs
        BY <3>1
      <4>2. Chain(b)[0] # Null
        <5>1. 0 * NPairs < Top(b) /\ 0 \in 0..NChunks
          BY <1>4, <4>1, HashtabAssumption
        <5>2. QED
          BY <1>2, <5>1 DEF FilledOK
      <4>3. Chain(b)[0] = head[b] /\ Chain(b)' = Chain(b)
        <5>1. Chain(b)[0] = head[b]
          BY <1>2, Chains
        <5>2. \A c : Chain(c)' = Chain(c)
          BY <1>1, ViewSame
        <5>3. loc'[t].b = loc[t].b
          BY <1>6, <1>8
        <5>4. Chain(b)' = Chain(b)
          BY <5>2, <5>3
        <5>5. QED
          BY <5>1, <5>4
      <4>4. QED
        BY <1>6, <1>8, <2>1, <4>2, <4>3, HashtabAssumption DEF AtChunk
    <3>3. QED
      BY <2>2, <3>1, <3>2
  <2>5. QED
    BY <1>6, <2>4 DEF RemoveOK
<1>14. QED
  BY <1>1, <1>6, <1>7, <1>9, <1>10, <1>11, <1>12, <1>13, <1>8, QuietStep DEF Unpublished, Searching

(* LocksSame, for a step that stays in its bucket. *)
LEMMA LocksStay ==
    ASSUME LocksOK, NEW t \in Threads, Alone(t), UNCHANGED <<readers, writers, insertLock>>,
           loc'[t].b = loc[t].b,
           (pc'[t] \in Reading) = (pc[t] \in Reading),
           (pc'[t] \in Removing) = (pc[t] \in Removing),
           (pc'[t] \in Inserting) = (pc[t] \in Inserting)
    PROVE  LocksOK'
BY SameSections, LocksSame

(* One round of a search: NoneBefore grows by the pair compared. *)
LEMMA CompareInv == ASSUME HashtabInv, NEW t \in Threads, Compare(t) PROVE HashtabInv'
<1>1. /\ TypesOK /\ LocksOK /\ CallOK(t) /\ SearchOK(t) /\ loc[t].b \in Buckets /\ loc[t] \in LocType
      /\ ChunksApart /\ FilledOK
  BY InTheBucket DEF HashtabInv, CallsOK
<1>2. PICK b \in Buckets : b = loc[t].b
  BY <1>1
<1>3. PICK cell : cell = IF loc[t].j = NPairs THEN Deref(loc[t].b, loc[t].at) ELSE loc[t].at
  OBVIOUS
<1>4. PICK j : j = IF loc[t].j = NPairs THEN 0 ELSE loc[t].j
  OBVIOUS
<1>5. /\ pc[t] \in ScanPcs /\ pc[t] \in Searching /\ loc[t].i < loc[t].cur
      /\ UNCHANGED <<size, head, insertLock, readers, writers, next, pairs, freeList, allocated, alive, calls>>
  BY DEF Compare, lockVars, chunkVars, Searching, ScanPcs
<1>6. PICK m \in 0..NChunks :
         /\ cell = Cell(b, m) /\ cell \in Chunks \cup {Null} /\ (m > 0 => cell # Null)
         /\ j \in Slots /\ loc[t].i = m * NPairs + j
         /\ Chain(b)[m] \in Chunks /\ Deref(b, cell) = Chain(b)[m]
         /\ pairs[Chain(b)[m]][j] = PairAt(b, loc[t].i)
         /\ loc[t].i < size[b]
  BY <1>2, <1>3, <1>4, <1>5, Looks
<1>7. PICK p : p = PairAt(b, loc[t].i)
  OBVIOUS
<1>8. pairs[Deref(loc[t].b, cell)][j] = p /\ p.val \in Values \cup {None}
  <2>1. pairs[Deref(loc[t].b, cell)][j] = p /\ p = pairs[Chain(b)[m]][j]
    BY <1>2, <1>6, <1>7
  <2>2. pairs[Chain(b)[m]][j] \in [key : Keys \cup {None}, val : Values \cup {None}]
    BY <1>1, <1>6 DEF TypesOK
  <2>3. QED
    BY <2>1, <2>2
<1>9. \/ /\ Matches(t, p.key)
         /\ loc' = [loc EXCEPT ![t].at = cell, ![t].j = j]
         /\ IF pc[t] = "lscan"
            THEN Goto(t, "iunlock") /\ UNCHANGED result
            ELSE Goto(t, "runlock") /\ result' = [result EXCEPT ![t] = p.val]
      \/ /\ ~Matches(t, p.key)
         /\ loc' = [loc EXCEPT ![t].at = cell, ![t].i = loc[t].i + 1, ![t].j = j + 1]
         /\ UNCHANGED <<pc, result>>
  BY <1>3, <1>4, <1>8 DEF Compare, Equals
<1>10. j \in Nat /\ j < NPairs /\ NPairs \in Nat /\ loc[t].i \in Nat /\ loc[t].cur \in Nat
       /\ m * NPairs \in Nat
  <2>1. m * NPairs \in Nat
    BY Rows, HashtabAssumption
  <2>2. QED
    BY <1>1, <1>6, <2>1, HashtabAssumption DEF Slots, LocType
<1>11. \A n : Cell(b, n)' = Cell(b, n)
  BY <1>5, ViewSame DEF Cell
<1>12. CASE Matches(t, p.key)
  <2> DEFINE l == [loc[t] EXCEPT !.at = cell, !.j = j]
  <2>1. loc' = [loc EXCEPT ![t] = l]
    BY <1>1, <1>9, <1>12 DEF TypesOK
  <2>2. /\ l \in LocType /\ l.at = cell /\ l.j = j /\ l.i = loc[t].i /\ l.b = b /\ l.cur = loc[t].cur
        /\ l.call = loc[t].call /\ l.id = loc[t].id
    BY <1>1, <1>2, <1>6, <1>10 DEF LocType
  <2> HIDE DEF l
  <2>3. PICK q \in {"iunlock", "runlock"} : Goto(t, q) /\ (q = "iunlock" <=> pc[t] = "lscan")
          /\ (q = "iunlock" => result' = result) /\ (q = "runlock" => result' = [result EXCEPT ![t] = p.val])
    BY <1>9, <1>12
  <2>4. /\ Alone(t) /\ pc'[t] = q /\ loc'[t] = l
        /\ pc' \in [Threads -> Pcs \cup {"oob"}] /\ loc' \in [Threads -> LocType]
    BY <1>1, <2>1, <2>2, <2>3, Steps DEF Pcs
  <2>5. TypesOK'
    <3>1. result' \in [Threads -> Values \cup {None}]
      BY <1>1, <1>8, <2>3 DEF TypesOK
    <3>2. QED
      BY <1>1, <1>5, <2>4, <3>1 DEF TypesOK
  <2>6. Op(t)' = Op(t)
    BY <2>2, <2>4 DEF Op
  <2>7. LocksOK'
    <3>1. loc'[t].b = loc[t].b
      BY <1>2, <2>2, <2>4
    <3>2. /\ (pc'[t] \in Reading) = (pc[t] \in Reading)
          /\ (pc'[t] \in Removing) = (pc[t] \in Removing)
          /\ (pc'[t] \in Inserting) = (pc[t] \in Inserting)
      BY <1>5, <2>3, <2>4 DEF Reading, Searching, Removing, Inserting, ScanPcs
    <3>3. QED
      BY <1>1, <1>5, <2>4, <3>1, <3>2, LocksStay
  <2>8. CallOK(t)'
    BY <1>1, <1>2, <1>5, <2>2, <2>3, <2>4, <2>6 DEF CallOK, Reading, Searching, Removing, Inserting, ScanPcs
  <2>9. SearchOK(t)'
    <3>1. CASE q = "runlock"
      BY <2>4, <3>1 DEF SearchOK, Searching
    <3>2. CASE q = "iunlock"
      <4>1. AtCell(loc[t], m)'
        BY <1>6, <1>11, <2>2, <2>4 DEF AtCell
      <4>2. PairAt(b, loc[t].i)' = p
        <5>1. \A i : PairAt(b, i)' = PairAt(b, i)
          BY <1>5, ViewSame
        <5>2. loc'[t].i = loc[t].i
          BY <2>2, <2>4
        <5>3. QED
          BY <1>7, <5>1, <5>2
      <4>3. Matches(t, PairAt(loc[t].b, loc[t].i).key)'
        BY <1>12, <2>2, <2>4, <4>2 DEF Matches
      <4>4. loc'[t].i < size'[loc'[t].b] /\ loc'[t].j \in Slots
        BY <1>5, <1>6, <2>2, <2>4
      <4>5. QED
        BY <2>4, <3>2, <4>1, <4>3, <4>4 DEF SearchOK, Searching
    <3>3. QED
      BY <3>1, <3>2
  <2>10. RemoveOK(t)'
    BY <2>4 DEF RemoveOK
  <2>11. QED
    BY <1>5, <2>2, <2>3, <2>4, <2>5, <2>6, <2>7, <2>8, <2>9, <2>10, QuietStep DEF Unpublished, Searching
<1>13. CASE ~Matches(t, p.key)
  <2> DEFINE l == [loc[t] EXCEPT !.at = cell, !.i = loc[t].i + 1, !.j = j + 1]
  <2>1. loc' = [loc EXCEPT ![t] = l] /\ result' = result /\ pc' = pc
    BY <1>1, <1>9, <1>13 DEF TypesOK
  <2>2. /\ l \in LocType /\ l.at = cell /\ l.j = j + 1 /\ l.i = loc[t].i + 1 /\ l.b = b /\ l.cur = loc[t].cur
        /\ l.call = loc[t].call /\ l.id = loc[t].id
    <3>1. j + 1 \in Nat /\ loc[t].i + 1 \in Nat
      BY <1>10
    <3>2. QED
      BY <1>1, <1>2, <1>6, <3>1 DEF LocType
  <2> HIDE DEF l
  <2>4. /\ Alone(t) /\ pc'[t] = pc[t] /\ loc'[t] = l
        /\ pc' \in [Threads -> Pcs \cup {"oob"}] /\ loc' \in [Threads -> LocType]
    BY <1>1, <2>1, <2>2, Locals DEF Alone, TypesOK
  <2>5. TypesOK'
    BY <1>1, <1>5, <2>1, <2>4 DEF TypesOK
  <2>6. Op(t)' = Op(t)
    BY <2>2, <2>4 DEF Op
  <2>7. LocksOK'
    <3>1. loc'[t].b = loc[t].b
      BY <1>2, <2>2, <2>4
    <3>2. QED
      BY <1>1, <1>5, <2>4, <3>1, LocksStay
  <2>8. CallOK(t)'
    BY <1>1, <1>2, <1>5, <2>2, <2>4, <2>6 DEF CallOK, Reading, Searching, Removing, Inserting, ScanPcs
  <2>9. SearchOK(t)'
    <3>1. AtCell(loc[t], m)'
      <4>1. loc[t].i + 1 = m * NPairs + (j + 1)
        BY <1>6, <1>10
      <4>2. QED
        BY <1>6, <1>11, <2>2, <2>4, <4>1 DEF AtCell
    <3>2. NoneBefore(t, loc[t].i)'
      <4>1. NoneBefore(t, loc[t].i)
        BY <1>1, <1>5 DEF SearchOK
      <4>2. ASSUME NEW i \in 0..(loc[t].i + 1) - 1 PROVE ~Matches(t, PairAt(b, i).key)
        BY <1>2, <1>7, <1>10, <1>13, <4>1 DEF NoneBefore
      <4>3. \A i : PairAt(b, i)' = PairAt(b, i)
        BY <1>5, ViewSame
      <4>4. \A i \in 0..(loc[t].i + 1) - 1 : ~Matches(t, PairAt(b, i).key)'
        BY <2>2, <2>4, <4>2, <4>3 DEF Matches
      <4>5. QED
        BY <2>2, <2>4, <4>4 DEF NoneBefore
    <3>3. /\ loc'[t].i <= loc'[t].cur /\ loc'[t].cur <= size'[loc'[t].b]
          /\ loc'[t].j \in 0..NPairs /\ loc'[t].j # 0
      <4>1. loc[t].cur <= size[b]
        BY <1>1, <1>2, <1>5 DEF SearchOK
      <4>2. QED
        BY <1>5, <1>10, <2>2, <2>4, <4>1
    <3>4. pc[t] = "lscan" => loc'[t].cur = size'[loc'[t].b]
      BY <1>1, <1>2, <1>5, <2>2, <2>4 DEF SearchOK
    <3>5. pc[t] \notin {"write", "publish", "iunlock", "read"}
      BY <1>5 DEF ScanPcs
    <3>6. QED
      BY <2>4, <3>1, <3>2, <3>3, <3>4, <3>5 DEF SearchOK
  <2>10. RemoveOK(t)'
    BY <1>5, <2>4 DEF RemoveOK, ScanPcs
  <2>11. QED
    <3>1. pc[t] \notin {"move", "oob", "publish", "release", "shrink", "idle"}
      BY <1>5 DEF ScanPcs
    <3>2. QED
      BY <1>5, <2>2, <2>4, <2>5, <2>6, <2>7, <2>8, <2>9, <2>10, <3>1, QuietStep
<1>14. QED
  BY <1>12, <1>13

(* What the other threads know of the table stays true as long as it does. *)
LEMMA OthersStay ==
    ASSUME HashtabInv, NEW t \in Threads, Alone(t), UNCHANGED <<size, head, next, pairs>>,
           NEW u \in Threads, u # t
    PROVE  SearchOK(u)' /\ RemoveOK(u)'
<1>1. TypesOK /\ LocksOK /\ ChunksApart /\ FilledOK /\ \A v \in Threads : RemoveOK(v)
  BY DEF HashtabInv
<1>2. pc'[u] = pc[u] /\ loc'[u] = loc[u]
  BY DEF Alone
<1>3. loc[u].b \in Buckets /\ Same(loc[u].b)
  BY <1>1, InTheBucket, ViewSame
<1>4. In(u, Reading, loc[u].b) => Grows(loc[u].b)
  <2> SUFFICES ASSUME In(u, Reading, loc[u].b) PROVE Grows(loc[u].b)
    OBVIOUS
  <2>1. Top(loc[u].b) = size[loc[u].b]
    BY <1>1, <1>3, TopIs
  <2>2. QED
    BY <1>1, <1>3, <2>1, SameGrows
<1>5. size' \in [Buckets -> 0..NChunks * NPairs]
  BY <1>1 DEF TypesOK
<1>6. QED
  BY <1>2, <1>3, <1>4, <1>5, OthersKeep

(* A call other than remove_if is about one key. *)
LEMMA OneKey ==
    ASSUME NEW c \in Calls, c.op # "remove_if"
    PROVE  \E k \in Keys : c.keys = {k} /\ (CHOOSE q \in c.keys : TRUE) = k
<1>1. PICK k \in Keys : c.keys = {k}
  BY DEF Calls
<1>2. (CHOOSE q \in c.keys : TRUE) \in c.keys
  BY <1>1
<1>3. QED
  BY <1>1, <1>2

(* A call begins; an insertion gets a value that no other has. *)
LEMMA CallInv == ASSUME HashtabInv, NEW t \in Threads, Call(t) PROVE HashtabInv'
<1>1. /\ TypesOK /\ LocksOK /\ CallsOK /\ ChunksApart /\ FilledOK
      /\ calls \in Nat /\ MaxCalls \in Nat /\ calls \in 0..MaxCalls
  BY HashtabAssumption DEF HashtabInv, TypesOK
<1>2. /\ pc[t] = "idle" /\ calls < MaxCalls /\ calls' = calls + 1
      /\ UNCHANGED <<size, head, insertLock, readers, writers, next, pairs, freeList, allocated, alive, result>>
  BY DEF Call, lockVars, chunkVars
<1>3. PICK c \in Calls :
        /\ loc' = [loc EXCEPT ![t] =
               [NoLoc EXCEPT !.call = c,
                             !.id = IF c.op = "insert" THEN calls + 1 ELSE None,
                             !.b = IF c.op = "remove_if" THEN 0
                                   ELSE BucketIdx[CHOOSE k \in c.keys : TRUE]]]
        /\ Goto(t, IF c.op \in {"get", "insert"} THEN "rlock" ELSE "wlock")
  BY DEF Call
<1> DEFINE id == IF c.op = "insert" THEN calls + 1 ELSE None
           b == IF c.op = "remove_if" THEN 0 ELSE BucketIdx[CHOOSE k \in c.keys : TRUE]
<1>6. /\ id \in Values \cup {None} /\ (c.op = "insert" => id = calls + 1)
      /\ b \in Buckets
      /\ c.op # "remove_if" => \E k \in Keys : c.keys = {k} /\ b = BucketIdx[k]
      /\ c.op \in {"get", "insert", "remove", "get_and_remove", "remove_if"}
  <2>1. id \in Values \cup {None} /\ (c.op = "insert" => id = calls + 1)
    <3>1. calls + 1 \in Values
      BY <1>1, <1>2 DEF Values
    <3>2. QED
      BY <3>1
  <2>2. c.op # "remove_if" => \E k \in Keys : c.keys = {k} /\ b = BucketIdx[k]
    <3>1. SUFFICES ASSUME c.op # "remove_if" PROVE \E k \in Keys : c.keys = {k} /\ b = BucketIdx[k]
      OBVIOUS
    <3>2. PICK k \in Keys : c.keys = {k} /\ (CHOOSE q \in c.keys : TRUE) = k
      BY <3>1, OneKey
    <3>3. QED
      BY <3>1, <3>2
  <2>3. b \in Buckets
    <3>1. CASE c.op = "remove_if"
      BY <3>1, HashtabAssumption DEF Buckets
    <3>2. CASE c.op # "remove_if"
      BY <2>2, <3>2, HashtabAssumption
    <3>3. QED
      BY <3>1, <3>2
  <2>4. c.op \in {"get", "insert", "remove", "get_and_remove", "remove_if"}
    BY DEF Calls, KeyOps
  <2>5. QED
    BY <2>1, <2>2, <2>3, <2>4
<1> DEFINE l == [NoLoc EXCEPT !.call = c, !.id = id, !.b = b]
<1>7. loc' = [loc EXCEPT ![t] = l]
  BY <1>3
<1> HIDE DEF id, b
<1>8. /\ l \in LocType /\ l.call = c /\ l.id = id /\ l.b = b /\ l.cur = 0 /\ l.i = 0 /\ l.j = 0 /\ l.at = Null
  BY <1>6 DEF NoLoc, LocType
<1> HIDE DEF l
<1>9. PICK q \in {"rlock", "wlock"} : Goto(t, q) /\ (q = "rlock" <=> c.op \in {"get", "insert"})
  BY <1>3
<1>10. /\ Alone(t) /\ pc'[t] = q /\ loc'[t] = l
       /\ pc' \in [Threads -> Pcs \cup {"oob"}] /\ loc' \in [Threads -> LocType]
  BY <1>1, <1>7, <1>8, <1>9, Steps DEF Pcs
<1>11. TypesOK'
  <2>1. calls' \in 0..MaxCalls
    BY <1>1, <1>2
  <2>2. QED
    BY <1>1, <1>2, <1>10, <2>1 DEF TypesOK
<1>12. LocksOK'
  <2>1. \A d \in Buckets : /\ In(t, Reading, d)' <=> In(t, Reading, d)
                           /\ In(t, Removing, d)' <=> In(t, Removing, d)
                           /\ In(t, Inserting, d)' <=> In(t, Inserting, d)
    BY <1>2, <1>10 DEF In, Reading, Searching, Removing, Inserting
  <2>2. QED
    BY <1>1, <1>2, <1>10, <2>1, LocksSame
<1>13. Op(t)' = c.op /\ loc'[t].call = c /\ loc'[t].id = id /\ loc'[t].b = b
  BY <1>8, <1>10 DEF Op
<1>14. CallOK(t)'
  <2>1. c.op = "insert" => id \in 1..calls'
    BY <1>1, <1>2, <1>6
  <2>2. /\ pc'[t] \in Reading \cup {"rlock"} => Op(t)' \in {"get", "insert"}
        /\ pc'[t] \in Removing \cup {"wlock"} => Op(t)' \in {"remove", "get_and_remove", "remove_if"}
        /\ pc'[t] \notin Inserting \cup {"trylock", "reload", "rescan", "read", "search", "ifload", "iftest"}
    BY <1>6, <1>9, <1>10, <1>13 DEF Reading, Searching, Removing, Inserting
  <2>3. loc'[t].cur = 0 /\ loc'[t].i = 0 /\ loc'[t].j = 0 /\ loc'[t].at = Null
    BY <1>8, <1>10
  <2>4. QED
    BY <1>6, <1>13, <2>1, <2>2, <2>3 DEF CallOK
<1>15. CallsOK'
  <2>1. ASSUME NEW u \in Threads, u # t
        PROVE  /\ CallOK(u)'
               /\ pc'[u] = pc[u] /\ Op(u)' = Op(u) /\ loc'[u].id = loc[u].id
               /\ pc[u] # "idle" /\ Op(u) = "insert" => loc[u].id # calls + 1
    <3>1. pc'[u] = pc[u] /\ loc'[u] = loc[u] /\ CallOK(u)
      BY <1>1, <1>10, <2>1 DEF Alone, CallsOK
    <3>2. loc[u].id \in 1..calls => loc[u].id \in 1..calls' /\ loc[u].id # calls + 1
      BY <1>1, <1>2
    <3>3. Op(u)' = Op(u)
      BY <3>1 DEF Op
    <3>4. CallOK(u)'
      BY <3>1, <3>2, <3>3 DEF CallOK
    <3>5. QED
      BY <3>1, <3>2, <3>3, <3>4 DEF CallOK
  <2>2. Op(t)' = "insert" => loc'[t].id = calls + 1
    BY <1>6, <1>13
  <2>3. \A u \in Threads : CallOK(u)'
    BY <1>14, <2>1
  <2>4. ASSUME NEW u \in Threads, NEW v \in Threads,
               pc'[u] # "idle", Op(u)' = "insert", pc'[v] # "idle", Op(v)' = "insert",
               loc'[u].id = loc'[v].id
        PROVE  u = v
    <3>1. CASE u = t \/ v = t
      BY <2>1, <2>2, <2>4, <3>1
    <3>2. CASE u # t /\ v # t
      <4>1. /\ pc[u] # "idle" /\ Op(u) = "insert" /\ pc[v] # "idle" /\ Op(v) = "insert"
            /\ loc[u].id = loc[v].id
        BY <2>1, <2>4, <3>2
      <4>2. QED
        BY <1>1, <4>1 DEF CallsOK
    <3>3. QED
      BY <3>1, <3>2
  <2>5. QED
    BY <2>3, <2>4 DEF CallsOK
<1>16. \A d \in Buckets : Top(d)' = Top(d)
  BY <1>2, <1>9, <1>10, TopSame DEF In
<1>17. FilledOK' /\ PairsUnique'
  <2>1. calls' \in Nat /\ calls' >= calls
    BY <1>1, <1>2
  <2>2. QED
    BY <1>2, <1>16, <2>1, TableSame
<1>18. ChunksApart'
  BY <1>1, <1>2, ApartSame
<1>19. ValuesOK'
  <2>1. Op(t)' = "insert" => \A d \in Buckets : \A i \in 0..Top(d) - 1 : PairAt(d, i).val # loc'[t].id
    <3> SUFFICES ASSUME Op(t)' = "insert", NEW d \in Buckets, NEW i \in 0..Top(d) - 1
                 PROVE  PairAt(d, i).val # loc'[t].id
      OBVIOUS
    <3>1. PairAt(d, i).val \in 1..calls
      BY <1>1 DEF FilledOK
    <3>2. loc'[t].id = calls + 1
      BY <1>6, <1>13
    <3>3. QED
      BY <1>1, <3>1, <3>2
  <2>2. pc[t] \notin {"move", "oob", "publish"} /\ pc'[t] \notin {"move", "oob", "publish"}
    BY <1>2, <1>9, <1>10
  <2>3. QED
    BY <1>2, <1>10, <1>16, <2>1, <2>2, ValuesSame
<1>20. SearchOK(t)' /\ RemoveOK(t)'
  BY <1>9, <1>10 DEF SearchOK, RemoveOK, Searching
<1>21. \A u \in Threads : SearchOK(u)' /\ RemoveOK(u)'
  BY <1>2, <1>10, <1>20, OthersStay
<1>22. QED
  BY <1>11, <1>12, <1>15, <1>17, <1>18, <1>19, <1>21 DEF HashtabInv

(* A step of t that leaves the table alone. *)
LEMMA FrameStep ==
    ASSUME HashtabInv, NEW t \in Threads, Alone(t),
           UNCHANGED <<size, head, next, pairs, freeList, allocated, calls>>,
           \A b \in Buckets : Top(b)' = Top(b),
           TypesOK', LocksOK', ValuesOK', CallOK(t)', SearchOK(t)', RemoveOK(t)',
           pc'[t] # "idle" /\ Op(t)' = "insert" =>
             pc[t] # "idle" /\ Op(t) = "insert" /\ loc'[t].id = loc[t].id
    PROVE  HashtabInv'
<1>1. TypesOK /\ CallsOK /\ ChunksApart /\ calls \in Nat
  BY HashtabAssumption DEF HashtabInv, TypesOK
<1>2. FilledOK' /\ PairsUnique'
  BY <1>1, TableSame
<1>3. ChunksApart'
  BY <1>1, ApartSame
<1>4. CallsOK'
  BY <1>1, CallsKept
<1>5. \A u \in Threads : SearchOK(u)' /\ RemoveOK(u)'
  BY OthersStay
<1>6. QED
  BY <1>2, <1>3, <1>4, <1>5 DEF HashtabInv

(* The value of the pair that t is about to remove is destroyed. *)
LEMMA ValuesTaken ==
    ASSUME HashtabInv, NEW t \in Threads, Alone(t), UNCHANGED <<size, head, next, pairs>>,
           \A c \in Buckets : Top(c)' = Top(c),
           pc[t] \notin {"move", "oob", "publish"} \cup Unpublished, pc'[t] = "move",
           NEW b \in Buckets, NEW i \in 0..Top(b) - 1, loc'[t].b = b, loc'[t].i = i,
           alive' = alive \ {PairAt(b, i).val}
    PROVE  ValuesOK'
<1>1. ValuesOK /\ CallsOK
  BY DEF HashtabInv
<1>2. \A c, k : PairAt(c, k)' = PairAt(c, k)
  BY ViewSame
<1>3. \A c, k : Dead(c, k)' <=> Dead(c, k) \/ (c = b /\ k = i)
  <2> SUFFICES ASSUME NEW c, NEW k PROVE Dead(c, k)' <=> Dead(c, k) \/ (c = b /\ k = i)
    OBVIOUS
  <2>1. \A u \in Threads : u # t =>
          ((In(u, {"move", "oob"}, c) /\ loc[u].i = k)' <=> (In(u, {"move", "oob"}, c) /\ loc[u].i = k))
    BY DEF In, Alone
  <2>2. ~In(t, {"move", "oob"}, c)
    BY DEF In
  <2>3. (In(t, {"move", "oob"}, c) /\ loc[t].i = k)' <=> (c = b /\ k = i)
    BY DEF In
  <2>4. QED
    BY <2>1, <2>2, <2>3 DEF Dead
<1>4. ASSUME NEW d \in Buckets, NEW c \in Buckets, NEW n \in 0..Top(d)' - 1, NEW k \in 0..Top(c)' - 1,
             PairAt(d, n)'.val = PairAt(c, k)'.val
      PROVE  d = c /\ n = k
  <2>1. Top(d)' = Top(d) /\ Top(c)' = Top(c) /\ PairAt(d, n)' = PairAt(d, n) /\ PairAt(c, k)' = PairAt(c, k)
    BY <1>2
  <2>2. QED
    BY <1>1, <1>4, <2>1 DEF ValuesOK
<1>5. ASSUME NEW u \in Threads, pc'[u] \in Unpublished, Op(u)' = "insert",
             NEW c \in Buckets, NEW k \in 0..Top(c)' - 1
      PROVE  PairAt(c, k)'.val # loc'[u].id
  <2>1. Top(c)' = Top(c) /\ PairAt(c, k)' = PairAt(c, k)
    BY <1>2
  <2>2. u # t
    BY <1>5 DEF Unpublished, Searching
  <2>3. pc[u] \in Unpublished /\ Op(u) = "insert" /\ loc'[u].id = loc[u].id
    BY <1>5, <2>2 DEF Alone, Op
  <2>4. QED
    BY <1>1, <1>5, <2>1, <2>3 DEF ValuesOK, Unpublished
<1>6. ASSUME NEW v \in Values
      PROVE  v \in alive' <=>
               \/ \E c \in Buckets : \E k \in 0..Top(c)' - 1 : PairAt(c, k)'.val = v /\ ~Dead(c, k)'
               \/ \E u \in Threads : pc'[u] = "publish" /\ loc'[u].id = v
  <2>1. (\E u \in Threads : pc'[u] = "publish" /\ loc'[u].id = v) <=> (\E u \in Threads : pc[u] = "publish" /\ loc[u].id = v)
    BY DEF Alone
  <2>2. ASSUME NEW u \in Threads, pc[u] = "publish", loc[u].id = v PROVE v # PairAt(b, i).val
    <3>1. Op(u) = "insert"
      BY <1>1, <2>2 DEF CallsOK, CallOK, Inserting
    <3>2. pc[u] \in Searching \cup {"rlock", "write", "publish"}
      BY <2>2
    <3>3. QED
      BY <1>1, <2>2, <3>1, <3>2 DEF ValuesOK
  <2>3. ASSUME NEW c \in Buckets, NEW k \in 0..Top(c) - 1, PairAt(c, k).val = v
        PROVE  v = PairAt(b, i).val <=> c = b /\ k = i
    BY <1>1, <2>3 DEF ValuesOK
  <2>4. (\E c \in Buckets : \E k \in 0..Top(c)' - 1 : PairAt(c, k)'.val = v /\ ~Dead(c, k)') <=>
        (\E c \in Buckets : \E k \in 0..Top(c) - 1 : PairAt(c, k).val = v /\ ~Dead(c, k) /\ v # PairAt(b, i).val)
    <3>1. ASSUME NEW c \in Buckets
          PROVE (\E k \in 0..Top(c)' - 1 : PairAt(c, k)'.val = v /\ ~Dead(c, k)') <=>
                (\E k \in 0..Top(c) - 1 : PairAt(c, k).val = v /\ ~Dead(c, k) /\ v # PairAt(b, i).val)
      <4>1. Top(c)' = Top(c)
        OBVIOUS
      <4>2. \A k \in 0..Top(c) - 1 : (PairAt(c, k)'.val = v /\ ~Dead(c, k)') <=>
                                     (PairAt(c, k).val = v /\ ~Dead(c, k) /\ v # PairAt(b, i).val)
        BY <1>2, <1>3, <2>3
      <4>3. QED
        BY <4>1, <4>2
    <3>2. QED
      BY <3>1
  <2>5. v \in alive <=>
          \/ \E c \in Buckets : \E k \in 0..Top(c) - 1 : PairAt(c, k).val = v /\ ~Dead(c, k)
          \/ \E u \in Threads : pc[u] = "publish" /\ loc[u].id = v
    BY <1>1 DEF ValuesOK
  <2>6. v \in alive' <=> v \in alive /\ v # PairAt(b, i).val
    OBVIOUS
  <2>7. QED
    BY <2>1, <2>2, <2>4, <2>5, <2>6
<1>7. QED
  BY <1>4, <1>5, <1>6 DEF ValuesOK, Unpublished

(* The search of a removal, alone in its bucket; the value found dies. *)
LEMMA SearchInv == ASSUME HashtabInv, NEW t \in Threads, Search(t) PROVE HashtabInv'
<1>1. /\ TypesOK /\ LocksOK /\ CallOK(t) /\ loc[t].b \in Buckets /\ loc[t] \in LocType /\ In(t, Removing, loc[t].b)
      /\ ChunksApart /\ FilledOK
  <2>1. pc[t] = "search"
    BY DEF Search
  <2>2. QED
    BY <2>1, InTheBucket DEF HashtabInv, CallsOK, Removing
<1> DEFINE found == {n \in 0..size[loc[t].b] - 1 : Matches(t, PairAt(loc[t].b, n).key)}
           i == CHOOSE n \in found : \A q \in found : n <= q
<1>2. PICK b \in Buckets : b = loc[t].b
  BY <1>1
<1>3. /\ pc[t] = "search"
      /\ UNCHANGED <<size, head, insertLock, readers, writers, next, pairs, freeList, allocated, calls>>
  BY DEF Search, lockVars, chunkVars
<1>a. \/ /\ found = {}
         /\ Goto(t, "wunlock")
         /\ UNCHANGED <<loc, alive, result>>
      \/ /\ found # {}
         /\ loc' = [loc EXCEPT ![t].cur = size[loc[t].b], ![t].i = i, ![t].j = i % NPairs,
                               ![t].at = Chain(loc[t].b)[i \div NPairs],
                               ![t].prev = IF i \div NPairs = 0 THEN Null ELSE Chain(loc[t].b)[i \div NPairs - 1]]
         /\ Destroy(PairAt(loc[t].b, i).val)
         /\ result' = [result EXCEPT ![t] = PairAt(loc[t].b, i).val]
         /\ Goto(t, "move")
  BY DEF Search
<1>4. CASE found = {}
  <2>1. Goto(t, "wunlock") /\ UNCHANGED <<loc, alive, result>>
    BY <1>a, <1>4
  <2>2. \A k \in 0..size[b] - 1 : ~Matches(t, PairAt(b, k).key)
    BY <1>2, <1>4
  <2> HIDE DEF found, i
  <2>3. /\ Alone(t) /\ pc'[t] = "wunlock" /\ loc'[t] = loc[t] /\ Op(t)' = Op(t)
        /\ pc' \in [Threads -> Pcs \cup {"oob"}] /\ loc' \in [Threads -> LocType]
    BY <1>1, <2>1, StepsStay DEF Pcs
  <2>4. TypesOK'
    BY <1>1, <1>3, <2>1, <2>3 DEF TypesOK
  <2>5. LocksOK'
    <3>1. /\ (pc'[t] \in Reading) = (pc[t] \in Reading)
          /\ (pc'[t] \in Removing) = (pc[t] \in Removing)
          /\ (pc'[t] \in Inserting) = (pc[t] \in Inserting)
      BY <1>3, <2>3 DEF Reading, Searching, Removing, Inserting
    <3>2. loc'[t].b = loc[t].b /\ UNCHANGED <<readers, writers, insertLock>>
      BY <1>3, <2>3
    <3>3. QED
      BY <1>1, <2>3, <3>1, <3>2, LocksStay
  <2>6. CallOK(t)'
    BY <1>1, <1>3, <2>3 DEF CallOK, Reading, Searching, Removing, Inserting
  <2>7. SearchOK(t)'
    BY <2>3 DEF SearchOK, Searching
  <2>8. RemoveOK(t)'
    <3>1. \A k : PairAt(b, k)' = PairAt(b, k)
      BY <1>3, ViewSame
    <3>2. \A k \in 0..size[b] - 1 : ~Matches(t, PairAt(b, k).key)'
      BY <2>2, <2>3, <3>1 DEF Matches
    <3>3. NoneBefore(t, size[loc[t].b])'
      BY <1>2, <1>3, <2>3, <3>2 DEF NoneBefore
    <3>4. QED
      BY <2>3, <3>3 DEF RemoveOK
  <2>9. QED
    BY <1>3, <2>1, <2>3, <2>4, <2>5, <2>6, <2>7, <2>8, QuietStep DEF Unpublished, Searching
<1>5. CASE found # {}
  <2>1. /\ i \in 0..size[loc[t].b] - 1 /\ i \in Nat
        /\ Matches(t, PairAt(loc[t].b, i).key) /\ NoneBefore(t, i)
        /\ i \div NPairs \in 0..NChunks /\ i % NPairs \in Slots
        /\ i = (i \div NPairs) * NPairs + (i % NPairs)
        /\ Chain(loc[t].b)[i \div NPairs] \in Chunks
        /\ Cell(loc[t].b, i \div NPairs) \in Chunks \cup {Null}
    <3>1. found = {n \in 0..size[loc[t].b] - 1 : Matches(t, PairAt(loc[t].b, n).key)}
      BY DEF found
    <3>2. found \in SUBSET Nat
      <4>1. size[loc[t].b] \in Nat
        BY <1>1, TopType DEF HashtabInv
      <4>2. QED
        BY <4>1
    <3> HIDE DEF found
    <3>3. \E n \in found : \A q \in found : n <= q
      BY <1>5, <3>2, SmallestOf
    <3>4. i \in found /\ \A q \in found : i <= q
      BY <3>3
    <3> HIDE DEF i
    <3>5. HashtabInv /\ t \in Threads /\ pc[t] = "search"
      BY <1>3
    <3>6. QED
      BY ONLY <3>1, <3>4, <3>5, Finds
  <2>a. /\ loc' = [loc EXCEPT ![t].cur = size[loc[t].b], ![t].i = i, ![t].j = i % NPairs,
                              ![t].at = Chain(loc[t].b)[i \div NPairs],
                              ![t].prev = Cell(loc[t].b, i \div NPairs)]
        /\ alive' = alive \ {PairAt(loc[t].b, i).val}
        /\ result' = [result EXCEPT ![t] = PairAt(loc[t].b, i).val]
        /\ Goto(t, "move")
    BY <1>a, <1>5 DEF Cell, Destroy
  <2> HIDE DEF found, i
  <2>2. PICK k : k = i
    OBVIOUS
  <2> DEFINE m0 == k \div NPairs
             j0 == k % NPairs
  <2> HIDE DEF m0, j0
  <2>b. m0 = k \div NPairs /\ j0 = k % NPairs
    BY DEF m0, j0
  <2>3. PICK m, j : m = m0 /\ j = j0
    OBVIOUS
  <2>4. /\ loc' = [loc EXCEPT ![t].cur = size[b], ![t].i = k, ![t].j = j, ![t].at = Chain(b)[m],
                              ![t].prev = Cell(b, m)]
        /\ alive' = alive \ {PairAt(b, k).val}
        /\ result' = [result EXCEPT ![t] = PairAt(b, k).val]
        /\ Goto(t, "move")
    BY <1>2, <2>a, <2>2, <2>b, <2>3
  <2>5. /\ k \in 0..size[b] - 1 /\ k \in Nat
        /\ Matches(t, PairAt(b, k).key) /\ NoneBefore(t, k)
        /\ m \in 0..NChunks /\ j \in Slots
        /\ k = m * NPairs + j
        /\ Chain(b)[m] \in Chunks
        /\ Cell(b, m) \in Chunks \cup {Null}
    BY <1>2, <2>1, <2>2, <2>b, <2>3
  <2> DEFINE l == [loc[t] EXCEPT !.cur = size[b], !.i = k, !.j = j, !.at = Chain(b)[m], !.prev = Cell(b, m)]
  <2>6. loc' = [loc EXCEPT ![t] = l]
    BY <1>1, <2>4 DEF TypesOK
  <2>7. size[b] \in Nat /\ j \in Nat /\ NPairs \in Nat
    BY <1>1, <2>5, TopType, HashtabAssumption DEF HashtabInv, Slots
  <2>8. /\ l \in LocType /\ l.cur = size[b] /\ l.i = k /\ l.j = j /\ l.at = Chain(b)[m] /\ l.prev = Cell(b, m)
        /\ l.b = b /\ l.call = loc[t].call /\ l.id = loc[t].id
    BY <1>1, <1>2, <2>5, <2>7 DEF LocType
  <2> HIDE DEF l
  <2>9. /\ Alone(t) /\ pc'[t] = "move" /\ loc'[t] = l
        /\ pc' \in [Threads -> Pcs \cup {"oob"}] /\ loc' \in [Threads -> LocType]
    BY <1>1, <2>4, <2>6, <2>8, Steps DEF Pcs
  <2>10. Op(t)' = Op(t) /\ Op(t) # "remove_if"
    BY <1>1, <1>3, <2>8, <2>9 DEF Op, CallOK
  <2>11. Top(b) = size[b]
    BY <1>1, <1>2, <1>3, TopIs DEF In, Removing
  <2>12. PairAt(b, k).val \in Values
    <3>1. PairAt(b, k).val \in 1..calls
      BY <1>1, <2>5, <2>11 DEF FilledOK
    <3>2. calls \in 0..MaxCalls /\ MaxCalls \in Nat
      BY <1>1, HashtabAssumption DEF TypesOK
    <3>3. QED
      BY <3>1, <3>2 DEF Values
  <2>13. TypesOK'
    BY <1>1, <1>3, <2>4, <2>9, <2>12 DEF TypesOK
  <2>14. LocksOK'
    <3>1. /\ (pc'[t] \in Reading) = (pc[t] \in Reading)
          /\ (pc'[t] \in Removing) = (pc[t] \in Removing)
          /\ (pc'[t] \in Inserting) = (pc[t] \in Inserting)
      BY <1>3, <2>9 DEF Reading, Searching, Removing, Inserting
    <3>2. loc'[t].b = loc[t].b /\ UNCHANGED <<readers, writers, insertLock>>
      BY <1>2, <1>3, <2>8, <2>9
    <3>3. QED
      BY <1>1, <2>9, <3>1, <3>2, LocksStay
  <2>15. CallOK(t)'
    BY <1>1, <1>2, <1>3, <2>8, <2>9, <2>10 DEF CallOK, Reading, Searching, Removing, Inserting
  <2>16. SearchOK(t)'
    BY <2>9 DEF SearchOK, Searching
  <2>17. RemoveOK(t)'
    <3>1. \A n : PairAt(b, n)' = PairAt(b, n) /\ Chain(b)' = Chain(b)
      BY <1>3, ViewSame
    <3>2. \A n : Cell(b, n)' = Cell(b, n)
      BY <3>1 DEF Cell
    <3>3. Matches(t, PairAt(loc[t].b, loc[t].i).key)'
      <4>1. PairAt(b, k)' = PairAt(b, k)
        BY <3>1
      <4>2. QED
        BY <2>5, <2>8, <2>9, <4>1 DEF Matches
    <3>4. AtChunk(loc[t], m)' /\ loc'[t].prev = Cell(loc[t].b, m)'
      <4>1. Chain(b)[m] # Null
        BY <2>5 DEF Chunks, Null
      <4>2. loc'[t].b = b /\ loc'[t].i = m * NPairs + loc'[t].j /\ loc'[t].at = Chain(b)[m] /\ loc'[t].prev = Cell(b, m)
        BY <2>5, <2>8, <2>9
      <4>3. Chain(b)' = Chain(b) /\ Cell(b, m)' = Cell(b, m)
        BY <3>1, <3>2
      <4>4. QED
        BY <4>1, <4>2, <4>3 DEF AtChunk
    <3>5. loc'[t].cur = size'[loc'[t].b] /\ loc'[t].i < loc'[t].cur /\ loc'[t].j \in Slots
      BY <1>3, <2>5, <2>7, <2>8, <2>9
    <3>6. QED
      BY <2>5, <2>9, <2>10, <3>3, <3>4, <3>5 DEF RemoveOK
  <2>18. \A c \in Buckets : Top(c)' = Top(c)
    BY <1>3, <2>9, TopSame DEF In
  <2>19. ValuesOK'
    <3>1. k \in 0..Top(b) - 1 /\ loc'[t].b = b /\ loc'[t].i = k
      BY <2>5, <2>8, <2>9, <2>11
    <3>2. pc[t] \notin {"move", "oob", "publish"} \cup Unpublished
      BY <1>3 DEF Unpublished, Searching
    <3>3. QED
      BY <1>3, <2>4, <2>9, <2>18, <3>1, <3>2, ValuesTaken
  <2>20. Op(t)' # "insert" \/ (pc[t] # "idle" /\ Op(t) = "insert" /\ loc'[t].id = loc[t].id)
    BY <1>3, <2>8, <2>9, <2>10
  <2>21. QED
    BY <1>3, <2>9, <2>13, <2>14, <2>15, <2>16, <2>17, <2>18, <2>19, <2>20, FrameStep
<1>6. QED
  BY <1>4, <1>5

(* Where remove_if stands. *)
LEMMA IfLooks ==
    ASSUME HashtabInv, NEW t \in Threads, pc[t] = "iftest", NEW b \in Buckets, b = loc[t].b
    PROVE  /\ loc[t].cur = size[b] /\ size[b] = Top(b) /\ size[b] \in Nat /\ loc[t].i \in Nat
           /\ loc[t].i <= size[b] /\ Op(t) = "remove_if" /\ NoneBefore(t, loc[t].i)
           /\ loc[t].i < size[b] =>
                /\ loc[t].j \in 0..NPairs
                /\ \E m \in 0..NChunks :
                     /\ m < NChunks /\ AtChunk(loc[t], m) /\ loc[t].at \in Chunks
                     /\ loc[t].j = NPairs =>
                          /\ m + 1 \in 0..NChunks /\ loc[t].i = (m + 1) * NPairs
                          /\ Chain(b)[m + 1] # Null /\ next[loc[t].at] = Chain(b)[m + 1]
                     /\ loc[t].j < NPairs =>
                          loc[t].j \in Slots /\ pairs[loc[t].at][loc[t].j] = PairAt(b, loc[t].i)
<1>1. /\ TypesOK /\ LocksOK /\ CallOK(t) /\ RemoveOK(t) /\ loc[t] \in LocType /\ In(t, Removing \ {"release", "shrink"}, b)
      /\ ChunksApart /\ FilledOK /\ \A u \in Threads : RemoveOK(u)
  BY InTheBucket DEF HashtabInv, CallsOK, Removing
<1>2. Top(b) = size[b] /\ size[b] \in Nat /\ loc[t].i \in Nat /\ Op(t) = "remove_if"
  BY <1>1, TopIs, TopType DEF LocType, CallOK
<1>3. /\ loc[t].cur = size[b] /\ loc[t].i <= size[b] /\ NoneBefore(t, loc[t].i)
      /\ loc[t].i < size[b] => loc[t].j \in 0..NPairs /\ \E m \in 0..NChunks : AtChunk(loc[t], m)
  BY <1>1, <1>2 DEF RemoveOK
<1>4. ASSUME loc[t].i < size[b], NEW m \in 0..NChunks, AtChunk(loc[t], m)
      PROVE  /\ m < NChunks /\ loc[t].at \in Chunks
             /\ loc[t].j = NPairs =>
                  /\ m + 1 \in 0..NChunks /\ loc[t].i = (m + 1) * NPairs
                  /\ Chain(b)[m + 1] # Null /\ next[loc[t].at] = Chain(b)[m + 1]
             /\ loc[t].j < NPairs =>
                  loc[t].j \in Slots /\ pairs[loc[t].at][loc[t].j] = PairAt(b, loc[t].i)
  <2>1. /\ loc[t].at = Chain(b)[m] /\ loc[t].at # Null /\ loc[t].i = m * NPairs + loc[t].j
        /\ Chain(b)[NChunks] = Null /\ Chain(b) \in [0..NChunks -> Chunks \cup {Null}]
        /\ \A n \in 1..NChunks : Chain(b)[n] = IF Chain(b)[n - 1] = Null THEN Null ELSE next[Chain(b)[n - 1]]
    BY <1>1, <1>4, Chains DEF AtChunk
  <2>2. m < NChunks /\ m \in Nat /\ NChunks \in Nat
    BY <2>1, HashtabAssumption
  <2>3. loc[t].at \in Chunks
    BY <2>1
  <2>4. ASSUME loc[t].j = NPairs
        PROVE  /\ m + 1 \in 0..NChunks /\ loc[t].i = (m + 1) * NPairs
               /\ Chain(b)[m + 1] # Null /\ next[loc[t].at] = Chain(b)[m + 1]
    <3>1. m + 1 \in 0..NChunks /\ m + 1 \in 1..NChunks /\ (m + 1) - 1 = m
      BY <2>2
    <3>2. loc[t].i = (m + 1) * NPairs
      BY <2>1, <2>2, <2>4, Rows, HashtabAssumption
    <3>3. PICK k : k = m + 1
      OBVIOUS
    <3>4. Chain(b)[k] # Null
      <4>1. k \in 0..NChunks /\ k * NPairs < Top(b)
        BY <1>2, <1>4, <3>1, <3>2, <3>3
      <4>2. QED
        BY <1>1, <4>1 DEF FilledOK
    <3>5. Chain(b)[k] = next[Chain(b)[m]]
      <4>1. k \in 1..NChunks /\ k - 1 = m
        BY <3>1, <3>3
      <4>2. Chain(b)[k] = IF Chain(b)[k - 1] = Null THEN Null ELSE next[Chain(b)[k - 1]]
        BY <2>1, <4>1
      <4>3. QED
        BY <2>1, <4>1, <4>2
    <3>6. QED
      BY <2>1, <3>1, <3>2, <3>3, <3>4, <3>5
  <2>5. ASSUME loc[t].j < NPairs
        PROVE  loc[t].j \in Slots /\ pairs[loc[t].at][loc[t].j] = PairAt(b, loc[t].i)
    <3>1. loc[t].j \in Slots
      BY <1>3, <1>4, <2>5, HashtabAssumption DEF Slots
    <3>2. QED
      BY <2>1, <3>1, PairIn
  <2>6. QED
    BY <2>2, <2>3, <2>4, <2>5
<1>5. QED
  BY <1>2, <1>3, <1>4

(* One round of remove_if. *)
LEMMA IfTestInv == ASSUME HashtabInv, NEW t \in Threads, IfTest(t) PROVE HashtabInv'
<1>1. /\ pc[t] = "iftest"
      /\ UNCHANGED <<size, head, insertLock, readers, writers, next, pairs, freeList, allocated, calls, result>>
  BY DEF IfTest, lockVars, chunkVars
<1>2. /\ TypesOK /\ LocksOK /\ CallOK(t) /\ loc[t].b \in Buckets /\ loc[t] \in LocType
  BY InTheBucket DEF HashtabInv, CallsOK
<1>3. PICK b \in Buckets : b = loc[t].b
  BY <1>2
<1>4. /\ loc[t].cur = size[b] /\ size[b] = Top(b) /\ size[b] \in Nat /\ loc[t].i \in Nat
      /\ loc[t].i <= size[b] /\ Op(t) = "remove_if" /\ NoneBefore(t, loc[t].i)
      /\ loc[t].i < size[b] =>
           /\ loc[t].j \in 0..NPairs
           /\ \E m \in 0..NChunks :
                /\ m < NChunks /\ AtChunk(loc[t], m) /\ loc[t].at \in Chunks
                /\ loc[t].j = NPairs =>
                     /\ m + 1 \in 0..NChunks /\ loc[t].i = (m + 1) * NPairs
                     /\ Chain(b)[m + 1] # Null /\ next[loc[t].at] = Chain(b)[m + 1]
                /\ loc[t].j < NPairs =>
                     loc[t].j \in Slots /\ pairs[loc[t].at][loc[t].j] = PairAt(b, loc[t].i)
  BY <1>1, <1>3, IfLooks
<1>5. (\A n : PairAt(b, n)' = PairAt(b, n)) /\ Chain(b)' = Chain(b)
  BY <1>1, ViewSame
<1>6. \/ /\ loc[t].at = Null
         /\ Goto(t, "wunlock")
         /\ UNCHANGED <<loc, alive>>
      \/ /\ loc[t].at # Null /\ ~(loc[t].i < loc[t].cur /\ loc[t].j < NPairs)
         /\ loc' = [loc EXCEPT ![t].at = next[loc[t].at], ![t].j = 0]
         /\ UNCHANGED <<pc, alive>>
      \/ /\ loc[t].at # Null /\ loc[t].i < loc[t].cur /\ loc[t].j < NPairs /\ Matches(t, pairs[loc[t].at][loc[t].j].key)
         /\ alive' = alive \ {pairs[loc[t].at][loc[t].j].val}
         /\ loc' = [loc EXCEPT ![t].prev = Null]
         /\ Goto(t, "move")
      \/ /\ loc[t].at # Null /\ loc[t].i < loc[t].cur /\ loc[t].j < NPairs /\ ~Matches(t, pairs[loc[t].at][loc[t].j].key)
         /\ loc' = [loc EXCEPT ![t].i = loc[t].i + 1, ![t].j = loc[t].j + 1]
         /\ UNCHANGED <<pc, alive>>
  BY DEF IfTest, Destroy
<1>7. ASSUME NEW l \in LocType, NEW p \in {"iftest", "move", "wunlock"},
             loc' = [loc EXCEPT ![t] = l], Goto(t, p), l.b = b, l.call = loc[t].call,
             alive' \in SUBSET Values
      PROVE  /\ Alone(t) /\ pc'[t] = p /\ loc'[t] = l /\ Op(t)' = Op(t)
             /\ TypesOK' /\ LocksOK' /\ CallOK(t)' /\ SearchOK(t)'
             /\ \A c \in Buckets : Top(c)' = Top(c)
  <2>1. /\ Alone(t) /\ pc'[t] = p /\ loc'[t] = l
        /\ pc' \in [Threads -> Pcs \cup {"oob"}] /\ loc' \in [Threads -> LocType]
    BY <1>2, <1>7, Steps DEF Pcs
  <2>2. Op(t)' = Op(t)
    BY <1>7, <2>1 DEF Op
  <2>3. TypesOK'
    BY <1>1, <1>2, <1>7, <2>1 DEF TypesOK
  <2>4. LocksOK'
    <3>1. /\ (pc'[t] \in Reading) = (pc[t] \in Reading)
          /\ (pc'[t] \in Removing) = (pc[t] \in Removing)
          /\ (pc'[t] \in Inserting) = (pc[t] \in Inserting)
      BY <1>1, <2>1 DEF Reading, Searching, Removing, Inserting
    <3>2. loc'[t].b = loc[t].b /\ UNCHANGED <<readers, writers, insertLock>>
      BY <1>1, <1>3, <1>7, <2>1
    <3>3. QED
      BY <1>2, <2>1, <3>1, <3>2, LocksStay
  <2>5. CallOK(t)'
    <3>1. loc'[t].call \in Calls
      BY <1>1, <1>2, <1>7, <2>1 DEF CallOK
    <3>2. QED
      BY <1>4, <2>1, <2>2, <3>1 DEF CallOK, Reading, Searching, Removing, Inserting
  <2>6. SearchOK(t)'
    BY <2>1 DEF SearchOK, Searching
  <2>7. \A c \in Buckets : Top(c)' = Top(c)
    BY <1>1, <2>1, TopSame DEF In
  <2>8. QED
    BY <2>1, <2>2, <2>3, <2>4, <2>5, <2>6, <2>7
<1>8. loc' = loc => loc' = [loc EXCEPT ![t] = loc[t]]
  BY <1>2 DEF TypesOK
<1>9. pc' = pc => Goto(t, "iftest")
  BY <1>1, <1>2 DEF Goto, TypesOK
<1>10. alive \in SUBSET Values /\ \A v : alive \ {v} \in SUBSET Values
  BY <1>2 DEF TypesOK
<1>11. CASE /\ loc[t].at = Null
            /\ Goto(t, "wunlock")
            /\ UNCHANGED <<loc, alive>>
  <2>1. /\ Alone(t) /\ pc'[t] = "wunlock" /\ loc'[t] = loc[t] /\ Op(t)' = Op(t)
        /\ TypesOK' /\ LocksOK' /\ CallOK(t)' /\ SearchOK(t)'
    BY <1>2, <1>3, <1>7, <1>8, <1>10, <1>11
  <2>2. loc[t].i = size[b]
    BY <1>4, <1>11 DEF AtChunk
  <2>3. \A i \in 0..size[b] - 1 : ~Matches(t, PairAt(b, i).key)
    BY <1>3, <1>4, <2>2 DEF NoneBefore
  <2>4. \A i \in 0..size[b] - 1 : ~Matches(t, PairAt(b, i).key)'
    BY <1>5, <2>1, <2>3 DEF Matches
  <2>5. NoneBefore(t, size[loc[t].b])'
    BY <1>1, <1>3, <2>1, <2>4 DEF NoneBefore
  <2>6. RemoveOK(t)'
    BY <2>1, <2>5 DEF RemoveOK
  <2>7. QED
    BY <1>1, <1>11, <2>1, <2>6, QuietStep DEF Unpublished, Searching
<1>12. CASE /\ loc[t].at # Null /\ ~(loc[t].i < loc[t].cur /\ loc[t].j < NPairs)
            /\ loc' = [loc EXCEPT ![t].at = next[loc[t].at], ![t].j = 0]
            /\ UNCHANGED <<pc, alive>>
  <2>1. PICK c : c = next[loc[t].at]
    OBVIOUS
  <2>2. c \in Chunks \cup {Null}
    BY <1>2, <1>12, <2>1 DEF TypesOK, LocType
  <2> DEFINE l == [loc[t] EXCEPT !.at = c, !.j = 0]
  <2>3. loc' = [loc EXCEPT ![t] = l]
    BY <1>2, <1>12, <2>1 DEF TypesOK
  <2>4. /\ l \in LocType /\ l.at = c /\ l.j = 0 /\ l.i = loc[t].i /\ l.b = b /\ l.cur = loc[t].cur
        /\ l.call = loc[t].call /\ l.id = loc[t].id
    BY <1>2, <1>3, <2>2 DEF LocType
  <2> HIDE DEF l
  <2>5. /\ Alone(t) /\ pc'[t] = "iftest" /\ loc'[t] = l /\ Op(t)' = Op(t)
        /\ TypesOK' /\ LocksOK' /\ CallOK(t)' /\ SearchOK(t)'
    BY <1>7, <1>9, <1>10, <1>12, <2>3, <2>4
  <2>6. NoneBefore(t, loc[t].i)'
    <3>1. \A i \in 0..loc[t].i - 1 : ~Matches(t, PairAt(loc[t].b, i).key)'
      <4>1. loc'[t].b = loc[t].b /\ loc'[t].call = loc[t].call
        BY <1>3, <2>4, <2>5
      <4>2. QED
        BY <1>1, <1>4, <4>1, NoneBeforeView
    <3>2. QED
      BY <2>4, <2>5, <3>1 DEF NoneBefore
  <2>7. ASSUME loc'[t].i < loc'[t].cur PROVE loc'[t].j \in 0..NPairs /\ \E m \in 0..NChunks : AtChunk(loc[t], m)'
    <3>1. loc[t].i < size[b] /\ loc[t].i < loc[t].cur
      BY <1>4, <2>4, <2>5, <2>7
    <3>2. loc[t].j = NPairs
      BY <1>4, <1>12, <3>1, HashtabAssumption
    <3>3. PICK n \in 0..NChunks : /\ n + 1 \in 0..NChunks /\ loc[t].i = (n + 1) * NPairs
                                  /\ Chain(b)[n + 1] # Null /\ next[loc[t].at] = Chain(b)[n + 1]
      BY <1>4, <3>1, <3>2
    <3>4. PICK m \in 0..NChunks : m = n + 1
      BY <3>3
    <3>5. AtChunk(loc[t], m)'
      <4>1. loc'[t].b = b /\ loc'[t].i = m * NPairs + loc'[t].j /\ loc'[t].at = Chain(b)[m] /\ Chain(b)[m] # Null
        <5>1. m * NPairs \in Nat
          BY <3>4, Rows, HashtabAssumption
        <5>2. loc[t].i = m * NPairs /\ c = Chain(b)[m] /\ Chain(b)[m] # Null
          BY <2>1, <3>3, <3>4
        <5>3. QED
          BY <2>4, <2>5, <5>1, <5>2
      <4>2. QED
        BY <1>5, <4>1 DEF AtChunk
    <3>6. QED
      BY <2>4, <2>5, <3>5, HashtabAssumption
  <2>8. RemoveOK(t)'
    <3>1. loc'[t].cur = size'[loc'[t].b] /\ loc'[t].i <= loc'[t].cur
      BY <1>1, <1>4, <2>4, <2>5
    <3>2. QED
      BY <2>5, <2>6, <2>7, <3>1 DEF RemoveOK
  <2>9. QED
    BY <1>1, <1>4, <1>12, <2>5, <2>8, QuietStep DEF Unpublished, Searching
<1>13. ASSUME loc[t].at # Null, loc[t].i < loc[t].cur, loc[t].j < NPairs
       PROVE  \E m \in 0..NChunks :
                /\ AtChunk(loc[t], m) /\ loc[t].i < size[b]
                /\ loc[t].j \in Slots /\ pairs[loc[t].at][loc[t].j] = PairAt(b, loc[t].i)
  BY <1>4, <1>13
<1>14. CASE /\ loc[t].at # Null /\ loc[t].i < loc[t].cur /\ loc[t].j < NPairs /\ Matches(t, pairs[loc[t].at][loc[t].j].key)
            /\ alive' = alive \ {pairs[loc[t].at][loc[t].j].val}
            /\ loc' = [loc EXCEPT ![t].prev = Null]
            /\ Goto(t, "move")
  <2>1. PICK m \in 0..NChunks :
                /\ AtChunk(loc[t], m) /\ loc[t].i < size[b]
                /\ loc[t].j \in Slots /\ pairs[loc[t].at][loc[t].j] = PairAt(b, loc[t].i)
    BY <1>13, <1>14
  <2>2. PICK k : k = loc[t].i
    OBVIOUS
  <2> DEFINE l == [loc[t] EXCEPT !.prev = Null]
  <2>3. loc' = [loc EXCEPT ![t] = l]
    BY <1>2, <1>14 DEF TypesOK
  <2>4. /\ l \in LocType /\ l.at = loc[t].at /\ l.j = loc[t].j /\ l.i = k /\ l.b = b /\ l.cur = loc[t].cur
        /\ l.call = loc[t].call /\ l.id = loc[t].id /\ l.prev = Null
    BY <1>2, <1>3, <2>2 DEF LocType
  <2> HIDE DEF l
  <2>5. /\ Alone(t) /\ pc'[t] = "move" /\ loc'[t] = l /\ Op(t)' = Op(t)
        /\ TypesOK' /\ LocksOK' /\ CallOK(t)' /\ SearchOK(t)'
        /\ \A c \in Buckets : Top(c)' = Top(c)
    BY <1>7, <1>10, <1>14, <2>3, <2>4
  <2>6. NoneBefore(t, loc[t].i)'
    <3>1. \A i \in 0..loc[t].i - 1 : ~Matches(t, PairAt(loc[t].b, i).key)'
      <4>1. loc'[t].b = loc[t].b /\ loc'[t].call = loc[t].call
        BY <1>3, <2>4, <2>5
      <4>2. QED
        BY <1>1, <1>4, <4>1, NoneBeforeView
    <3>2. QED
      BY <2>2, <2>4, <2>5, <3>1 DEF NoneBefore
  <2>7. AtChunk(loc[t], m)' /\ loc'[t].prev = Null
    <3>1. loc'[t].b = b /\ loc'[t].i = m * NPairs + loc'[t].j /\ loc'[t].at = Chain(b)[m] /\ Chain(b)[m] # Null /\ loc'[t].prev = Null
      BY <1>3, <2>1, <2>2, <2>4, <2>5 DEF AtChunk
    <3>2. QED
      BY <1>5, <3>1 DEF AtChunk
  <2>8. Matches(t, PairAt(loc[t].b, loc[t].i).key)'
    <3>1. PairAt(b, k)' = PairAt(b, k) /\ Matches(t, PairAt(b, k).key)
      BY <1>5, <1>14, <2>1, <2>2
    <3>2. QED
      BY <2>4, <2>5, <3>1 DEF Matches
  <2>9. RemoveOK(t)'
    <3>1. loc'[t].cur = size'[loc'[t].b] /\ loc'[t].i < loc'[t].cur /\ loc'[t].j \in Slots
      BY <1>1, <1>4, <2>1, <2>2, <2>4, <2>5
    <3>2. Op(t)' = "remove_if"
      BY <1>4, <2>5
    <3>3. \E q \in 0..NChunks : AtChunk(loc[t], q)' /\ loc'[t].prev = IF Op(t)' = "remove_if" THEN Null ELSE Cell(loc[t].b, q)'
      BY <2>7, <3>2
    <3>4. QED
      BY <2>5, <2>6, <2>8, <3>1, <3>3 DEF RemoveOK
  <2>10. ValuesOK'
    <3>1. k \in 0..Top(b) - 1 /\ loc'[t].b = b /\ loc'[t].i = k
      BY <1>4, <2>1, <2>2, <2>4, <2>5
    <3>2. pc[t] \notin {"move", "oob", "publish"} \cup Unpublished
      BY <1>1 DEF Unpublished, Searching
    <3>3. alive' = alive \ {PairAt(b, k).val}
      BY <1>14, <2>1, <2>2
    <3>4. QED
      BY <1>1, <2>5, <3>1, <3>2, <3>3, ValuesTaken
  <2>11. QED
    BY <1>1, <1>4, <2>5, <2>9, <2>10, FrameStep
<1>15. CASE /\ loc[t].at # Null /\ loc[t].i < loc[t].cur /\ loc[t].j < NPairs /\ ~Matches(t, pairs[loc[t].at][loc[t].j].key)
            /\ loc' = [loc EXCEPT ![t].i = loc[t].i + 1, ![t].j = loc[t].j + 1]
            /\ UNCHANGED <<pc, alive>>
  <2>1. PICK m \in 0..NChunks :
                /\ AtChunk(loc[t], m) /\ loc[t].i < size[b]
                /\ loc[t].j \in Slots /\ pairs[loc[t].at][loc[t].j] = PairAt(b, loc[t].i)
    BY <1>13, <1>15
  <2>2. loc[t].j \in Nat /\ loc[t].j + 1 \in Nat /\ loc[t].j + 1 \in 0..NPairs /\ loc[t].i + 1 \in Nat
    BY <1>4, <2>1, HashtabAssumption DEF Slots
  <2> DEFINE l == [loc[t] EXCEPT !.i = loc[t].i + 1, !.j = loc[t].j + 1]
  <2>3. loc' = [loc EXCEPT ![t] = l]
    BY <1>2, <1>15 DEF TypesOK
  <2>4. /\ l \in LocType /\ l.at = loc[t].at /\ l.j = loc[t].j + 1 /\ l.i = loc[t].i + 1 /\ l.b = b /\ l.cur = loc[t].cur
        /\ l.call = loc[t].call /\ l.id = loc[t].id
    BY <1>2, <1>3, <2>2 DEF LocType
  <2> HIDE DEF l
  <2>5. /\ Alone(t) /\ pc'[t] = "iftest" /\ loc'[t] = l /\ Op(t)' = Op(t)
        /\ TypesOK' /\ LocksOK' /\ CallOK(t)' /\ SearchOK(t)'
    BY <1>7, <1>9, <1>10, <1>15, <2>3, <2>4
  <2>6. NoneBefore(t, loc[t].i)'
    <3>1. ASSUME NEW i \in 0..(loc[t].i + 1) - 1 PROVE ~Matches(t, PairAt(b, i).key)
      <4>1. i \in 0..loc[t].i - 1 \/ i = loc[t].i
        BY <1>4
      <4>2. QED
        BY <1>3, <1>4, <1>15, <2>1, <4>1 DEF NoneBefore
    <3>2. \A i \in 0..(loc[t].i + 1) - 1 : ~Matches(t, PairAt(b, i).key)'
      BY <1>5, <2>4, <2>5, <3>1 DEF Matches
    <3>3. QED
      BY <2>4, <2>5, <3>2 DEF NoneBefore
  <2>7. AtChunk(loc[t], m)'
    <3>1. m * NPairs \in Nat
      BY Rows, HashtabAssumption
    <3>2. loc[t].i = m * NPairs + loc[t].j /\ loc[t].at = Chain(b)[m] /\ Chain(b)[m] # Null
      BY <1>3, <2>1 DEF AtChunk
    <3>3. loc'[t].b = b /\ loc'[t].i = m * NPairs + loc'[t].j /\ loc'[t].at = Chain(b)[m] /\ Chain(b)[m] # Null
      BY <2>2, <2>4, <2>5, <3>1, <3>2
    <3>4. QED
      BY <1>5, <3>3 DEF AtChunk
  <2>8. RemoveOK(t)'
    <3>1. loc'[t].cur = size'[loc'[t].b] /\ loc'[t].i <= loc'[t].cur /\ loc'[t].j \in 0..NPairs
      BY <1>1, <1>4, <2>1, <2>2, <2>4, <2>5
    <3>2. QED
      BY <2>5, <2>6, <2>7, <3>1 DEF RemoveOK
  <2>9. QED
    BY <1>1, <1>4, <1>15, <2>5, <2>8, QuietStep DEF Unpublished, Searching
<1>16. QED
  BY <1>6, <1>11, <1>12, <1>14, <1>15

-----------------------------------------------------------------------------
(* Insertion: a chunk, the pair, the size. *)

(* The pairs of a bucket stay where they are. *)
Keeps(c) ==
    /\ Top(c)' = Top(c)
    /\ \A n \in 0..NChunks : n * NPairs < Top(c) => Chain(c)'[n] = Chain(c)[n]
    /\ \A i \in 0..Top(c) - 1 : PairAt(c, i)' = PairAt(c, i)

(* FilledOK and PairsUnique after a step that keeps the pairs of every
   bucket. *)
LEMMA TableKept ==
    ASSUME HashtabInv, \A c \in Buckets : Keeps(c), calls' = calls
    PROVE  FilledOK' /\ PairsUnique'
<1>1. FilledOK /\ PairsUnique
  BY DEF HashtabInv
<1>2. FilledOK'
  <2> SUFFICES ASSUME NEW c \in Buckets
               PROVE  /\ \A n \in 0..NChunks : n * NPairs < Top(c)' => Chain(c)'[n] # Null
                      /\ \A i \in 0..Top(c)' - 1 :
                           /\ PairAt(c, i)'.key \in Keys /\ BucketIdx[PairAt(c, i)'.key] = c
                           /\ PairAt(c, i)'.val \in 1..calls'
    BY DEF FilledOK
  <2>1. Keeps(c)
    OBVIOUS
  <2>2. ASSUME NEW n \in 0..NChunks, n * NPairs < Top(c)' PROVE Chain(c)'[n] # Null
    <3>1. n * NPairs < Top(c)
      BY <2>1, <2>2 DEF Keeps
    <3>2. QED
      BY <1>1, <2>1, <3>1 DEF Keeps, FilledOK
  <2>3. ASSUME NEW i \in 0..Top(c)' - 1
        PROVE  /\ PairAt(c, i)'.key \in Keys /\ BucketIdx[PairAt(c, i)'.key] = c
               /\ PairAt(c, i)'.val \in 1..calls'
    <3>1. i \in 0..Top(c) - 1 /\ PairAt(c, i)' = PairAt(c, i)
      BY <2>1, <2>3 DEF Keeps
    <3>2. QED
      BY <1>1, <3>1 DEF FilledOK
  <2>4. QED
    BY <2>2, <2>3
<1>3. PairsUnique'
  <2> SUFFICES ASSUME NEW c \in Buckets, NEW i \in 0..Top(c)' - 1, NEW k \in 0..Top(c)' - 1,
                      PairAt(c, i)'.key = PairAt(c, k)'.key
               PROVE  i = k
    BY DEF PairsUnique
  <2>1. /\ i \in 0..Top(c) - 1 /\ PairAt(c, i)' = PairAt(c, i)
        /\ k \in 0..Top(c) - 1 /\ PairAt(c, k)' = PairAt(c, k)
    BY DEF Keeps
  <2>2. QED
    BY <1>1, <2>1 DEF PairsUnique
<1>4. QED
  BY <1>2, <1>3

(* ValuesOK after a step that keeps the pairs of every bucket. *)
LEMMA ValuesKept ==
    ASSUME HashtabInv, NEW t \in Threads, Alone(t), \A c \in Buckets : Keeps(c), alive' = alive,
           pc[t] \notin {"move", "oob", "publish"}, pc'[t] \notin {"move", "oob", "publish"},
           pc'[t] \in Unpublished /\ Op(t)' = "insert" =>
             pc[t] \in Unpublished /\ Op(t) = "insert" /\ loc'[t].id = loc[t].id
    PROVE  ValuesOK'
<1>1. ValuesOK
  BY DEF HashtabInv
<1>2. \A c \in Buckets : Top(c)' = Top(c) /\ \A i \in 0..Top(c) - 1 : PairAt(c, i)' = PairAt(c, i)
  BY DEF Keeps
<1>3. \A c, i : Dead(c, i)' <=> Dead(c, i)
  <2> SUFFICES ASSUME NEW c, NEW i PROVE Dead(c, i)' <=> Dead(c, i)
    OBVIOUS
  <2>1. \A u \in Threads : (In(u, {"move", "oob"}, c) /\ loc[u].i = i)' <=> (In(u, {"move", "oob"}, c) /\ loc[u].i = i)
    BY DEF In, Alone
  <2>2. QED
    BY <2>1 DEF Dead
<1>4. ASSUME NEW b \in Buckets, NEW c \in Buckets, NEW i \in 0..Top(b)' - 1, NEW k \in 0..Top(c)' - 1,
             PairAt(b, i)'.val = PairAt(c, k)'.val
      PROVE  b = c /\ i = k
  <2>1. Top(b)' = Top(b) /\ Top(c)' = Top(c) /\ PairAt(b, i)' = PairAt(b, i) /\ PairAt(c, k)' = PairAt(c, k)
    BY <1>2
  <2>2. QED
    BY <1>1, <1>4, <2>1 DEF ValuesOK
<1>5. ASSUME NEW u \in Threads, pc'[u] \in Unpublished, Op(u)' = "insert",
             NEW b \in Buckets, NEW i \in 0..Top(b)' - 1
      PROVE  PairAt(b, i)'.val # loc'[u].id
  <2>1. Top(b)' = Top(b) /\ PairAt(b, i)' = PairAt(b, i)
    BY <1>2
  <2>2. pc[u] \in Unpublished /\ Op(u) = "insert" /\ loc'[u].id = loc[u].id
    BY <1>5 DEF Alone, Op
  <2>3. QED
    BY <1>1, <1>5, <2>1, <2>2 DEF ValuesOK, Unpublished
<1>6. ASSUME NEW v \in Values
      PROVE  v \in alive' <=>
               \/ \E b \in Buckets : \E i \in 0..Top(b)' - 1 : PairAt(b, i)'.val = v /\ ~Dead(b, i)'
               \/ \E u \in Threads : pc'[u] = "publish" /\ loc'[u].id = v
  <2>1. (\E u \in Threads : pc'[u] = "publish" /\ loc'[u].id = v) <=> (\E u \in Threads : pc[u] = "publish" /\ loc[u].id = v)
    BY DEF Alone
  <2>2. (\E b \in Buckets : \E i \in 0..Top(b)' - 1 : PairAt(b, i)'.val = v /\ ~Dead(b, i)') <=>
        (\E b \in Buckets : \E i \in 0..Top(b) - 1 : PairAt(b, i).val = v /\ ~Dead(b, i))
    <3>1. ASSUME NEW b \in Buckets
          PROVE (\E i \in 0..Top(b)' - 1 : PairAt(b, i)'.val = v /\ ~Dead(b, i)') <=>
                (\E i \in 0..Top(b) - 1 : PairAt(b, i).val = v /\ ~Dead(b, i))
      <4>1. Top(b)' = Top(b)
        BY <1>2
      <4>2. \A i \in 0..Top(b) - 1 : (PairAt(b, i)'.val = v /\ ~Dead(b, i)') <=> (PairAt(b, i).val = v /\ ~Dead(b, i))
        BY <1>2, <1>3
      <4>3. QED
        BY <4>1, <4>2
    <3>2. QED
      BY <3>1
  <2>3. QED
    BY <1>1, <2>1, <2>2 DEF ValuesOK
<1>7. QED
  BY <1>4, <1>5, <1>6 DEF ValuesOK, Unpublished

(* A bucket that is Same keeps its pairs. *)
LEMMA SameKeeps ==
    ASSUME HashtabInv, NEW t \in Threads, Alone(t), NEW c \in Buckets, c # loc[t].b, loc'[t].b = loc[t].b, Same(c)
    PROVE  Keeps(c)
<1>1. TypesOK /\ ChunksApart /\ FilledOK /\ \A u \in Threads : RemoveOK(u)
  BY DEF HashtabInv
<1>2. size'[c] = size[c] /\ Chain(c)' = Chain(c)
  BY DEF Same
<1>3. Top(c)' = Top(c)
  <2>1. In(t, {"release", "shrink"}, c)' <=> In(t, {"release", "shrink"}, c)
    BY DEF In
  <2>2. QED
    BY <1>2, <2>1, TopSame
<1>4. \A i \in 0..Top(c) - 1 : PairAt(c, i)' = PairAt(c, i)
  BY <1>1, SamePairs
<1>5. QED
  BY <1>2, <1>3, <1>4 DEF Keeps

(* A step of t in its bucket b under a lock of b. *)
LEMMA BucketStep ==
    ASSUME HashtabInv, NEW t \in Threads, Alone(t), NEW b \in Buckets, b = loc[t].b,
           \A c \in Buckets : c # b => Same(c),
           In(t, Removing, b) \/ (In(t, Inserting, b) /\ In(t, Reading, b) /\ Grows(b)),
           calls' = calls, TypesOK', LocksOK', ChunksApart', FilledOK', PairsUnique', ValuesOK',
           CallOK(t)', SearchOK(t)', RemoveOK(t)',
           pc'[t] # "idle" /\ Op(t)' = "insert" =>
             pc[t] # "idle" /\ Op(t) = "insert" /\ loc'[t].id = loc[t].id
    PROVE  HashtabInv'
<1>1. TypesOK /\ CallsOK /\ LocksOK /\ ChunksApart /\ FilledOK /\ calls \in Nat /\ \A v \in Threads : RemoveOK(v)
  BY HashtabAssumption DEF HashtabInv, TypesOK
<1>2. CallsOK'
  BY <1>1, CallsKept
<1>3. ASSUME NEW u \in Threads, u # t PROVE SearchOK(u)' /\ RemoveOK(u)'
  <2>1. pc'[u] = pc[u] /\ loc'[u] = loc[u] /\ loc[u].b \in Buckets
    BY <1>1, <1>3, InTheBucket DEF Alone
  <2>2. size' \in [Buckets -> 0..NChunks * NPairs]
    BY DEF TypesOK
  <2>3. In(u, Reading, loc[u].b) => Grows(loc[u].b)
    <3> SUFFICES ASSUME In(u, Reading, loc[u].b) PROVE Grows(loc[u].b)
      OBVIOUS
    <3>1. CASE loc[u].b = b
      <4>1. ~In(t, Removing, b)
        BY <1>1, <1>3, <3>1, Exclusion
      <4>2. QED
        BY <3>1, <4>1
    <3>2. CASE loc[u].b # b
      <4>1. Top(loc[u].b) = size[loc[u].b] /\ Same(loc[u].b)
        BY <1>1, <2>1, <3>2, TopIs
      <4>2. QED
        BY <1>1, <2>1, <4>1, SameGrows
    <3>3. QED
      BY <3>1, <3>2
  <2>4. pc[u] \in {"lscan", "write", "publish"} \cup Removing => Same(loc[u].b)
    <3> SUFFICES ASSUME pc[u] \in {"lscan", "write", "publish"} \cup Removing, loc[u].b = b PROVE FALSE
      BY <2>1
    <3>1. (In(u, Inserting, b) /\ In(u, Reading, b)) \/ In(u, Removing, b)
      BY DEF In, Inserting, Reading, Searching
    <3>2. QED
      BY <1>1, <1>3, <3>1, Exclusion
  <2>5. QED
    BY <2>1, <2>2, <2>3, <2>4, OthersKeep
<1>4. \A u \in Threads : SearchOK(u)' /\ RemoveOK(u)'
  BY <1>3
<1>5. QED
  BY <1>2, <1>4 DEF HashtabInv

(* The insertion of thread t has got the m-th chunk of bucket b for its pair. *)
ChunkReady(t, b, m) ==
    /\ Alone(t) /\ pc[t] = "lscan" /\ pc'[t] = "write"
    /\ b = loc[t].b /\ loc'[t].b = b /\ loc'[t].cur = loc[t].cur
    /\ loc'[t].i = loc[t].i /\ loc'[t].call = loc[t].call /\ loc'[t].id = loc[t].id
    /\ UNCHANGED <<size, insertLock, readers, writers, pairs, alive, calls, result>>
    /\ pc' \in [Threads -> Pcs \cup {"oob"}] /\ loc' \in [Threads -> LocType]
    /\ next' \in [Chunks -> Chunks \cup {Null}] /\ head' \in [Buckets -> Chunks \cup {Null}]
    /\ freeList' \in Chunks \cup {Null} /\ allocated' \in SUBSET Chunks /\ ChunksApart'
    /\ loc[t].i = loc[t].cur
    /\ \A d \in Buckets : d # b => Chain(d)' = Chain(d)
    /\ \A n \in 0..NChunks : n * NPairs < size[b] => Chain(b)'[n] = Chain(b)[n]
    /\ loc'[t].j \in Slots /\ AtCell(loc[t], m)' /\ Chain(b)'[m] # Null

(* An insertion that has got the chunk for its pair keeps the invariant. *)
LEMMA WithChunk ==
    ASSUME HashtabInv, NEW t \in Threads, NEW b \in Buckets, NEW m \in 0..NChunks,
           ChunkReady(t, b, m)
    PROVE  HashtabInv'
<1>0. /\ Alone(t) /\ pc[t] = "lscan" /\ pc'[t] = "write"
      /\ b = loc[t].b /\ loc'[t].b = b /\ loc'[t].cur = loc[t].cur
      /\ loc'[t].i = loc[t].i /\ loc'[t].call = loc[t].call /\ loc'[t].id = loc[t].id
      /\ UNCHANGED <<size, insertLock, readers, writers, pairs, alive, calls, result>>
      /\ pc' \in [Threads -> Pcs \cup {"oob"}] /\ loc' \in [Threads -> LocType]
      /\ next' \in [Chunks -> Chunks \cup {Null}] /\ head' \in [Buckets -> Chunks \cup {Null}]
      /\ freeList' \in Chunks \cup {Null} /\ allocated' \in SUBSET Chunks /\ ChunksApart'
      /\ loc[t].i = loc[t].cur
      /\ \A d \in Buckets : d # b => Chain(d)' = Chain(d)
      /\ \A n \in 0..NChunks : n * NPairs < size[b] => Chain(b)'[n] = Chain(b)[n]
      /\ loc'[t].j \in Slots /\ AtCell(loc[t], m)' /\ Chain(b)'[m] # Null
  BY DEF ChunkReady
<1> USE <1>0
<1>1. /\ TypesOK /\ LocksOK /\ CallOK(t) /\ SearchOK(t) /\ ChunksApart /\ FilledOK
      /\ \A u \in Threads : RemoveOK(u)
  BY DEF HashtabInv, CallsOK
<1>2. In(t, Reading, b) /\ In(t, Inserting, b)
  BY DEF In, Reading, Inserting, Searching
<1>3. Top(b) = size[b] /\ loc[t].cur = size[b] /\ NoneBefore(t, loc[t].i) /\ size[b] \in Nat
  BY <1>1, <1>2, TopIs, TopType DEF SearchOK, Searching
<1>4. TypesOK'
  BY <1>1 DEF TypesOK
<1>5. Op(t)' = Op(t)
  BY DEF Op
<1>6. LocksOK'
  <2>1. /\ (pc'[t] \in Reading) = (pc[t] \in Reading)
        /\ (pc'[t] \in Removing) = (pc[t] \in Removing)
        /\ (pc'[t] \in Inserting) = (pc[t] \in Inserting)
    BY DEF Reading, Searching, Removing, Inserting
  <2>2. loc'[t].b = loc[t].b /\ UNCHANGED <<readers, writers, insertLock>>
    OBVIOUS
  <2>3. QED
    BY <1>1, <2>1, <2>2, LocksStay
<1>7. CallOK(t)'
  BY <1>1, <1>5 DEF CallOK, Reading, Searching, Removing, Inserting
<1>8. ASSUME NEW c \in Buckets, c # b PROVE Same(c)
  <2>1. size'[c] = size[c] /\ Chain(c)' = Chain(c) /\ pairs' = pairs
    BY <1>8
  <2>2. QED
    BY <1>1, <2>1, SameFromChain
<1>9. \A i \in 0..size[b] - 1 : PairAt(b, i)' = PairAt(b, i)
  <2> SUFFICES ASSUME NEW i \in 0..size[b] - 1 PROVE PairAt(b, i)' = PairAt(b, i)
    OBVIOUS
  <2>1. i \in 0..Top(b) - 1
    BY <1>3
  <2>2. PICK n, j : n = i \div NPairs /\ j = i % NPairs
    OBVIOUS
  <2>3. n \in 0..NChunks /\ j \in Slots /\ i = n * NPairs + j
    BY <1>1, <2>1, <2>2, PairHasSlot
  <2>4. n * NPairs \in Nat /\ j >= 0 /\ j \in Int /\ i \in Int /\ i < size[b]
    BY <1>3, <2>3, Rows, HashtabAssumption DEF Slots
  <2>5. n * NPairs < size[b]
    BY <1>3, <2>3, <2>4
  <2>6. Chain(b)'[n] = Chain(b)[n]
    BY <2>3, <2>5
  <2>7. pairs' = pairs
    OBVIOUS
  <2>8. QED
    BY <2>2, <2>6, <2>7 DEF PairAt
<1>10. Grows(b)
  <2>1. size'[b] >= size[b]
    BY <1>3
  <2>2. QED
    BY <1>9, <2>1 DEF Grows
<1>11. Top(b)' = Top(b)
  BY TopSame DEF In
<1>12. \A c \in Buckets : Keeps(c)
  <2>1. Keeps(b)
    BY <1>3, <1>9, <1>11 DEF Keeps
  <2>2. ASSUME NEW c \in Buckets, c # b PROVE Keeps(c)
    BY <1>8, <2>2, SameKeeps
  <2>3. QED
    BY <2>1, <2>2
<1>13. FilledOK' /\ PairsUnique'
  BY <1>12, TableKept
<1>14. ValuesOK'
  <2>1. pc[t] \in Unpublished
    BY DEF Unpublished, Searching
  <2>2. QED
    BY <1>5, <1>12, <2>1, ValuesKept
<1>15. SearchOK(t)'
  <2>1. \A i \in 0..size[b] - 1 : ~Matches(t, PairAt(b, i).key)'
    <3> SUFFICES ASSUME NEW i \in 0..size[b] - 1 PROVE ~Matches(t, PairAt(b, i).key)'
      OBVIOUS
    <3>1. ~Matches(t, PairAt(b, i).key) /\ PairAt(b, i)' = PairAt(b, i)
      BY <1>3, <1>9 DEF NoneBefore
    <3>2. QED
      BY <3>1 DEF Matches
  <2>2. NoneBefore(t, loc[t].i)'
    BY <1>3, <2>1 DEF NoneBefore
  <2>3. loc'[t].i = loc'[t].cur /\ loc'[t].cur = size'[loc'[t].b]
    BY <1>3
  <2>4. AtCell(loc[t], m)' /\ Chain(loc[t].b)'[m] # Null
    OBVIOUS
  <2>5. QED
    BY <2>2, <2>3, <2>4 DEF SearchOK, Searching
<1>16. RemoveOK(t)'
  BY DEF RemoveOK
<1>17. QED
  BY <1>2, <1>4, <1>5, <1>6, <1>7, <1>8, <1>10, <1>13, <1>14, <1>15, <1>16, BucketStep

(* NEW_CHUNK gives the insertion a chunk for the slot it writes to: the kept
   first one, a new or a free one, or the last one of the chain. *)
LEMMA NewChunkReady ==
    ASSUME HashtabInv, NEW t \in Threads, NewChunk(t)
    PROVE  \E b \in Buckets, m \in 0..NChunks : ChunkReady(t, b, m)
<1>1. PICK b, l : b = loc[t].b /\ l = loc[t]
  OBVIOUS
<1>2. /\ pc[t] = "lscan" /\ In(t, Inserting, b) /\ In(t, Reading, b) /\ b \in Buckets /\ Top(b) = size[b]
      /\ l.i = l.cur /\ l.cur = size[b] /\ NoneBefore(t, l.i)
      /\ Goto(t, "write")
      /\ UNCHANGED <<size, insertLock, readers, writers, pairs, alive, calls, result>>
      /\ \/ /\ UNCHANGED <<head, next, freeList, allocated, loc>>
            /\ \E m \in 0..NChunks : AtCell(l, m) /\ Chain(b)[m] # Null /\ l.j \in Slots
         \/ /\ UNCHANGED <<head, freeList, allocated>>
            /\ size[b] = 0 /\ head[b] # Null /\ l.i = 0 /\ l.j = 0
            /\ next' = [next EXCEPT ![head[b]] = Null]
            /\ loc' = [loc EXCEPT ![t] = [l EXCEPT !.at = Null]]
         \/ \E m \in 0..NChunks, c \in Chunks :
              /\ l.i = m * NPairs /\ (m > 0 => Cell(b, m) # Null) /\ (m = 0 => head[b] = Null)
              /\ Assigned(b, m, c)
              /\ loc' = [loc EXCEPT ![t] = [l EXCEPT !.at = Cell(b, m), !.j = 0]]
  <2>1. HashtabInv /\ t \in Threads /\ NewChunk(t)
    OBVIOUS
  <2>2. GetsChunk(t, b, l)
    BY ONLY <1>1, <2>1, NewChunks
  <2>3. QED
    BY <2>2 DEF GetsChunk
<1>3. /\ TypesOK /\ ChunksApart /\ l \in LocType /\ l.b = b
  BY <1>1, InTheBucket DEF HashtabInv
<1>4. ASSUME UNCHANGED <<head, next, freeList, allocated, loc>>,
             \E m \in 0..NChunks : AtCell(l, m) /\ Chain(b)[m] # Null /\ l.j \in Slots
      PROVE  \E e \in 0..NChunks : ChunkReady(t, b, e)
  <2>1. /\ Alone(t) /\ pc'[t] = "write" /\ loc'[t] = l
        /\ pc' \in [Threads -> Pcs \cup {"oob"}] /\ loc' \in [Threads -> LocType]
    BY <1>1, <1>2, <1>3, <1>4, StepsStay DEF Pcs
  <2>2. PICK m \in 0..NChunks : AtCell(l, m) /\ Chain(b)[m] # Null /\ l.j \in Slots
    BY <1>4
  <2>3. UNCHANGED <<size, head, next, pairs>>
    BY <1>2, <1>4
  <2>4. (\A c : Chain(c)' = Chain(c)) /\ (\A c, n : Cell(c, n)' = Cell(c, n))
    BY <2>3, ViewSame DEF Cell
  <2>5. AtCell(loc[t], m)'
    BY <1>3, <2>1, <2>2, <2>4 DEF AtCell
  <2>6. ChunksApart'
    BY <1>3, <1>4, ApartSame
  <2>7. /\ next' \in [Chunks -> Chunks \cup {Null}] /\ head' \in [Buckets -> Chunks \cup {Null}]
        /\ freeList' \in Chunks \cup {Null} /\ allocated' \in SUBSET Chunks
    BY <1>3, <1>4 DEF TypesOK
  <2>8. QED
    <3>1. ChunkReady(t, b, m)
      BY ZenonT(40), <1>1, <1>2, <1>3, <2>1, <2>2, <2>4, <2>5, <2>6, <2>7 DEF ChunkReady
    <3>2. QED
      BY <2>2, <3>1
<1>5. CASE /\ UNCHANGED <<head, freeList, allocated>>
           /\ size[b] = 0 /\ head[b] # Null /\ l.i = 0 /\ l.j = 0
           /\ next' = [next EXCEPT ![head[b]] = Null]
           /\ loc' = [loc EXCEPT ![t] = [l EXCEPT !.at = Null]]
  <2>1. [l EXCEPT !.at = Null] \in LocType
    BY <1>3 DEF LocType
  <2>2. /\ Alone(t) /\ pc'[t] = "write" /\ loc'[t] = [l EXCEPT !.at = Null]
        /\ pc' \in [Threads -> Pcs \cup {"oob"}] /\ loc' \in [Threads -> LocType]
    BY <1>2, <1>3, <1>5, <2>1, Steps DEF Pcs
  <2>3. /\ loc'[t].at = Null /\ loc'[t].i = 0 /\ loc'[t].j = 0 /\ loc'[t].b = b /\ loc'[t].cur = l.cur
        /\ loc'[t].call = l.call /\ loc'[t].id = l.id
    BY <1>3, <1>5, <2>2 DEF LocType
  <2>4. /\ next' \in [Chunks -> Chunks \cup {Null}]
        /\ \A p \in Places : p # b => Line(p)' = Line(p)
        /\ Line(b)'[0] = Line(b)[0]
    BY <1>2, <1>3, <1>5, KeptLines
  <2>5. \A c \in Buckets : c # b => Chain(c)' = Chain(c)
    <3>1. \A c \in Buckets : c \in Places /\ Chain(c) = Line(c) /\ Chain(c)' = Line(c)'
      BY ChainIsLine, HashtabAssumption DEF Chain, Line, First, Buckets
    <3>2. QED
      BY <2>4, <3>1
  <2>6. Chain(b)'[0] # Null
    <3>0. \A c \in Buckets : Chain(c) = Line(c) /\ Chain(c)' = Line(c)'
      BY ChainIsLine, HashtabAssumption DEF Chain, Line, First, Buckets
    <3>1. Chain(b)'[0] = Chain(b)[0]
      <4>1. Chain(b) = Line(b) /\ Chain(b)' = Line(b)'
        BY <1>2, <3>0
      <4>2. QED
        BY <2>4, <4>1
    <3>2. QED
      BY <1>2, <1>3, <1>5, <3>1, Chains
  <2>7. AtCell(loc[t], 0)' /\ 0 \in 0..NChunks
    BY <2>3, HashtabAssumption DEF AtCell, Cell
  <2>8. loc'[t].j \in Slots
    BY <2>3, HashtabAssumption DEF Slots
  <2>9. ASSUME NEW n \in 0..NChunks, n * NPairs < size[b] PROVE FALSE
    BY <1>5, <2>9, Rows, HashtabAssumption
  <2>10. ChunksApart'
    BY <1>2, <1>3, <1>5, ApartKept
  <2>11. head' \in [Buckets -> Chunks \cup {Null}] /\ freeList' \in Chunks \cup {Null} /\ allocated' \in SUBSET Chunks
    BY <1>3, <1>5 DEF TypesOK
  <2>12. loc'[t].i = loc[t].i
    BY <1>1, <1>5, <2>3
  <2>13. QED
    <3>1. /\ Alone(t) /\ pc[t] = "lscan" /\ pc'[t] = "write"
          /\ b = loc[t].b /\ loc'[t].b = b /\ loc'[t].cur = loc[t].cur
          /\ loc'[t].i = loc[t].i /\ loc'[t].call = loc[t].call /\ loc'[t].id = loc[t].id
          /\ UNCHANGED <<size, insertLock, readers, writers, pairs, alive, calls, result>>
          /\ pc' \in [Threads -> Pcs \cup {"oob"}] /\ loc' \in [Threads -> LocType]
          /\ next' \in [Chunks -> Chunks \cup {Null}] /\ head' \in [Buckets -> Chunks \cup {Null}]
          /\ freeList' \in Chunks \cup {Null} /\ allocated' \in SUBSET Chunks /\ ChunksApart'
          /\ loc[t].i = loc[t].cur
          /\ \A d \in Buckets : d # b => Chain(d)' = Chain(d)
          /\ \A n \in 0..NChunks : n * NPairs < size[b] => Chain(b)'[n] = Chain(b)[n]
          /\ loc'[t].j \in Slots /\ AtCell(loc[t], 0)' /\ Chain(b)'[0] # Null
      BY <1>1, <1>2, <2>2, <2>3, <2>4, <2>5, <2>6, <2>7, <2>8, <2>9, <2>10, <2>11, <2>12
    <3>2. ChunkReady(t, b, 0)
      BY ONLY <3>1 DEF ChunkReady
    <3>3. QED
      BY <1>2, <2>7, <3>2
<1>6. ASSUME NEW m \in 0..NChunks, NEW c \in Chunks,
             l.i = m * NPairs, m > 0 => Cell(b, m) # Null, Assigned(b, m, c),
             loc' = [loc EXCEPT ![t] = [l EXCEPT !.at = Cell(b, m), !.j = 0]]
      PROVE  \E e \in 0..NChunks : ChunkReady(t, b, e)
  <2>1. PICK cell : cell = Cell(b, m) /\ cell \in Chunks \cup {Null}
    BY <1>2, <1>3, <1>6, CellChunk
  <2>2. [l EXCEPT !.at = cell, !.j = 0] \in LocType
    BY <1>3, <2>1 DEF LocType
  <2>3. /\ Alone(t) /\ pc'[t] = "write" /\ loc'[t] = [l EXCEPT !.at = cell, !.j = 0]
        /\ pc' \in [Threads -> Pcs \cup {"oob"}] /\ loc' \in [Threads -> LocType]
    BY <1>2, <1>3, <1>6, <2>1, <2>2, Steps DEF Pcs
  <2>4. /\ loc'[t].at = cell /\ loc'[t].i = l.i /\ loc'[t].j = 0 /\ loc'[t].b = b /\ loc'[t].cur = l.cur
        /\ loc'[t].call = l.call /\ loc'[t].id = l.id
    BY <1>3, <2>3 DEF LocType
  <2>5. /\ next' \in [Chunks -> Chunks \cup {Null}] /\ head' \in [Buckets -> Chunks \cup {Null}]
        /\ freeList' \in Chunks \cup {Null} /\ allocated' \in SUBSET Chunks
        /\ \A p \in Places : p # b /\ p # HashTableSize => Line(p)' = Line(p)
        /\ \A n \in 0..m - 1 : Line(b)'[n] = Line(b)[n]
        /\ Line(b)'[m] = c
    <3>1. /\ TypesOK /\ ChunksApart /\ b \in Buckets /\ m \in 0..NChunks /\ c \in Chunks
          /\ m > 0 => Cell(b, m) # Null
          /\ Assigned(b, m, c)
      BY <1>2, <1>3, <1>6
    <3>2. QED
      BY ONLY <3>1, AssignedLines
  <2>6. \A d \in Buckets : d \in Places /\ d # HashTableSize /\ Chain(d) = Line(d) /\ Chain(d)' = Line(d)'
    BY ChainIsLine, HashtabAssumption DEF Chain, Line, First, Buckets
  <2>7. \A d \in Buckets : d # b => Chain(d)' = Chain(d)
    BY <2>5, <2>6
  <2>8. Chain(b)'[m] # Null
    <3>1. Chain(b)' = Line(b)'
      BY <1>2, <2>6
    <3>2. Chain(b)'[m] = c
      BY <2>5, <3>1
    <3>3. c # Null
      BY DEF Chunks, Null
    <3>4. QED
      BY <3>2, <3>3
  <2>9. \A n \in 0..m - 1 : Chain(b)'[n] = Chain(b)[n]
    BY <1>2, <2>5, <2>6
  <2>10. Cell(b, m)' = cell
    <3>1. CASE m = 0
      BY <2>1, <3>1 DEF Cell
    <3>2. CASE m # 0
      <4>1. PICK k : k = m - 1
        OBVIOUS
      <4>2. k \in 0..m - 1
        BY <3>2, <4>1, HashtabAssumption
      <4>3. Chain(b)'[k] = Chain(b)[k]
        BY <2>9, <4>2
      <4>4. QED
        BY <2>1, <3>2, <4>1, <4>3 DEF Cell
    <3>3. QED
      BY <3>1, <3>2
  <2>11. AtCell(loc[t], m)'
    <3>1. m * NPairs \in Nat
      BY Rows, HashtabAssumption
    <3>2. loc'[t].i = m * NPairs + loc'[t].j /\ loc'[t].at = cell /\ (m > 0 => cell # Null) /\ loc'[t].b = b
      BY <1>6, <2>1, <2>4, <3>1
    <3>3. QED
      BY <2>10, <3>2 DEF AtCell
  <2>12. ASSUME NEW n \in 0..NChunks, n * NPairs < size[b] PROVE Chain(b)'[n] = Chain(b)[n]
    <3>1. n < m
      <4>1. SUFFICES ASSUME m <= n PROVE FALSE
        BY HashtabAssumption
      <4>2. m * NPairs <= n * NPairs /\ m * NPairs \in Nat /\ n * NPairs \in Nat
        BY <4>1, Rows, HashtabAssumption
      <4>3. QED
        <5>1. PICK M, N : M = m * NPairs /\ N = n * NPairs
          OBVIOUS
        <5>2. M <= N /\ M \in Nat /\ N \in Nat /\ N < size[b] /\ l.i = M /\ l.i = l.cur /\ l.cur = size[b]
          BY <1>2, <1>6, <2>12, <4>2, <5>1
        <5>3. QED
          BY ONLY <5>2
    <3>2. n \in 0..m - 1
      BY <3>1, HashtabAssumption
    <3>3. QED
      BY <2>9, <3>2
  <2>13. loc'[t].j \in Slots
    BY <2>4, HashtabAssumption DEF Slots
  <2>14. ChunksApart'
    BY <1>2, <1>3, <1>6, ApartNewChunk
  <2>15. QED
    <3>1. /\ Alone(t) /\ pc[t] = "lscan" /\ pc'[t] = "write"
          /\ b = loc[t].b /\ loc'[t].b = b /\ loc'[t].cur = loc[t].cur
          /\ loc'[t].i = loc[t].i /\ loc'[t].call = loc[t].call /\ loc'[t].id = loc[t].id
          /\ UNCHANGED <<size, insertLock, readers, writers, pairs, alive, calls, result>>
          /\ pc' \in [Threads -> Pcs \cup {"oob"}] /\ loc' \in [Threads -> LocType]
          /\ next' \in [Chunks -> Chunks \cup {Null}] /\ head' \in [Buckets -> Chunks \cup {Null}]
          /\ freeList' \in Chunks \cup {Null} /\ allocated' \in SUBSET Chunks /\ ChunksApart'
          /\ loc[t].i = loc[t].cur
          /\ \A d \in Buckets : d # b => Chain(d)' = Chain(d)
          /\ \A n \in 0..NChunks : n * NPairs < size[b] => Chain(b)'[n] = Chain(b)[n]
          /\ loc'[t].j \in Slots /\ AtCell(loc[t], m)' /\ Chain(b)'[m] # Null
      BY <1>1, <1>2, <2>3, <2>4, <2>5, <2>7, <2>8, <2>11, <2>12, <2>13, <2>14
    <3>2. ChunkReady(t, b, m)
      BY ONLY <3>1 DEF ChunkReady
    <3>3. QED
      BY <1>6, <3>2
<1>7. QED
  BY <1>2, <1>4, <1>5, <1>6

(* An insertion gets a slot to write to: in the last chunk, the kept first
   one, or a new one. *)
LEMMA NewChunkInv == ASSUME HashtabInv, NEW t \in Threads, NewChunk(t) PROVE HashtabInv'
  BY NewChunkReady, WithChunk

(* The slot that an insertion fills: the first one behind the bucket's pairs. *)
LEMMA FreeSlot ==
    ASSUME HashtabInv, NEW t \in Threads, pc[t] \in {"write", "publish"}, NEW b \in Buckets, b = loc[t].b
    PROVE  /\ In(t, Reading, b) /\ In(t, Inserting, b) /\ Top(b) = size[b] /\ size[b] \in Nat
           /\ loc[t].i = size[b] /\ loc[t].cur = size[b] /\ NoneBefore(t, size[b]) /\ loc[t].j \in Slots
           /\ Op(t) = "insert" /\ loc[t].id \in 1..calls /\ loc[t].id \in Values
           /\ \E k \in Keys : loc[t].call.keys = {k} /\ BucketIdx[k] = b
           /\ \E m \in 0..NChunks :
                /\ AtCell(loc[t], m) /\ Chain(b)[m] \in Chunks /\ Deref(b, loc[t].at) = Chain(b)[m]
                /\ m < NChunks /\ size[b] = m * NPairs + loc[t].j /\ size[b] + 1 <= NChunks * NPairs
                /\ PairAt(b, size[b]) = pairs[Chain(b)[m]][loc[t].j]
<1>1. /\ TypesOK /\ LocksOK /\ CallOK(t) /\ SearchOK(t) /\ ChunksApart
      /\ \A u \in Threads : RemoveOK(u)
  BY DEF HashtabInv, CallsOK
<1>2. In(t, Reading, b) /\ In(t, Inserting, b)
  BY DEF In, Reading, Inserting
<1>3. Top(b) = size[b] /\ size[b] \in Nat
  BY <1>1, <1>2, TopIs, TopType
<1>4. loc[t].i = size[b] /\ loc[t].cur = size[b] /\ NoneBefore(t, size[b]) /\ loc[t].j \in Slots
  BY <1>1 DEF SearchOK
<1>5. PICK m \in 0..NChunks : AtCell(loc[t], m) /\ Chain(b)[m] # Null
  BY <1>1 DEF SearchOK
<1>6. Op(t) = "insert" /\ \E k \in Keys : loc[t].call.keys = {k} /\ BucketIdx[k] = b
  BY <1>1 DEF CallOK, Inserting
<1>7. loc[t].id \in 1..calls /\ loc[t].id \in Values
  <2>1. loc[t].id \in 1..calls
    BY <1>1, <1>6 DEF CallOK
  <2>2. calls \in 0..MaxCalls /\ MaxCalls \in Nat
    BY <1>1, HashtabAssumption DEF TypesOK
  <2>3. QED
    BY <2>1, <2>2 DEF Values
<1>8. /\ Chain(b)[m] \in Chunks /\ m < NChunks
  BY <1>1, <1>5, Chains, HashtabAssumption
<1>9. Deref(b, loc[t].at) = Chain(b)[m]
  <2>1. loc[t].at = Cell(b, m) /\ (m > 0 => Cell(b, m) # Null)
    BY <1>5 DEF AtCell
  <2>2. QED
    BY <1>1, <2>1, CellChunk
<1>10. size[b] = m * NPairs + loc[t].j
  BY <1>4, <1>5 DEF AtCell
<1>11. PairAt(b, size[b]) = pairs[Chain(b)[m]][loc[t].j]
  BY <1>4, <1>5, <1>10, PairIn
<1>12. size[b] + 1 <= NChunks * NPairs
  <2>1. /\ m * NPairs \in Nat /\ (m + 1) * NPairs = m * NPairs + NPairs
        /\ (m + 1) * NPairs <= NChunks * NPairs /\ NChunks * NPairs \in Nat
    BY <1>8, Rows, HashtabAssumption
  <2>2. PICK M, N : M = m * NPairs /\ N = NChunks * NPairs
    OBVIOUS
  <2>3. M \in Nat /\ N \in Nat /\ M + NPairs <= N /\ size[b] = M + loc[t].j /\ loc[t].j \in 0..NPairs - 1 /\ NPairs \in Nat
    BY <1>4, <1>10, <2>1, <2>2, HashtabAssumption DEF Slots
  <2>4. size[b] + 1 <= N
    BY ONLY <2>3
  <2>5. QED
    BY <2>2, <2>4
<1>13. QED
  BY <1>2, <1>3, <1>4, <1>5, <1>6, <1>7, <1>8, <1>9, <1>10, <1>11, <1>12

(* The pair is written behind the published ones. *)
LEMMA WriteInv == ASSUME HashtabInv, NEW t \in Threads, Write(t) PROVE HashtabInv'
<1>1. /\ TypesOK /\ LocksOK /\ CallOK(t) /\ SearchOK(t) /\ ChunksApart /\ FilledOK /\ ValuesOK
      /\ loc[t].b \in Buckets /\ loc[t] \in LocType
  BY InTheBucket DEF HashtabInv, CallsOK
<1>2. PICK b \in Buckets : b = loc[t].b
  BY <1>1
<1>3. /\ pc[t] = "write" /\ loc' = loc /\ Goto(t, "publish")
      /\ UNCHANGED <<size, head, insertLock, readers, writers, next, freeList, allocated, calls, result>>
      /\ alive' = alive \cup {loc[t].id}
  BY DEF Write, lockVars
<1>4. /\ In(t, Reading, b) /\ In(t, Inserting, b) /\ Top(b) = size[b] /\ size[b] \in Nat
      /\ loc[t].i = size[b] /\ loc[t].cur = size[b] /\ NoneBefore(t, size[b]) /\ loc[t].j \in Slots
      /\ Op(t) = "insert" /\ loc[t].id \in 1..calls /\ loc[t].id \in Values
      /\ \E k \in Keys : loc[t].call.keys = {k} /\ BucketIdx[k] = b
  BY <1>2, <1>3, FreeSlot
<1>5. PICK m \in 0..NChunks :
         /\ AtCell(loc[t], m) /\ Chain(b)[m] \in Chunks /\ Deref(b, loc[t].at) = Chain(b)[m]
         /\ m < NChunks /\ size[b] = m * NPairs + loc[t].j
  BY <1>2, <1>3, FreeSlot
<1>6. PICK k \in Keys : loc[t].call.keys = {k}
  BY <1>4
<1>7. PICK c, j : c = Chain(b)[m] /\ j = loc[t].j
  OBVIOUS
<1>8. PICK P : P = [key |-> k, val |-> loc[t].id]
  OBVIOUS
<1>9. pairs' = [pairs EXCEPT ![c][j] = P]
  <2>1. (CHOOSE q \in loc[t].call.keys : TRUE) = k
    BY <1>6
  <2>2. pairs' = [pairs EXCEPT ![Deref(loc[t].b, loc[t].at)][loc[t].j] =
                      [key |-> CHOOSE q \in loc[t].call.keys : TRUE, val |-> loc[t].id]]
    BY DEF Write
  <2>3. Deref(loc[t].b, loc[t].at) = c
    BY <1>2, <1>5, <1>7
  <2>4. QED
    BY <1>7, <1>8, <2>1, <2>2, <2>3
<1>10. c \in Chunks /\ j \in Slots /\ P \in [key : Keys \cup {None}, val : Values \cup {None}]
  BY <1>4, <1>5, <1>7, <1>8
<1>11. /\ pairs' \in [Chunks -> [Slots -> [key : Keys \cup {None}, val : Values \cup {None}]]]
       /\ pairs'[c][j] = P
       /\ \A d \in Chunks : d # c => pairs'[d] = pairs[d]
       /\ \A q \in Slots : q # j => pairs'[c][q] = pairs[c][q]
  BY <1>1, <1>9, <1>10 DEF TypesOK
<1>12. /\ Alone(t) /\ pc'[t] = "publish" /\ loc'[t] = loc[t] /\ Op(t)' = Op(t)
       /\ pc' \in [Threads -> Pcs \cup {"oob"}] /\ loc' \in [Threads -> LocType]
  BY <1>1, <1>3, StepsStay DEF Pcs
<1>13. TypesOK'
  <2>1. alive' \in SUBSET Values
    BY <1>1, <1>3, <1>4 DEF TypesOK
  <2>2. QED
    BY <1>1, <1>3, <1>11, <1>12, <2>1 DEF TypesOK
<1>14. LocksOK'
  <2>1. /\ (pc'[t] \in Reading) = (pc[t] \in Reading)
        /\ (pc'[t] \in Removing) = (pc[t] \in Removing)
        /\ (pc'[t] \in Inserting) = (pc[t] \in Inserting)
    BY <1>3, <1>12 DEF Reading, Searching, Removing, Inserting
  <2>2. loc'[t].b = loc[t].b /\ UNCHANGED <<readers, writers, insertLock>>
    BY <1>3, <1>12
  <2>3. QED
    BY <1>1, <1>12, <2>1, <2>2, LocksStay
<1>15. CallOK(t)'
  BY <1>1, <1>3, <1>12 DEF CallOK, Reading, Searching, Removing, Inserting
<1>16. \A d \in Buckets : Chain(d)' = Chain(d)
  BY <1>3 DEF Chain
<1>17. \A d \in Buckets : Chain(d) \in [0..NChunks -> Chunks \cup {Null}]
  BY <1>1, Chains
<1>18. \A d \in Buckets, n \in 0..NChunks : Chain(d)[n] = c => d = b /\ n = m
  <2> SUFFICES ASSUME NEW d \in Buckets, NEW n \in 0..NChunks, Chain(d)[n] = c PROVE d = b /\ n = m
    OBVIOUS
  <2>1. d \in Places /\ b \in Places /\ Line(b)[m] # Null /\ Line(b)[m] = Line(d)[n]
    BY <1>7, <1>10, ChainIsLine DEF Chunks, Null
  <2>2. QED
    BY <1>1, <2>1, Apart
<1>19. ASSUME NEW d \in Buckets, d # b PROVE Same(d)
  <2>1. \A n \in 0..NChunks : Chain(d)[n] # Null => pairs'[Chain(d)[n]] = pairs[Chain(d)[n]]
    <3> SUFFICES ASSUME NEW n \in 0..NChunks, Chain(d)[n] # Null
                 PROVE  pairs'[Chain(d)[n]] = pairs[Chain(d)[n]]
      OBVIOUS
    <3>1. Chain(d)[n] \in Chunks /\ Chain(d)[n] # c
      BY <1>17, <1>18, <1>19
    <3>2. QED
      BY <1>11, <3>1
  <2>2. size'[d] = size[d] /\ Chain(d)' = Chain(d)
    BY <1>3, <1>16
  <2>3. next' \in [Chunks -> Chunks \cup {Null}] /\ head' \in [Buckets -> Chunks \cup {Null}]
    BY <1>1, <1>3 DEF TypesOK
  <2>4. QED
    BY <1>1, <2>1, <2>2, <2>3, SameFromChain
<1>20. \A i \in 0..size[b] - 1 : PairAt(b, i)' = PairAt(b, i)
  <2> SUFFICES ASSUME NEW i \in 0..size[b] - 1 PROVE PairAt(b, i)' = PairAt(b, i)
    OBVIOUS
  <2>1. i \in 0..Top(b) - 1
    BY <1>4
  <2>2. PICK n, q : n = i \div NPairs /\ q = i % NPairs
    OBVIOUS
  <2>3. n \in 0..NChunks /\ q \in Slots /\ i = n * NPairs + q /\ Chain(b)[n] \in Chunks /\ PairAt(b, i) = pairs[Chain(b)[n]][q]
    BY <1>1, <2>1, <2>2, PairHasSlot DEF HashtabInv
  <2>4. n # m \/ q # j
    BY <1>4, <1>5, <1>7, <2>3
  <2>5. pairs'[Chain(b)[n]][q] = pairs[Chain(b)[n]][q]
    <3>1. CASE n # m
      BY <1>11, <1>18, <2>3, <3>1
    <3>2. CASE n = m
      BY <1>7, <1>11, <2>3, <2>4, <3>2
    <3>3. QED
      BY <3>1, <3>2
  <2>6. PairAt(b, i)' = pairs'[Chain(b)[n]][q]
    <3>1. Chain(b)' = Chain(b)
      BY <1>16
    <3>2. Chain(b)[n] # Null
      BY <2>3 DEF Chunks, Null
    <3>3. QED
      BY <2>2, <3>1, <3>2 DEF PairAt
  <2>7. QED
    BY <2>3, <2>5, <2>6
<1>21. Grows(b)
  BY <1>3, <1>4, <1>16, <1>20 DEF Grows
<1>22. Top(b)' = Top(b)
  BY <1>3, <1>12, TopSame DEF In
<1>23. \A d \in Buckets : Keeps(d)
  <2>1. Keeps(b)
    BY <1>4, <1>16, <1>20, <1>22 DEF Keeps
  <2>2. ASSUME NEW d \in Buckets, d # b PROVE Keeps(d)
    BY <1>2, <1>12, <1>19, <2>2, SameKeeps
  <2>3. QED
    BY <2>1, <2>2
<1>24. FilledOK' /\ PairsUnique'
  BY <1>3, <1>23, TableKept
<1>25. ValuesOK'
  <2>2. \A d \in Buckets : Top(d)' = Top(d) /\ \A i \in 0..Top(d) - 1 : PairAt(d, i)' = PairAt(d, i)
    BY <1>23 DEF Keeps
  <2>3. \A d, i : Dead(d, i)' <=> Dead(d, i)
    <3> SUFFICES ASSUME NEW d, NEW i PROVE Dead(d, i)' <=> Dead(d, i)
      OBVIOUS
    <3>1. \A u \in Threads : (In(u, {"move", "oob"}, d) /\ loc[u].i = i)' <=> (In(u, {"move", "oob"}, d) /\ loc[u].i = i)
      BY <1>3, <1>12 DEF In, Alone
    <3>2. QED
      BY <3>1 DEF Dead
  <2>4. ASSUME NEW d \in Buckets, NEW e \in Buckets, NEW i \in 0..Top(d)' - 1, NEW q \in 0..Top(e)' - 1,
               PairAt(d, i)'.val = PairAt(e, q)'.val
        PROVE  d = e /\ i = q
    <3>1. Top(d)' = Top(d) /\ Top(e)' = Top(e) /\ PairAt(d, i)' = PairAt(d, i) /\ PairAt(e, q)' = PairAt(e, q)
      BY <2>2
    <3>2. QED
      BY <1>1, <2>4, <3>1 DEF ValuesOK
  <2>5. ASSUME NEW u \in Threads, pc'[u] \in Unpublished, Op(u)' = "insert",
               NEW d \in Buckets, NEW i \in 0..Top(d)' - 1
        PROVE  PairAt(d, i)'.val # loc'[u].id
    <3>1. Top(d)' = Top(d) /\ PairAt(d, i)' = PairAt(d, i)
      BY <2>2
    <3>2. pc[u] \in Unpublished /\ Op(u) = "insert" /\ loc'[u].id = loc[u].id
      BY <1>3, <1>4, <1>12, <2>5 DEF Alone, Op, Unpublished
    <3>3. QED
      BY <1>1, <2>5, <3>1, <3>2 DEF ValuesOK, Unpublished
  <2>6. ASSUME NEW v \in Values
        PROVE  v \in alive' <=>
                 \/ \E d \in Buckets : \E i \in 0..Top(d)' - 1 : PairAt(d, i)'.val = v /\ ~Dead(d, i)'
                 \/ \E u \in Threads : pc'[u] = "publish" /\ loc'[u].id = v
    <3>1. (\E u \in Threads : pc'[u] = "publish" /\ loc'[u].id = v) <=>
          ((\E u \in Threads : pc[u] = "publish" /\ loc[u].id = v) \/ v = loc[t].id)
      BY <1>3, <1>12 DEF Alone
    <3>2. (\E d \in Buckets : \E i \in 0..Top(d)' - 1 : PairAt(d, i)'.val = v /\ ~Dead(d, i)') <=>
          (\E d \in Buckets : \E i \in 0..Top(d) - 1 : PairAt(d, i).val = v /\ ~Dead(d, i))
      <4>1. ASSUME NEW d \in Buckets
            PROVE (\E i \in 0..Top(d)' - 1 : PairAt(d, i)'.val = v /\ ~Dead(d, i)') <=>
                  (\E i \in 0..Top(d) - 1 : PairAt(d, i).val = v /\ ~Dead(d, i))
        <5>1. Top(d)' = Top(d)
          BY <2>2
        <5>2. \A i \in 0..Top(d) - 1 : (PairAt(d, i)'.val = v /\ ~Dead(d, i)') <=> (PairAt(d, i).val = v /\ ~Dead(d, i))
          BY <2>2, <2>3
        <5>3. QED
          BY <5>1, <5>2
      <4>2. QED
        BY <4>1
    <3>3. v \in alive <=>
            \/ \E d \in Buckets : \E i \in 0..Top(d) - 1 : PairAt(d, i).val = v /\ ~Dead(d, i)
            \/ \E u \in Threads : pc[u] = "publish" /\ loc[u].id = v
      BY <1>1 DEF ValuesOK
    <3>4. v \in alive' <=> v \in alive \/ v = loc[t].id
      BY <1>3
    <3>5. QED
      BY <3>1, <3>2, <3>3, <3>4
  <2>7. QED
    BY <2>4, <2>5, <2>6 DEF ValuesOK, Unpublished
<1>26. SearchOK(t)'
  <2>1. \A i \in 0..size[b] - 1 : ~Matches(t, PairAt(b, i).key)'
    <3> SUFFICES ASSUME NEW i \in 0..size[b] - 1 PROVE ~Matches(t, PairAt(b, i).key)'
      OBVIOUS
    <3>1. ~Matches(t, PairAt(b, i).key) /\ PairAt(b, i)' = PairAt(b, i)
      BY <1>2, <1>4, <1>20 DEF NoneBefore
    <3>2. QED
      BY <1>12, <3>1 DEF Matches
  <2>2. NoneBefore(t, loc[t].i)'
    BY <1>2, <1>4, <1>12, <2>1 DEF NoneBefore
  <2>3. loc'[t].i = loc'[t].cur /\ loc'[t].cur = size'[loc'[t].b] /\ loc'[t].j \in Slots
    BY <1>2, <1>3, <1>4, <1>12
  <2>4. AtCell(loc[t], m)' /\ Chain(loc[t].b)'[m] # Null
    <3>1. Chain(b)' = Chain(b) /\ Cell(b, m)' = Cell(b, m) /\ Chain(b)[m] # Null
      BY <1>5, <1>16 DEF Cell, Chunks, Null
    <3>2. QED
      BY <1>2, <1>5, <1>12, <3>1 DEF AtCell
  <2>5. pairs'[Deref(loc[t].b, loc[t].at)'][loc'[t].j] = [key |-> k, val |-> loc'[t].id] /\ k \in loc'[t].call.keys
    <3>1. Deref(loc[t].b, loc[t].at)' = c
      BY <1>2, <1>3, <1>5, <1>7, <1>12 DEF Deref
    <3>2. QED
      BY <1>6, <1>7, <1>8, <1>11, <1>12, <3>1
  <2>6. QED
    BY <1>12, <2>2, <2>3, <2>4, <2>5 DEF SearchOK, Searching
<1>27. RemoveOK(t)'
  BY <1>12 DEF RemoveOK
<1>28. ChunksApart'
  BY <1>1, <1>3, ApartSame
<1>29. QED
  BY <1>2, <1>3, <1>4, <1>12, <1>13, <1>14, <1>15, <1>19, <1>21, <1>24, <1>25, <1>26, <1>27, <1>28, BucketStep

(* The size publishes the pair: its key was in the table nowhere, because the
   search under insert_lock saw all pairs. *)
LEMMA PublishInv == ASSUME HashtabInv, NEW t \in Threads, Publish(t) PROVE HashtabInv'
<1>1. /\ TypesOK /\ LocksOK /\ CallOK(t) /\ CallsOK /\ SearchOK(t) /\ ChunksApart /\ FilledOK /\ PairsUnique /\ ValuesOK
      /\ loc[t].b \in Buckets /\ loc[t] \in LocType /\ \A u \in Threads : RemoveOK(u)
  BY InTheBucket DEF HashtabInv, CallsOK
<1>2. PICK b \in Buckets : b = loc[t].b
  BY <1>1
<1>3. /\ pc[t] = "publish" /\ loc' = loc /\ Goto(t, "iunlock")
      /\ UNCHANGED <<head, insertLock, readers, writers, next, pairs, freeList, allocated, alive, calls, result>>
      /\ size' = [size EXCEPT ![loc[t].b] = loc[t].cur + 1]
  BY DEF Publish, lockVars, chunkVars
<1>4. /\ In(t, Reading, b) /\ In(t, Inserting, b) /\ Top(b) = size[b] /\ size[b] \in Nat
      /\ loc[t].i = size[b] /\ loc[t].cur = size[b] /\ NoneBefore(t, size[b]) /\ loc[t].j \in Slots
      /\ Op(t) = "insert" /\ loc[t].id \in 1..calls /\ loc[t].id \in Values
      /\ \E k \in Keys : loc[t].call.keys = {k} /\ BucketIdx[k] = b
  BY <1>2, <1>3, FreeSlot
<1>5. PICK m \in 0..NChunks :
         /\ AtCell(loc[t], m) /\ Chain(b)[m] \in Chunks /\ Deref(b, loc[t].at) = Chain(b)[m]
         /\ m < NChunks /\ size[b] = m * NPairs + loc[t].j /\ size[b] + 1 <= NChunks * NPairs
         /\ PairAt(b, size[b]) = pairs[Chain(b)[m]][loc[t].j]
  BY <1>2, <1>3, FreeSlot
<1>6. PICK k \in Keys : loc[t].call.keys = {k} /\ BucketIdx[k] = b
  BY <1>4
<1>7. PairAt(b, size[b]) = [key |-> k, val |-> loc[t].id]
  <2>1. \E q \in loc[t].call.keys : pairs[Deref(loc[t].b, loc[t].at)][loc[t].j] = [key |-> q, val |-> loc[t].id]
    BY <1>1, <1>3 DEF SearchOK
  <2>2. QED
    BY <1>2, <1>5, <1>6, <2>1
<1>8. PICK s \in Nat : s = size[b]
  BY <1>4
<1>9. PICK P : P = PairAt(b, s)
  OBVIOUS
<1>10. P.key = k /\ P.val = loc[t].id
  BY <1>7, <1>8, <1>9
<1>11. size'[b] = s + 1 /\ \A d \in Buckets : d # b => size'[d] = size[d]
  BY <1>1, <1>2, <1>3, <1>4, <1>8 DEF TypesOK
<1>12. /\ Alone(t) /\ pc'[t] = "iunlock" /\ loc'[t] = loc[t] /\ Op(t)' = Op(t)
       /\ pc' \in [Threads -> Pcs \cup {"oob"}] /\ loc' \in [Threads -> LocType]
  BY <1>1, <1>3, StepsStay DEF Pcs
<1>13. TypesOK'
  <2>1. loc[t].cur + 1 \in 0..NChunks * NPairs
    <3>1. NChunks * NPairs \in Nat
      BY Rows, HashtabAssumption
    <3>2. PICK N : N = NChunks * NPairs
      OBVIOUS
    <3>3. N \in Nat /\ s \in Nat /\ s + 1 <= N /\ loc[t].cur = s
      BY <1>4, <1>5, <1>8, <3>1, <3>2
    <3>4. QED
      BY <3>2, <3>3
  <2>2. size' \in [Buckets -> 0..NChunks * NPairs]
    BY <1>1, <1>3, <2>1 DEF TypesOK
  <2>3. QED
    BY <1>1, <1>3, <1>12, <2>2 DEF TypesOK
<1>14. LocksOK'
  <2>1. /\ (pc'[t] \in Reading) = (pc[t] \in Reading)
        /\ (pc'[t] \in Removing) = (pc[t] \in Removing)
        /\ (pc'[t] \in Inserting) = (pc[t] \in Inserting)
    BY <1>3, <1>12 DEF Reading, Searching, Removing, Inserting
  <2>2. loc'[t].b = loc[t].b /\ UNCHANGED <<readers, writers, insertLock>>
    BY <1>3, <1>12
  <2>3. QED
    BY <1>1, <1>12, <2>1, <2>2, LocksStay
<1>15. CallOK(t)'
  BY <1>1, <1>3, <1>12 DEF CallOK, Reading, Searching, Removing, Inserting
<1>16. /\ \A d : Chain(d)' = Chain(d)
       /\ \A d, i : PairAt(d, i)' = PairAt(d, i)
  BY <1>3 DEF Chain, PairAt
<1>17. ASSUME NEW d \in Buckets, d # b PROVE Same(d)
  BY <1>3, <1>11, <1>16, <1>17 DEF Same
<1>18. Grows(b)
  BY <1>8, <1>11, <1>16 DEF Grows
<1>19. Top(b) = s /\ Top(b)' = s + 1
  <2>1. \A u \in Threads : ~In(u, {"release", "shrink"}, b)'
    <3> SUFFICES ASSUME NEW u \in Threads, In(u, {"release", "shrink"}, b)' PROVE FALSE
      OBVIOUS
    <3>1. u # t /\ In(u, {"release", "shrink"}, b)
      BY <1>12 DEF In, Alone
    <3>2. In(u, Removing, b)
      BY <3>1 DEF In, Removing
    <3>3. QED
      BY <1>1, <1>4, <3>1, <3>2, Exclusion
  <2>2. QED
    BY <1>4, <1>8, <1>11, <2>1 DEF Top
<1>20. ASSUME NEW d \in Buckets, d # b PROVE Keeps(d)
  BY <1>2, <1>12, <1>17, <1>20, SameKeeps
<1>21. ASSUME NEW d \in Buckets, NEW i \in 0..Top(d)' - 1
       PROVE  /\ i \in 0..Top(d) - 1 \/ (d = b /\ i = s)
              /\ PairAt(d, i)' = PairAt(d, i)
  BY <1>16, <1>19, <1>20 DEF Keeps
<1>22. \A i \in 0..Top(b) - 1 : PairAt(b, i).key # k
  BY <1>2, <1>4, <1>6 DEF NoneBefore, Matches
<1>23. FilledOK'
  <2> SUFFICES ASSUME NEW d \in Buckets
               PROVE  /\ \A n \in 0..NChunks : n * NPairs < Top(d)' => Chain(d)'[n] # Null
                      /\ \A i \in 0..Top(d)' - 1 :
                           /\ PairAt(d, i)'.key \in Keys /\ BucketIdx[PairAt(d, i)'.key] = d
                           /\ PairAt(d, i)'.val \in 1..calls'
    BY DEF FilledOK
  <2>1. ASSUME NEW i \in 0..Top(d)' - 1
        PROVE  /\ PairAt(d, i)'.key \in Keys /\ BucketIdx[PairAt(d, i)'.key] = d
               /\ PairAt(d, i)'.val \in 1..calls'
    <3>1. PairAt(d, i)' = PairAt(d, i) /\ calls' = calls
      BY <1>3, <1>21
    <3>2. CASE i \in 0..Top(d) - 1
      BY <1>1, <3>1, <3>2 DEF FilledOK
    <3>3. CASE d = b /\ i = s
      BY <1>4, <1>6, <1>9, <1>10, <3>1, <3>3
    <3>4. QED
      BY <1>21, <3>2, <3>3
  <2>2. ASSUME NEW n \in 0..NChunks, n * NPairs < Top(d)' PROVE Chain(d)'[n] # Null
    <3>1. CASE d # b
      <4>1. Top(d)' = Top(d) /\ Chain(d)' = Chain(d)
        BY <1>16, <1>20, <3>1 DEF Keeps
      <4>2. QED
        BY <1>1, <2>2, <4>1 DEF FilledOK
    <3>2. CASE d = b
      <4>1. n <= m
        <5>1. SUFFICES ASSUME m + 1 <= n PROVE FALSE
          BY HashtabAssumption
        <5>2. /\ (m + 1) * NPairs = m * NPairs + NPairs /\ (m + 1) * NPairs <= n * NPairs
              /\ m * NPairs \in Nat /\ n * NPairs \in Nat
          BY <5>1, Rows, HashtabAssumption
        <5>3. PICK M, N : M = m * NPairs /\ N = n * NPairs
          OBVIOUS
        <5>4. /\ M \in Nat /\ N \in Nat /\ M + NPairs <= N /\ NPairs \in Nat /\ N < s + 1
              /\ s = M + loc[t].j /\ loc[t].j \in 0..NPairs - 1
          BY <1>4, <1>5, <1>8, <1>19, <2>2, <3>2, <5>2, <5>3, HashtabAssumption DEF Slots
        <5>5. QED
          BY ONLY <5>4
      <4>2. Chain(b)[n] # Null
        <5>1. \A p \in 0..NChunks : \A q \in p..NChunks : Chain(b)[p] = Null => Chain(b)[q] = Null
          BY <1>1, Chains
        <5>2. m \in n..NChunks /\ Chain(b)[m] # Null
          BY <1>5, <4>1 DEF Chunks, Null
        <5>3. QED
          BY <5>1, <5>2
      <4>3. QED
        BY <1>16, <3>2, <4>2
    <3>3. QED
      BY <3>1, <3>2
  <2>3. QED
    BY <2>1, <2>2
<1>24. PairsUnique'
  <2> SUFFICES ASSUME NEW d \in Buckets, NEW i \in 0..Top(d)' - 1, NEW q \in 0..Top(d)' - 1,
                      PairAt(d, i)'.key = PairAt(d, q)'.key
               PROVE  i = q
    BY DEF PairsUnique
  <2>1. PairAt(d, i).key = PairAt(d, q).key
    BY <1>21
  <2>2. CASE i \in 0..Top(d) - 1 /\ q \in 0..Top(d) - 1
    BY <1>1, <2>1, <2>2 DEF PairsUnique
  <2>3. CASE d = b /\ i = s /\ q \in 0..Top(d) - 1
    BY <1>9, <1>10, <1>22, <2>1, <2>3
  <2>4. CASE d = b /\ q = s /\ i \in 0..Top(d) - 1
    BY <1>9, <1>10, <1>22, <2>1, <2>4
  <2>5. QED
    BY <1>21, <2>2, <2>3, <2>4
<1>25. \A d, i : Dead(d, i)' <=> Dead(d, i)
  <2> SUFFICES ASSUME NEW d, NEW i PROVE Dead(d, i)' <=> Dead(d, i)
    OBVIOUS
  <2>1. \A u \in Threads : (In(u, {"move", "oob"}, d) /\ loc[u].i = i)' <=> (In(u, {"move", "oob"}, d) /\ loc[u].i = i)
    BY <1>3, <1>12 DEF In, Alone
  <2>2. QED
    BY <2>1 DEF Dead
<1>26. \A i : ~Dead(b, i)
  <2> SUFFICES ASSUME NEW u \in Threads, In(u, {"move", "oob"}, b) PROVE FALSE
    BY DEF Dead
  <2>1. u # t /\ In(u, Removing, b)
    BY <1>3 DEF In, Removing
  <2>2. QED
    BY <1>1, <1>4, <2>1, Exclusion
<1>27. \A d \in Buckets : \A i \in 0..Top(d) - 1 : PairAt(d, i).val # loc[t].id
  BY <1>1, <1>3, <1>4 DEF ValuesOK
<1>28. ValuesOK'
  <2>1. ASSUME NEW d \in Buckets, NEW e \in Buckets, NEW i \in 0..Top(d)' - 1, NEW q \in 0..Top(e)' - 1,
               PairAt(d, i)'.val = PairAt(e, q)'.val
        PROVE  d = e /\ i = q
    <3>1. PairAt(d, i).val = PairAt(e, q).val
      BY <1>21, <2>1
    <3>2. CASE i \in 0..Top(d) - 1 /\ q \in 0..Top(e) - 1
      BY <1>1, <3>1, <3>2 DEF ValuesOK
    <3>3. CASE d = b /\ i = s /\ q \in 0..Top(e) - 1
      BY <1>9, <1>10, <1>27, <3>1, <3>3
    <3>4. CASE i \in 0..Top(d) - 1 /\ e = b /\ q = s
      BY <1>9, <1>10, <1>27, <3>1, <3>4
    <3>5. CASE d = b /\ i = s /\ e = b /\ q = s
      BY <3>5
    <3>6. QED
      BY <1>21, <3>2, <3>3, <3>4, <3>5
  <2>2. ASSUME NEW u \in Threads, pc'[u] \in Unpublished, Op(u)' = "insert",
               NEW d \in Buckets, NEW i \in 0..Top(d)' - 1
        PROVE  PairAt(d, i)'.val # loc'[u].id
    <3>1. u # t
      BY <1>12, <2>2 DEF Unpublished, Searching
    <3>2. pc[u] \in Unpublished /\ pc[u] # "idle" /\ Op(u) = "insert" /\ loc'[u].id = loc[u].id
      BY <1>12, <2>2, <3>1 DEF Alone, Op, Unpublished, Searching
    <3>3. PairAt(d, i)' = PairAt(d, i)
      BY <1>21
    <3>4. CASE i \in 0..Top(d) - 1
      BY <1>1, <3>2, <3>3, <3>4 DEF ValuesOK, Unpublished
    <3>5. CASE d = b /\ i = s
      <4>1. loc[u].id # loc[t].id
        BY <1>1, <1>3, <1>4, <3>1, <3>2 DEF CallsOK
      <4>2. QED
        BY <1>9, <1>10, <3>2, <3>3, <3>5, <4>1
    <3>6. QED
      BY <1>21, <3>4, <3>5
  <2>3. ASSUME NEW v \in Values
        PROVE  v \in alive' <=>
                 \/ \E d \in Buckets : \E i \in 0..Top(d)' - 1 : PairAt(d, i)'.val = v /\ ~Dead(d, i)'
                 \/ \E u \in Threads : pc'[u] = "publish" /\ loc'[u].id = v
    <3>1. (\E u \in Threads : pc[u] = "publish" /\ loc[u].id = v) <=>
          ((\E u \in Threads : pc'[u] = "publish" /\ loc'[u].id = v) \/ v = loc[t].id)
      BY <1>3, <1>12 DEF Alone
    <3>2. (\E d \in Buckets : \E i \in 0..Top(d)' - 1 : PairAt(d, i)'.val = v /\ ~Dead(d, i)') <=>
          ((\E d \in Buckets : \E i \in 0..Top(d) - 1 : PairAt(d, i).val = v /\ ~Dead(d, i)) \/ v = loc[t].id)
      <4>1. ASSUME NEW d \in Buckets
            PROVE (\E i \in 0..Top(d)' - 1 : PairAt(d, i)'.val = v /\ ~Dead(d, i)') <=>
                  ((\E i \in 0..Top(d) - 1 : PairAt(d, i).val = v /\ ~Dead(d, i)) \/ (d = b /\ v = loc[t].id))
        <5>1. CASE d # b
          <6>1. Top(d)' = Top(d)
            BY <1>20, <5>1 DEF Keeps
          <6>2. \A i : (PairAt(d, i)'.val = v /\ ~Dead(d, i)') <=> (PairAt(d, i).val = v /\ ~Dead(d, i))
            BY <1>16, <1>25
          <6>3. QED
            BY <5>1, <6>1, <6>2
        <5>2. CASE d = b
          <6>1. 0..Top(d)' - 1 = (0..Top(d) - 1) \cup {s}
            BY <1>19, <5>2
          <6>2. \A i : (PairAt(d, i)'.val = v /\ ~Dead(d, i)') <=> (PairAt(d, i).val = v /\ ~Dead(d, i))
            BY <1>16, <1>25
          <6>3. (PairAt(d, s).val = v /\ ~Dead(d, s)) <=> v = loc[t].id
            BY <1>9, <1>10, <1>26, <5>2
          <6>4. QED
            BY <5>2, <6>1, <6>2, <6>3
        <5>3. QED
          BY <5>1, <5>2
      <4>2. QED
        BY <4>1
    <3>3. v \in alive <=>
            \/ \E d \in Buckets : \E i \in 0..Top(d) - 1 : PairAt(d, i).val = v /\ ~Dead(d, i)
            \/ \E u \in Threads : pc[u] = "publish" /\ loc[u].id = v
      BY <1>1 DEF ValuesOK
    <3>4. alive' = alive
      BY <1>3
    <3>5. QED
      BY <3>1, <3>2, <3>3, <3>4
  <2>4. QED
    BY <2>1, <2>2, <2>3 DEF ValuesOK, Unpublished
<1>29. SearchOK(t)'
  <2>1. Matches(t, PairAt(loc[t].b, loc[t].i).key)'
    <3>1. PairAt(b, s)' = P /\ loc'[t].i = s /\ loc'[t].b = b /\ loc'[t].call = loc[t].call
      BY <1>2, <1>4, <1>8, <1>9, <1>12, <1>16
    <3>2. k \in loc[t].call.keys
      BY <1>6
    <3>3. QED
      BY <1>10, <3>1, <3>2 DEF Matches
  <2>2. loc'[t].i < size'[loc'[t].b] /\ loc'[t].j \in Slots
    BY <1>2, <1>4, <1>8, <1>11, <1>12
  <2>3. AtCell(loc[t], m)'
    <3>1. Cell(b, m)' = Cell(b, m)
      BY <1>16 DEF Cell
    <3>2. QED
      BY <1>2, <1>5, <1>12, <3>1 DEF AtCell
  <2>4. QED
    BY <1>12, <2>1, <2>2, <2>3 DEF SearchOK, Searching
<1>30. RemoveOK(t)'
  BY <1>12 DEF RemoveOK
<1>31. ChunksApart'
  BY <1>1, <1>3, ApartSame
<1>32. QED
  BY <1>2, <1>3, <1>4, <1>12, <1>13, <1>14, <1>15, <1>17, <1>18, <1>23, <1>24, <1>28, <1>29, <1>30, <1>31, BucketStep

-----------------------------------------------------------------------------
(* Removal: the last pair moves into the hole. *)

(* The size takes the moved pair out. *)
LEMMA ShrinkInv == ASSUME HashtabInv, NEW t \in Threads, Shrink(t) PROVE HashtabInv'
<1>1. /\ TypesOK /\ LocksOK /\ CallOK(t) /\ CallsOK /\ RemoveOK(t) /\ ChunksApart
      /\ loc[t].b \in Buckets /\ loc[t] \in LocType /\ \A u \in Threads : RemoveOK(u)
  BY InTheBucket DEF HashtabInv, CallsOK
<1>2. PICK b \in Buckets : b = loc[t].b
  BY <1>1
<1>3. /\ pc[t] = "shrink" /\ Goto(t, IF Op(t) = "remove_if" THEN "iftest" ELSE "wunlock")
      /\ UNCHANGED <<head, insertLock, readers, writers, next, pairs, freeList, allocated, alive, calls, result>>
      /\ size' = [size EXCEPT ![loc[t].b] = loc[t].cur - 1]
      /\ loc' = [loc EXCEPT ![t].cur = loc[t].cur - 1, ![t].prev = Null, ![t].last = Null]
  BY DEF Shrink, lockVars, chunkVars
<1>4. /\ In(t, Removing, b) /\ Top(b) = size[b] - 1 /\ size[b] \in Nat /\ Top(b) \in Nat
      /\ loc[t].cur = size[b] /\ loc[t].i < size[b] /\ loc[t].i \in Nat /\ size[b] <= NChunks * NPairs
      /\ Op(t) \in {"remove", "get_and_remove", "remove_if"}
      /\ Op(t) = "remove_if" => NoneBefore(t, loc[t].i)
      /\ Op(t) # "remove_if" => NoneBefore(t, size[b] - 1)
      /\ Op(t) = "remove_if" /\ loc[t].i < size[b] - 1 => loc[t].j \in Slots /\ \E m \in 0..NChunks : AtChunk(loc[t], m)
  <2>1. In(t, Removing, b) /\ In(t, {"release", "shrink"}, b)
    BY <1>2, <1>3 DEF In, Removing
  <2>2. Top(b) = size[b] - 1 /\ size[b] \in Nat /\ Top(b) \in Nat /\ size[b] <= NChunks * NPairs
    BY <1>1, <2>1, TopIs, TopType
  <2>3. /\ loc[t].cur = size[b] /\ loc[t].i < loc[t].cur
        /\ Op(t) = "remove_if" => NoneBefore(t, loc[t].i)
        /\ Op(t) # "remove_if" => NoneBefore(t, loc[t].cur - 1)
        /\ Op(t) = "remove_if" /\ loc[t].i < loc[t].cur - 1 => loc[t].j \in Slots /\ \E m \in 0..NChunks : AtChunk(loc[t], m)
    BY <1>1, <1>2, <1>3 DEF RemoveOK
  <2>4. Op(t) \in {"remove", "get_and_remove", "remove_if"} /\ loc[t].i \in Nat
    BY <1>1, <1>3 DEF CallOK, Removing, LocType
  <2>5. QED
    BY <2>1, <2>2, <2>3, <2>4
<1>5. PICK s \in Nat : s + 1 = size[b] /\ s = Top(b)
  BY <1>4
<1> DEFINE l == [loc[t] EXCEPT !.cur = loc[t].cur - 1, !.prev = Null, !.last = Null]
<1>6. loc' = [loc EXCEPT ![t] = l]
  BY <1>1, <1>3 DEF TypesOK
<1>7. /\ l \in LocType /\ l.at = loc[t].at /\ l.j = loc[t].j /\ l.i = loc[t].i /\ l.b = b /\ l.cur = s
      /\ l.call = loc[t].call /\ l.id = loc[t].id
  <2>1. loc[t].cur - 1 = s
    BY <1>4, <1>5
  <2>2. QED
    BY <1>1, <1>2, <2>1 DEF LocType, Null
<1> HIDE DEF l
<1>8. /\ Alone(t) /\ loc'[t] = l /\ Op(t)' = Op(t)
      /\ pc'[t] = IF Op(t) = "remove_if" THEN "iftest" ELSE "wunlock"
      /\ pc' \in [Threads -> Pcs \cup {"oob"}] /\ loc' \in [Threads -> LocType]
  <2>1. PICK p \in Pcs \cup {"oob"} : p = IF Op(t) = "remove_if" THEN "iftest" ELSE "wunlock"
    BY DEF Pcs
  <2>2. Goto(t, p)
    BY <1>3, <2>1
  <2>3. /\ Alone(t) /\ pc'[t] = p /\ loc'[t] = l
        /\ pc' \in [Threads -> Pcs \cup {"oob"}] /\ loc' \in [Threads -> LocType]
    BY <1>1, <1>6, <1>7, <2>2, Steps
  <2>4. Op(t)' = Op(t)
    BY <1>7, <2>3 DEF Op
  <2>5. QED
    BY <2>1, <2>3, <2>4
<1>9. size'[b] = s /\ \A d \in Buckets : d # b => size'[d] = size[d]
  BY <1>1, <1>2, <1>3, <1>4, <1>5 DEF TypesOK
<1>10. TypesOK'
  <2>1. loc[t].cur - 1 \in 0..NChunks * NPairs
    <3>1. NChunks * NPairs \in Nat
      BY Rows, HashtabAssumption
    <3>2. PICK N : N = NChunks * NPairs
      OBVIOUS
    <3>3. N \in Nat /\ s \in Nat /\ s + 1 <= N /\ loc[t].cur = s + 1
      BY <1>4, <1>5, <3>1, <3>2
    <3>4. QED
      BY <3>2, <3>3
  <2>2. size' \in [Buckets -> 0..NChunks * NPairs]
    BY <1>1, <1>3, <2>1 DEF TypesOK
  <2>3. QED
    BY <1>1, <1>3, <1>8, <2>2 DEF TypesOK
<1>11. LocksOK'
  <2>1. /\ (pc'[t] \in Reading) = (pc[t] \in Reading)
        /\ (pc'[t] \in Removing) = (pc[t] \in Removing)
        /\ (pc'[t] \in Inserting) = (pc[t] \in Inserting)
    BY <1>3, <1>8 DEF Reading, Searching, Removing, Inserting
  <2>2. loc'[t].b = loc[t].b /\ UNCHANGED <<readers, writers, insertLock>>
    BY <1>2, <1>3, <1>7, <1>8
  <2>3. QED
    BY <1>1, <1>8, <2>1, <2>2, LocksStay
<1>12. CallOK(t)'
  BY <1>1, <1>2, <1>3, <1>4, <1>7, <1>8 DEF CallOK, Reading, Searching, Removing, Inserting
<1>13. /\ \A d : Chain(d)' = Chain(d)
       /\ \A d, i : PairAt(d, i)' = PairAt(d, i)
  BY <1>3 DEF Chain, PairAt
<1>14. ASSUME NEW d \in Buckets, d # b PROVE Same(d)
  BY <1>3, <1>9, <1>13, <1>14 DEF Same
<1>15. Top(b)' = s
  <2>1. \A u \in Threads : ~In(u, {"release", "shrink"}, b)'
    <3> SUFFICES ASSUME NEW u \in Threads, In(u, {"release", "shrink"}, b)' PROVE FALSE
      OBVIOUS
    <3>1. u # t /\ In(u, {"release", "shrink"}, b)
      BY <1>8 DEF In, Alone
    <3>2. In(u, Removing, b)
      BY <3>1 DEF In, Removing
    <3>3. QED
      BY <1>1, <1>4, <3>1, <3>2, Exclusion
  <2>2. QED
    BY <1>9, <2>1 DEF Top
<1>16. ASSUME NEW d \in Buckets PROVE Keeps(d)
  <2>1. CASE d # b
    <3>1. loc'[t].b = loc[t].b
      BY <1>2, <1>7, <1>8
    <3>2. QED
      BY <1>2, <1>8, <1>14, <2>1, <3>1, SameKeeps
  <2>2. CASE d = b
    BY <1>5, <1>13, <1>15, <2>2 DEF Keeps
  <2>3. QED
    BY <2>1, <2>2
<1>17. FilledOK' /\ PairsUnique'
  BY <1>3, <1>16, TableKept
<1>18. ValuesOK'
  BY <1>3, <1>8, <1>16, ValuesKept DEF Unpublished, Searching
<1>19. ASSUME NEW n, NoneBefore(t, n) PROVE \A i \in 0..n - 1 : ~Matches(t, PairAt(loc[t].b, i).key)'
  BY <1>2, <1>7, <1>8, <1>13, <1>19 DEF NoneBefore, Matches
<1>20. RemoveOK(t)'
  <2>1. CASE Op(t) = "remove_if"
    <3>1. pc'[t] = "iftest" /\ loc'[t].cur = size'[loc'[t].b] /\ loc'[t].i <= loc'[t].cur
      BY <1>4, <1>5, <1>7, <1>8, <1>9, <2>1
    <3>2. NoneBefore(t, loc[t].i)'
      <4>1. \A i \in 0..loc[t].i - 1 : ~Matches(t, PairAt(loc[t].b, i).key)'
        BY <1>4, <1>19, <2>1
      <4>2. QED
        BY <1>7, <1>8, <4>1 DEF NoneBefore
    <3>3. ASSUME loc'[t].i < loc'[t].cur
          PROVE  loc'[t].j \in 0..NPairs /\ \E m \in 0..NChunks : AtChunk(loc[t], m)'
      <4>1. loc[t].j \in Slots /\ \E m \in 0..NChunks : AtChunk(loc[t], m)
        BY <1>4, <1>5, <1>7, <1>8, <2>1, <3>3
      <4>2. PICK m \in 0..NChunks : AtChunk(loc[t], m)
        BY <4>1
      <4>3. AtChunk(loc[t], m)'
        BY <1>2, <1>7, <1>8, <1>13, <4>2 DEF AtChunk
      <4>4. loc'[t].j \in 0..NPairs
        BY <1>7, <1>8, <4>1, HashtabAssumption DEF Slots
      <4>5. QED
        BY <4>3, <4>4
    <3>4. QED
      BY <3>1, <3>2, <3>3 DEF RemoveOK
  <2>2. CASE Op(t) # "remove_if"
    <3>1. pc'[t] = "wunlock"
      BY <1>8, <2>2
    <3>2. NoneBefore(t, size[loc[t].b])'
      <4>1. \A i \in 0..(size[b] - 1) - 1 : ~Matches(t, PairAt(loc[t].b, i).key)'
        BY <1>4, <1>19, <2>2
      <4>2. size'[loc'[t].b] = size[b] - 1
        BY <1>4, <1>5, <1>7, <1>8, <1>9
      <4>3. QED
        BY <1>7, <1>8, <4>1, <4>2 DEF NoneBefore
    <3>3. QED
      BY <3>1, <3>2 DEF RemoveOK
  <2>3. QED
    BY <2>1, <2>2
<1>21. SearchOK(t)'
  BY <1>8 DEF SearchOK, Searching
<1>22. ChunksApart'
  BY <1>1, <1>3, ApartSame
<1>23. Op(t)' # "insert"
  BY <1>4, <1>8
<1>24. QED
  BY <1>2, <1>3, <1>4, <1>8, <1>10, <1>11, <1>12, <1>14, <1>17, <1>18, <1>20, <1>21, <1>22, <1>23, BucketStep

(* The emptied last chunk goes to the free list. *)
LEMMA ReleaseInv == ASSUME HashtabInv, NEW t \in Threads, Release(t) PROVE HashtabInv'
<1>1. /\ TypesOK /\ LocksOK /\ CallOK(t) /\ CallsOK /\ RemoveOK(t) /\ ChunksApart /\ FilledOK
      /\ loc[t].b \in Buckets /\ loc[t] \in LocType /\ \A u \in Threads : RemoveOK(u)
  BY InTheBucket DEF HashtabInv, CallsOK
<1>2. PICK b \in Buckets : b = loc[t].b
  BY <1>1
<1>3. /\ pc[t] = "release" /\ Goto(t, "shrink") /\ loc' = loc
      /\ UNCHANGED <<size, head, insertLock, readers, writers, pairs, allocated, alive, calls, result>>
      /\ next' = [next EXCEPT ![loc[t].prev] = Null, ![loc[t].last] = freeList]
      /\ freeList' = loc[t].last
  BY DEF Release, lockVars
<1>4. /\ In(t, Removing, b) /\ Top(b) = size[b] - 1 /\ size[b] \in Nat /\ Top(b) \in Nat
      /\ loc[t].cur = size[b] /\ loc[t].i < size[b] /\ loc[t].i \in Nat
      /\ Op(t) \in {"remove", "get_and_remove", "remove_if"}
      /\ Op(t) = "remove_if" => NoneBefore(t, loc[t].i)
      /\ Op(t) # "remove_if" => NoneBefore(t, size[b] - 1)
      /\ Op(t) = "remove_if" /\ loc[t].i < size[b] - 1 => loc[t].j \in Slots /\ \E m \in 0..NChunks : AtChunk(loc[t], m)
  <2>1. In(t, Removing, b) /\ In(t, {"release", "shrink"}, b)
    BY <1>2, <1>3 DEF In, Removing
  <2>2. Top(b) = size[b] - 1 /\ size[b] \in Nat /\ Top(b) \in Nat
    BY <1>1, <2>1, TopIs, TopType
  <2>3. /\ loc[t].cur = size[b] /\ loc[t].i < loc[t].cur
        /\ Op(t) = "remove_if" => NoneBefore(t, loc[t].i)
        /\ Op(t) # "remove_if" => NoneBefore(t, loc[t].cur - 1)
        /\ Op(t) = "remove_if" /\ loc[t].i < loc[t].cur - 1 => loc[t].j \in Slots /\ \E m \in 0..NChunks : AtChunk(loc[t], m)
    BY <1>1, <1>2, <1>3 DEF RemoveOK
  <2>4. Op(t) \in {"remove", "get_and_remove", "remove_if"} /\ loc[t].i \in Nat
    BY <1>1, <1>3 DEF CallOK, Removing, LocType
  <2>5. QED
    BY <2>1, <2>2, <2>3, <2>4
<1>5. PICK n \in 1..NChunks :
         /\ size[b] - 1 = n * NPairs
         /\ Chain(b)[n] # Null /\ next[Chain(b)[n]] = Null /\ Released(b, n)
  <2>1. PICK n \in 1..NChunks :
           /\ loc[t].cur - 1 = n * NPairs
           /\ loc[t].prev = Chain(b)[n - 1] /\ loc[t].last = Chain(b)[n]
           /\ loc[t].last # Null /\ next[loc[t].last] = Null
    BY <1>1, <1>2, <1>3 DEF RemoveOK
  <2>2. Released(b, n)
    BY <1>3, <2>1 DEF Released
  <2>3. QED
    BY <1>4, <2>1, <2>2
<1>6. PICK s \in Nat : s = Top(b) /\ s + 1 = size[b] /\ s = n * NPairs
  BY <1>4, <1>5
<1>7. /\ Alone(t) /\ pc'[t] = "shrink" /\ loc'[t] = loc[t] /\ Op(t)' = Op(t)
      /\ pc' \in [Threads -> Pcs \cup {"oob"}] /\ loc' \in [Threads -> LocType]
  BY <1>1, <1>3, StepsStay DEF Pcs
<1>8. /\ next' \in [Chunks -> Chunks \cup {Null}] /\ Chain(b)[n] \in Chunks /\ freeList' \in Chunks \cup {Null}
      /\ ChunksApart'
      /\ \A d \in Buckets : d # b => Chain(d)' = Chain(d)
      /\ \A q \in 0..n - 1 : Chain(b)'[q] = Chain(b)[q]
  <2>1. /\ next' \in [Chunks -> Chunks \cup {Null}] /\ Chain(b)[n] \in Chunks
        /\ \A p \in Places : p # b /\ p # HashTableSize => Line(p)' = Line(p)
        /\ \A q \in 0..n - 1 : Line(b)'[q] = Line(b)[q]
    BY <1>1, <1>5, ReleaseLines
  <2>2. ChunksApart'
    BY <1>1, <1>5, ApartRelease
  <2>3. \A d \in Buckets : Chain(d) = Line(d) /\ Chain(d)' = Line(d)' /\ d \in Places /\ d # HashTableSize
    BY ChainIsLine DEF Chain, Line, First
  <2>4. freeList' = Chain(b)[n]
    BY <1>5 DEF Released
  <2>5. QED
    BY <2>1, <2>2, <2>3, <2>4
<1>9. TypesOK'
  BY <1>1, <1>3, <1>7, <1>8 DEF TypesOK
<1>10. LocksOK'
  <2>1. /\ (pc'[t] \in Reading) = (pc[t] \in Reading)
        /\ (pc'[t] \in Removing) = (pc[t] \in Removing)
        /\ (pc'[t] \in Inserting) = (pc[t] \in Inserting)
    BY <1>3, <1>7 DEF Reading, Searching, Removing, Inserting
  <2>2. loc'[t].b = loc[t].b /\ UNCHANGED <<readers, writers, insertLock>>
    BY <1>3, <1>7
  <2>3. QED
    BY <1>1, <1>7, <2>1, <2>2, LocksStay
<1>11. CallOK(t)'
  BY <1>1, <1>3, <1>7 DEF CallOK, Reading, Searching, Removing, Inserting
<1>12. ASSUME NEW d \in Buckets, d # b PROVE Same(d)
  <2>1. size'[d] = size[d] /\ head' \in [Buckets -> Chunks \cup {Null}] /\ Chain(d)' = Chain(d)
    BY <1>1, <1>3, <1>8, <1>12 DEF TypesOK
  <2>2. \A m \in 0..NChunks : Chain(d)[m] # Null => pairs'[Chain(d)[m]] = pairs[Chain(d)[m]]
    BY <1>3
  <2>3. QED
    BY <1>1, <1>8, <2>1, <2>2, SameFromChain
<1>13. \A q \in 0..NChunks : q * NPairs < s => q \in 0..n - 1
  <2> SUFFICES ASSUME NEW q \in 0..NChunks, q * NPairs < s, ~(q \in 0..n - 1) PROVE FALSE
    OBVIOUS
  <2>1. q \in Nat /\ n \in Nat /\ n <= q
    BY HashtabAssumption
  <2>2. n * NPairs <= q * NPairs /\ n * NPairs \in Nat /\ q * NPairs \in Nat
    BY <2>1, Rows, HashtabAssumption
  <2>3. QED
    BY <1>6, <2>2
<1>14. \A i \in 0..s - 1 : PairAt(b, i)' = PairAt(b, i)
  <2> SUFFICES ASSUME NEW i \in 0..s - 1 PROVE PairAt(b, i)' = PairAt(b, i)
    OBVIOUS
  <2>1. /\ i \div NPairs \in 0..NChunks /\ i % NPairs \in Slots
        /\ i = (i \div NPairs) * NPairs + (i % NPairs)
    BY <1>1, <1>6, PairHasSlot
  <2>2. PICK q \in 0..NChunks : q = i \div NPairs
    BY <2>1
  <2>3. q * NPairs < s
    <3>1. q * NPairs \in Nat
      BY Rows, HashtabAssumption
    <3>2. PICK Q : Q = q * NPairs
      OBVIOUS
    <3>3. i = Q + (i % NPairs) /\ i % NPairs \in Nat /\ Q \in Nat
      BY <2>1, <2>2, <3>1, <3>2, HashtabAssumption DEF Slots
    <3>4. Q < s
      BY ONLY <3>3, s \in Nat, i \in 0..s - 1
    <3>5. QED
      BY <3>2, <3>4
  <2>4. Chain(b)'[q] = Chain(b)[q]
    BY <1>8, <1>13, <2>3
  <2>5. QED
    BY <1>3, <2>2, <2>4 DEF PairAt
<1>15. Top(b)' = s
  <2>1. In(t, {"release", "shrink"}, b)'
    BY <1>2, <1>7 DEF In
  <2>2. Top(b)' = size'[b] - 1
    BY <2>1 DEF Top
  <2>3. QED
    BY <1>3, <1>6, <2>2
<1>16. ASSUME NEW d \in Buckets PROVE Keeps(d)
  <2>1. CASE d # b
    <3>1. loc'[t].b = loc[t].b
      BY <1>7
    <3>2. QED
      BY <1>2, <1>7, <1>12, <2>1, <3>1, SameKeeps
  <2>2. CASE d = b
    BY <1>6, <1>8, <1>13, <1>14, <1>15, <2>2 DEF Keeps
  <2>3. QED
    BY <2>1, <2>2
<1>17. FilledOK' /\ PairsUnique'
  BY <1>3, <1>16, TableKept
<1>18. ValuesOK'
  BY <1>3, <1>7, <1>16, ValuesKept DEF Unpublished, Searching
<1>19. ASSUME NEW m \in Nat, m <= s, NoneBefore(t, m)
       PROVE  \A i \in 0..m - 1 : ~Matches(t, PairAt(loc[t].b, i).key)'
  <2> SUFFICES ASSUME NEW i \in 0..m - 1 PROVE ~Matches(t, PairAt(loc[t].b, i).key)'
    OBVIOUS
  <2>1. i \in 0..s - 1
    BY <1>19
  <2>2. PairAt(b, i)' = PairAt(b, i)
    BY <1>14, <2>1
  <2>3. QED
    BY <1>2, <1>7, <1>19, <2>2 DEF NoneBefore, Matches
<1>20. RemoveOK(t)'
  <2>1. loc'[t].cur = size'[loc'[t].b] /\ loc'[t].i < loc'[t].cur
    BY <1>2, <1>3, <1>4, <1>7
  <2>2. Op(t)' = "remove_if" => NoneBefore(t, loc[t].i)'
    <3>1. ASSUME Op(t) = "remove_if" PROVE \A i \in 0..loc[t].i - 1 : ~Matches(t, PairAt(loc[t].b, i).key)'
      BY <1>4, <1>6, <1>19, <3>1
    <3>2. QED
      BY <1>7, <3>1 DEF NoneBefore
  <2>3. Op(t)' # "remove_if" => NoneBefore(t, loc[t].cur - 1)'
    <3>1. ASSUME Op(t) # "remove_if" PROVE \A i \in 0..(loc[t].cur - 1) - 1 : ~Matches(t, PairAt(loc[t].b, i).key)'
      <4>1. NoneBefore(t, s) /\ loc[t].cur - 1 = s
        BY <1>4, <1>6, <3>1
      <4>2. QED
        BY <1>19, <4>1
    <3>2. QED
      BY <1>7, <3>1 DEF NoneBefore
  <2>4. ASSUME Op(t)' = "remove_if", loc'[t].i < loc'[t].cur - 1
        PROVE  loc'[t].j \in Slots /\ \E m \in 0..NChunks : AtChunk(loc[t], m)'
    <3>1. loc[t].i < s /\ loc[t].j \in Slots
      BY <1>4, <1>6, <1>7, <2>4
    <3>2. PICK m \in 0..NChunks : AtChunk(loc[t], m)
      BY <1>4, <1>6, <1>7, <2>4, <3>1
    <3>3. m * NPairs < s
      <4>1. m * NPairs \in Nat /\ loc[t].i = m * NPairs + loc[t].j /\ loc[t].j \in Nat
        BY <3>1, <3>2, Rows, HashtabAssumption DEF AtChunk, Slots
      <4>2. PICK M : M = m * NPairs
        OBVIOUS
      <4>3. M \in Nat /\ loc[t].i = M + loc[t].j /\ loc[t].j \in Nat /\ loc[t].i < s
        BY <3>1, <4>1, <4>2
      <4>4. M < s
        BY ONLY <4>3, s \in Nat
      <4>5. QED
        BY <4>2, <4>4
    <3>4. Chain(b)'[m] = Chain(b)[m]
      BY <1>8, <1>13, <3>3
    <3>5. AtChunk(loc[t], m)'
      BY <1>2, <1>7, <3>2, <3>4 DEF AtChunk
    <3>6. QED
      BY <1>7, <3>1, <3>5
  <2>5. QED
    BY <1>7, <2>1, <2>2, <2>3, <2>4 DEF RemoveOK
<1>21. SearchOK(t)'
  BY <1>7 DEF SearchOK, Searching
<1>22. Op(t)' # "insert"
  BY <1>4, <1>7
<1>23. QED
  BY <1>2, <1>3, <1>4, <1>7, <1>8, <1>9, <1>10, <1>11, <1>12, <1>17, <1>18, <1>20, <1>21, <1>22, BucketStep

(* What Move does to the m-th chunk of bucket b, when the last one is the k-th. *)
MovesTo(t, b, m, k, j, prev) ==
    /\ pc[t] = "move" /\ b = loc[t].b /\ b \in Buckets
    /\ UNCHANGED <<size, head, insertLock, readers, writers, next, freeList, allocated, alive, calls, result>>
    /\ m <= k /\ k < NChunks
    /\ loc[t].i = m * NPairs + loc[t].j /\ loc[t].j \in Slots
    /\ loc[t].at = Chain(b)[m] /\ Chain(b)[m] \in Chunks
    /\ Chain(b)[k] \in Chunks /\ next[Chain(b)[k]] = Null
    /\ prev # Null => k >= 1 /\ prev = Chain(b)[k - 1]
    /\ m < k => prev # Null
    /\ m = k => prev = IF Op(t) = "remove_if" THEN Null ELSE Cell(b, m)
    /\ loc[t].cur - 1 = k * NPairs + j
    /\ \/ /\ j \notin Slots /\ Goto(t, "oob") /\ UNCHANGED <<pairs, loc>>
       \/ /\ j \in Slots
          /\ pairs' = [pairs EXCEPT ![loc[t].at][loc[t].j] = PairAt(b, loc[t].cur - 1)]
          /\ PairAt(b, loc[t].cur - 1) \in [key : Keys \cup {None}, val : Values \cup {None}]
          /\ loc' = [loc EXCEPT ![t].prev = prev, ![t].last = Chain(b)[k]]
          /\ Goto(t, IF Emptied(j, prev) THEN "release" ELSE "shrink")

(* What Move does, in terms of the chain: pair i of chunk m is overwritten by
   the last pair, of chunk k. *)
LEMMA MoveLast ==
    ASSUME HashtabInv, NEW t \in Threads, Move(t), NEW b, b = loc[t].b
    PROVE  \E m, k \in 0..NChunks, j \in Int, prev \in Chunks \cup {Null} : MovesTo(t, b, m, k, j, prev)
<1>1. TypesOK /\ b \in Buckets /\ loc[t] \in LocType /\ pc[t] = "move"
  BY InTheBucket DEF HashtabInv, Move
<1>2. PICK rest : rest = Rest(loc[t].at)
  OBVIOUS
<1>3. PICK n : n = CHOOSE m \in 0..NChunks : Rest(loc[t].at)[m] # Null /\ next[Rest(loc[t].at)[m]] = Null
  OBVIOUS
<1>4. n \in 0..NChunks /\ rest[n] # Null /\ next[rest[n]] = Null
  <2>1. \E m \in 0..NChunks : Rest(loc[t].at)[m] # Null /\ next[Rest(loc[t].at)[m]] = Null
    BY <1>1, HasLast
  <2>2. QED
    BY <1>2, <1>3, <2>1
<1>5. PICK prev : prev = IF n = 0 THEN loc[t].prev ELSE rest[n - 1]
  OBVIOUS
<1>6. PICK m \in 0..NChunks, k \in 0..NChunks, j \in Int :
         /\ j = loc[t].cur - (loc[t].i - loc[t].j + n * NPairs) - 1
         /\ m <= k /\ k < NChunks
         /\ loc[t].i = m * NPairs + loc[t].j /\ loc[t].j \in Slots
         /\ loc[t].at = Chain(b)[m] /\ loc[t].at \in Chunks
         /\ rest[n] = Chain(b)[k] /\ rest[n] \in Chunks /\ next[rest[n]] = Null
         /\ prev = Null \/ (k >= 1 /\ prev = Chain(b)[k - 1] /\ prev \in Chunks)
         /\ (m = k => prev = IF Op(t) = "remove_if" THEN Null ELSE Cell(b, m))
         /\ (m < k => prev = Chain(b)[k - 1] /\ prev \in Chunks)
         /\ loc[t].cur - 1 = k * NPairs + j
         /\ j \in Slots => pairs[rest[n]][j] = PairAt(b, loc[t].cur - 1)
  BY <1>1, <1>2, <1>4, <1>5, Moves
<1>7. /\ \/ /\ j \notin Slots
            /\ Goto(t, "oob")
            /\ UNCHANGED <<pairs, loc>>
         \/ /\ j \in Slots
            /\ pairs' = [pairs EXCEPT ![loc[t].at][loc[t].j] = pairs[rest[n]][j]]
            /\ loc' = [loc EXCEPT ![t].prev = prev, ![t].last = rest[n]]
            /\ Goto(t, IF Emptied(j, prev) THEN "release" ELSE "shrink")
      /\ UNCHANGED <<size, head, lockVars, next, freeList, allocated, alive, calls, result>>
  <2>1. j = loc[t].cur - (loc[t].i - loc[t].j + n * NPairs) - 1
    BY <1>6
  <2> DEFINE R == Rest(loc[t].at)
             N == CHOOSE m_1 \in 0..NChunks : R[m_1] # Null /\ next[R[m_1]] = Null
             V == IF N = 0 THEN loc[t].prev ELSE R[N - 1]
             J == loc[t].cur - (loc[t].i - loc[t].j + N * NPairs) - 1
  <2>2. /\ \/ /\ J \notin Slots
              /\ Goto(t, "oob")
              /\ UNCHANGED <<pairs, loc>>
           \/ /\ J \in Slots
              /\ pairs' = [pairs EXCEPT ![loc[t].at][loc[t].j] = pairs[R[N]][J]]
              /\ loc' = [loc EXCEPT ![t].prev = V, ![t].last = R[N]]
              /\ Goto(t, IF Emptied(J, V) THEN "release" ELSE "shrink")
        /\ UNCHANGED <<size, head, lockVars, next, freeList, allocated, alive, calls, result>>
    BY Zenon DEF Move
  <2>3. R = rest /\ N = n
    BY <1>2, <1>3
  <2> HIDE DEF R, N
  <2>4. V = prev /\ J = j
    BY ONLY <1>5, <2>1, <2>3
  <2> HIDE DEF V, J
  <2>5. QED
    BY ONLY <2>2, <2>3, <2>4
<1>8. /\ prev \in Chunks \cup {Null} /\ (prev # Null => k >= 1 /\ prev = Chain(b)[k - 1])
      /\ m < k => prev # Null
  BY <1>6 DEF Chunks, Null
<1>9. \/ /\ j \notin Slots /\ Goto(t, "oob") /\ UNCHANGED <<pairs, loc>>
      \/ /\ j \in Slots
         /\ pairs' = [pairs EXCEPT ![loc[t].at][loc[t].j] = PairAt(b, loc[t].cur - 1)]
         /\ PairAt(b, loc[t].cur - 1) \in [key : Keys \cup {None}, val : Values \cup {None}]
         /\ loc' = [loc EXCEPT ![t].prev = prev, ![t].last = Chain(b)[k]]
         /\ Goto(t, IF Emptied(j, prev) THEN "release" ELSE "shrink")
  <2>1. CASE j \notin Slots
    BY <1>7, <2>1
  <2>2. CASE j \in Slots
    <3>1. pairs[rest[n]][j] \in [key : Keys \cup {None}, val : Values \cup {None}]
      BY <1>1, <1>6, <2>2 DEF TypesOK
    <3>2. pairs[rest[n]][j] = PairAt(b, loc[t].cur - 1) /\ rest[n] = Chain(b)[k]
      BY <1>6, <2>2
    <3>3. QED
      BY <1>7, <2>2, <3>1, <3>2
  <2>3. QED
    BY <2>1, <2>2
<1>10. MovesTo(t, b, m, k, j, prev)
  BY <1>1, <1>6, <1>7, <1>8, <1>9 DEF MovesTo, lockVars
<1>11. QED
  BY <1>8, <1>10

(* The step that reads outside of the last chunk changes no data. *)
LEMMA OobInv ==
    ASSUME HashtabInv, NEW t \in Threads, pc[t] = "move", Goto(t, "oob"), loc' = loc,
           UNCHANGED <<size, head, insertLock, readers, writers, next, pairs, freeList, allocated, alive, calls, result>>
    PROVE  HashtabInv'
<1>1. /\ TypesOK /\ LocksOK /\ CallOK(t) /\ RemoveOK(t) /\ ValuesOK
      /\ loc[t].b \in Buckets /\ loc[t] \in LocType
  BY InTheBucket DEF HashtabInv, CallsOK
<1>2. /\ Alone(t) /\ pc'[t] = "oob" /\ loc'[t] = loc[t] /\ Op(t)' = Op(t)
      /\ pc' \in [Threads -> Pcs \cup {"oob"}] /\ loc' \in [Threads -> LocType]
  BY <1>1, StepsStay
<1>3. TypesOK'
  BY <1>1, <1>2 DEF TypesOK
<1>4. LocksOK'
  <2>1. /\ (pc'[t] \in Reading) = (pc[t] \in Reading)
        /\ (pc'[t] \in Removing) = (pc[t] \in Removing)
        /\ (pc'[t] \in Inserting) = (pc[t] \in Inserting)
    BY <1>2 DEF Reading, Searching, Removing, Inserting
  <2>2. loc'[t].b = loc[t].b /\ UNCHANGED <<readers, writers, insertLock>>
    BY <1>2
  <2>3. QED
    BY <1>1, <1>2, <2>1, <2>2, LocksStay
<1>5. CallOK(t)'
  BY <1>1, <1>2 DEF CallOK, Reading, Searching, Removing, Inserting
<1>6. \A d \in Buckets : Top(d)' = Top(d)
  <2> SUFFICES ASSUME NEW d \in Buckets PROVE Top(d)' = Top(d)
    OBVIOUS
  <2>1. In(t, {"release", "shrink"}, d)' <=> In(t, {"release", "shrink"}, d)
    BY <1>2 DEF In
  <2>2. QED
    BY <1>2, <2>1, TopSame
<1>7. /\ \A d : Chain(d)' = Chain(d)
      /\ \A d, i : PairAt(d, i)' = PairAt(d, i)
  BY ViewSame
<1>8. \A d, i : Dead(d, i)' <=> Dead(d, i)
  <2> SUFFICES ASSUME NEW d, NEW i PROVE Dead(d, i)' <=> Dead(d, i)
    OBVIOUS
  <2>1. \A u \in Threads : (In(u, {"move", "oob"}, d) /\ loc[u].i = i)' <=> (In(u, {"move", "oob"}, d) /\ loc[u].i = i)
    BY <1>2 DEF In, Alone
  <2>2. QED
    BY <2>1 DEF Dead
<1>9. ValuesOK'
  <2>1. \A u \in Threads : /\ pc'[u] \in Unpublished /\ Op(u)' = "insert" => pc[u] \in Unpublished /\ Op(u) = "insert"
                           /\ loc'[u].id = loc[u].id
                           /\ pc'[u] = "publish" <=> pc[u] = "publish"
    BY <1>2 DEF Alone, Op, Unpublished, Searching
  <2>2. ASSUME NEW d \in Buckets, NEW e \in Buckets, NEW i \in 0..Top(d)' - 1, NEW q \in 0..Top(e)' - 1,
               PairAt(d, i)'.val = PairAt(e, q)'.val
        PROVE  d = e /\ i = q
    BY <1>1, <1>6, <1>7, <2>2 DEF ValuesOK
  <2>3. ASSUME NEW u \in Threads, pc'[u] \in Unpublished, Op(u)' = "insert",
               NEW d \in Buckets, NEW i \in 0..Top(d)' - 1
        PROVE  PairAt(d, i)'.val # loc'[u].id
    BY <1>1, <1>6, <1>7, <2>1, <2>3 DEF ValuesOK, Unpublished
  <2>4. ASSUME NEW v \in Values
        PROVE  v \in alive' <=>
                 \/ \E d \in Buckets : \E i \in 0..Top(d)' - 1 : PairAt(d, i)'.val = v /\ ~Dead(d, i)'
                 \/ \E u \in Threads : pc'[u] = "publish" /\ loc'[u].id = v
    <3>1. (\E u \in Threads : pc'[u] = "publish" /\ loc'[u].id = v) <=> (\E u \in Threads : pc[u] = "publish" /\ loc[u].id = v)
      BY <2>1
    <3>2. ASSUME NEW d \in Buckets
          PROVE (\E i \in 0..Top(d)' - 1 : PairAt(d, i)'.val = v /\ ~Dead(d, i)') <=>
                (\E i \in 0..Top(d) - 1 : PairAt(d, i).val = v /\ ~Dead(d, i))
      BY <1>6, <1>7, <1>8
    <3>3. v \in alive <=>
            \/ \E d \in Buckets : \E i \in 0..Top(d) - 1 : PairAt(d, i).val = v /\ ~Dead(d, i)
            \/ \E u \in Threads : pc[u] = "publish" /\ loc[u].id = v
      BY <1>1 DEF ValuesOK
    <3>4. QED
      BY <3>1, <3>2, <3>3
  <2>5. QED
    BY <2>2, <2>3, <2>4 DEF ValuesOK, Unpublished
<1>10. SearchOK(t)'
  BY <1>2 DEF SearchOK, Searching
<1>11. RemoveOK(t)'
  <2>1. PICK m \in 0..NChunks :
          AtChunk(loc[t], m) /\ loc[t].prev = IF Op(t) = "remove_if" THEN Null ELSE Cell(loc[t].b, m)
    BY <1>1 DEF RemoveOK
  <2>2. /\ loc[t].cur = size[loc[t].b] /\ loc[t].i < loc[t].cur /\ Matches(t, PairAt(loc[t].b, loc[t].i).key)
        /\ loc[t].j \in Slots
        /\ Op(t) = "remove_if" => NoneBefore(t, loc[t].i)
    BY <1>1 DEF RemoveOK
  <2>3. AtChunk(loc[t], m)' /\ loc'[t].prev = IF Op(t)' = "remove_if" THEN Null ELSE Cell(loc[t].b, m)'
    BY <1>2, <1>7, <2>1 DEF AtChunk, Cell
  <2>4. Matches(t, PairAt(loc[t].b, loc[t].i).key)'
    BY <1>2, <1>7, <2>2 DEF Matches
  <2>5. Op(t)' = "remove_if" => NoneBefore(t, loc[t].i)'
    BY <1>2, <1>7, <2>2 DEF NoneBefore, Matches
  <2>6. loc'[t].cur = size'[loc'[t].b] /\ loc'[t].i < loc'[t].cur /\ loc'[t].j \in Slots
    BY <1>2, <2>2
  <2>7. QED
    BY <1>2, <2>3, <2>4, <2>5, <2>6 DEF RemoveOK
<1>12. Op(t)' # "insert"
  BY <1>1, <1>2 DEF CallOK, Removing
<1>13. QED
  BY <1>2, <1>3, <1>4, <1>5, <1>6, <1>9, <1>10, <1>11, <1>12, FrameStep

(* The last pair overwrites the removed one; the other pairs stay. *)
LEMMA MoveInv == ASSUME HashtabInv, NEW t \in Threads, Move(t) PROVE HashtabInv'
<1>1. /\ TypesOK /\ LocksOK /\ CallOK(t) /\ RemoveOK(t) /\ ChunksApart /\ FilledOK /\ PairsUnique /\ ValuesOK
      /\ loc[t].b \in Buckets /\ loc[t] \in LocType
  BY InTheBucket DEF HashtabInv, CallsOK
<1>2. PICK b \in Buckets : b = loc[t].b
  BY <1>1
<1>3. PICK m \in 0..NChunks, k \in 0..NChunks, j \in Int, prev \in Chunks \cup {Null} : MovesTo(t, b, m, k, j, prev)
  BY <1>2, MoveLast
<1>4. /\ pc[t] = "move"
      /\ UNCHANGED <<size, head, insertLock, readers, writers, next, freeList, allocated, alive, calls, result>>
      /\ m <= k /\ k < NChunks
      /\ loc[t].i = m * NPairs + loc[t].j /\ loc[t].j \in Slots
      /\ loc[t].at = Chain(b)[m] /\ Chain(b)[m] \in Chunks
      /\ Chain(b)[k] \in Chunks /\ next[Chain(b)[k]] = Null
      /\ prev # Null => k >= 1 /\ prev = Chain(b)[k - 1]
      /\ loc[t].cur - 1 = k * NPairs + j
  BY <1>3 DEF MovesTo
<1>5. CASE Goto(t, "oob") /\ UNCHANGED <<pairs, loc>>
  BY <1>4, <1>5, OobInv
<1>6. ASSUME j \in Slots,
             pairs' = [pairs EXCEPT ![loc[t].at][loc[t].j] = PairAt(b, loc[t].cur - 1)],
             PairAt(b, loc[t].cur - 1) \in [key : Keys \cup {None}, val : Values \cup {None}],
             loc' = [loc EXCEPT ![t].prev = prev, ![t].last = Chain(b)[k]],
             Goto(t, IF Emptied(j, prev) THEN "release" ELSE "shrink")
      PROVE  HashtabInv'
  <2>1. /\ In(t, Removing, b) /\ Top(b) = size[b] /\ size[b] \in Nat
        /\ loc[t].cur = size[b] /\ loc[t].i < size[b] /\ loc[t].i \in Nat
        /\ Matches(t, PairAt(b, loc[t].i).key)
        /\ Op(t) = "remove_if" => NoneBefore(t, loc[t].i)
        /\ Op(t) \in {"remove", "get_and_remove", "remove_if"}
        /\ Op(t) # "remove_if" => \E q \in Keys : loc[t].call.keys = {q}
    <3>1. In(t, Removing, b) /\ In(t, Removing \ {"release", "shrink"}, b)
      BY <1>2, <1>4 DEF In, Removing
    <3>2. Top(b) = size[b]
      BY <1>1, <3>1, TopIs
    <3>3. size[b] \in Nat
      BY TopType DEF HashtabInv
    <3>4. /\ loc[t].cur = size[b] /\ loc[t].i < loc[t].cur /\ Matches(t, PairAt(b, loc[t].i).key)
          /\ Op(t) = "remove_if" => NoneBefore(t, loc[t].i)
      BY <1>1, <1>2, <1>4 DEF RemoveOK
    <3>5. /\ Op(t) \in {"remove", "get_and_remove", "remove_if"} /\ loc[t].i \in Nat
          /\ Op(t) # "remove_if" => \E q \in Keys : loc[t].call.keys = {q}
      BY <1>1, <1>4 DEF CallOK, Removing, LocType
    <3>6. QED
      BY <3>1, <3>2, <3>3, <3>4, <3>5
  <2>2. PICK s \in Nat : s + 1 = size[b] /\ s = loc[t].cur - 1
    BY <2>1
  <2>3. PICK i \in 0..s : i = loc[t].i
    BY <2>1, <2>2
  <2>4. PICK P \in [key : Keys \cup {None}, val : Values \cup {None}] : P = PairAt(b, s)
    BY <1>6, <2>2
  <2>5. PICK c, x : c = Chain(b)[m] /\ x = loc[t].j
    OBVIOUS
  <2>6. c \in Chunks /\ x \in Slots /\ i = m * NPairs + x /\ pairs' = [pairs EXCEPT ![c][x] = P]
    BY <1>4, <1>6, <2>2, <2>3, <2>4, <2>5
  <2>7. /\ pairs' \in [Chunks -> [Slots -> [key : Keys \cup {None}, val : Values \cup {None}]]]
        /\ pairs'[c][x] = P
        /\ \A d \in Chunks : d # c => pairs'[d] = pairs[d]
        /\ \A q \in Slots : q # x => pairs'[c][q] = pairs[c][q]
    BY <1>1, <2>6 DEF TypesOK
  <2> DEFINE l == [loc[t] EXCEPT !.prev = prev, !.last = Chain(b)[k]]
  <2>8. loc' = [loc EXCEPT ![t] = l]
    BY <1>1, <1>6 DEF TypesOK
  <2>9. /\ l \in LocType /\ l.at = loc[t].at /\ l.j = loc[t].j /\ l.i = i /\ l.b = b /\ l.cur = s + 1
        /\ l.call = loc[t].call /\ l.id = loc[t].id /\ l.prev = prev /\ l.last = Chain(b)[k]
    <3>1. Chain(b)[k] \in Chunks \cup {Null} /\ loc[t].cur = s + 1
      BY <1>4, <2>1, <2>2
    <3>2. QED
      BY ONLY <1>1, <1>2, <2>3, <3>1, prev \in Chunks \cup {Null} DEF LocType
  <2> HIDE DEF l
  <2>10. /\ Alone(t) /\ loc'[t] = l /\ Op(t)' = Op(t)
         /\ pc'[t] = IF Emptied(j, prev) THEN "release" ELSE "shrink"
         /\ pc' \in [Threads -> Pcs \cup {"oob"}] /\ loc' \in [Threads -> LocType]
    <3>1. PICK p \in Pcs \cup {"oob"} : p = IF Emptied(j, prev) THEN "release" ELSE "shrink"
      BY DEF Pcs
    <3>2. Goto(t, p)
      BY <1>6, <3>1
    <3>3. /\ Alone(t) /\ pc'[t] = p /\ loc'[t] = l
          /\ pc' \in [Threads -> Pcs \cup {"oob"}] /\ loc' \in [Threads -> LocType]
      BY <1>1, <2>8, <2>9, <3>2, Steps
    <3>4. Op(t)' = Op(t)
      BY <2>9, <3>3 DEF Op
    <3>5. QED
      BY <3>1, <3>3, <3>4
  <2>11. pc'[t] \in {"release", "shrink"}
    BY <2>10
  <2>12. TypesOK'
    BY <1>1, <1>4, <2>7, <2>10 DEF TypesOK
  <2>13. LocksOK'
    <3>1. /\ (pc'[t] \in Reading) = (pc[t] \in Reading)
          /\ (pc'[t] \in Removing) = (pc[t] \in Removing)
          /\ (pc'[t] \in Inserting) = (pc[t] \in Inserting)
      BY <1>4, <2>11 DEF Reading, Searching, Removing, Inserting
    <3>2. loc'[t].b = loc[t].b /\ UNCHANGED <<readers, writers, insertLock>>
      BY <1>2, <1>4, <2>9, <2>10
    <3>3. QED
      BY <1>1, <2>10, <3>1, <3>2, LocksStay
  <2>14. CallOK(t)'
    BY <1>1, <1>2, <1>4, <2>9, <2>10, <2>11 DEF CallOK, Reading, Searching, Removing, Inserting
  <2>15. \A d \in Buckets : Chain(d)' = Chain(d)
    BY <1>4 DEF Chain
  <2>16. \A d \in Buckets : Chain(d) \in [0..NChunks -> Chunks \cup {Null}]
    BY <1>1, Chains
  <2>17. \A d \in Buckets, n \in 0..NChunks : Chain(d)[n] = c => d = b /\ n = m
    <3> SUFFICES ASSUME NEW d \in Buckets, NEW n \in 0..NChunks, Chain(d)[n] = c PROVE d = b /\ n = m
      OBVIOUS
    <3>1. d \in Places /\ b \in Places /\ Line(b)[m] # Null /\ Line(b)[m] = Line(d)[n]
      BY <2>5, <2>6, ChainIsLine DEF Chunks, Null
    <3>2. QED
      BY <1>1, <3>1, Apart
  <2>18. ASSUME NEW d \in Buckets, d # b PROVE Same(d)
    <3>1. \A n \in 0..NChunks : Chain(d)[n] # Null => pairs'[Chain(d)[n]] = pairs[Chain(d)[n]]
      <4> SUFFICES ASSUME NEW n \in 0..NChunks, Chain(d)[n] # Null
                   PROVE  pairs'[Chain(d)[n]] = pairs[Chain(d)[n]]
        OBVIOUS
      <4>1. Chain(d)[n] \in Chunks /\ Chain(d)[n] # c
        BY <2>16, <2>17, <2>18
      <4>2. QED
        BY <2>7, <4>1
    <3>2. size'[d] = size[d] /\ Chain(d)' = Chain(d)
      BY <1>4, <2>15
    <3>3. next' \in [Chunks -> Chunks \cup {Null}] /\ head' \in [Buckets -> Chunks \cup {Null}]
      BY <1>1, <1>4 DEF TypesOK
    <3>4. QED
      BY <1>1, <3>1, <3>2, <3>3, SameFromChain
  <2>19. \A q \in 0..s : PairAt(b, q)' = IF q = i THEN P ELSE PairAt(b, q)
    <3> SUFFICES ASSUME NEW q \in 0..s PROVE PairAt(b, q)' = IF q = i THEN P ELSE PairAt(b, q)
      OBVIOUS
    <3>1. q \in 0..Top(b) - 1
      BY <2>1, <2>2
    <3>2. PICK n, y : n = q \div NPairs /\ y = q % NPairs
      OBVIOUS
    <3>3. n \in 0..NChunks /\ y \in Slots /\ q = n * NPairs + y /\ Chain(b)[n] \in Chunks /\ PairAt(b, q) = pairs[Chain(b)[n]][y]
      BY <1>1, <3>1, <3>2, PairHasSlot DEF HashtabInv
    <3>4. PairAt(b, q)' = pairs'[Chain(b)[n]][y]
      <4>1. Chain(b)' = Chain(b)
        BY <2>15
      <4>2. Chain(b)[n] # Null
        BY <3>3 DEF Chunks, Null
      <4>3. QED
        BY <3>2, <4>1, <4>2 DEF PairAt
    <3>5. CASE n = m /\ y = x
      <4>1. q = i /\ Chain(b)[n] = c
        BY <2>5, <2>6, <3>3, <3>5
      <4>2. QED
        BY <2>7, <3>4, <3>5, <4>1
    <3>6. CASE ~(n = m /\ y = x)
      <4>1. q # i
        <5>1. i \div NPairs = m /\ i % NPairs = x
          BY <2>6, SlotIs, HashtabAssumption DEF Slots
        <5>2. QED
          BY <3>2, <3>6, <5>1
      <4>2. pairs'[Chain(b)[n]][y] = pairs[Chain(b)[n]][y]
        <5>1. CASE n # m
          BY <2>7, <2>17, <3>3, <5>1
        <5>2. CASE n = m
          BY <2>5, <2>7, <3>3, <3>6, <5>2
        <5>3. QED
          BY <5>1, <5>2
      <4>3. QED
        BY <3>3, <3>4, <4>1, <4>2
    <3>7. QED
      BY <3>5, <3>6
  <2>20. Top(b)' = s
    <3>1. In(t, {"release", "shrink"}, b)'
      BY <2>9, <2>10, <2>11 DEF In
    <3>2. Top(b)' = size'[b] - 1
      BY <3>1 DEF Top
    <3>3. QED
      BY <1>4, <2>2, <3>2
  <2>21. ASSUME NEW d \in Buckets, d # b PROVE Keeps(d)
    <3>1. loc'[t].b = loc[t].b
      BY <1>2, <2>9, <2>10
    <3>2. QED
      BY <1>2, <2>10, <2>18, <2>21, <3>1, SameKeeps
  <2> DEFINE From(d, q) == IF d = b /\ q = i THEN s ELSE q
  <2>22. \A d \in Buckets : \A q \in 0..Top(d)' - 1 :
            From(d, q) \in 0..Top(d) - 1 /\ PairAt(d, q)' = PairAt(d, From(d, q))
    <3> SUFFICES ASSUME NEW d \in Buckets, NEW q \in 0..Top(d)' - 1
                 PROVE  From(d, q) \in 0..Top(d) - 1 /\ PairAt(d, q)' = PairAt(d, From(d, q))
      OBVIOUS
    <3>1. CASE d # b
      BY <2>21, <3>1 DEF Keeps
    <3>2. CASE d = b
      <4>1. q \in 0..s - 1 /\ q \in 0..s /\ Top(d) = s + 1
        BY <2>1, <2>2, <2>20, <3>2
      <4>2. PairAt(b, q)' = IF q = i THEN P ELSE PairAt(b, q)
        BY <2>19, <4>1
      <4>3. CASE q = i
        BY <2>4, <3>2, <4>1, <4>2, <4>3
      <4>4. CASE q # i
        BY <3>2, <4>1, <4>2, <4>4
      <4>5. QED
        BY <4>3, <4>4
    <3>3. QED
      BY <3>1, <3>2
  <2>23. \A d \in Buckets : \A q, r \in 0..Top(d)' - 1 : From(d, q) = From(d, r) => q = r
    <3> SUFFICES ASSUME NEW d \in Buckets, NEW q \in 0..Top(d)' - 1, NEW r \in 0..Top(d)' - 1, From(d, q) = From(d, r)
                 PROVE  q = r
      OBVIOUS
    <3>1. CASE d # b
      BY <3>1
    <3>2. CASE d = b
      BY <2>20, <3>2
    <3>3. QED
      BY <3>1, <3>2
  <2>24. /\ \A d, q : d # b \/ q # i => From(d, q) = q
         /\ From(b, i) = s
    OBVIOUS
  <2> HIDE DEF From
  <2>25. FilledOK'
    <3>1. ASSUME NEW d \in Buckets, NEW n \in 0..NChunks, n * NPairs < Top(d)' PROVE Chain(d)'[n] # Null
      <4>1. n * NPairs < Top(d)
        <5>1. CASE d # b
          BY <2>21, <3>1, <5>1 DEF Keeps
        <5>2. CASE d = b
          <6>1. PICK N : N = n * NPairs
            OBVIOUS
          <6>2. N \in Nat
            BY <6>1, Rows, HashtabAssumption
          <6>3. N < s /\ Top(b) = s + 1
            BY <2>1, <2>2, <2>20, <3>1, <5>2, <6>1
          <6>4. N < s + 1
            BY ONLY <6>2, <6>3, s \in Nat
          <6>5. QED
            BY <5>2, <6>1, <6>3, <6>4
        <5>3. QED
          BY <5>1, <5>2
      <4>2. QED
        BY <1>1, <2>15, <4>1 DEF FilledOK
    <3>2. ASSUME NEW d \in Buckets, NEW q \in 0..Top(d)' - 1
          PROVE  /\ PairAt(d, q)'.key \in Keys /\ BucketIdx[PairAt(d, q)'.key] = d
                 /\ PairAt(d, q)'.val \in 1..calls'
      <4>1. From(d, q) \in 0..Top(d) - 1 /\ PairAt(d, q)' = PairAt(d, From(d, q)) /\ calls' = calls
        BY <1>4, <2>22
      <4>2. QED
        BY <1>1, <4>1 DEF FilledOK
    <3>3. QED
      BY <3>1, <3>2 DEF FilledOK
  <2>26. PairsUnique'
    <3> SUFFICES ASSUME NEW d \in Buckets, NEW q \in 0..Top(d)' - 1, NEW r \in 0..Top(d)' - 1,
                        PairAt(d, q)'.key = PairAt(d, r)'.key
                 PROVE  q = r
      BY DEF PairsUnique
    <3>1. /\ From(d, q) \in 0..Top(d) - 1 /\ PairAt(d, q)' = PairAt(d, From(d, q))
          /\ From(d, r) \in 0..Top(d) - 1 /\ PairAt(d, r)' = PairAt(d, From(d, r))
      BY <2>22
    <3>2. From(d, q) = From(d, r)
      BY <1>1, <3>1 DEF PairsUnique
    <3>3. QED
      BY <2>23, <3>2
  <2>27. ASSUME NEW d \in Buckets, NEW q PROVE /\ d # b => (Dead(d, q)' <=> Dead(d, q))
                                               /\ ~Dead(b, q)'
                                               /\ Dead(b, q) <=> q = i
    <3>1. \A u \in Threads : u # t => ~In(u, {"move", "oob"}, b)
      <4> SUFFICES ASSUME NEW u \in Threads, u # t, In(u, {"move", "oob"}, b) PROVE FALSE
        OBVIOUS
      <4>1. In(u, Removing, b)
        BY DEF In, Removing
      <4>2. QED
        BY <1>1, <2>1, <4>1, Exclusion
    <3>2. \A u \in Threads : u # t => (In(u, {"move", "oob"}, d)' <=> In(u, {"move", "oob"}, d)) /\ loc'[u] = loc[u]
      BY <2>10 DEF Alone, In
    <3>3. ~In(t, {"move", "oob"}, d)' /\ ~In(t, {"move", "oob"}, b)'
      BY <2>11 DEF In
    <3>4. In(t, {"move", "oob"}, b) /\ (d # b => ~In(t, {"move", "oob"}, d))
      BY <1>2, <1>4 DEF In
    <3>5. ~Dead(b, q)'
      <4>1. \A u \in Threads : u # t => ~In(u, {"move", "oob"}, b)'
        BY <2>10, <3>1 DEF Alone, In
      <4>2. QED
        BY <3>3, <4>1 DEF Dead
    <3>6. Dead(b, q) <=> q = i
      BY <2>3, <3>1, <3>4 DEF Dead
    <3>7. ASSUME d # b PROVE Dead(d, q)' <=> Dead(d, q)
      BY <3>2, <3>3, <3>4, <3>7 DEF Dead
    <3>8. QED
      BY <3>5, <3>6, <3>7
  <2>28. ValuesOK'
    <3>1. ASSUME NEW d \in Buckets, NEW e \in Buckets, NEW q \in 0..Top(d)' - 1, NEW r \in 0..Top(e)' - 1,
                 PairAt(d, q)'.val = PairAt(e, r)'.val
          PROVE  d = e /\ q = r
      <4>1. /\ From(d, q) \in 0..Top(d) - 1 /\ PairAt(d, q)' = PairAt(d, From(d, q))
            /\ From(e, r) \in 0..Top(e) - 1 /\ PairAt(e, r)' = PairAt(e, From(e, r))
        BY <2>22
      <4>2. d = e /\ From(d, q) = From(e, r)
        BY <1>1, <3>1, <4>1 DEF ValuesOK
      <4>3. QED
        BY <2>23, <4>2
    <3>2. ASSUME NEW u \in Threads, pc'[u] \in Unpublished, Op(u)' = "insert",
                 NEW d \in Buckets, NEW q \in 0..Top(d)' - 1
          PROVE  PairAt(d, q)'.val # loc'[u].id
      <4>1. u # t
        BY <2>11, <3>2 DEF Unpublished, Searching
      <4>2. pc[u] \in Unpublished /\ Op(u) = "insert" /\ loc'[u].id = loc[u].id
        BY <2>10, <3>2, <4>1 DEF Alone, Op
      <4>3. From(d, q) \in 0..Top(d) - 1 /\ PairAt(d, q)' = PairAt(d, From(d, q))
        BY <2>22
      <4>4. QED
        BY <1>1, <4>2, <4>3 DEF ValuesOK, Unpublished
    <3>3. ASSUME NEW v \in Values
          PROVE  v \in alive' <=>
                   \/ \E d \in Buckets : \E q \in 0..Top(d)' - 1 : PairAt(d, q)'.val = v /\ ~Dead(d, q)'
                   \/ \E u \in Threads : pc'[u] = "publish" /\ loc'[u].id = v
      <4>1. (\E u \in Threads : pc'[u] = "publish" /\ loc'[u].id = v) <=> (\E u \in Threads : pc[u] = "publish" /\ loc[u].id = v)
        BY <1>4, <2>10, <2>11 DEF Alone
      <4>2. ASSUME NEW d \in Buckets, NEW q \in 0..Top(d)' - 1, PairAt(d, q)'.val = v, ~Dead(d, q)'
            PROVE  \E r \in 0..Top(d) - 1 : PairAt(d, r).val = v /\ ~Dead(d, r)
        <5>1. From(d, q) \in 0..Top(d) - 1 /\ PairAt(d, From(d, q)).val = v
          BY <2>22, <4>2
        <5>2. ~Dead(d, From(d, q))
          <6>1. CASE d # b
            BY <2>24, <2>27, <4>2, <6>1
          <6>2. CASE d = b /\ q = i
            <7>1. q < s /\ From(d, q) = s
              BY <2>20, <2>24, <6>2
            <7>2. s # i
              BY <6>2, <7>1
            <7>3. QED
              BY <2>27, <6>2, <7>1, <7>2
          <6>3. CASE d = b /\ q # i
            BY <2>24, <2>27, <6>3
          <6>4. QED
            BY <6>1, <6>2, <6>3
        <5>3. QED
          BY <5>1, <5>2
      <4>3. ASSUME NEW d \in Buckets, NEW r \in 0..Top(d) - 1, PairAt(d, r).val = v, ~Dead(d, r)
            PROVE  \E q \in 0..Top(d)' - 1 : PairAt(d, q)'.val = v /\ ~Dead(d, q)'
        <5>1. CASE d # b
          <6>1. r \in 0..Top(d)' - 1 /\ From(d, r) = r
            BY <2>21, <2>24, <5>1 DEF Keeps
          <6>2. QED
            BY <2>22, <2>27, <4>3, <5>1, <6>1
        <5>2. CASE d = b
          <6>1. r # i /\ r \in 0..s
            BY <2>1, <2>2, <2>27, <4>3, <5>2
          <6>2. CASE r = s
            <7>1. i \in 0..Top(d)' - 1
              BY <2>20, <5>2, <6>1, <6>2
            <7>2. PairAt(d, i)' = PairAt(d, s)
              BY <2>22, <2>24, <5>2, <7>1
            <7>3. QED
              BY <2>27, <4>3, <5>2, <6>2, <7>1, <7>2
          <6>3. CASE r # s
            <7>1. r \in 0..Top(d)' - 1
              BY <2>20, <5>2, <6>1, <6>3
            <7>2. PairAt(d, r)' = PairAt(d, r)
              BY <2>22, <2>24, <5>2, <6>1, <7>1
            <7>3. QED
              BY <2>27, <4>3, <5>2, <7>1, <7>2
          <6>4. QED
            BY <6>2, <6>3
        <5>3. QED
          BY <5>1, <5>2
      <4>4. v \in alive <=>
              \/ \E d \in Buckets : \E q \in 0..Top(d) - 1 : PairAt(d, q).val = v /\ ~Dead(d, q)
              \/ \E u \in Threads : pc[u] = "publish" /\ loc[u].id = v
        BY <1>1 DEF ValuesOK
      <4>5. (\E d \in Buckets : \E q \in 0..Top(d)' - 1 : PairAt(d, q)'.val = v /\ ~Dead(d, q)') <=>
            (\E d \in Buckets : \E q \in 0..Top(d) - 1 : PairAt(d, q).val = v /\ ~Dead(d, q))
        BY <4>2, <4>3
      <4>6. QED
        BY <1>4, <4>1, <4>4, <4>5
    <3>4. QED
      BY <3>1, <3>2, <3>3 DEF ValuesOK, Unpublished
  <2>29. SearchOK(t)'
    BY <2>11 DEF SearchOK, Searching
  <2>30. RemoveOK(t)'
    <3>1. loc'[t].cur = size'[loc'[t].b] /\ loc'[t].i < loc'[t].cur
      BY <1>4, <2>2, <2>9, <2>10
    <3>2. Op(t)' = "remove_if" => NoneBefore(t, loc[t].i)'
      <4>1. ASSUME Op(t) = "remove_if", NEW q \in 0..i - 1 PROVE ~Matches(t, PairAt(b, q).key)'
        <5>1. q \in 0..s /\ q # i
          OBVIOUS
        <5>2. PairAt(b, q)' = PairAt(b, q)
          BY <2>19, <5>1
        <5>3. ~Matches(t, PairAt(b, q).key)
          BY <1>2, <2>1, <2>3, <4>1 DEF NoneBefore
        <5>4. QED
          BY <2>9, <2>10, <5>2, <5>3 DEF Matches
      <4>2. QED
        BY <2>9, <2>10, <4>1 DEF NoneBefore
    <3>3. Op(t)' # "remove_if" => NoneBefore(t, loc[t].cur - 1)'
      <4>1. ASSUME Op(t) # "remove_if", NEW q \in 0..s - 1 PROVE ~Matches(t, PairAt(b, q).key)'
        <5>1. PICK key \in Keys : loc[t].call.keys = {key}
          BY <2>1, <4>1
        <5>2. PairAt(b, i).key = key
          BY <2>1, <2>3, <5>1 DEF Matches
        <5>3. q \in 0..Top(b)' - 1
          BY <2>20
        <5>4. From(b, q) \in 0..Top(b) - 1 /\ PairAt(b, q)' = PairAt(b, From(b, q))
          BY <2>22, <5>3
        <5>5. From(b, q) # i
          <6>1. q # s
            OBVIOUS
          <6>2. QED
            BY <2>24, <6>1
        <5>6. i \in 0..Top(b) - 1
          BY <2>1, <2>2
        <5>7. PairAt(b, From(b, q)).key # key
          BY <1>1, <5>2, <5>4, <5>5, <5>6 DEF PairsUnique
        <5>8. QED
          BY <2>9, <2>10, <5>1, <5>4, <5>7 DEF Matches
      <4>2. loc'[t].cur - 1 = s /\ loc'[t].b = b
        BY <2>9, <2>10
      <4>3. QED
        BY <2>10, <4>1, <4>2 DEF NoneBefore
    <3>4. ASSUME Op(t)' = "remove_if", loc'[t].i < loc'[t].cur - 1
          PROVE  loc'[t].j \in Slots /\ \E n \in 0..NChunks : AtChunk(loc[t], n)'
      <4>1. AtChunk(loc[t], m)'
        <5>1. loc'[t].i = m * NPairs + loc'[t].j /\ loc'[t].at = Chain(b)[m] /\ Chain(b)[m] # Null /\ loc'[t].b = b
          BY <1>4, <2>3, <2>9, <2>10 DEF Chunks, Null
        <5>2. QED
          BY <2>15, <5>1 DEF AtChunk
      <4>2. loc'[t].j \in Slots
        BY <1>4, <2>9, <2>10
      <4>3. QED
        BY <4>1, <4>2
    <3>5. ASSUME pc'[t] = "release"
          PROVE  \E n \in 1..NChunks :
                   /\ loc'[t].cur - 1 = n * NPairs
                   /\ loc'[t].prev = Chain(loc[t].b)'[n - 1] /\ loc'[t].last = Chain(loc[t].b)'[n]
                   /\ loc'[t].last # Null /\ next'[loc'[t].last] = Null
      <4>1. j = 0 /\ prev # Null
        BY <2>10, <3>5 DEF Emptied
      <4>2. k \in 1..NChunks /\ prev = Chain(b)[k - 1]
        BY <1>4, <4>1, HashtabAssumption
      <4>3. loc'[t].cur - 1 = k * NPairs
        <5>1. k * NPairs \in Nat
          BY Rows, HashtabAssumption
        <5>2. PICK K : K = k * NPairs
          OBVIOUS
        <5>3. s = K + j /\ loc'[t].cur = s + 1 /\ K \in Nat
          BY <1>4, <2>2, <2>9, <2>10, <5>1, <5>2
        <5>4. loc'[t].cur - 1 = K
          BY ONLY <4>1, <5>3, s \in Nat
        <5>5. QED
          BY <5>2, <5>4
      <4>4. loc'[t].b = b /\ loc'[t].prev = prev /\ loc'[t].last = Chain(b)[k] /\ Chain(b)' = Chain(b)
        BY <2>9, <2>10, <2>15
      <4>5. Chain(b)[k] # Null /\ next'[Chain(b)[k]] = Null
        BY <1>4 DEF Chunks, Null
      <4>6. QED
        BY <4>2, <4>3, <4>4, <4>5
    <3>6. QED
      BY <2>11, <3>1, <3>2, <3>3, <3>4, <3>5 DEF RemoveOK
  <2>31. ChunksApart'
    BY <1>1, <1>4, ApartSame
  <2>32. Op(t)' # "insert"
    BY <2>1, <2>10
  <2>33. QED
    BY <1>2, <1>4, <2>1, <2>10, <2>12, <2>13, <2>14, <2>18, <2>25, <2>26, <2>28, <2>29, <2>30, <2>31, <2>32, BucketStep
<1>7. QED
  BY <1>3, <1>5, <1>6 DEF MovesTo

-----------------------------------------------------------------------------
(* The serial end, and the invariant. *)

(* The iteration over the table passes every pair. *)
LEMMA AllIterated ==
    ASSUME TypesOK, ChunksApart, FilledOK, \A t \in Threads : RemoveOK(t),
           NEW b \in Buckets, Top(b) = size[b], NEW i \in 0..Top(b) - 1
    PROVE  PairAt(b, i) \in Iterated(b)
<1>1. PICK n, q : n = i \div NPairs /\ q = i % NPairs
  OBVIOUS
<1>2. /\ n \in 0..NChunks /\ q \in Slots /\ i = n * NPairs + q
      /\ Chain(b)[n] \in Chunks /\ PairAt(b, i) = pairs[Chain(b)[n]][q]
  BY <1>1, PairHasSlot
<1>3. n \in ChainOf(b)
  BY <1>2 DEF ChainOf, Chunks, Null
<1>4. n * NPairs + q < size[b]
  BY <1>2, TopType
<1>5. PICK s : s = <<n, q>>
  OBVIOUS
<1>6. s \in ChainOf(b) \X Slots /\ s[1] = n /\ s[2] = q
  BY <1>2, <1>3, <1>5
<1>7. s \in {r \in ChainOf(b) \X Slots : r[1] * NPairs + r[2] < size[b]}
  BY <1>4, <1>6
<1>8. pairs[Chain(b)[s[1]]][s[2]] = PairAt(b, i)
  BY <1>2, <1>6
<1>9. QED
  BY <1>7, <1>8, Zenon DEF Iterated

(* The serial end empties the table. *)
LEMMA FreeChunksInv == ASSUME HashtabInv, FreeChunks PROVE HashtabInv'
<1>1. /\ TypesOK /\ LocksOK /\ CallsOK /\ ChunksApart /\ FilledOK /\ ValuesOK
      /\ \A t \in Threads : RemoveOK(t)
  BY DEF HashtabInv
<1>2. /\ \A t \in Threads : pc[t] = "idle"
      /\ alive' = alive \ {p.val : p \in UNION {Iterated(b) : b \in Buckets}}
      /\ allocated' \subseteq allocated
      /\ size' = [b \in Buckets |-> 0] /\ head' = [b \in Buckets |-> Null] /\ freeList' = Null
      /\ next' = [c \in Chunks |-> IF c \in allocated' THEN next[c] ELSE Null]
      /\ pairs' = [c \in Chunks |-> IF c \in allocated' THEN pairs[c] ELSE [j \in Slots |-> NoPair]]
      /\ UNCHANGED <<insertLock, readers, writers, calls, pc, loc, result>>
  BY DEF FreeChunks, lockVars
<1>3. \A b \in Buckets : Top(b) = size[b] /\ Top(b)' = 0
  BY <1>2 DEF Top, In
<1>4. alive' = {}
  <2> SUFFICES ASSUME NEW v \in alive PROVE v \in {p.val : p \in UNION {Iterated(b) : b \in Buckets}}
    BY <1>2
  <2>1. v \in Values
    BY <1>1 DEF TypesOK
  <2>2. PICK b \in Buckets : \E i \in 0..Top(b) - 1 : PairAt(b, i).val = v
    BY <1>1, <1>2, <2>1 DEF ValuesOK
  <2>3. PICK i \in 0..Top(b) - 1 : PairAt(b, i).val = v
    BY <2>2
  <2>4. PairAt(b, i) \in UNION {Iterated(c) : c \in Buckets}
    BY <1>1, <1>3, <2>3, AllIterated
  <2>5. QED
    BY <2>3, <2>4
<1>5. TypesOK'
  <2>1. size' \in [Buckets -> 0..NChunks * NPairs]
    <3>1. 0 \in 0..NChunks * NPairs
      BY Rows, HashtabAssumption
    <3>2. QED
      BY <1>2, <3>1
  <2>2. head' \in [Buckets -> Chunks \cup {Null}] /\ next' \in [Chunks -> Chunks \cup {Null}]
    BY <1>1, <1>2 DEF TypesOK
  <2>3. pairs' \in [Chunks -> [Slots -> [key : Keys \cup {None}, val : Values \cup {None}]]]
    <3>1. \A c \in Chunks : pairs[c] \in [Slots -> [key : Keys \cup {None}, val : Values \cup {None}]]
      BY <1>1 DEF TypesOK
    <3>2. [j \in Slots |-> NoPair] \in [Slots -> [key : Keys \cup {None}, val : Values \cup {None}]]
      BY DEF NoPair
    <3>3. QED
      BY <1>2, <3>1, <3>2
  <2>4. QED
    BY <1>1, <1>2, <1>4, <2>1, <2>2, <2>3 DEF TypesOK
<1>6. LocksOK' /\ CallsOK'
  BY <1>1, <1>2 DEF LocksOK, In, CallsOK, CallOK, Op
<1>7. \A p \in Places, n \in 0..NChunks : Line(p)'[n] = Null
  <2> SUFFICES ASSUME NEW p \in Places, NEW n \in 0..NChunks PROVE Line(p)'[n] = Null
    OBVIOUS
  <2>1. First(p)' = Null
    BY <1>2, HashtabAssumption DEF First, Places, Buckets
  <2>2. next' \in [Chunks -> Chunks \cup {Null}]
    BY <1>5 DEF TypesOK
  <2>3. Path(next', Null)[n] = Null
    BY <2>2, EmptyPath
  <2>4. Line(p)' = Path(next', Null)
    BY <2>1 DEF Line
  <2>5. QED
    BY <2>3, <2>4
<1>8. ChunksApart'
  BY <1>7 DEF ChunksApart
<1>9. FilledOK'
  <2>1. \A b \in Buckets : \A n \in 0..NChunks : ~(n * NPairs < Top(b)')
    <3> SUFFICES ASSUME NEW b \in Buckets, NEW n \in 0..NChunks, n * NPairs < Top(b)' PROVE FALSE
      OBVIOUS
    <3>1. n * NPairs \in Nat
      BY Rows, HashtabAssumption
    <3>2. QED
      BY <1>3, <3>1
  <2>2. \A b \in Buckets : 0..Top(b)' - 1 = {}
    BY <1>3
  <2>3. QED
    BY <2>1, <2>2 DEF FilledOK
<1>10. PairsUnique'
  BY <1>3 DEF PairsUnique
<1>11. ASSUME NEW t \in Threads PROVE SearchOK(t)' /\ RemoveOK(t)'
  <2>1. pc'[t] = "idle"
    BY <1>2
  <2>2. QED
    BY <2>1 DEF SearchOK, RemoveOK, Searching
<1>12. ValuesOK'
  <2>1. \A b \in Buckets : 0..Top(b)' - 1 = {}
    BY <1>3
  <2>2. \A t \in Threads : pc'[t] # "publish"
    BY <1>2
  <2>3. QED
    BY <1>4, <2>1, <2>2 DEF ValuesOK
<1>13. QED
  BY <1>5, <1>6, <1>8, <1>9, <1>10, <1>11, <1>12 DEF HashtabInv

(* A step that changes nothing. *)
LEMMA StutterInv == ASSUME HashtabInv, UNCHANGED vars PROVE HashtabInv'
<1>1. UNCHANGED <<size, head, insertLock, readers, writers, next, pairs, freeList, allocated, alive, calls, pc, loc, result>>
  BY DEF vars, lockVars, chunkVars
<1>2. /\ \A d : Chain(d)' = Chain(d)
      /\ \A d, i : PairAt(d, i)' = PairAt(d, i)
  BY <1>1, ViewSame
<1>3. /\ \A d : Top(d)' = Top(d)
      /\ \A d, i : Dead(d, i)' <=> Dead(d, i)
      /\ \A t, S, d : In(t, S, d)' <=> In(t, S, d)
  BY <1>1 DEF Top, Dead, In
<1>4. TypesOK' /\ LocksOK' /\ CallsOK' /\ ChunksApart'
  BY <1>1, <1>3, ApartSame DEF HashtabInv, TypesOK, LocksOK, CallsOK, CallOK, Op
<1>5. FilledOK' /\ PairsUnique'
  BY <1>1, <1>2, <1>3 DEF HashtabInv, FilledOK, PairsUnique
<1>6. ASSUME NEW t \in Threads PROVE SearchOK(t)' /\ RemoveOK(t)'
  <2>1. \A n : NoneBefore(t, n)' <=> NoneBefore(t, n)
    BY <1>1, <1>2 DEF NoneBefore, Matches
  <2>2. \A b, m : Cell(b, m)' = Cell(b, m)
    BY <1>2 DEF Cell
  <2>3. /\ \A m : AtCell(loc[t], m)' <=> AtCell(loc[t], m)
        /\ \A m : AtChunk(loc[t], m)' <=> AtChunk(loc[t], m)
    BY <1>1, <1>2, <2>2 DEF AtCell, AtChunk
  <2>4. \A b, a : Deref(b, a)' = Deref(b, a)
    BY <1>1 DEF Deref
  <2>5. \A b, i : Matches(t, PairAt(b, i).key)' <=> Matches(t, PairAt(b, i).key)
    BY <1>1, <1>2 DEF Matches
  <2>6. SearchOK(t) /\ RemoveOK(t)
    BY DEF HashtabInv
  <2>7. SearchOK(t)'
    BY <1>1, <1>2, <2>1, <2>3, <2>4, <2>5, <2>6 DEF SearchOK
  <2>8. RemoveOK(t)'
    BY <1>1, <1>2, <2>1, <2>2, <2>3, <2>5, <2>6 DEF RemoveOK, Op
  <2>9. QED
    BY <2>7, <2>8
<1>7. ValuesOK'
  BY <1>1, <1>2, <1>3 DEF HashtabInv, ValuesOK, Op
<1>8. QED
  BY <1>4, <1>5, <1>6, <1>7 DEF HashtabInv

(* The invariant holds of the table that the code sets up. *)
LEMMA InitInv == Init => HashtabInv
<1> SUFFICES ASSUME Init PROVE HashtabInv
  OBVIOUS
<1>1. TypesOK
  BY InitTypes
<1>2. /\ size = [b \in Buckets |-> 0] /\ head = [b \in Buckets |-> Null] /\ freeList = Null
      /\ insertLock = [b \in Buckets |-> NoThread] /\ readers = [b \in Buckets |-> {}] /\ writers = [b \in Buckets |-> {}]
      /\ alive = {} /\ pc = [t \in Threads |-> "idle"] /\ loc = [t \in Threads |-> NoLoc]
  BY DEF Init
<1>3. \A t \in Threads : pc[t] = "idle"
  BY <1>2
<1>4. LocksOK
  BY <1>2, HashtabAssumption DEF LocksOK, In, Reading, Searching, Removing, Inserting
<1>5. CallsOK
  BY <1>3 DEF CallsOK, CallOK, Reading, Searching, Removing, Inserting
<1>6. \A p \in Places, n \in 0..NChunks : Line(p)[n] = Null
  <2> SUFFICES ASSUME NEW p \in Places, NEW n \in 0..NChunks PROVE Line(p)[n] = Null
    OBVIOUS
  <2>1. First(p) = Null
    BY <1>2, HashtabAssumption DEF First, Places, Buckets
  <2>2. next \in [Chunks -> Chunks \cup {Null}]
    BY <1>1 DEF TypesOK
  <2>3. QED
    BY <2>1, <2>2, EmptyPath DEF Line
<1>7. ChunksApart
  BY <1>6 DEF ChunksApart
<1>8. \A b \in Buckets : Top(b) = 0
  BY <1>2, <1>3 DEF Top, In
<1>9. FilledOK
  <2>1. \A b \in Buckets : \A n \in 0..NChunks : ~(n * NPairs < Top(b))
    <3> SUFFICES ASSUME NEW b \in Buckets, NEW n \in 0..NChunks, n * NPairs < Top(b) PROVE FALSE
      OBVIOUS
    <3>1. n * NPairs \in Nat
      BY Rows, HashtabAssumption
    <3>2. QED
      BY <1>8, <3>1
  <2>2. \A b \in Buckets : 0..Top(b) - 1 = {}
    BY <1>8
  <2>3. QED
    BY <2>1, <2>2 DEF FilledOK
<1>10. PairsUnique
  BY <1>8 DEF PairsUnique
<1>11. \A t \in Threads : SearchOK(t) /\ RemoveOK(t)
  BY <1>3 DEF SearchOK, RemoveOK, Searching
<1>12. ValuesOK
  <2>1. \A b \in Buckets : 0..Top(b) - 1 = {}
    BY <1>8
  <2>2. QED
    BY <1>2, <1>3, <2>1 DEF ValuesOK
<1>13. QED
  BY <1>1, <1>4, <1>5, <1>7, <1>9, <1>10, <1>11, <1>12 DEF HashtabInv

(* Every step keeps the invariant. *)
LEMMA StepInv == ASSUME HashtabInv, [Next]_vars PROVE HashtabInv'
<1>1. CASE FreeChunks
  BY <1>1, FreeChunksInv
<1>2. ASSUME NEW t \in Threads, Call(t) \/ Step(t) PROVE HashtabInv'
  <2>1. CASE Call(t)
    BY <2>1, CallInv
  <2>2. CASE RLock(t) \/ Load(t) \/ Compare(t) \/ EndScan(t) \/ RUnlock(t)
    BY <2>2, RLockInv, LoadInv, CompareInv, EndScanInv, RUnlockInv
  <2>3. CASE TryLock(t) \/ Reload(t) \/ EndRescan(t) \/ LockedLoad(t)
    BY <2>3, TryLockInv, ReloadInv, EndRescanInv, LockedLoadInv
  <2>4. CASE NewChunk(t) \/ Write(t) \/ Publish(t) \/ IUnlock(t) \/ ReadValue(t)
    BY <2>4, NewChunkInv, WriteInv, PublishInv, IUnlockInv, ReadValueInv
  <2>5. CASE WLock(t) \/ Search(t) \/ Move(t) \/ Release(t) \/ Shrink(t) \/ WUnlock(t)
    BY <2>5, WLockInv, SearchInv, MoveInv, ReleaseInv, ShrinkInv, WUnlockInv
  <2>6. CASE IfLoad(t) \/ IfTest(t)
    BY <2>6, IfLoadInv, IfTestInv
  <2>7. QED
    BY <1>2, <2>1, <2>2, <2>3, <2>4, <2>5, <2>6 DEF Step
<1>3. CASE UNCHANGED vars
  BY <1>3, StutterInv
<1>4. QED
  BY <1>1, <1>2, <1>3 DEF Next

(* The inductive invariant holds in every state: the types, the holders of
   the locks, the place of every chunk, and what each thread inside a
   function knows of its bucket. *)
THEOREM Invariance == Spec => []HashtabInv
BY InitInv, StepInv, PTL DEF Spec

(* The pairs of a bucket that no removal is in progress in. *)
LEMMA SettledTop ==
    ASSUME HashtabInv, NEW b \in Buckets, writers[b] = {}
    PROVE  Top(b) = size[b] /\ \A i : ~Dead(b, i)
<1>1. \A t \in Threads : ~In(t, Removing, b)
  BY DEF HashtabInv, LocksOK
<1>2. \A t \in Threads : ~In(t, {"release", "shrink"}, b) /\ ~In(t, {"move", "oob"}, b)
  BY <1>1 DEF In, Removing
<1>3. QED
  BY <1>2 DEF Top, Dead

(* Threads that insert the same key at the same time end up with one pair:
   the search under insert_lock sees every pair published before. *)
THEOREM UniqueKeysAlways == Spec => []UniqueKeys
<1>1. HashtabInv => UniqueKeys
  BY SettledTop DEF UniqueKeys, HashtabInv, PairsUnique
<1>2. QED
  BY Invariance, <1>1, PTL

(* When prefix_remove_if_impl leaves a bucket, no pair with a matching key is
   left there, for any condition: the pairs moved into freed slots are looked
   at too. *)
THEOREM RemoveIfCompleteAlways == Spec => []RemoveIfComplete
<1>1. HashtabInv => RemoveIfComplete
  BY DEF HashtabInv, RemoveOK, NoneBefore, RemoveIfComplete, Content
<1>2. QED
  BY Invariance, <1>1, PTL

(* When no insertion and no removal is going on, the values alive are those
   in the table: each is destroyed or handed out once, when its pair goes. *)
THEOREM ValueAccountingAlways == Spec => []ValueAccounting
<1>1. HashtabInv => ValueAccounting
  <2> SUFFICES ASSUME HashtabInv, \A b \in Buckets : Settled(b)
               PROVE  alive = UNION {{p.val : p \in Content(b)} : b \in Buckets}
    BY DEF ValueAccounting
  <2>1. \A b \in Buckets : Top(b) = size[b] /\ \A i : ~Dead(b, i)
    BY SettledTop DEF Settled
  <2>2. \A t \in Threads : pc[t] # "publish"
    <3> SUFFICES ASSUME NEW t \in Threads, pc[t] = "publish" PROVE FALSE
      OBVIOUS
    <3>1. loc[t].b \in Buckets /\ In(t, Inserting, loc[t].b)
      BY InTheBucket DEF HashtabInv, Inserting
    <3>2. insertLock[loc[t].b] = t
      BY <3>1 DEF HashtabInv, LocksOK
    <3>3. QED
      BY <3>1, <3>2, HashtabAssumption DEF Settled
  <2>3. ASSUME NEW v \in Values
        PROVE  v \in alive <=> \E b \in Buckets : \E i \in 0..size[b] - 1 : PairAt(b, i).val = v
    <3>1. v \in alive <=> \E b \in Buckets : \E i \in 0..Top(b) - 1 : PairAt(b, i).val = v /\ ~Dead(b, i)
      BY <2>2 DEF HashtabInv, ValuesOK
    <3>2. QED
      BY <2>1, <3>1
  <2>4. ASSUME NEW b \in Buckets, NEW i \in 0..size[b] - 1 PROVE PairAt(b, i).val \in Values
    <3>1. PairAt(b, i).val \in 1..calls
      BY <2>1 DEF HashtabInv, FilledOK
    <3>2. calls \in 0..MaxCalls
      BY DEF HashtabInv, TypesOK
    <3>3. QED
      BY <3>1, <3>2, HashtabAssumption DEF Values
  <2>5. alive \subseteq Values
    BY DEF HashtabInv, TypesOK
  <2>6. ASSUME NEW v
        PROVE  v \in UNION {{p.val : p \in Content(b)} : b \in Buckets} <=>
               \E b \in Buckets : \E i \in 0..size[b] - 1 : PairAt(b, i).val = v
    BY DEF Content
  <2>7. QED
    BY <2>3, <2>4, <2>5, <2>6
<1>2. QED
  BY Invariance, <1>1, PTL

-----------------------------------------------------------------------------
(* Where remove_if removes every pair: no chunk without a pair. *)

(* With conditions that all keys satisfy, remove_if always looks at the first pair. *)
LEMMA FirstPair ==
    ASSUME HashtabInv, WholeTable, NEW t \in Threads, pc[t] \in {"iftest", "move"}, Op(t) = "remove_if"
    PROVE  loc[t].i = 0
<1>1. TypesOK /\ LocksOK /\ CallOK(t) /\ RemoveOK(t) /\ FilledOK
  BY DEF HashtabInv, CallsOK
<1>2. loc[t].b \in Buckets /\ loc[t].i \in Nat /\ loc[t].call \in Calls
  BY <1>1, InTheBucket DEF LocType, CallOK
<1>3. PICK b \in Buckets : b = loc[t].b
  BY <1>2
<1>4. Top(b) = size[b]
  <2>1. In(t, Removing \ {"release", "shrink"}, b)
    BY <1>3 DEF In, Removing
  <2>2. QED
    BY <1>1, <2>1, TopIs
<1>5. loc[t].i <= size[b] /\ NoneBefore(t, loc[t].i) /\ size[b] \in Nat
  <2>1. loc[t].cur = size[b] /\ loc[t].i <= loc[t].cur /\ NoneBefore(t, loc[t].i)
    BY <1>1, <1>2, <1>3 DEF RemoveOK, TypesOK
  <2>2. QED
    BY <2>1, TopType DEF HashtabInv
<1>6. loc[t].call.keys = Keys
  <2>1. loc[t].call.op = "remove_if"
    BY DEF Op
  <2>2. "remove_if" \in Ops /\ loc[t].call.keys \in Conditions
    BY <1>2, <2>1 DEF Calls, KeyOps
  <2>3. QED
    BY <2>2 DEF WholeTable
<1>7. SUFFICES ASSUME loc[t].i # 0 PROVE FALSE
  OBVIOUS
<1>8. 0 \in 0..loc[t].i - 1 /\ 0 \in 0..Top(b) - 1
  BY <1>2, <1>4, <1>5, <1>7
<1>9. PairAt(b, 0).key \in Keys
  BY <1>1, <1>8 DEF FilledOK
<1>10. ~Matches(t, PairAt(b, 0).key)
  BY <1>3, <1>5, <1>8 DEF NoneBefore
<1>11. QED
  BY <1>6, <1>9, <1>10 DEF Matches

LooksFirst == \A t \in Threads : pc[t] \in {"iftest", "move"} /\ Op(t) = "remove_if" => loc[t].i = 0

(* remove_if that removes every pair looks at the first slot only: so after a
   step, too. *)
LEMMA LooksFirstNext == HashtabInv' /\ WholeTable => LooksFirst'
<1>1. HashtabInv /\ WholeTable => LooksFirst
  BY FirstPair DEF LooksFirst
<1>2. WholeTable => WholeTable'
  BY DEF WholeTable
<1>3. QED
  BY <1>1, <1>2, PTL

(* Then there is a pair in the last chunk whenever one is to be moved. *)
LEMMA NoneOut ==
    ASSUME HashtabInv, NoneEmpty, NEW t \in Threads, NEW b, NEW m \in 0..NChunks, NEW k \in 0..NChunks,
           NEW j \in Int, NEW prev, MovesTo(t, b, m, k, j, prev)
    PROVE  /\ j \in Slots /\ Top(b) = size[b] /\ size[b] \in Nat /\ size[b] - 1 = k * NPairs + j
           /\ Limit(b) = size[b]
           /\ \A n \in 0..NChunks : Chain(b)[n] # Null => n <= k
<1>1. /\ pc[t] = "move" /\ b = loc[t].b /\ b \in Buckets /\ m <= k /\ k < NChunks
      /\ Chain(b)[k] \in Chunks /\ next[Chain(b)[k]] = Null /\ loc[t].cur - 1 = k * NPairs + j
  BY DEF MovesTo
<1>2. TypesOK /\ LocksOK /\ ChunksApart /\ FilledOK /\ RemoveOK(t)
  BY DEF HashtabInv
<1>3. In(t, Removing, b) /\ In(t, Removing \ {"release", "shrink"}, b)
  BY <1>1 DEF In, Removing
<1>4. Top(b) = size[b] /\ size[b] \in Nat
  BY <1>1, <1>2, <1>3, TopIs, TopType DEF HashtabInv
<1>5. loc[t].cur = size[b] /\ loc[t].i < size[b] /\ loc[t].i \in Nat
  BY <1>1, <1>2 DEF RemoveOK, TypesOK, LocType
<1>6. Limit(b) = size[b]
  <2>1. \A u \in Threads : ~In(u, {"write", "publish"}, b) /\ ~In(u, {"shrink"}, b)
    <3> SUFFICES ASSUME NEW u \in Threads, In(u, {"write", "publish", "shrink"}, b) PROVE FALSE
      BY DEF In
    <3>1. u # t
      BY <1>1 DEF In
    <3>2. In(u, Removing, b) \/ In(u, Reading, b)
      BY DEF In, Removing, Reading
    <3>3. QED
      BY <1>1, <1>2, <1>3, <3>1, <3>2, Exclusion
  <2>2. QED
    BY <2>1 DEF Limit
<1>7. \A n \in 0..NChunks : Chain(b)[n] # Null => n <= k
  <2> SUFFICES ASSUME NEW n \in 0..NChunks, Chain(b)[n] # Null, ~(n <= k) PROVE FALSE
    OBVIOUS
  <2>1. k + 1 \in 1..NChunks /\ (k + 1) - 1 = k /\ n \in k + 1..NChunks /\ k + 1 \in 0..NChunks
    BY <1>1, HashtabAssumption
  <2>2. Chain(b)[k + 1] = Null
    <3>1. Chain(b)[k + 1] = IF Chain(b)[(k + 1) - 1] = Null THEN Null ELSE next[Chain(b)[(k + 1) - 1]]
      BY <1>1, <1>2, <2>1, Chains
    <3>2. QED
      BY <1>1, <2>1, <3>1
  <2>3. QED
    BY <1>1, <1>2, <2>1, <2>2, Chains
<1>8. PICK K, L : K = k * NPairs /\ L = (k + 1) * NPairs
  OBVIOUS
<1>9. K \in Nat /\ L = K + NPairs /\ NPairs \in Nat
  BY <1>8, Rows, HashtabAssumption
<1>10. K < size[b]
  <2>1. CASE k = 0
    <3>1. K = 0
      BY <1>8, <2>1, HashtabAssumption
    <3>2. QED
      BY <1>4, <1>5, <3>1
  <2>2. CASE k # 0
    <3>1. k \in 1..NChunks /\ Chain(b)[k] # Null
      BY <1>1, <2>2 DEF Chunks, Null
    <3>2. k * NPairs < Limit(b)
      BY <1>1, <3>1 DEF NoneEmpty
    <3>3. QED
      BY <1>6, <1>8, <3>2
  <2>3. QED
    BY <2>1, <2>2
<1>11. ~(L < size[b])
  <2> SUFFICES ASSUME L < size[b] PROVE FALSE
    OBVIOUS
  <2>1. k + 1 \in 0..NChunks /\ ~(k + 1 <= k)
    BY <1>1, HashtabAssumption
  <2>2. Chain(b)[k + 1] # Null
    BY <1>1, <1>2, <1>4, <1>8, <2>1 DEF FilledOK
  <2>3. QED
    BY <1>7, <2>1, <2>2
<1>12. size[b] - 1 = K + j
  BY <1>1, <1>5, <1>8
<1>13. j \in Slots
  BY <1>4, <1>9, <1>10, <1>11, <1>12 DEF Slots
<1>14. QED
  BY <1>4, <1>6, <1>7, <1>8, <1>12, <1>13

(* A step that stays out of write, publish and shrink leaves the limit alone. *)
LEMMA LimitSame ==
    ASSUME NEW t \in Threads, Alone(t), NEW b \in Buckets, size'[b] = size[b],
           In(t, {"write", "publish"}, b)' <=> In(t, {"write", "publish"}, b),
           In(t, {"shrink"}, b)' <=> In(t, {"shrink"}, b)
    PROVE  Limit(b)' = Limit(b)
<1>1. \A u \in Threads : /\ In(u, {"write", "publish"}, b)' <=> In(u, {"write", "publish"}, b)
                         /\ In(u, {"shrink"}, b)' <=> In(u, {"shrink"}, b)
  BY DEF Alone, In
<1>2. QED
  BY <1>1 DEF Limit

(* A step that leaves the chains as they are. *)
LEMMA SamePlaces ==
    ASSUME HashtabInv', WholeTable, NoneEmpty, NEW t \in Threads, Alone(t),
           UNCHANGED <<head, next, freeList, allocated>>,
           \A b \in Buckets : \A n \in 1..NChunks : Chain(b)[n] # Null => n * NPairs < Limit(b)',
           pc'[t] # "oob"
    PROVE  NoneEmpty'
<1>1. \A p : Line(p)' = Line(p)
  BY DEF Line, First
<1>2. allocated' \subseteq Placed'
  BY <1>1 DEF NoneEmpty, Placed
<1>3. \A b : Chain(b)' = Chain(b)
  BY DEF Chain
<1>4. \A u \in Threads : pc'[u] # "oob"
  BY DEF NoneEmpty, Alone
<1>6. \A u \in Threads : pc'[u] \in {"iftest", "move"} /\ Op(u)' = "remove_if" => loc'[u].i = 0
  BY LooksFirstNext DEF LooksFirst
<1>7. QED
  BY <1>2, <1>3, <1>4, <1>6 DEF NoneEmpty

(* NoneEmpty after a step that touches neither links nor sizes. *)
LEMMA QuietPlaces ==
    ASSUME HashtabInv', WholeTable, NoneEmpty, NEW t \in Threads, Alone(t),
           UNCHANGED <<size, head, next, freeList, allocated>>,
           pc[t] \notin {"write", "publish", "shrink"},
           pc'[t] \notin {"write", "publish", "shrink", "oob"}
    PROVE  NoneEmpty'
<1>1. \A b \in Buckets : Limit(b)' = Limit(b)
  <2> SUFFICES ASSUME NEW b \in Buckets PROVE Limit(b)' = Limit(b)
    OBVIOUS
  <2>1. /\ In(t, {"write", "publish"}, b)' <=> In(t, {"write", "publish"}, b)
        /\ In(t, {"shrink"}, b)' <=> In(t, {"shrink"}, b)
    BY DEF In
  <2>2. QED
    BY <2>1, LimitSame
<1>2. \A b \in Buckets : \A n \in 1..NChunks : Chain(b)[n] # Null => n * NPairs < Limit(b)'
  BY <1>1 DEF NoneEmpty
<1>3. QED
  BY <1>2, SamePlaces

(* A step that moves pc and loc of one thread. *)
LEMMA AloneIs ==
    ASSUME TypesOK, NEW t \in Threads, NEW p, pc' = [pc EXCEPT ![t] = p],
           \A u \in Threads : u # t => loc'[u] = loc[u]
    PROVE  Alone(t) /\ pc'[t] = p
BY DEF TypesOK, Alone

(* The actions after which no thread has come to write, publish or shrink. *)
Quiet(t) ==
    /\ Alone(t) /\ UNCHANGED <<size, head, next, freeList, allocated>>
    /\ pc[t] \notin {"write", "publish", "shrink"}
    /\ pc'[t] \notin {"write", "publish", "shrink", "oob"}

(* The steps that touch neither links nor sizes. *)
LEMMA QuietSteps ==
    ASSUME TypesOK, NEW t \in Threads,
           \/ Call(t) \/ RLock(t) \/ Load(t) \/ Compare(t) \/ EndScan(t) \/ RUnlock(t)
           \/ TryLock(t) \/ Reload(t) \/ EndRescan(t) \/ LockedLoad(t) \/ IUnlock(t) \/ ReadValue(t)
           \/ WLock(t) \/ Search(t) \/ WUnlock(t) \/ IfLoad(t) \/ IfTest(t)
    PROVE  Quiet(t)
<1>1. pc[t] \notin {"write", "publish", "shrink"}
  BY DEF Call, RLock, Load, Compare, EndScan, RUnlock, TryLock, Reload, EndRescan, LockedLoad, IUnlock,
         ReadValue, WLock, Search, WUnlock, IfLoad, IfTest, ScanDone, ScanPcs
<1>2. UNCHANGED <<size, head, next, freeList, allocated>>
  BY DEF Call, RLock, Load, Compare, EndScan, RUnlock, TryLock, Reload, EndRescan, LockedLoad, IUnlock,
         ReadValue, WLock, Search, WUnlock, IfLoad, IfTest, LoadSize, chunkVars
<1>3. \A u \in Threads : u # t => loc'[u] = loc[u]
  <2>1. CASE Call(t)
    BY <2>1 DEF TypesOK, Call
  <2>2. CASE RLock(t) \/ Load(t) \/ RUnlock(t) \/ EndScan(t)
    BY <2>2 DEF TypesOK, RLock, Load, LoadSize, EndScan, RUnlock, Leave
  <2>3. CASE Compare(t)
    BY <2>3 DEF TypesOK, Compare
  <2>4. CASE TryLock(t) \/ Reload(t) \/ EndRescan(t) \/ LockedLoad(t) \/ IUnlock(t) \/ ReadValue(t)
    BY <2>4 DEF TypesOK, TryLock, Reload, EndRescan, LockedLoad, LoadSize, IUnlock, ReadValue
  <2>5. CASE WLock(t) \/ WUnlock(t) \/ IfLoad(t)
    BY <2>5 DEF TypesOK, WLock, WUnlock, Leave, IfLoad
  <2>6. CASE Search(t)
    BY <2>6 DEF TypesOK, Search
  <2>7. CASE IfTest(t)
    BY <2>7 DEF TypesOK, IfTest
  <2>8. QED
    BY <2>1, <2>2, <2>3, <2>4, <2>5, <2>6, <2>7
<1>4. (\A u \in Threads : u # t => pc'[u] = pc[u]) /\ pc'[t] \notin {"write", "publish", "shrink", "oob"}
  <2>1. CASE Call(t)
    BY <2>1 DEF TypesOK, Call, Goto
  <2>2. CASE RLock(t) \/ Load(t) \/ RUnlock(t)
    BY <2>2 DEF TypesOK, RLock, Load, LoadSize, RUnlock, Leave, Goto
  <2>3. CASE Compare(t)
    BY <1>1, <2>3 DEF TypesOK, Compare, Goto, ScanPcs
  <2>4. CASE EndScan(t)
    BY <2>4 DEF TypesOK, EndScan, LoadSize, Goto
  <2>5. CASE TryLock(t) \/ Reload(t) \/ EndRescan(t) \/ LockedLoad(t) \/ IUnlock(t) \/ ReadValue(t)
    BY <2>5 DEF TypesOK, TryLock, Reload, EndRescan, LockedLoad, LoadSize, IUnlock, ReadValue, Goto
  <2>6. CASE WLock(t) \/ IfLoad(t)
    BY <2>6 DEF TypesOK, WLock, IfLoad, Goto
  <2>7. CASE WUnlock(t)
    BY <2>7 DEF TypesOK, WUnlock, Leave, Goto
  <2>8. CASE Search(t)
    BY <2>8 DEF TypesOK, Search, Goto
  <2>9. CASE IfTest(t)
    BY <2>9 DEF TypesOK, IfTest, Goto
  <2>10. QED
    BY <2>1, <2>2, <2>3, <2>4, <2>5, <2>6, <2>7, <2>8, <2>9
<1>5. QED
  BY <1>1, <1>2, <1>3, <1>4 DEF Quiet, Alone

(* Writing the pair leaves the chunks where they are. *)
LEMMA WritePlaces == ASSUME HashtabInv, HashtabInv', WholeTable, NoneEmpty, NEW t \in Threads, Write(t) PROVE NoneEmpty'
<1>1. /\ TypesOK /\ pc[t] = "write" /\ loc' = loc /\ Goto(t, "publish")
      /\ UNCHANGED <<size, head, next, freeList, allocated>>
  BY DEF HashtabInv, Write
<1>2. Alone(t) /\ pc'[t] = "publish" /\ loc'[t] = loc[t]
  BY <1>1, StepsStay DEF Pcs
<1>3. ASSUME NEW b \in Buckets PROVE Limit(b)' = Limit(b)
  <2>1. /\ In(t, {"write", "publish"}, b)' <=> In(t, {"write", "publish"}, b)
        /\ In(t, {"shrink"}, b)' <=> In(t, {"shrink"}, b)
    BY <1>1, <1>2 DEF In
  <2>2. QED
    BY <1>1, <1>2, <2>1, LimitSame
<1>4. \A b \in Buckets : \A n \in 1..NChunks : Chain(b)[n] # Null => n * NPairs < Limit(b)'
  BY <1>3 DEF NoneEmpty
<1>5. QED
  BY <1>1, <1>2, <1>4, SamePlaces

(* What Limit is when a thread is in a section of the bucket. *)
LEMMA LimitIs ==
    ASSUME LocksOK, NEW t \in Threads, NEW b \in Buckets
    PROVE  /\ In(t, {"write", "publish"}, b) => Limit(b) = size[b] + 1
           /\ In(t, {"shrink"}, b) => Limit(b) = size[b] - 1
           /\ In(t, {"lscan", "iunlock", "move", "release", "iftest", "wunlock"}, b) => Limit(b) = size[b]
<1>1. In(t, {"write", "publish"}, b) => Limit(b) = size[b] + 1
  BY DEF Limit
<1>2. ASSUME In(t, {"shrink"}, b) PROVE Limit(b) = size[b] - 1
  <2>1. \A u \in Threads : ~In(u, {"write", "publish"}, b)
    <3> SUFFICES ASSUME NEW u \in Threads, In(u, {"write", "publish"}, b) PROVE FALSE
      OBVIOUS
    <3>1. u # t /\ In(u, Reading, b) /\ In(t, Removing, b)
      BY <1>2 DEF In, Reading, Removing
    <3>2. QED
      BY <3>1, Exclusion
  <2>2. QED
    BY <1>2, <2>1 DEF Limit
<1>3. ASSUME In(t, {"lscan", "iunlock", "move", "release", "iftest", "wunlock"}, b) PROVE Limit(b) = size[b]
  <2>1. \A u \in Threads : ~In(u, {"write", "publish"}, b) /\ ~In(u, {"shrink"}, b)
    <3> SUFFICES ASSUME NEW u \in Threads, In(u, {"write", "publish", "shrink"}, b) PROVE FALSE
      BY DEF In
    <3>1. u # t
      BY <1>3 DEF In
    <3>2. \/ In(t, Removing, b)
          \/ In(t, Inserting, b) /\ In(t, Reading, b)
      BY <1>3 DEF In, Reading, Searching, Removing, Inserting
    <3>3. \/ In(u, Removing, b)
          \/ In(u, Inserting, b) /\ In(u, Reading, b)
      BY DEF In, Reading, Searching, Removing, Inserting
    <3>4. QED
      BY <3>1, <3>2, <3>3, Exclusion
  <2>2. QED
    BY <2>1 DEF Limit
<1>4. QED
  BY <1>1, <1>2, <1>3

(* Publishing: the chunk that was being filled now holds a pair. *)
LEMMA PublishPlaces == ASSUME HashtabInv, HashtabInv', WholeTable, NoneEmpty, NEW t \in Threads, Publish(t) PROVE NoneEmpty'
<1>1. /\ TypesOK /\ LocksOK /\ SearchOK(t) /\ pc[t] = "publish" /\ loc' = loc /\ Goto(t, "iunlock")
      /\ size' = [size EXCEPT ![loc[t].b] = loc[t].cur + 1]
      /\ UNCHANGED <<head, next, freeList, allocated>>
  BY DEF HashtabInv, Publish, chunkVars
<1>2. PICK b \in Buckets : b = loc[t].b
  BY <1>1, InTheBucket
<1>3. Alone(t) /\ pc'[t] = "iunlock" /\ loc'[t] = loc[t]
  BY <1>1, StepsStay DEF Pcs
<1>4. loc[t].cur = size[b] /\ size'[b] = size[b] + 1 /\ \A d \in Buckets : d # b => size'[d] = size[d]
  BY <1>1, <1>2 DEF SearchOK, TypesOK
<1>5. Limit(b) = size[b] + 1 /\ Limit(b)' = size'[b]
  <2>1. In(t, {"write", "publish"}, b) /\ In(t, {"iunlock"}, b)'
    BY <1>1, <1>2, <1>3 DEF In
  <2>2. Limit(b) = size[b] + 1
    BY <1>1, <2>1, LimitIs
  <2>3. \A u \in Threads : u # t => ~In(u, {"write", "publish", "shrink"}, b)
    <3> SUFFICES ASSUME NEW u \in Threads, u # t, In(u, {"write", "publish", "shrink"}, b) PROVE FALSE
      OBVIOUS
    <3>1. In(t, Inserting, b) /\ In(t, Reading, b)
      BY <2>1 DEF In, Reading, Inserting
    <3>2. In(u, Removing, b) \/ In(u, Inserting, b)
      BY DEF In, Removing, Inserting
    <3>3. QED
      BY <1>1, <3>1, <3>2, Exclusion
  <2>4. \A u \in Threads : ~In(u, {"write", "publish"}, b)' /\ ~In(u, {"shrink"}, b)'
    BY <1>3, <2>3 DEF In, Alone
  <2>5. Limit(b)' = size'[b]
    BY <2>4 DEF Limit
  <2>6. QED
    BY <2>2, <2>5
<1>6. ASSUME NEW d \in Buckets, d # b PROVE Limit(d)' = Limit(d)
  <2>1. /\ In(t, {"write", "publish"}, d)' <=> In(t, {"write", "publish"}, d)
        /\ In(t, {"shrink"}, d)' <=> In(t, {"shrink"}, d)
    BY <1>2, <1>3, <1>6 DEF In
  <2>2. QED
    BY <1>3, <1>4, <1>6, <2>1, LimitSame
<1>7. \A d \in Buckets : \A n \in 1..NChunks : Chain(d)[n] # Null => n * NPairs < Limit(d)'
  BY <1>4, <1>5, <1>6 DEF NoneEmpty
<1>8. QED
  BY <1>1, <1>3, <1>7, SamePlaces

(* The emptied chunk has been released before the size is decremented. *)
LEMMA ShrinkPlaces == ASSUME HashtabInv, HashtabInv', WholeTable, NoneEmpty, NEW t \in Threads, Shrink(t) PROVE NoneEmpty'
<1>1. /\ TypesOK /\ LocksOK /\ RemoveOK(t) /\ pc[t] = "shrink"
      /\ loc' = [loc EXCEPT ![t].cur = loc[t].cur - 1, ![t].prev = Null, ![t].last = Null]
      /\ Goto(t, IF Op(t) = "remove_if" THEN "iftest" ELSE "wunlock")
      /\ size' = [size EXCEPT ![loc[t].b] = loc[t].cur - 1]
      /\ UNCHANGED <<head, next, freeList, allocated>>
  BY DEF HashtabInv, Shrink, chunkVars
<1>2. PICK b \in Buckets : b = loc[t].b
  BY <1>1, InTheBucket
<1>3. Alone(t) /\ pc'[t] \in {"iftest", "wunlock"} /\ loc'[t].b = loc[t].b
  <2>1. \A u \in Threads : u # t => loc'[u] = loc[u]
    BY <1>1 DEF TypesOK
  <2>2. PICK p : p = IF Op(t) = "remove_if" THEN "iftest" ELSE "wunlock"
    OBVIOUS
  <2>3. pc' = [pc EXCEPT ![t] = p]
    BY <1>1, <2>2 DEF Goto
  <2>4. Alone(t) /\ pc'[t] = p
    BY <1>1, <2>1, <2>3, AloneIs
  <2>5. loc'[t].b = loc[t].b
    BY <1>1 DEF TypesOK, LocType
  <2>6. QED
    BY <2>2, <2>4, <2>5
<1>4. loc[t].cur = size[b] /\ size'[b] = size[b] - 1 /\ \A d \in Buckets : d # b => size'[d] = size[d]
  BY <1>1, <1>2 DEF RemoveOK, TypesOK
<1>5. Limit(b) = size[b] - 1 /\ Limit(b)' = size'[b]
  <2>1. In(t, {"shrink"}, b) /\ In(t, {"iftest", "wunlock"}, b)'
    BY <1>1, <1>2, <1>3 DEF In
  <2>2. Limit(b) = size[b] - 1
    BY <1>1, <2>1, LimitIs
  <2>3. \A u \in Threads : u # t => ~In(u, {"write", "publish", "shrink"}, b)
    <3> SUFFICES ASSUME NEW u \in Threads, u # t, In(u, {"write", "publish", "shrink"}, b) PROVE FALSE
      OBVIOUS
    <3>1. In(t, Removing, b)
      BY <2>1 DEF In, Removing
    <3>2. In(u, Removing, b) \/ In(u, Reading, b)
      BY DEF In, Removing, Reading
    <3>3. QED
      BY <1>1, <3>1, <3>2, Exclusion
  <2>4. \A u \in Threads : ~In(u, {"write", "publish"}, b)' /\ ~In(u, {"shrink"}, b)'
    BY <1>3, <2>3 DEF In, Alone
  <2>5. Limit(b)' = size'[b]
    BY <2>4 DEF Limit
  <2>6. QED
    BY <2>2, <2>5
<1>6. ASSUME NEW d \in Buckets, d # b PROVE Limit(d)' = Limit(d)
  <2>1. /\ In(t, {"write", "publish"}, d)' <=> In(t, {"write", "publish"}, d)
        /\ In(t, {"shrink"}, d)' <=> In(t, {"shrink"}, d)
    BY <1>2, <1>3, <1>6 DEF In
  <2>2. QED
    BY <1>3, <1>4, <1>6, <2>1, LimitSame
<1>7. \A d \in Buckets : \A n \in 1..NChunks : Chain(d)[n] # Null => n * NPairs < Limit(d)'
  BY <1>4, <1>5, <1>6 DEF NoneEmpty
<1>8. QED
  BY <1>1, <1>3, <1>7, SamePlaces

(* Moving the last pair empties a last chunk only where the chunk is released
   next; keys[ j ] is inside of the chunk. *)
LEMMA MovePlaces == ASSUME HashtabInv, HashtabInv', WholeTable, NoneEmpty, NEW t \in Threads, Move(t) PROVE NoneEmpty'
<1>1. /\ TypesOK /\ LocksOK /\ ChunksApart /\ loc[t].b \in Buckets /\ loc[t] \in LocType
  BY InTheBucket DEF HashtabInv
<1>2. PICK b \in Buckets : b = loc[t].b
  BY <1>1
<1>3. PICK m \in 0..NChunks, k \in 0..NChunks, j \in Int, prev \in Chunks \cup {Null} : MovesTo(t, b, m, k, j, prev)
  BY <1>2, MoveLast
<1>4. /\ j \in Slots /\ Top(b) = size[b] /\ size[b] \in Nat /\ size[b] - 1 = k * NPairs + j
      /\ Limit(b) = size[b]
      /\ \A n \in 0..NChunks : Chain(b)[n] # Null => n <= k
  BY <1>3, NoneOut
<1>5. /\ pc[t] = "move" /\ UNCHANGED <<size, head, next, freeList, allocated>>
      /\ m <= k /\ loc[t].i = m * NPairs + loc[t].j /\ loc[t].j \in Slots
      /\ Chain(b)[m] \in Chunks
      /\ m < k => prev # Null
      /\ m = k => prev = IF Op(t) = "remove_if" THEN Null ELSE Cell(b, m)
      /\ loc' = [loc EXCEPT ![t].prev = prev, ![t].last = Chain(b)[k]]
      /\ Goto(t, IF Emptied(j, prev) THEN "release" ELSE "shrink")
  BY <1>3, <1>4 DEF MovesTo
<1>6. Alone(t) /\ pc'[t] = IF Emptied(j, prev) THEN "release" ELSE "shrink"
  <2>1. \A u \in Threads : u # t => loc'[u] = loc[u]
    BY <1>1, <1>5 DEF TypesOK
  <2>2. PICK p : p = IF Emptied(j, prev) THEN "release" ELSE "shrink"
    OBVIOUS
  <2>3. pc' = [pc EXCEPT ![t] = p]
    BY <1>5, <2>2 DEF Goto
  <2>4. QED
    BY <1>1, <2>1, <2>2, <2>3, AloneIs
<1>7. loc'[t].b = b
  BY <1>1, <1>2, <1>5 DEF TypesOK, LocType
<1>8. \A u \in Threads : u # t => ~In(u, {"write", "publish", "shrink"}, b)
  <2> SUFFICES ASSUME NEW u \in Threads, u # t, In(u, {"write", "publish", "shrink"}, b) PROVE FALSE
    OBVIOUS
  <2>1. In(t, Removing, b)
    BY <1>2, <1>5 DEF In, Removing
  <2>2. In(u, Removing, b) \/ In(u, Reading, b)
    BY DEF In, Removing, Reading
  <2>3. QED
    BY <1>1, <2>1, <2>2, Exclusion
<1>9. Limit(b)' = IF Emptied(j, prev) THEN size[b] ELSE size[b] - 1
  <2>1. \A u \in Threads : ~In(u, {"write", "publish"}, b)'
    BY <1>6, <1>8 DEF In, Alone
  <2>2. CASE Emptied(j, prev)
    <3>1. \A u \in Threads : ~In(u, {"shrink"}, b)'
      BY <1>6, <1>8, <2>2 DEF In, Alone
    <3>2. QED
      BY <1>5, <2>1, <2>2, <3>1 DEF Limit
  <2>3. CASE ~Emptied(j, prev)
    <3>1. In(t, {"shrink"}, b)'
      BY <1>6, <1>7, <2>3 DEF In
    <3>2. QED
      BY <1>5, <2>1, <2>3, <3>1 DEF Limit
  <2>4. QED
    BY <2>2, <2>3
<1>10. prev = Null => k = 0
  <2> SUFFICES ASSUME prev = Null PROVE k = 0
    OBVIOUS
  <2>1. m = k
    BY <1>5
  <2>2. CASE Op(t) = "remove_if"
    <3>1. loc[t].i = 0
      BY <1>5, <2>2, FirstPair
    <3>2. m * NPairs \in Nat /\ m <= m * NPairs /\ loc[t].j \in Nat
      BY <1>5, Rows, HashtabAssumption DEF Slots
    <3>3. PICK M : M = m * NPairs
      OBVIOUS
    <3>4. M \in Nat /\ m <= M /\ loc[t].j \in Nat /\ 0 = M + loc[t].j
      BY <1>5, <3>1, <3>2, <3>3
    <3>5. QED
      BY <2>1, <3>4
  <2>3. CASE Op(t) # "remove_if"
    <3>1. Cell(b, m) = Null
      BY <1>5, <2>1, <2>3
    <3>2. m > 0 => Cell(b, m) # Null
      <4> SUFFICES ASSUME m > 0 PROVE Chain(b)[m - 1] # Null
        BY DEF Cell
      <4>1. m \in 1..NChunks /\ Chain(b)[m] # Null
        BY <1>5 DEF Chunks, Null
      <4>2. QED
        BY <1>1, <4>1, Chains
    <3>3. QED
      BY <2>1, <3>1, <3>2
  <2>4. QED
    BY <2>2, <2>3
<1>11. ASSUME NEW d \in Buckets, NEW n \in 1..NChunks, Chain(d)[n] # Null PROVE n * NPairs < Limit(d)'
  <2>1. CASE d # b
    <3>1. /\ In(t, {"write", "publish"}, d)' <=> In(t, {"write", "publish"}, d)
          /\ In(t, {"shrink"}, d)' <=> In(t, {"shrink"}, d)
      BY <1>2, <1>7, <2>1 DEF In
    <3>2. Limit(d)' = Limit(d)
      BY <1>5, <1>6, <3>1, LimitSame
    <3>3. QED
      BY <1>11, <3>2 DEF NoneEmpty
  <2>2. CASE d = b /\ Emptied(j, prev)
    BY <1>4, <1>9, <1>11, <2>2 DEF NoneEmpty
  <2>3. CASE d = b /\ ~Emptied(j, prev)
    <3>1. n <= k /\ k # 0
      BY <1>4, <1>11, <2>3
    <3>2. j # 0
      BY <1>10, <2>3, <3>1 DEF Emptied
    <3>3. n * NPairs <= k * NPairs /\ n * NPairs \in Nat /\ k * NPairs \in Nat
      BY <3>1, Rows, HashtabAssumption
    <3>4. PICK N, K : N = n * NPairs /\ K = k * NPairs
      OBVIOUS
    <3>5. N <= K /\ N \in Nat /\ K \in Nat /\ j \in Nat /\ j # 0 /\ size[b] - 1 = K + j /\ size[b] \in Nat
      BY <1>4, <3>2, <3>3, <3>4 DEF Slots
    <3>6. N < size[b] - 1
      BY ONLY <3>5
    <3>7. QED
      BY <1>9, <2>3, <3>4, <3>6
  <2>4. QED
    BY <2>1, <2>2, <2>3
<1>12. pc'[t] # "oob"
  BY <1>6
<1>13. QED
  BY <1>5, <1>6, <1>11, <1>12, SamePlaces

(* A step that changes the chain of bucket b only. *)
LEMMA OtherPlaces ==
    ASSUME HashtabInv', WholeTable, NoneEmpty, NEW t \in Threads, Alone(t), pc'[t] # "oob",
           NEW b \in Buckets, loc[t].b = b, loc'[t].b = b, size' = size,
           \A d \in Buckets : d # b => Chain(d)' = Chain(d),
           \A n \in 1..NChunks : Chain(b)'[n] # Null => n * NPairs < Limit(b)',
           allocated' \subseteq Placed'
    PROVE  NoneEmpty'
<1>1. ASSUME NEW d \in Buckets, NEW n \in 1..NChunks, Chain(d)'[n] # Null PROVE n * NPairs < Limit(d)'
  <2>1. CASE d # b
    <3>1. /\ In(t, {"write", "publish"}, d)' <=> In(t, {"write", "publish"}, d)
          /\ In(t, {"shrink"}, d)' <=> In(t, {"shrink"}, d)
      BY <2>1 DEF In
    <3>2. Limit(d)' = Limit(d)
      BY <3>1, LimitSame
    <3>3. QED
      BY <1>1, <2>1, <3>2 DEF NoneEmpty
  <2>2. CASE d = b
    BY <1>1, <2>2
  <2>3. QED
    BY <2>1, <2>2
<1>2. \A u \in Threads : pc'[u] # "oob"
  BY DEF NoneEmpty, Alone
<1>3. \A u \in Threads : pc'[u] \in {"iftest", "move"} /\ Op(u)' = "remove_if" => loc'[u].i = 0
  BY LooksFirstNext DEF LooksFirst
<1>4. QED
  BY <1>1, <1>2, <1>3 DEF NoneEmpty

(* The emptied chunk goes from the end of the chain to the free list. *)
LEMMA ReleasePlaces == ASSUME HashtabInv, HashtabInv', WholeTable, NoneEmpty, NEW t \in Threads, Release(t) PROVE NoneEmpty'
<1>1. /\ TypesOK /\ LocksOK /\ RemoveOK(t) /\ ChunksApart /\ loc[t].b \in Buckets
      /\ pc[t] = "release" /\ Goto(t, "shrink") /\ loc' = loc
      /\ UNCHANGED <<size, head, allocated>>
      /\ next' = [next EXCEPT ![loc[t].prev] = Null, ![loc[t].last] = freeList]
      /\ freeList' = loc[t].last
  BY InTheBucket DEF HashtabInv, Release
<1>2. PICK b \in Buckets : b = loc[t].b
  BY <1>1
<1>3. PICK n \in 1..NChunks :
         /\ size[b] - 1 = n * NPairs
         /\ Chain(b)[n] # Null /\ next[Chain(b)[n]] = Null /\ Released(b, n)
  <2>1. PICK n \in 1..NChunks :
           /\ loc[t].cur - 1 = n * NPairs
           /\ loc[t].prev = Chain(b)[n - 1] /\ loc[t].last = Chain(b)[n]
           /\ loc[t].last # Null /\ next[loc[t].last] = Null
    BY <1>1, <1>2 DEF RemoveOK
  <2>2. Released(b, n)
    BY <1>1, <2>1 DEF Released
  <2>3. loc[t].cur = size[b]
    BY <1>1, <1>2 DEF RemoveOK
  <2>4. QED
    BY <2>1, <2>2, <2>3
<1>4. Alone(t) /\ pc'[t] = "shrink" /\ loc'[t] = loc[t]
  BY <1>1, StepsStay DEF Pcs
<1>5. /\ \A p \in Places : p # b /\ p # HashTableSize => Line(p)' = Line(p)
      /\ \A q \in 0..n - 1 : Line(b)'[q] = Line(b)[q]
      /\ \A q \in n..NChunks : Line(b)'[q] = Null
      /\ Line(HashTableSize)'[0] = Chain(b)[n]
      /\ \A q \in 1..NChunks : Line(HashTableSize)'[q] = Line(HashTableSize)[q - 1]
  BY <1>1, <1>3, ReleaseLines
<1>6. \A d \in Buckets : /\ d \in Places /\ d # HashTableSize
                         /\ Chain(d) = Line(d) /\ Chain(d)' = Line(d)'
  BY ChainIsLine DEF Chain, Line, First
<1>7. \A d \in Buckets : d # b => Chain(d)' = Chain(d)
  BY <1>5, <1>6
<1>8. Limit(b)' = size[b] - 1
  <2>1. In(t, Removing, b) /\ In(t, {"shrink"}, b)'
    BY <1>1, <1>2, <1>4 DEF In, Removing
  <2>2. \A u \in Threads : ~In(u, {"write", "publish"}, b)'
    <3> SUFFICES ASSUME NEW u \in Threads, In(u, {"write", "publish"}, b)' PROVE FALSE
      OBVIOUS
    <3>1. u # t /\ In(u, {"write", "publish"}, b)
      BY <1>4 DEF In, Alone
    <3>2. In(u, Reading, b)
      BY <3>1 DEF In, Reading
    <3>3. QED
      BY <1>1, <2>1, <3>1, <3>2, Exclusion
  <2>3. QED
    BY <1>1, <2>1, <2>2 DEF Limit
<1>9. ASSUME NEW q \in 1..NChunks, Chain(b)'[q] # Null PROVE q * NPairs < Limit(b)'
  <2>1. q < n
    <3> SUFFICES ASSUME ~(q < n) PROVE FALSE
      OBVIOUS
    <3>1. q \in n..NChunks
      BY HashtabAssumption
    <3>2. QED
      BY <1>5, <1>6, <1>9, <3>1
  <2>2. (q + 1) * NPairs <= n * NPairs /\ (q + 1) * NPairs = q * NPairs + NPairs /\ q * NPairs \in Nat /\ n * NPairs \in Nat
    BY <2>1, Rows, HashtabAssumption
  <2>3. PICK Q, N, R : Q = q * NPairs /\ N = n * NPairs /\ R = (q + 1) * NPairs
    OBVIOUS
  <2>4. R <= N /\ R = Q + NPairs /\ Q \in Nat /\ N \in Nat /\ NPairs \in Nat \ {0} /\ Limit(b)' = N
    BY <1>3, <1>8, <2>2, <2>3, HashtabAssumption
  <2>5. Q < Limit(b)'
    BY ONLY <2>4
  <2>6. QED
    BY <2>3, <2>5
<1>10. allocated' \subseteq Placed'
  <2> SUFFICES ASSUME NEW x \in allocated PROVE \E p \in Places, q \in 0..NChunks : Line(p)'[q] = x
    BY <1>1 DEF Placed
  <2>1. PICK p \in Places, q \in 0..NChunks : Line(p)[q] = x
    BY DEF NoneEmpty, Placed
  <2>2. x # Null
    BY <1>1 DEF TypesOK, Chunks, Null
  <2>3. CASE p # b /\ p # HashTableSize
    <3>1. Line(p)' = Line(p)
      BY <1>5, <2>3
    <3>2. Line(p)'[q] = x
      BY <2>1, <3>1
    <3>3. QED
      BY <3>2
  <2>4. CASE p = b
    <3>1. CASE q < n
      <4>1. q \in 0..n - 1
        BY <3>1
      <4>2. Line(p)'[q] = x
        BY <1>5, <2>1, <2>4, <4>1
      <4>3. QED
        BY <4>2
    <3>2. CASE q = n
      <4>1. HashTableSize \in Places /\ 0 \in 0..NChunks
        BY HashtabAssumption DEF Places
      <4>2. Line(HashTableSize)'[0] = x
        BY <1>5, <1>6, <2>1, <2>4, <3>2
      <4>3. QED
        BY <4>1, <4>2
    <3>3. CASE q > n
      <4>1. n + 1 \in 1..NChunks /\ n + 1 \in 0..NChunks /\ q \in n + 1..NChunks /\ (n + 1) - 1 = n
        BY <3>3, HashtabAssumption
      <4>2. Chain(b)[n + 1] = Null
        <5>1. Chain(b)[n + 1] = IF Chain(b)[(n + 1) - 1] = Null THEN Null ELSE next[Chain(b)[(n + 1) - 1]]
          BY <1>1, <4>1, Chains
        <5>2. QED
          BY <1>3, <4>1, <5>1
      <4>3. Chain(b)[q] = Null
        BY <1>1, <4>1, <4>2, Chains
      <4>4. QED
        BY <1>6, <2>1, <2>2, <2>4, <4>3
    <3>4. QED
      BY <3>1, <3>2, <3>3
  <2>5. CASE p = HashTableSize
    <3>1. q # NChunks
      BY <1>1, <2>1, <2>2, <2>5, Lines
    <3>2. q + 1 \in 1..NChunks /\ q + 1 \in 0..NChunks /\ (q + 1) - 1 = q
      BY <3>1, HashtabAssumption
    <3>3. Line(p)'[q + 1] = x
      BY <1>5, <2>1, <2>5, <3>2
    <3>4. QED
      BY <3>2, <3>3
  <2>6. QED
    BY <2>3, <2>4, <2>5
<1>11. pc'[t] # "oob"
  BY <1>4
<1>12. QED
  BY <1>1, <1>2, <1>4, <1>7, <1>9, <1>10, <1>11, OtherPlaces

(* A chunk is chained just before it is filled, and comes from the free list
   or the allocator. *)
LEMMA NewChunkPlaces == ASSUME HashtabInv, HashtabInv', WholeTable, NoneEmpty, NEW t \in Threads, NewChunk(t) PROVE NoneEmpty'
<1>1. /\ TypesOK /\ LocksOK /\ ChunksApart /\ loc[t].b \in Buckets /\ loc[t] \in LocType
  BY InTheBucket DEF HashtabInv
<1>2. PICK b, l : b = loc[t].b /\ l = loc[t]
  OBVIOUS
<1>3. GetsChunk(t, b, l)
  <2>1. HashtabInv /\ t \in Threads /\ NewChunk(t)
    OBVIOUS
  <2>2. QED
    BY ONLY <1>2, <2>1, NewChunks
<1>4. /\ pc[t] = "lscan" /\ In(t, Inserting, b) /\ In(t, Reading, b) /\ b \in Buckets
      /\ l.i = l.cur /\ l.cur = size[b] /\ Goto(t, "write") /\ size' = size
      /\ \/ UNCHANGED <<head, next, freeList, allocated, loc>>
         \/ /\ UNCHANGED <<head, freeList, allocated>>
            /\ size[b] = 0 /\ head[b] # Null
            /\ next' = [next EXCEPT ![head[b]] = Null]
            /\ loc' = [loc EXCEPT ![t] = [l EXCEPT !.at = Null]]
         \/ \E m \in 0..NChunks, c \in Chunks :
              /\ l.i = m * NPairs /\ (m > 0 => Cell(b, m) # Null) /\ (m = 0 => head[b] = Null)
              /\ Assigned(b, m, c)
              /\ loc' = [loc EXCEPT ![t] = [l EXCEPT !.at = Cell(b, m), !.j = 0]]
  BY <1>3 DEF GetsChunk
<1>5. Alone(t) /\ pc'[t] = "write" /\ loc'[t].b = b
  <2> DEFINE T == [Threads -> LocType]
             Ok(f) == (\A u \in Threads : u # t => f[u] = loc[u]) /\ f[t].b = b
  <2>a. loc \in T /\ l \in LocType /\ loc[t] = l /\ l.b = b
    BY <1>1, <1>2 DEF TypesOK
  <2>b. Ok(loc)
    BY <2>a
  <2>c. Ok([loc EXCEPT ![t] = [l EXCEPT !.at = Null]])
    BY ONLY <2>a, t \in Threads DEF LocType
  <2>d. \A x : Ok([loc EXCEPT ![t] = [l EXCEPT !.at = x, !.j = 0]])
    BY ONLY <2>a, t \in Threads DEF LocType
  <2>e. \/ loc' = loc
        \/ loc' = [loc EXCEPT ![t] = [l EXCEPT !.at = Null]]
        \/ \E x : loc' = [loc EXCEPT ![t] = [l EXCEPT !.at = x, !.j = 0]]
    BY ONLY <1>4, Zenon
  <2>1. Ok(loc')
    <3> HIDE DEF Ok
    <3>1. QED
      BY ONLY <2>b, <2>c, <2>d, <2>e, Zenon
  <2>2. pc' = [pc EXCEPT ![t] = "write"]
    BY <1>4 DEF Goto
  <2>3. QED
    BY <1>1, <2>1, <2>2, AloneIs
<1>6. Limit(b)' = size[b] + 1 /\ size[b] \in Nat
  <2>1. In(t, {"write", "publish"}, b)'
    BY <1>5 DEF In
  <2>2. size' = size /\ b \in Buckets
    BY ONLY <1>4
  <2>3. size[b] \in Nat
    BY <1>1, <2>2, HashtabAssumption DEF TypesOK
  <2>4. QED
    BY ONLY <2>1, <2>2, <2>3, t \in Threads DEF Limit
<1>7. Limit(b) = size[b]
  <2>1. In(t, {"lscan", "iunlock", "move", "release", "iftest", "wunlock"}, b)
    BY <1>2, <1>4 DEF In
  <2>2. QED
    BY <1>1, <1>4, <2>1, LimitIs
<1>8. \A n \in 1..NChunks : Chain(b)[n] # Null => n * NPairs < size[b]
  BY <1>4, <1>7 DEF NoneEmpty
<1>9. \A d \in Buckets : /\ d \in Places /\ d # HashTableSize
                         /\ Chain(d) = Line(d) /\ Chain(d)' = Line(d)'
  BY ChainIsLine DEF Chain, Line, First
<1>10. Chain(b)[0] = head[b]
  BY <1>1, <1>4, Chains
<1>11. CASE UNCHANGED <<head, next, freeList, allocated, loc>>
  <2>1. \A d : Chain(d)' = Chain(d) /\ \A p : Line(p)' = Line(p)
    BY <1>11 DEF Chain, Line, First
  <2>2. allocated' \subseteq Placed'
    BY <1>11, <2>1 DEF NoneEmpty, Placed
  <2>3. \A n \in 1..NChunks : Chain(b)'[n] # Null => n * NPairs < Limit(b)'
    <3> SUFFICES ASSUME NEW n \in 1..NChunks, Chain(b)'[n] # Null PROVE n * NPairs < Limit(b)'
      OBVIOUS
    <3>1. n * NPairs < size[b] /\ n * NPairs \in Nat
      BY <1>8, <2>1, Rows, HashtabAssumption
    <3>2. QED
      BY <1>6, <3>1
  <2>4. QED
    BY <1>2, <1>4, <1>5, <2>1, <2>2, <2>3, OtherPlaces
<1>12. CASE /\ UNCHANGED <<head, freeList, allocated>>
            /\ size[b] = 0 /\ head[b] # Null
            /\ next' = [next EXCEPT ![head[b]] = Null]
  <2>1. /\ \A p \in Places : p # b => Line(p)' = Line(p)
        /\ Line(b)'[0] = Line(b)[0]
        /\ \A n \in 1..NChunks : Line(b)'[n] = Null
    BY <1>1, <1>4, <1>12, KeptLines
  <2>2. \A n \in 1..NChunks : Line(b)[n] = Null
    <3> SUFFICES ASSUME NEW n \in 1..NChunks, Chain(b)[n] # Null PROVE FALSE
      BY <1>4, <1>9
    <3>1. n * NPairs < 0 /\ n * NPairs \in Nat
      BY <1>8, <1>12, Rows, HashtabAssumption
    <3>2. QED
      BY <3>1
  <2>3. \A p \in Places : \A n \in 0..NChunks : Line(p)'[n] = Line(p)[n]
    BY <2>1, <2>2
  <2>4. allocated' \subseteq Placed'
    BY <1>12, <2>3 DEF NoneEmpty, Placed
  <2>5. \A n \in 1..NChunks : Chain(b)'[n] # Null => n * NPairs < Limit(b)'
    BY <1>4, <1>9, <2>1
  <2>6. \A d \in Buckets : d # b => Chain(d)' = Chain(d)
    BY <1>9, <2>1
  <2>7. QED
    BY <1>2, <1>4, <1>5, <2>4, <2>5, <2>6, OtherPlaces
<1>13. ASSUME NEW m \in 0..NChunks, NEW c \in Chunks,
              l.i = m * NPairs, m > 0 => Cell(b, m) # Null, m = 0 => head[b] = Null, Assigned(b, m, c)
       PROVE  NoneEmpty'
  <2>1. /\ m < NChunks
        /\ \A p \in Places : p # b /\ p # HashTableSize => Line(p)' = Line(p)
        /\ \A n \in 0..m - 1 : Line(b)'[n] = Line(b)[n]
        /\ Line(b)'[m] = c
        /\ \A n \in m + 1..NChunks : Line(b)'[n] = Null
        /\ \A n \in 0..NChunks - 1 : Line(HashTableSize)'[n] = Line(HashTableSize)[n + 1]
        /\ c \in allocated => c = Line(HashTableSize)[0]
    <3>1. TypesOK /\ ChunksApart /\ b \in Buckets /\ (m > 0 => Cell(b, m) # Null) /\ Assigned(b, m, c)
      BY <1>1, <1>4, <1>13, Zenon
    <3>2. QED
      BY ONLY <3>1, m \in 0..NChunks, c \in Chunks, AssignedLines
  <2>2. PICK M : M = m * NPairs
    OBVIOUS
  <2>3. M = size[b] /\ M \in Nat
    BY <1>4, <1>6, <1>13, <2>2
  <2>4. \A n \in 0..m : n * NPairs <= M /\ n * NPairs \in Nat
    BY <2>2, Rows, HashtabAssumption
  <2>5. \A n \in 1..NChunks : Chain(b)'[n] # Null => n * NPairs < Limit(b)'
    <3> SUFFICES ASSUME NEW n \in 1..NChunks, Line(b)'[n] # Null PROVE n * NPairs < Limit(b)'
      BY <1>4, <1>9
    <3>1. n \in 0..m
      BY <2>1, HashtabAssumption
    <3>2. PICK N : N = n * NPairs
      OBVIOUS
    <3>3. N <= M /\ N \in Nat
      BY <2>4, <3>1, <3>2
    <3>4. N < Limit(b)'
      BY ONLY <1>6, <2>3, <3>3
    <3>5. QED
      BY <3>2, <3>4
  <2>6. \A n \in 0..NChunks : Line(b)[n] # Null => n \in 0..m - 1
    <3> SUFFICES ASSUME NEW n \in 0..NChunks, Chain(b)[n] # Null PROVE n < m
      <4>1. Chain(b) = Line(b)
        BY <1>4, <1>9
      <4>2. \A n \in 0..NChunks : n < m => n \in 0..m - 1
        BY ONLY m \in 0..NChunks, HashtabAssumption
      <4>3. QED
        BY <4>1, <4>2
    <3>1. CASE n = 0
      BY <1>10, <1>13, <3>1
    <3>2. CASE n # 0
      <4>1. SUFFICES ASSUME m <= n PROVE FALSE
        OBVIOUS
      <4>2. n * NPairs < size[b]
        BY <1>8, <3>2
      <4>3. m * NPairs <= n * NPairs /\ n * NPairs \in Nat
        BY <4>1, Rows, HashtabAssumption
      <4>4. QED
        BY <2>2, <2>3, <4>2, <4>3
    <3>3. QED
      BY <3>1, <3>2
  <2>7. allocated' \subseteq Placed'
    <3> SUFFICES ASSUME NEW x \in allocated' PROVE \E p \in Places, n \in 0..NChunks : Line(p)'[n] = x
      BY DEF Placed
    <3>1. x \in allocated \/ x = c
      BY <1>13 DEF Assigned
    <3>2. CASE x = c
      <4>1. b \in Places /\ Line(b)'[m] = x
        BY <1>4, <1>9, <2>1, <3>2
      <4>2. QED
        BY <4>1
    <3>3. CASE x \in allocated /\ x # c
      <4>1. PICK p \in Places, n \in 0..NChunks : Line(p)[n] = x
        BY <3>3 DEF NoneEmpty, Placed
      <4>2. x # Null
        BY <1>1, <3>3 DEF TypesOK, Chunks, Null
      <4>3. CASE p # b /\ p # HashTableSize
        <5>1. Line(p)' = Line(p)
          BY <2>1, <4>3
        <5>2. Line(p)'[n] = x
          BY <4>1, <5>1
        <5>3. QED
          BY <5>2
      <4>4. CASE p = b
        <5>1. n \in 0..m - 1
          BY <2>6, <4>1, <4>2, <4>4
        <5>2. Line(p)'[n] = x
          BY <2>1, <4>1, <4>4, <5>1
        <5>3. QED
          BY <5>2
      <4>5. CASE p = HashTableSize
        <5>1. n # 0
          <6> SUFFICES ASSUME n = 0 PROVE FALSE
            OBVIOUS
          <6>1. freeList = x
            BY <1>1, <4>1, <4>5, FreeLine
          <6>2. c = freeList
            BY <1>13, <4>2, <6>1 DEF Assigned
          <6>3. QED
            BY <3>3, <6>1, <6>2
        <5>2. n - 1 \in 0..NChunks - 1 /\ n - 1 \in 0..NChunks /\ (n - 1) + 1 = n
          BY <5>1, HashtabAssumption
        <5>3. Line(p)'[n - 1] = x
          BY <2>1, <4>1, <4>5, <5>2
        <5>4. QED
          BY <5>2, <5>3
      <4>6. QED
        BY <4>3, <4>4, <4>5
    <3>4. QED
      BY <3>1, <3>2, <3>3
  <2>8. \A d \in Buckets : d # b => Chain(d)' = Chain(d)
    BY <1>9, <2>1
  <2>9. QED
    BY <1>2, <1>4, <1>5, <2>5, <2>7, <2>8, OtherPlaces
<1>14. QED
  BY <1>4, <1>11, <1>12, <1>13

(* The serial end gives back all chunks. *)
LEMMA FreeChunksPlaces == ASSUME HashtabInv, HashtabInv', WholeTable, NoneEmpty, FreeChunks PROVE NoneEmpty'
<1>1. /\ TypesOK /\ ChunksApart
      /\ \A t \in Threads : pc[t] = "idle"
      /\ allocated' = allocated \ (Chained \cup {Rest(freeList)[n] : n \in 0..NChunks})
      /\ head' = [b \in Buckets |-> Null] /\ freeList' = Null
      /\ UNCHANGED <<pc, loc>>
  BY DEF HashtabInv, FreeChunks
<1>2. allocated' = {}
  <2> SUFFICES ASSUME NEW x \in allocated PROVE x \in Chained \cup {Rest(freeList)[n] : n \in 0..NChunks}
    BY <1>1
  <2>1. PICK p \in Places, n \in 0..NChunks : Line(p)[n] = x
    BY DEF NoneEmpty, Placed
  <2>2. CASE p \in Buckets
    <3>1. Chain(p)[n] = x
      BY <2>1, <2>2, ChainIsLine
    <3>2. QED
      BY <2>2, <3>1 DEF Chained
  <2>3. CASE p = HashTableSize
    <3>1. Rest(freeList)[n] = x
      BY <2>1, <2>3 DEF Rest, Line, First
    <3>2. QED
      BY <3>1
  <2>4. p \in Buckets \/ p = HashTableSize
    BY HashtabAssumption DEF Places, Buckets
  <2>5. QED
    BY <2>2, <2>3, <2>4
<1>3. \A b \in Buckets : \A n \in 1..NChunks : Chain(b)'[n] = Null
  <2> SUFFICES ASSUME NEW b \in Buckets, NEW n \in 1..NChunks PROVE Chain(b)'[n] = Null
    OBVIOUS
  <2>1. next' \in [Chunks -> Chunks \cup {Null}]
    BY DEF HashtabInv, TypesOK
  <2>2. n \in 0..NChunks
    OBVIOUS
  <2>3. Path(next', Null)[n] = Null
    BY <2>1, <2>2, EmptyPath
  <2>4. Chain(b)' = Path(next', Null)
    BY <1>1 DEF Chain
  <2>5. QED
    BY <2>3, <2>4
<1>4. \A t \in Threads : pc'[t] = "idle"
  BY <1>1
<1>5. QED
  BY <1>2, <1>3, <1>4 DEF NoneEmpty

(* A step that changes nothing. *)
LEMMA StutterPlaces == ASSUME NoneEmpty, UNCHANGED vars PROVE NoneEmpty'
<1>1. UNCHANGED <<size, head, next, freeList, allocated, pc, loc>>
  BY DEF vars, chunkVars
<1>2. /\ \A d : Chain(d)' = Chain(d) /\ Limit(d)' = Limit(d)
      /\ \A p : Line(p)' = Line(p)
  BY <1>1 DEF Chain, Line, First, Limit, In
<1>3. QED
  BY <1>1, <1>2 DEF NoneEmpty, Placed, Op

(* The table that the code sets up has no chunks. *)
LEMMA InitPlaces == Init => NoneEmpty
<1> SUFFICES ASSUME Init PROVE NoneEmpty
  OBVIOUS
<1>1. head = [b \in Buckets |-> Null] /\ allocated = {} /\ pc = [t \in Threads |-> "idle"]
  BY DEF Init
<1>2. \A b \in Buckets : \A n \in 1..NChunks : Chain(b)[n] = Null
  <2> SUFFICES ASSUME NEW b \in Buckets, NEW n \in 1..NChunks PROVE Chain(b)[n] = Null
    OBVIOUS
  <2>1. next \in [Chunks -> Chunks \cup {Null}] /\ n \in 0..NChunks
    BY InitTypes DEF TypesOK
  <2>2. QED
    BY <1>1, <2>1, EmptyPath DEF Chain
<1>3. QED
  BY <1>1, <1>2 DEF NoneEmpty

(* Every step keeps NoneEmpty. *)
LEMMA StepPlaces == HashtabInv /\ HashtabInv' /\ WholeTable /\ NoneEmpty /\ [Next]_vars => NoneEmpty'
<1> SUFFICES ASSUME HashtabInv, HashtabInv', WholeTable, NoneEmpty, [Next]_vars PROVE NoneEmpty'
  OBVIOUS
<1>1. CASE FreeChunks
  BY <1>1, FreeChunksPlaces
<1>2. ASSUME NEW t \in Threads, Call(t) \/ Step(t) PROVE NoneEmpty'
  <2>1. CASE NewChunk(t) \/ Write(t) \/ Publish(t) \/ Move(t) \/ Release(t) \/ Shrink(t)
    BY <2>1, NewChunkPlaces, WritePlaces, PublishPlaces, MovePlaces, ReleasePlaces, ShrinkPlaces
  <2>2. CASE ~(NewChunk(t) \/ Write(t) \/ Publish(t) \/ Move(t) \/ Release(t) \/ Shrink(t))
    <3>1. Quiet(t)
      <4>1. TypesOK
        BY DEF HashtabInv
      <4>2. QED
        BY <1>2, <2>2, <4>1, QuietSteps DEF Step
    <3>2. QED
      BY <3>1, QuietPlaces DEF Quiet
  <2>3. QED
    BY <2>1, <2>2
<1>3. CASE UNCHANGED vars
  BY <1>3, StutterPlaces
<1>4. QED
  BY <1>1, <1>2, <1>3 DEF Next

(* Where remove_if removes every pair, no chunk is ever chained without a
   pair, but for the first one of a bucket and one that is being filled; no
   chunk is lost; and the j of MOVE_LAST_TO_REMOVED never wraps around. *)
THEOREM NoneEmptyAlways == ASSUME WholeTable PROVE Spec => []NoneEmpty
<1>1. Init => NoneEmpty
  BY InitPlaces
<1>2. HashtabInv /\ HashtabInv' /\ NoneEmpty /\ [Next]_vars => NoneEmpty'
  BY StepPlaces
<1>3. QED
  BY Invariance, <1>1, <1>2, PTL DEF Spec

(* Where remove_if removes every pair, no thread reads keys[ j ] outside of a
   chunk, and sizes and links stay within the table. *)
THEOREM TypesAlways == ASSUME WholeTable PROVE Spec => []TypeOK
<1>1. HashtabInv /\ NoneEmpty => TypeOK
  <2> SUFFICES ASSUME HashtabInv, NoneEmpty PROVE TypeOK
    OBVIOUS
  <2>1. TypesOK /\ \A t \in Threads : pc[t] # "oob"
    BY DEF HashtabInv, NoneEmpty
  <2>2. pc \in [Threads -> Pcs]
    BY <2>1 DEF TypesOK
  <2>3. QED
    BY <2>1, <2>2 DEF TypesOK, TypeOK
<1>2. QED
  BY Invariance, NoneEmptyAlways, <1>1, PTL

(* A chain is a number of chunks followed by Nulls. *)
LEMMA ChainLength ==
    ASSUME TypesOK, ChunksApart, NEW b \in Buckets
    PROVE  \E z \in 0..NChunks : ChainOf(b) = 0..z - 1
<1> DEFINE S == {n \in 0..NChunks : Chain(b)[n] = Null}
<1>1. S \in SUBSET Nat /\ NChunks \in S
  BY Chains, HashtabAssumption
<1>2. PICK z \in S : \A m \in S : z <= m
  BY <1>1, SmallestOf
<1>3. ASSUME NEW n \in 0..NChunks PROVE Chain(b)[n] # Null <=> n < z
  <2>1. CASE n < z
    BY <1>2, <2>1, HashtabAssumption
  <2>2. CASE ~(n < z)
    <3>1. n \in z..NChunks /\ z \in 0..NChunks /\ Chain(b)[z] = Null
      BY <2>2, HashtabAssumption
    <3>2. QED
      BY <2>2, <3>1, Chains
  <2>3. QED
    BY <2>1, <2>2
<1>4. \A n : n \in 0..NChunks /\ n < z <=> n \in 0..z - 1
  BY HashtabAssumption
<1>5. QED
  BY <1>3, <1>4 DEF ChainOf

(* Where remove_if removes every pair, a bucket in which nothing is going on
   has as many chunks as its pairs fill, apart from the kept first one.
   (hashtab_remove_if shows that a condition for some keys only breaks this.) *)
THEOREM EmptyChunksReturnedAlways == ASSUME WholeTable PROVE Spec => []EmptyChunksReturned
<1>1. HashtabInv /\ NoneEmpty => EmptyChunksReturned
  <2> SUFFICES ASSUME HashtabInv, NoneEmpty, NEW b \in Buckets, Settled(b)
               PROVE  (Cardinality(ChainOf(b)) - 1) * NPairs < size[b] \/ Cardinality(ChainOf(b)) <= 1
    BY DEF EmptyChunksReturned
  <2>1. PICK z \in 0..NChunks : ChainOf(b) = 0..z - 1
    BY ChainLength DEF HashtabInv
  <2>2. Cardinality(ChainOf(b)) = z
    <3>1. z \in Int /\ z - 1 \in Int /\ 0 \in Int /\ (0 > z - 1 => z = 0) /\ (z - 1) - 0 + 1 = z
      BY HashtabAssumption
    <3>2. Cardinality(0..z - 1) = IF 0 > z - 1 THEN 0 ELSE (z - 1) - 0 + 1
      BY <3>1, FS_Interval
    <3>3. QED
      BY <2>1, <3>1, <3>2
  <2>3. CASE z <= 1
    BY <2>2, <2>3
  <2>4. CASE z > 1
    <3>1. z - 1 \in 0..z - 1 /\ z - 1 \in 1..NChunks
      BY <2>4, HashtabAssumption
    <3>2. Chain(b)[z - 1] # Null
      BY <2>1, <3>1 DEF ChainOf
    <3>3. (z - 1) * NPairs < Limit(b)
      BY <3>1, <3>2 DEF NoneEmpty
    <3>4. ASSUME NEW t \in Threads PROVE ~In(t, {"write", "publish", "shrink"}, b)
      <4>1. insertLock[b] # t /\ t \notin writers[b]
        BY HashtabAssumption DEF Settled
      <4>2. ~In(t, Inserting, b) /\ ~In(t, Removing, b)
        BY <4>1 DEF HashtabInv, LocksOK
      <4>3. QED
        BY <4>2 DEF In, Inserting, Removing
    <3>5. Limit(b) = size[b]
      BY <3>4 DEF Limit, In
    <3>6. QED
      BY <2>2, <3>3, <3>5
  <2>5. QED
    BY <2>3, <2>4
<1>2. QED
  BY Invariance, NoneEmptyAlways, <1>1, PTL

(* Where remove_if removes every pair, each chunk allocated is in exactly one
   place of one bucket or of the free list. *)
THEOREM ChunkPlacementAlways == ASSUME WholeTable PROVE Spec => []ChunkPlacement
<1>1. HashtabInv /\ NoneEmpty => ChunkPlacement
  <2> SUFFICES ASSUME HashtabInv, NoneEmpty PROVE ChunkPlacement
    OBVIOUS
  <2> DEFINE At(s) == Line(s[1])[s[2]]
             used == {s \in Places \X (0..NChunks) : At(s) # Null}
             f == [s \in used |-> At(s)]
  <2>2. \A s : s \in used <=> s \in Places \X (0..NChunks) /\ At(s) # Null
    OBVIOUS
  <2> HIDE DEF used
  <2>4. \A s \in used : At(s) \in allocated
    BY <2>2 DEF HashtabInv, ChunksApart
  <2>5. \A x \in allocated : \E s \in used : At(s) = x
    <3> SUFFICES ASSUME NEW x \in allocated PROVE \E s \in used : At(s) = x
      OBVIOUS
    <3>1. PICK p \in Places, n \in 0..NChunks : Line(p)[n] = x
      BY DEF NoneEmpty, Placed
    <3>2. x # Null
      BY DEF HashtabInv, TypesOK, Chunks, Null
    <3>3. <<p, n>> \in used /\ At(<<p, n>>) = x
      BY <2>2, <3>1, <3>2
    <3>4. QED
      BY <3>3
  <2>6. \A r, s \in used : At(r) = At(s) => r = s
    <3> SUFFICES ASSUME NEW r \in used, NEW s \in used, At(r) = At(s) PROVE r = s
      OBVIOUS
    <3>1. /\ r[1] \in Places /\ r[2] \in 0..NChunks /\ s[1] \in Places /\ s[2] \in 0..NChunks
          /\ At(r) # Null /\ r = <<r[1], r[2]>> /\ s = <<s[1], s[2]>>
      BY <2>2
    <3>2. r[1] = s[1] /\ r[2] = s[2]
      BY <3>1 DEF HashtabInv, ChunksApart
    <3>3. QED
      BY <3>1, <3>2
  <2>7. IsFiniteSet(allocated)
    <3>1. IsFiniteSet(1..NChunks)
      BY FS_Interval, HashtabAssumption
    <3>2. QED
      BY <3>1, FS_Subset DEF HashtabInv, TypesOK, Chunks
  <2>8. f \in Injection(used, allocated) /\ f \in Surjection(used, allocated)
    BY <2>4, <2>5, <2>6 DEF Injection, Surjection, IsInjective
  <2>9. Cardinality(used) = Cardinality(allocated)
    <3> HIDE DEF f
    <3>1. QED
      BY <2>7, <2>8, FS_Injection
  <2>10. {At(s) : s \in used} = allocated
    BY <2>4, <2>5
  <2>11. QED
    BY <2>9, <2>10 DEF ChunkPlacement, used
<1>2. QED
  BY Invariance, NoneEmptyAlways, <1>1, PTL
=============================================================================

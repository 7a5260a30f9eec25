----------------------------- MODULE FastHashtab -----------------------------
(***************************************************************************)
(* The concurrent hash table of                                            *)
(* src/src/utils/include/SCOREP_FastHashtab.h,                             *)
(* SCOREP_HASH_TABLE_NON_MONOTONIC: buckets of chained chunks, insertion   *)
(* under a per-bucket mutex while other threads search, removal under the  *)
(* bucket's reader-writer lock, and a table-wide free list of chunks.      *)
(*                                                                         *)
(* An action is one access to shared data.  Two groups of accesses are     *)
(* single actions because a lock makes them so: those under the mutex of   *)
(* the free list (a leaf lock), and the search of a remover, which is      *)
(* alone in its bucket.  The reader-writer lock is the one of RWLockSpec,  *)
(* which RWLock implements.  A thread inside one of the template's         *)
(* functions has its locals in loc.  With Ops = {"get", "insert"} this is  *)
(* also SCOREP_HASH_TABLE_MONOTONIC, whose buckets have no RW lock.        *)
(***************************************************************************)
EXTENDS Integers, FiniteSets

CONSTANTS Threads, NoThread,
          Keys,
          HashTableSize,  \* number of buckets
          BucketIdx,      \* prefix_bucket_idx: Keys -> 0..HashTableSize-1
          NPairs,         \* nPairsPerChunk
          NChunks,        \* chunks the allocator can provide (bound)
          MaxCalls,       \* calls in a behaviour (bound)
          Ops, Conditions, None

Buckets == 0..HashTableSize - 1
Chunks == 1..NChunks
Null == 0
Slots == 0..NPairs - 1
Values == 1..MaxCalls   \* the value that the n-th call constructs is n
NoPair == [key |-> None, val |-> None]

ASSUME HashtabAssumption ==
    /\ NPairs \in Nat \ {0} /\ HashTableSize \in Nat \ {0}
    /\ NChunks \in Nat /\ MaxCalls \in Nat
    /\ BucketIdx \in [Keys -> Buckets]
    /\ Conditions \subseteq SUBSET Keys
    /\ NoThread \notin Threads /\ None \notin Keys \cup Values

VARIABLES size,        \* size[b]: published pairs of bucket b
          head,        \* head[b]: bucket->chunk
          insertLock,  \* insertLock[b]: holder of the bucket's insert_lock
          readers, writers,  \* the bucket's reader-writer lock, see RWLockSpec
          next,        \* next[c]: the chunk chained behind chunk c
          pairs,       \* pairs[c][j]: keys[ j ] and values[ j ] of chunk c
          freeList,    \* prefix_chunk_free_list
          allocated,   \* the chunks obtained from prefix_allocate_chunk
          alive,       \* the values constructed, not destroyed nor handed out
          calls,       \* number of calls so far
          pc, loc, result

lockVars == <<insertLock, readers, writers>>
chunkVars == <<next, pairs, freeList, allocated>>
vars == <<size, head, lockVars, chunkVars, alive, calls, pc, loc, result>>

(* The locals of a call.  at is *chunk in the searches that keep a pointer to
   the pointer (Null: &bucket->chunk, c: &c->next), and chunk in removals;
   prev is previous_chunk, last the emptied chunk. *)
NoLoc == [call |-> None, id |-> None, b |-> 0, cur |-> 0, i |-> 0, j |-> 0,
          at |-> Null, prev |-> Null, last |-> Null]

KeyOps == {"get", "insert", "remove", "get_and_remove"}
Calls == [op : Ops \cap KeyOps, keys : {{k} : k \in Keys}]
             \cup [op : Ops \cap {"remove_if"}, keys : Conditions]

Goto(t, l) == pc' = [pc EXCEPT ![t] = l]
Op(t) == loc[t].call.op
Matches(t, k) == k \in loc[t].call.keys

Init ==
    /\ size = [b \in Buckets |-> 0]
    /\ head = [b \in Buckets |-> Null]
    /\ insertLock = [b \in Buckets |-> NoThread]
    /\ readers = [b \in Buckets |-> {}]
    /\ writers = [b \in Buckets |-> {}]
    /\ next = [c \in Chunks |-> Null]
    /\ pairs = [c \in Chunks |-> [j \in Slots |-> NoPair]]
    /\ freeList = Null
    /\ allocated = {}
    /\ alive = {}
    /\ calls = 0
    /\ pc = [t \in Threads |-> "idle"]
    /\ loc = [t \in Threads |-> NoLoc]
    /\ result = [t \in Threads |-> None]

-----------------------------------------------------------------------------
(* From chunk c along the links: the chunks passed, in order, and Null behind
   the last one. *)
Path(links, c) ==
    LET f[n \in 0..NChunks] ==
            IF n = 0 THEN c ELSE IF f[n - 1] = Null THEN Null ELSE links[f[n - 1]]
    IN  f

(* The chunks of a bucket in chain order. *)
Chain(b) == Path(next, head[b])
ChainOf(b) == {n \in 0..NChunks : Chain(b)[n] # Null}

(* The i-th pair of a bucket; none while a removal has already given the
   last chunk away. *)
PairAt(b, i) ==
    LET c == Chain(b)[i \div NPairs] IN
    IF c = Null THEN NoPair ELSE pairs[c][i % NPairs]
Content(b) == {PairAt(b, i) : i \in 0..size[b] - 1}

(* The target of a pointer to a chunk pointer. *)
Deref(b, cell) == IF cell = Null THEN head[b] ELSE next[cell]

-----------------------------------------------------------------------------
(* Entering and leaving a function. *)

Call(t) ==
    /\ pc[t] = "idle"
    /\ calls < MaxCalls
    /\ calls' = calls + 1
    /\ \E c \in Calls :
           /\ loc' = [loc EXCEPT ![t] =
                  [NoLoc EXCEPT !.call = c,
                                !.id = IF c.op = "insert" THEN calls + 1 ELSE None,
                                !.b = IF c.op = "remove_if" THEN 0
                                      ELSE BucketIdx[CHOOSE k \in c.keys : TRUE]]]
           /\ Goto(t, IF c.op \in {"get", "insert"} THEN "rlock" ELSE "wlock")
    /\ UNCHANGED <<size, head, lockVars, chunkVars, alive, result>>

(* SCOREP_RWLock_ReaderLock, ReaderUnlock: RWLockSpec's AcquireRead and
   ReleaseRead.  The call returns after the unlock. *)
RLock(t) ==
    LET b == loc[t].b IN
    /\ pc[t] = "rlock"
    /\ writers[b] = {}
    /\ readers' = [readers EXCEPT ![b] = @ \cup {t}]
    /\ Goto(t, "load")
    /\ UNCHANGED <<size, head, insertLock, writers, chunkVars, alive, calls, loc,
                   result>>

Leave(t) ==
    /\ Goto(t, "idle")
    /\ loc' = [loc EXCEPT ![t] = NoLoc]
    /\ result' = [result EXCEPT ![t] = None]

RUnlock(t) ==
    LET b == loc[t].b IN
    /\ pc[t] = "runlock"
    /\ readers' = [readers EXCEPT ![b] = @ \ {t}]
    /\ Leave(t)
    /\ UNCHANGED <<size, head, insertLock, writers, chunkVars, alive, calls>>

-----------------------------------------------------------------------------
(* SCOREP_HASH_TABLE_GET and SCOREP_HASH_TABLE_INSERT_1 *)

ScanPcs == {"scan", "rescan", "lscan"}

(* Where a search goes on once it has loaded the size of the bucket. *)
LoadSize(t, l) ==
    /\ loc' = [loc EXCEPT ![t].cur = size[loc[t].b]]
    /\ Goto(t, l)
    /\ UNCHANGED <<size, head, lockVars, chunkVars, alive, calls, result>>

Load(t) == pc[t] = "load" /\ LoadSize(t, "scan")

(* Bug: the search under insert_lock does not compare. *)
EqualsNotUnderLock(t, k) == Matches(t, k) /\ pc[t] # "lscan"

(* prefix_equals of the key searched and a key of the table. *)
Equals(t, k) == Matches(t, k)

(* One round of the for loop over i, j.  The value is read right away,
   except after a search under insert_lock, which unlocks it first. *)
Compare(t) ==
    LET l == loc[t]
        wrap == l.j = NPairs
        cell == IF wrap THEN Deref(l.b, l.at) ELSE l.at
        j == IF wrap THEN 0 ELSE l.j
        p == pairs[Deref(l.b, cell)][j]
    IN
    /\ pc[t] \in ScanPcs
    /\ l.i < l.cur
    /\ \/ /\ Equals(t, p.key)
          /\ loc' = [loc EXCEPT ![t].at = cell, ![t].j = j]
          /\ IF pc[t] = "lscan"
             THEN Goto(t, "iunlock") /\ UNCHANGED result
             ELSE Goto(t, "runlock") /\ result' = [result EXCEPT ![t] = p.val]
       \/ /\ ~Equals(t, p.key)
          /\ loc' = [loc EXCEPT ![t].at = cell, ![t].i = l.i + 1, ![t].j = j + 1]
          /\ UNCHANGED <<pc, result>>
    /\ UNCHANGED <<size, head, lockVars, chunkVars, alive, calls>>

ScanDone(t, p) == pc[t] = p /\ loc[t].i >= loc[t].cur

(* Search again as long as the bucket grew; a get then returns false. *)
EndScan(t) ==
    /\ ScanDone(t, "scan")
    /\ LoadSize(t, IF size[loc[t].b] > loc[t].cur THEN "scan"
                   ELSE IF Op(t) = "get" THEN "runlock" ELSE "trylock")

TryLock(t) ==
    LET b == loc[t].b IN
    /\ pc[t] = "trylock"
    /\ IF insertLock[b] = NoThread
       THEN /\ insertLock' = [insertLock EXCEPT ![b] = t]
            /\ Goto(t, "lockedload")
       ELSE Goto(t, "reload") /\ UNCHANGED insertLock
    /\ UNCHANGED <<size, head, readers, writers, chunkVars, alive, calls, loc, result>>

Reload(t) == pc[t] = "reload" /\ LoadSize(t, "rescan")

EndRescan(t) ==
    /\ ScanDone(t, "rescan")
    /\ Goto(t, "trylock")
    /\ UNCHANGED <<size, head, lockVars, chunkVars, alive, calls, loc, result>>

(* Bug: the size is not loaded again under insert_lock. *)
LockedLoadStale(t) ==
    /\ pc[t] = "lockedload"
    /\ Goto(t, "lscan")
    /\ UNCHANGED <<size, head, lockVars, chunkVars, alive, calls, loc, result>>

(* insert_lock acquired: search again. *)
LockedLoad(t) == pc[t] = "lockedload" /\ LoadSize(t, "lscan")

-----------------------------------------------------------------------------
(* SCOREP_HASH_TABLE_NEW_CHUNK_NON_MONOTONIC and ..._ASSIGN_NEW_CHUNK_...:
   a chunk from the free list, or else a new one, is assigned to a cell. *)
ChunkFor(t, cell) ==
    LET b == loc[t].b
        c == IF freeList # Null THEN freeList
             ELSE CHOOSE n \in Chunks \ allocated :
                      \A m \in Chunks \ allocated : n <= m
        linked == IF cell = Null THEN next ELSE [next EXCEPT ![cell] = c]
    IN
    /\ freeList # Null \/ Chunks \ allocated # {}
    /\ freeList' = IF freeList # Null THEN next[freeList] ELSE Null
    /\ allocated' = allocated \cup {c}
    /\ head' = IF cell = Null THEN [head EXCEPT ![b] = c] ELSE head
    /\ next' = [linked EXCEPT ![c] = Null]

(* Bug: a bucket whose first chunk was emptied gets another first chunk. *)
KeptForgotten(b) == FALSE

(* An emptied first chunk stays with its bucket. *)
Kept(b) == head[b] # Null

NewChunk(t) ==
    LET l == loc[t] IN
    /\ ScanDone(t, "lscan")
    /\ \/ /\ l.cur = 0 /\ Kept(l.b)
          /\ next' = [next EXCEPT ![head[l.b]] = Null]
          /\ loc' = [loc EXCEPT ![t].at = Null]
          /\ UNCHANGED <<head, freeList, allocated>>
       \/ /\ l.cur = 0 /\ ~Kept(l.b)
          /\ ChunkFor(t, Null)
          /\ loc' = [loc EXCEPT ![t].at = Null]
       \/ /\ l.cur # 0 /\ l.j = NPairs
          /\ ChunkFor(t, Deref(l.b, l.at))
          /\ loc' = [loc EXCEPT ![t].at = Deref(l.b, l.at), ![t].j = 0]
       \/ /\ l.cur # 0 /\ l.j # NPairs
          /\ UNCHANGED <<head, next, freeList, allocated, loc>>
    /\ Goto(t, "write")
    /\ UNCHANGED <<size, lockVars, pairs, alive, calls, result>>

(* SCOREP_HASH_TABLE_INSERT_2: the pair, then the size that publishes it. *)
Write(t) ==
    LET l == loc[t]
        k == CHOOSE q \in l.call.keys : TRUE
    IN
    /\ pc[t] = "write"
    /\ pairs' = [pairs EXCEPT ![Deref(l.b, l.at)][l.j] = [key |-> k, val |-> l.id]]
    /\ alive' = alive \cup {l.id}
    /\ Goto(t, "publish")
    /\ UNCHANGED <<size, head, lockVars, next, freeList, allocated, calls, loc, result>>

Publish(t) ==
    /\ pc[t] = "publish"
    /\ size' = [size EXCEPT ![loc[t].b] = loc[t].cur + 1]
    /\ Goto(t, "iunlock")
    /\ UNCHANGED <<head, lockVars, chunkVars, alive, calls, loc, result>>

(* Bug: a get_and_insert that finds the key returns without unlocking. *)
IUnlockOnlyInserted(t) ==
    LET l == loc[t] IN
    /\ pc[t] = "iunlock"
    /\ insertLock' = IF l.i = l.cur THEN [insertLock EXCEPT ![l.b] = NoThread]
                     ELSE insertLock
    /\ Goto(t, "read")
    /\ UNCHANGED <<size, head, readers, writers, chunkVars, alive, calls, loc, result>>

(* insert_lock is released before the value is read. *)
IUnlock(t) ==
    LET l == loc[t] IN
    /\ pc[t] = "iunlock"
    /\ insertLock' = [insertLock EXCEPT ![l.b] = NoThread]
    /\ Goto(t, "read")
    /\ UNCHANGED <<size, head, readers, writers, chunkVars, alive, calls, loc, result>>

ReadValue(t) ==
    LET l == loc[t] IN
    /\ pc[t] = "read"
    /\ result' = [result EXCEPT ![t] = pairs[Deref(l.b, l.at)][l.j].val]
    /\ Goto(t, "runlock")
    /\ UNCHANGED <<size, head, lockVars, chunkVars, alive, calls, loc>>

-----------------------------------------------------------------------------
(* SCOREP_RWLock_WriterLock, WriterUnlock: RWLockSpec's AcquireWrite and
   ReleaseWrite.  remove_if goes on to the next bucket. *)
WLock(t) ==
    LET b == loc[t].b IN
    /\ pc[t] = "wlock"
    /\ readers[b] = {} /\ writers[b] = {}
    /\ writers' = [writers EXCEPT ![b] = {t}]
    /\ Goto(t, IF Op(t) = "remove_if" THEN "ifload" ELSE "search")
    /\ UNCHANGED <<size, head, insertLock, readers, chunkVars, alive, calls, loc,
                   result>>

WUnlock(t) ==
    LET b == loc[t].b IN
    /\ pc[t] = "wunlock"
    /\ writers' = [writers EXCEPT ![b] = @ \ {t}]
    /\ IF Op(t) = "remove_if" /\ b + 1 \in Buckets
       THEN /\ Goto(t, "wlock")
            /\ loc' = [loc EXCEPT ![t] =
                           [NoLoc EXCEPT !.call = loc[t].call, !.b = b + 1]]
            /\ UNCHANGED result
       ELSE Leave(t)
    /\ UNCHANGED <<size, head, insertLock, readers, chunkVars, alive, calls>>

-----------------------------------------------------------------------------
(* prefix_get_and_remove_impl *)

(* Bug: the pair is removed without value_dtor. *)
DestroyNot(v) == UNCHANGED alive

(* prefix_value_dtor, or the caller now owns the value. *)
Destroy(v) == alive' = alive \ {v}

(* The search; a pair found is destroyed, or handed to the caller. *)
Search(t) ==
    LET b == loc[t].b
        found == {i \in 0..size[b] - 1 : Matches(t, PairAt(b, i).key)}
        i == CHOOSE n \in found : \A m \in found : n <= m
        n == i \div NPairs
    IN
    /\ pc[t] = "search"
    /\ \/ /\ found = {}
          /\ Goto(t, "wunlock")
          /\ UNCHANGED <<loc, alive, result>>
       \/ /\ found # {}
          /\ loc' = [loc EXCEPT ![t].cur = size[b], ![t].i = i, ![t].j = i % NPairs,
                                ![t].at = Chain(b)[n],
                                ![t].prev = IF n = 0 THEN Null ELSE Chain(b)[n - 1]]
          /\ Destroy(PairAt(b, i).val)
          /\ result' = [result EXCEPT ![t] = PairAt(b, i).val]
          /\ Goto(t, "move")
    /\ UNCHANGED <<size, head, lockVars, chunkVars, calls>>

(* SCOREP_HASH_TABLE_MOVE_LAST_TO_REMOVED *)

(* From chunk c on to the last one. *)
Rest(c) == Path(next, c)

(* Bug: an emptied last chunk stays in the chain. *)
EmptiedNever(j, prev) == FALSE

(* The pair moved was the sole one of a chunk that is not the first. *)
Emptied(j, prev) == j = 0 /\ prev # Null

(* The last pair overwrites the removed one.  j is a uint32_t: when the last
   chunk is empty it wraps around, and keys[ j ] is outside of the chunk. *)
Move(t) ==
    LET l == loc[t]
        rest == Rest(l.at)
        n == CHOOSE m \in 0..NChunks : rest[m] # Null /\ next[rest[m]] = Null
        last == rest[n]
        prev == IF n = 0 THEN l.prev ELSE rest[n - 1]
        j == l.cur - (l.i - l.j + n * NPairs) - 1
    IN
    /\ pc[t] = "move"
    /\ \/ /\ j \notin Slots
          /\ Goto(t, "oob")
          /\ UNCHANGED <<pairs, loc>>
       \/ /\ j \in Slots
          /\ pairs' = [pairs EXCEPT ![l.at][l.j] = pairs[last][j]]
          /\ loc' = [loc EXCEPT ![t].prev = prev, ![t].last = last]
          /\ Goto(t, IF Emptied(j, prev) THEN "release" ELSE "shrink")
    /\ UNCHANGED <<size, head, lockVars, next, freeList, allocated, alive, calls,
                   result>>

(* The last chunk is empty and not the bucket's first: to the free list. *)
Release(t) ==
    LET l == loc[t] IN
    /\ pc[t] = "release"
    /\ next' = [next EXCEPT ![l.prev] = Null, ![l.last] = freeList]
    /\ freeList' = l.last
    /\ Goto(t, "shrink")
    /\ UNCHANGED <<size, head, lockVars, pairs, allocated, alive, calls, loc, result>>

(* Bug: remove_if steps over the pair moved into the freed slot. *)
ShrinkStepsOn(t) ==
    LET l == loc[t] IN
    /\ pc[t] = "shrink"
    /\ size' = [size EXCEPT ![l.b] = l.cur - 1]
    /\ loc' = [loc EXCEPT ![t].cur = l.cur - 1, ![t].prev = Null, ![t].last = Null,
                          ![t].i = l.i + 1, ![t].j = l.j + 1]
    /\ Goto(t, IF Op(t) = "remove_if" THEN "iftest" ELSE "wunlock")
    /\ UNCHANGED <<head, lockVars, chunkVars, alive, calls, result>>

(* Bug: the size is decremented where it is computed and where it is stored. *)
ShrinkTwice(t) ==
    LET l == loc[t] IN
    /\ pc[t] = "shrink"
    /\ size' = [size EXCEPT ![l.b] = l.cur - 2]
    /\ loc' = [loc EXCEPT ![t].cur = l.cur - 2, ![t].prev = Null, ![t].last = Null]
    /\ Goto(t, IF Op(t) = "remove_if" THEN "iftest" ELSE "wunlock")
    /\ UNCHANGED <<head, lockVars, chunkVars, alive, calls, result>>

Shrink(t) ==
    LET l == loc[t] IN
    /\ pc[t] = "shrink"
    /\ size' = [size EXCEPT ![l.b] = l.cur - 1]
    /\ loc' = [loc EXCEPT ![t].cur = l.cur - 1, ![t].prev = Null, ![t].last = Null]
    /\ Goto(t, IF Op(t) = "remove_if" THEN "iftest" ELSE "wunlock")
    /\ UNCHANGED <<head, lockVars, chunkVars, alive, calls, result>>

-----------------------------------------------------------------------------
(* prefix_remove_if: i, j and at are outer_i, outer_j and outer_chunk. *)

IfLoad(t) ==
    LET b == loc[t].b IN
    /\ pc[t] = "ifload"
    /\ loc' = [loc EXCEPT ![t].cur = size[b], ![t].at = head[b]]
    /\ Goto(t, "iftest")
    /\ UNCHANGED <<size, head, lockVars, chunkVars, alive, calls, result>>

(* One round of its loops.  A matching pair is destroyed and its slot, which
   the last pair fills, is tested again (--outer_i, --outer_j). *)
IfTest(t) ==
    LET l == loc[t]
        inChunk == l.i < l.cur /\ l.j < NPairs
        p == pairs[l.at][l.j]
    IN
    /\ pc[t] = "iftest"
    /\ \/ /\ l.at = Null
          /\ Goto(t, "wunlock")
          /\ UNCHANGED <<loc, alive>>
       \/ /\ l.at # Null /\ ~inChunk
          /\ loc' = [loc EXCEPT ![t].at = next[l.at], ![t].j = 0]
          /\ UNCHANGED <<pc, alive>>
       \/ /\ l.at # Null /\ inChunk /\ Matches(t, p.key)
          /\ Destroy(p.val)
          /\ loc' = [loc EXCEPT ![t].prev = Null]
          /\ Goto(t, "move")
       \/ /\ l.at # Null /\ inChunk /\ ~Matches(t, p.key)
          /\ loc' = [loc EXCEPT ![t].i = l.i + 1, ![t].j = l.j + 1]
          /\ UNCHANGED <<pc, alive>>
    /\ UNCHANGED <<size, head, lockVars, chunkVars, calls, result>>

-----------------------------------------------------------------------------
(* The serial end: prefix_iterate_key_value_pairs, with a callback that
   destroys the values, then prefix_free_chunks.  The iteration passes over
   the chunks of a bucket, and in each over the slots below its size. *)
Iterated(b) ==
    {pairs[Chain(b)[s[1]]][s[2]] :
        s \in {s \in ChainOf(b) \X Slots : s[1] * NPairs + s[2] < size[b]}}

(* The chunks of all buckets. *)
Chained == {Chain(b)[n] : b \in Buckets, n \in 0..NChunks}

FreeChunks ==
    /\ \A t \in Threads : pc[t] = "idle"
    /\ alive' = alive \ {p.val : p \in UNION {Iterated(b) : b \in Buckets}}
    /\ allocated' = allocated \ (Chained \cup {Rest(freeList)[n] : n \in 0..NChunks})
    /\ size' = [b \in Buckets |-> 0]
    /\ head' = [b \in Buckets |-> Null]
    /\ freeList' = Null
    /\ next' = [c \in Chunks |-> IF c \in allocated' THEN next[c] ELSE Null]
    /\ pairs' = [c \in Chunks |-> IF c \in allocated' THEN pairs[c]
                                  ELSE [j \in Slots |-> NoPair]]
    /\ UNCHANGED <<lockVars, calls, pc, loc, result>>

Step(t) ==
    \/ RLock(t) \/ Load(t) \/ Compare(t) \/ EndScan(t) \/ RUnlock(t)
    \/ TryLock(t) \/ Reload(t) \/ EndRescan(t) \/ LockedLoad(t)
    \/ NewChunk(t) \/ Write(t) \/ Publish(t) \/ IUnlock(t) \/ ReadValue(t)
    \/ WLock(t) \/ Search(t) \/ Move(t) \/ Release(t) \/ Shrink(t) \/ WUnlock(t)
    \/ IfLoad(t) \/ IfTest(t)

Next == FreeChunks \/ \E t \in Threads : Call(t) \/ Step(t)

Spec == Init /\ [][Next]_vars

(* A thread inside a function keeps running. *)
FairSpec == Spec /\ \A t \in Threads : WF_vars(Step(t))
-----------------------------------------------------------------------------
Pcs == ScanPcs \cup
    {"idle", "rlock", "load", "trylock", "reload", "lockedload", "write",
     "publish", "iunlock", "read", "runlock", "wlock", "search", "move",
     "release", "shrink", "ifload", "iftest", "wunlock"}

(* The values of the table's data: sizes that no decrement of a removal takes
   below zero and no insertion above the chunks there are, links to chunks of
   the table only, slots that hold a whole pair; no thread reads keys[ j ]
   outside of a chunk ("oob"). *)
TypeOK ==
    /\ size \in [Buckets -> 0..NChunks * NPairs]
    /\ head \in [Buckets -> Chunks \cup {Null}]
    /\ insertLock \in [Buckets -> Threads \cup {NoThread}]
    /\ readers \in [Buckets -> SUBSET Threads]
    /\ writers \in [Buckets -> SUBSET Threads]
    /\ next \in [Chunks -> Chunks \cup {Null}]
    /\ pairs \in [Chunks -> [Slots -> [key : Keys \cup {None},
                                       val : Values \cup {None}]]]
    /\ freeList \in Chunks \cup {Null}
    /\ allocated \in SUBSET Chunks
    /\ alive \in SUBSET Values
    /\ calls \in 0..MaxCalls
    /\ pc \in [Threads -> Pcs]
    /\ result \in [Threads -> Values \cup {None}]

(* The buckets' chains and the free list, numbered behind the buckets. *)
Places == 0..HashTableSize
First(p) == IF p = HashTableSize THEN freeList ELSE head[p]
Line(p) == Path(next, First(p))

(* Every chunk the table has allocated is chained in exactly one place of
   one bucket or of the free list: none is lost by a reuse of an emptied
   bucket or of a free chunk, none is used twice. *)
ChunkPlacement ==
    LET used == {s \in Places \X (0..NChunks) : Line(s[1])[s[2]] # Null} IN
    /\ {Line(s[1])[s[2]] : s \in used} = allocated
    /\ Cardinality(used) = Cardinality(allocated)

(* No insertion and no removal is in progress in bucket b. *)
Settled(b) == writers[b] = {} /\ insertLock[b] = NoThread

(* "When a remove operation leads to an empty chunk, store this chunk in a
   hash table specific free-list": a settled bucket has as many chunks as
   its pairs fill, apart from the first one, which is kept. *)
EmptyChunksReturned ==
    \A b \in Buckets :
        Settled(b) => (Cardinality(ChainOf(b)) - 1) * NPairs < size[b]
                          \/ Cardinality(ChainOf(b)) <= 1

(* Threads that insert the same key agree: a key has one pair. *)
UniqueKeys ==
    \A b \in Buckets : writers[b] = {} =>
        \A i, k \in 0..size[b] - 1 :
            i # k => PairAt(b, i).key # PairAt(b, k).key

(* Every value constructed is in the table until it is destroyed or handed
   out, and no destroyed value is found there. *)
ValueAccounting ==
    (\A b \in Buckets : Settled(b)) =>
        alive = UNION {{p.val : p \in Content(b)} : b \in Buckets}

(* When remove_if leaves a bucket, no pair there satisfies the condition,
   the pairs that were moved into freed slots included. *)
RemoveIfComplete ==
    \A t \in Threads :
        pc[t] = "wunlock" /\ Op(t) = "remove_if" =>
            \A p \in Content(loc[t].b) : ~Matches(t, p.key)

(* The table as its callers see it.  A call has taken effect once its thread
   has found the pair, seen the size that excludes it, published it, or made
   it unreachable. *)
Map ==
    [k \in Keys |->
        LET at == {i \in 0..size[BucketIdx[k]] - 1 : PairAt(BucketIdx[k], i).key = k}
        IN  IF at = {} THEN None
            ELSE PairAt(BucketIdx[k], CHOOSE i \in at : \A m \in at : i <= m).val]

AbsStatus(t) ==
    IF pc[t] = "idle" THEN "idle"
    ELSE IF \/ pc[t] \in {"iunlock", "read", "runlock"}
            \/ /\ pc[t] = "wunlock"
               /\ Op(t) = "remove_if" => loc[t].b + 1 \notin Buckets
            \/ /\ pc[t] \in {"release", "shrink"} /\ Op(t) # "remove_if"
               /\ \A k \in loc[t].call.keys : Map[k] = None
         THEN "done" ELSE "invoked"

AbsResult(t) ==
    IF AbsStatus(t) # "done" THEN None
    ELSE IF pc[t] \in {"iunlock", "read"}
         THEN pairs[Deref(loc[t].b, loc[t].at)][loc[t].j].val
         ELSE result[t]

Table == INSTANCE HashtabSpec WITH
             map <- Map,
             call <- [t \in Threads |-> loc[t].call],
             status <- [t \in Threads |-> AbsStatus(t)],
             result <- [t \in Threads |-> AbsResult(t)]

(* Every call of get, get_and_insert, remove and get_and_remove takes effect
   at one instant between its invocation and its return. *)
ImplementsHashtabSpec == Table!Spec

(* Every call returns when the other threads make finitely many calls: no
   path leaves a bucket locked. *)
EveryCallReturns == \A t \in Threads : pc[t] # "idle" ~> pc[t] = "idle"
-----------------------------------------------------------------------------
(* The inductive invariant. *)

Searching == {"load", "scan", "trylock", "reload", "rescan", "lockedload", "lscan"}
Reading == Searching \cup {"write", "publish", "iunlock", "read", "runlock"}
Inserting == {"lockedload", "lscan", "write", "publish", "iunlock"}
Removing == {"search", "move", "oob", "release", "shrink", "ifload", "iftest", "wunlock"}

In(t, points, b) == pc[t] \in points /\ loc[t].b = b

LocType == [call : Calls \cup {None}, id : Values \cup {None}, b : Buckets,
            cur : Nat, i : Nat, j : Nat, at : Chunks \cup {Null},
            prev : Chunks \cup {Null}, last : Chunks \cup {Null}]

(* Types, of the locals too; unlike TypeOK they admit "oob". *)
TypesOK ==
    /\ size \in [Buckets -> 0..NChunks * NPairs]
    /\ head \in [Buckets -> Chunks \cup {Null}]
    /\ insertLock \in [Buckets -> Threads \cup {NoThread}]
    /\ readers \in [Buckets -> SUBSET Threads]
    /\ writers \in [Buckets -> SUBSET Threads]
    /\ next \in [Chunks -> Chunks \cup {Null}]
    /\ pairs \in [Chunks -> [Slots -> [key : Keys \cup {None}, val : Values \cup {None}]]]
    /\ freeList \in Chunks \cup {Null}
    /\ allocated \in SUBSET Chunks
    /\ alive \in SUBSET Values
    /\ calls \in 0..MaxCalls
    /\ pc \in [Threads -> Pcs \cup {"oob"}]
    /\ loc \in [Threads -> LocType]
    /\ result \in [Threads -> Values \cup {None}]

(* Who holds the locks of a bucket can be told from the threads' control. *)
LocksOK ==
    \A b \in Buckets :
        /\ \A t \in Threads :
             /\ t \in readers[b] <=> In(t, Reading, b)
             /\ t \in writers[b] <=> In(t, Removing, b)
             /\ insertLock[b] = t <=> In(t, Inserting, b)
        /\ \A t \in writers[b] : readers[b] = {} /\ writers[b] = {t}

(* Which call a thread is in at each point of its control; a call on one key
   goes to the key's bucket, each insertion has a value of its own, and the
   locals of a loop are zero until it starts. *)
CallOK(t) ==
    /\ pc[t] # "idle" => loc[t].call \in Calls
    /\ pc[t] \in Reading \cup {"rlock"} => Op(t) \in {"get", "insert"}
    /\ pc[t] \in Inserting \cup {"trylock", "reload", "rescan", "read"} => Op(t) = "insert"
    /\ pc[t] \in Removing \cup {"wlock"} => Op(t) \in {"remove", "get_and_remove", "remove_if"}
    /\ pc[t] = "search" => Op(t) # "remove_if"
    /\ pc[t] \in {"ifload", "iftest"} => Op(t) = "remove_if"
    /\ pc[t] # "idle" /\ Op(t) # "remove_if" =>
         \E k \in Keys : loc[t].call.keys = {k} /\ loc[t].b = BucketIdx[k]
    /\ pc[t] # "idle" /\ Op(t) = "insert" => loc[t].id \in 1..calls
    /\ pc[t] \in {"rlock", "wlock", "search", "ifload"} =>
         loc[t].cur = 0 /\ loc[t].i = 0 /\ loc[t].j = 0 /\ loc[t].at = Null
CallsOK ==
    /\ \A t \in Threads : CallOK(t)
    /\ \A t, u \in Threads :
         /\ pc[t] # "idle" /\ Op(t) = "insert" /\ pc[u] # "idle" /\ Op(u) = "insert"
         /\ loc[t].id = loc[u].id
         => t = u

(* A chunk is in one place at most. *)
ChunksApart ==
    \A p, q \in Places, m, n \in 0..NChunks :
        Line(p)[m] # Null =>
            /\ Line(p)[m] \in allocated
            /\ Line(p)[m] = Line(q)[n] => p = q /\ m = n

(* The pairs of a bucket.  The last one is on its way out once it has been
   moved. *)
Top(b) == IF \E t \in Threads : In(t, {"release", "shrink"}, b)
          THEN size[b] - 1 ELSE size[b]

(* There are chunks for all pairs; their keys are keys of the bucket. *)
FilledOK ==
    \A b \in Buckets :
        /\ \A n \in 0..NChunks : n * NPairs < Top(b) => Chain(b)[n] # Null
        /\ \A i \in 0..Top(b) - 1 :
             /\ PairAt(b, i).key \in Keys /\ BucketIdx[PairAt(b, i).key] = b
             /\ PairAt(b, i).val \in 1..calls

PairsUnique ==
    \A b \in Buckets : \A i, k \in 0..Top(b) - 1 :
        PairAt(b, i).key = PairAt(b, k).key => i = k

(* Where a search stands: at is the m-th link of the chain, and i counts the
   pairs before the slot j of the chunk behind it. *)
Cell(b, m) == IF m = 0 THEN Null ELSE Chain(b)[m - 1]
AtCell(l, m) ==
    /\ l.i = m * NPairs + l.j
    /\ l.at = Cell(l.b, m) /\ (m > 0 => l.at # Null)
AtChunk(l, m) ==
    /\ l.i = m * NPairs + l.j
    /\ l.at = Chain(l.b)[m] /\ l.at # Null

(* No pair before the n-th one has a key that the call looks for. *)
NoneBefore(t, n) == \A i \in 0..n - 1 : ~Matches(t, PairAt(loc[t].b, i).key)

SearchOK(t) ==
    LET l == loc[t] IN
    /\ pc[t] \in Searching =>
         /\ l.i <= l.cur /\ l.cur <= size[l.b] /\ NoneBefore(t, l.i)
         /\ l.j \in 0..NPairs /\ (l.j = 0 => l.i = 0)
         /\ \E m \in 0..NChunks : AtCell(l, m)
    /\ pc[t] = "lscan" => l.cur = size[l.b]
    /\ pc[t] \in {"write", "publish"} =>
         /\ l.i = l.cur /\ l.cur = size[l.b] /\ NoneBefore(t, l.i)
         /\ l.j \in Slots /\ \E m \in 0..NChunks : AtCell(l, m) /\ Chain(l.b)[m] # Null
    /\ pc[t] = "publish" =>
         \E k \in l.call.keys : pairs[Deref(l.b, l.at)][l.j] = [key |-> k, val |-> l.id]
    /\ pc[t] \in {"iunlock", "read"} =>
         /\ l.i < size[l.b] /\ Matches(t, PairAt(l.b, l.i).key)
         /\ l.j \in Slots /\ \E m \in 0..NChunks : AtCell(l, m)

RemoveOK(t) ==
    LET l == loc[t] IN
    /\ pc[t] \in {"move", "oob"} =>
         /\ l.cur = size[l.b] /\ l.i < l.cur /\ Matches(t, PairAt(l.b, l.i).key)
         /\ l.j \in Slots
         /\ \E m \in 0..NChunks :
              AtChunk(l, m) /\ l.prev = IF Op(t) = "remove_if" THEN Null ELSE Cell(l.b, m)
    /\ pc[t] \in {"release", "shrink"} => l.cur = size[l.b] /\ l.i < l.cur
    /\ pc[t] \in {"release", "shrink"} /\ Op(t) = "remove_if" /\ l.i < l.cur - 1 =>
         l.j \in Slots /\ \E m \in 0..NChunks : AtChunk(l, m)
    /\ pc[t] = "release" =>
         \E n \in 1..NChunks :
             /\ l.cur - 1 = n * NPairs
             /\ l.prev = Chain(l.b)[n - 1] /\ l.last = Chain(l.b)[n]
             /\ l.last # Null /\ next[l.last] = Null
    /\ pc[t] = "iftest" =>
         /\ l.cur = size[l.b] /\ l.i <= l.cur
         /\ l.i < l.cur => l.j \in 0..NPairs /\ \E m \in 0..NChunks : AtChunk(l, m)
    /\ pc[t] \in {"iftest", "move", "oob", "release", "shrink"} /\ Op(t) = "remove_if" =>
         NoneBefore(t, l.i)
    /\ pc[t] \in {"release", "shrink"} /\ Op(t) # "remove_if" => NoneBefore(t, l.cur - 1)
    /\ pc[t] = "wunlock" => NoneBefore(t, size[l.b])

(* A value in the table is there once, and alive unless its pair has been
   taken out already. *)
Dead(b, i) == \E t \in Threads : In(t, {"move", "oob"}, b) /\ loc[t].i = i
ValuesOK ==
    /\ \A b, c \in Buckets : \A i \in 0..Top(b) - 1, k \in 0..Top(c) - 1 :
         PairAt(b, i).val = PairAt(c, k).val => b = c /\ i = k
    /\ \A t \in Threads :
         pc[t] \in Searching \cup {"rlock", "write", "publish"} /\ Op(t) = "insert" =>
           \A b \in Buckets : \A i \in 0..Top(b) - 1 : PairAt(b, i).val # loc[t].id
    /\ \A v \in Values :
         v \in alive <=>
           \/ \E b \in Buckets : \E i \in 0..Top(b) - 1 :
                PairAt(b, i).val = v /\ ~Dead(b, i)
           \/ \E t \in Threads : pc[t] = "publish" /\ loc[t].id = v

HashtabInv ==
    /\ TypesOK /\ LocksOK /\ CallsOK /\ ChunksApart /\ FilledOK /\ PairsUnique
    /\ \A t \in Threads : SearchOK(t) /\ RemoveOK(t)
    /\ ValuesOK

(* What relates a call to its effect in HashtabSpec: the result is set no
   earlier, is the value found until then, and the last pair, once it was
   moved, is there twice, or is the one that goes, or is out of reach. *)
Unpublished == Searching \cup {"rlock", "write", "publish"}
EffectOK(t) ==
    LET l == loc[t]
        p == PairAt(l.b, l.cur - 1)
    IN
    /\ pc[t] \in Unpublished \cup {"idle", "wlock", "search"} => result[t] = None
    /\ pc[t] # "idle" /\ Op(t) = "remove_if" => result[t] = None
    /\ pc[t] \in {"move", "oob"} /\ Op(t) # "remove_if" => result[t] = PairAt(l.b, l.i).val
    /\ pc[t] \in {"release", "shrink"} /\ p # NoPair =>
         /\ p.key \in Keys /\ BucketIdx[p.key] = l.b /\ p.val \in 1..calls
         /\ l.i < l.cur - 1 => p = PairAt(l.b, l.i)
         /\ l.i = l.cur - 1 =>
              Matches(t, p.key) /\ (Op(t) # "remove_if" => result[t] = p.val)
         /\ \A u \in Threads : pc[u] \in Unpublished /\ Op(u) = "insert" => p.val # loc[u].id
EffectsOK == \A t \in Threads : EffectOK(t)

(* What holds besides unless remove_if is called with a condition for some
   keys only: no chunk is chained without a pair, but for the first of a
   bucket and one that is being filled, and no chunk is lost. *)
WholeTable == "remove_if" \in Ops => \A c \in Conditions : c = Keys

Placed == {Line(p)[n] : p \in Places, n \in 0..NChunks}
Limit(b) == IF \E t \in Threads : In(t, {"write", "publish"}, b)
            THEN size[b] + 1
            ELSE IF \E t \in Threads : In(t, {"shrink"}, b)
            THEN size[b] - 1 ELSE size[b]
NoneEmpty ==
    /\ allocated \subseteq Placed
    /\ \A b \in Buckets : \A n \in 1..NChunks : Chain(b)[n] # Null => n * NPairs < Limit(b)
    /\ \A t \in Threads :
         /\ pc[t] # "oob"
         /\ pc[t] \in {"iftest", "move"} /\ Op(t) = "remove_if" => loc[t].i = 0
=============================================================================

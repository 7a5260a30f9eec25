---------------------------- MODULE RWLockProofs ----------------------------
(***************************************************************************)
(* RWLockInv is an invariant of the lock for every finite set of threads   *)
(* smaller than RWLOCK_MAX_READERS; from it follow mutual exclusion, the   *)
(* absence of failed UTILS_BUG_ONs, and the refinement of RWLockSpec.      *)
(*                                                                         *)
(* The lemmas about counts are about any assignment f of labels to         *)
(* threads, so that they apply to pc and to pc' alike.                     *)
(***************************************************************************)
EXTENDS RWLock, FiniteSetTheorems, TLAPS

(* The threads at a label are finitely many. *)
LEMMA CountType ==
    ASSUME NEW f, NEW l
    PROVE  /\ IsFiniteSet(AtIn(f, l))
           /\ Count(f, l) \in Nat
           /\ Count(f, l) = 0 <=> AtIn(f, l) = {}
<1>1. AtIn(f, l) \in SUBSET Threads
  BY DEF AtIn
<1>2. IsFiniteSet(AtIn(f, l))
  BY <1>1, FS_Subset, ThreadsAssumption
<1>3. QED
  BY <1>2, FS_CardinalityType, FS_EmptySet DEF Count

(* Thread t moves from label a to label b, nobody else moves. *)
Moves(f, g, t, a, b) ==
    /\ f \in [Threads -> Pcs]
    /\ t \in Threads
    /\ f[t] = a
    /\ a # b
    /\ g = [f EXCEPT ![t] = b]

(* Which labels change when one thread moves. *)
LEMMA SetMove ==
    ASSUME NEW f, NEW g, NEW t, NEW a, NEW b, Moves(f, g, t, a, b)
    PROVE  /\ AtIn(g, a) = AtIn(f, a) \ {t} /\ t \in AtIn(f, a)
           /\ AtIn(g, b) = AtIn(f, b) \cup {t} /\ t \notin AtIn(f, b)
           /\ \A l : l # a /\ l # b => AtIn(g, l) = AtIn(f, l)
<1>1. AtIn(g, a) = AtIn(f, a) \ {t} /\ t \in AtIn(f, a)
  BY DEF AtIn, Moves
<1>2. AtIn(g, b) = AtIn(f, b) \cup {t} /\ t \notin AtIn(f, b)
  BY DEF AtIn, Moves
<1>3. ASSUME NEW l, l # a, l # b
      PROVE  AtIn(g, l) = AtIn(f, l)
  BY <1>3 DEF AtIn, Moves
<1>4. QED
  BY <1>1, <1>2, <1>3

(* It leaves a and joins b: the two counts change by one. *)
LEMMA CountMove ==
    ASSUME NEW f, NEW g, NEW t, NEW a, NEW b, Moves(f, g, t, a, b)
    PROVE  /\ Count(g, a) = Count(f, a) - 1
           /\ Count(g, b) = Count(f, b) + 1
           /\ \A l : l # a /\ l # b => Count(g, l) = Count(f, l)
<1>1. /\ AtIn(g, a) = AtIn(f, a) \ {t} /\ t \in AtIn(f, a)
      /\ AtIn(g, b) = AtIn(f, b) \cup {t} /\ t \notin AtIn(f, b)
      /\ \A l : l # a /\ l # b => AtIn(g, l) = AtIn(f, l)
  BY SetMove
<1> IsFiniteSet(AtIn(f, a)) /\ IsFiniteSet(AtIn(f, b))
  BY CountType
<1>4. Count(g, a) = Count(f, a) - 1
  BY <1>1, FS_RemoveElement DEF Count
<1>5. Count(g, b) = Count(f, b) + 1
  BY <1>1, FS_AddElement DEF Count
<1>6. \A l : l # a /\ l # b => Count(g, l) = Count(f, l)
  BY <1>1 DEF Count
<1>7. QED
  BY <1>4, <1>5, <1>6

(* Disjoint finite sets: their cardinalities add up. *)
LEMMA DisjointUnion ==
    ASSUME NEW S, NEW T, IsFiniteSet(S), IsFiniteSet(T), S \cap T = {}
    PROVE  /\ IsFiniteSet(S \cup T)
           /\ Cardinality(S \cup T) = Cardinality(S) + Cardinality(T)
<1>1. /\ IsFiniteSet(S \cup T)
      /\ Cardinality(S \cup T) =
             Cardinality(S) + Cardinality(T) - Cardinality(S \cap T)
  BY FS_Union
<1>2. Cardinality(S \cap T) = 0
  BY FS_EmptySet
<1>3. Cardinality(S) \in Nat /\ Cardinality(T) \in Nat
  BY FS_CardinalityType
<1>4. QED
  BY <1>1, <1>2, <1>3

(* Readers that are inside, waiting or departing are different threads;
   a thread that is none of these leaves room for one more. *)
LEMMA CountBound ==
    ASSUME NEW f
    PROVE  /\ Count(f, "reading") + Count(f, "rwait") + Count(f, "rdepart")
                  <= Cardinality(Threads)
           /\ \A t \in Threads :
                  f[t] \notin {"reading", "rwait", "rdepart"} =>
                      Count(f, "reading") + Count(f, "rwait") + Count(f, "rdepart")
                          < Cardinality(Threads)
<1> DEFINE A == AtIn(f, "reading") \cup AtIn(f, "rwait")
           B == A \cup AtIn(f, "rdepart")
<1>1. /\ IsFiniteSet(AtIn(f, "reading")) /\ Count(f, "reading") \in Nat
      /\ IsFiniteSet(AtIn(f, "rwait")) /\ Count(f, "rwait") \in Nat
      /\ IsFiniteSet(AtIn(f, "rdepart")) /\ Count(f, "rdepart") \in Nat
      /\ Cardinality(Threads) \in Nat
  BY CountType, FS_CardinalityType, ThreadsAssumption
<1>2. /\ IsFiniteSet(A)
      /\ Cardinality(A) = Count(f, "reading") + Count(f, "rwait")
  <2>1. AtIn(f, "reading") \cap AtIn(f, "rwait") = {}
    BY DEF AtIn
  <2>2. QED
    BY <1>1, <2>1, DisjointUnion DEF Count
<1>3. /\ IsFiniteSet(B)
      /\ Cardinality(B) = Count(f, "reading") + Count(f, "rwait") + Count(f, "rdepart")
  <2>1. A \cap AtIn(f, "rdepart") = {}
    BY DEF AtIn
  <2> HIDE DEF A
  <2>2. QED
    BY <1>1, <1>2, <2>1, DisjointUnion DEF Count
<1>4. B \in SUBSET Threads
  BY DEF AtIn
<1>5. ASSUME NEW t \in Threads, f[t] \notin {"reading", "rwait", "rdepart"}
      PROVE  B # Threads
  BY <1>5 DEF AtIn
<1> HIDE DEF B
<1>6. Cardinality(B) <= Cardinality(Threads)
  BY <1>4, FS_Subset, ThreadsAssumption
<1>7. ASSUME NEW t \in Threads, f[t] \notin {"reading", "rwait", "rdepart"}
      PROVE  Cardinality(B) < Cardinality(Threads)
  <2>1. Cardinality(Threads) # Cardinality(B)
    BY <1>5, <1>7, <1>4, FS_Subset, ThreadsAssumption
  <2>2. Cardinality(B) \in Nat
    BY <1>3, FS_CardinalityType
  <2>3. QED
    BY <2>1, <2>2, <1>1, <1>6
<1>8. QED
  BY <1>3, <1>6, <1>7

(* The facts about counts every step below uses. *)
CountFacts(f) ==
    /\ Count(f, "reading") \in Nat /\ Count(f, "rwait") \in Nat
    /\ Count(f, "rdepart") \in Nat /\ Count(f, "rsignal") \in Nat
    /\ Count(f, "reading") + Count(f, "rwait") + Count(f, "rdepart") < MaxReaders
    /\ \A t \in Threads :
           /\ f[t] \notin {"reading", "rwait", "rdepart"} =>
                  Count(f, "reading") + Count(f, "rwait") + Count(f, "rdepart") + 1
                      < MaxReaders
           /\ f[t] = "reading" => Count(f, "reading") > 0
           /\ f[t] = "rwait" => Count(f, "rwait") > 0
           /\ f[t] = "rdepart" => Count(f, "rdepart") > 0
           /\ f[t] = "rsignal" => Count(f, "rsignal") > 0

(* How the counts of the four reader positions relate to one reader. *)
LEMMA Counts == ASSUME NEW f PROVE CountFacts(f)
<1>1. /\ Count(f, "reading") \in Nat /\ Count(f, "rwait") \in Nat
      /\ Count(f, "rdepart") \in Nat /\ Count(f, "rsignal") \in Nat
  BY CountType
<1>2. /\ Cardinality(Threads) \in Nat /\ MaxReaders \in Nat
      /\ Cardinality(Threads) < MaxReaders
  BY FS_CardinalityType, ThreadsAssumption, MaxReadersAssumption
<1>3. ASSUME NEW t \in Threads, NEW l, f[t] = l
      PROVE  Count(f, l) > 0
  <2>1. t \in AtIn(f, l)
    BY <1>3 DEF AtIn
  <2>2. QED
    BY <2>1, CountType
<1>4. QED
  BY <1>1, <1>2, <1>3, CountBound DEF CountFacts

(* The types without the bounds of the counters. *)
WeakTypeOK ==
    /\ pending \in Int
    /\ departing \in Int
    /\ releaseNReaders \in Nat
    /\ releaseWriter \in {0, 1}
    /\ writerMutex \in Threads \cup {NoThread}
    /\ pc \in [Threads -> Pcs]
    /\ seen \in [Threads -> 0..MaxReaders]

(* The accounting keeps the counters far from the limits of an int16_t. *)
LEMMA NoOverflow == WeakTypeOK /\ MutexInv /\ PhaseInv => TypeOK
<1> SUFFICES ASSUME WeakTypeOK, MutexInv, PhaseInv
             PROVE  TypeOK
  OBVIOUS
<1> USE MaxReadersAssumption
<1> CountFacts(pc)
  BY Counts
<1>1. writerMutex # NoThread => seen[writerMutex] \in 0..MaxReaders
  BY DEF WeakTypeOK
<1>2. pending \in -MaxReaders..MaxReaders
  BY DEF CountFacts, N, PhaseInv, WeakTypeOK
<1>3. Phase = "wdepart" => writerMutex # NoThread
  BY DEF Phase
<1>4. departing \in -MaxReaders..MaxReaders
  BY <1>1, <1>3 DEF CountFacts, N, PhaseInv, Settled, WeakTypeOK
<1>5. releaseNReaders \in 0..MaxReaders
  BY DEF CountFacts, N, PhaseInv, Settled, WeakTypeOK
<1>6. QED
  BY <1>2, <1>4, <1>5 DEF TypeOK, WeakTypeOK

(* Nobody is inside before the first call. *)
LEMMA InitInv == Init => RWLockInv
<1> SUFFICES ASSUME Init
             PROVE  RWLockInv
  OBVIOUS
<1>1. MaxReaders \in Nat
  BY MaxReadersAssumption
<1>2. /\ N("reading") = 0 /\ N("rwait") = 0
      /\ N("rdepart") = 0 /\ N("rsignal") = 0
  <2>1. /\ AtIn(pc, "reading") = {} /\ AtIn(pc, "rwait") = {}
        /\ AtIn(pc, "rdepart") = {} /\ AtIn(pc, "rsignal") = {}
    BY DEF Init, AtIn
  <2>2. QED
    BY <2>1, CountType DEF N
<1>3. TypeOK
  BY <1>1 DEF Init, TypeOK, Pcs
<1>4. MutexInv /\ NoBug
  BY ThreadsAssumption DEF Init, MutexInv, NoBug, WriterPcs
<1>5. PhaseInv
  BY <1>2 DEF Init, PhaseInv, Settled, Phase
<1>6. QED
  BY <1>3, <1>4, <1>5 DEF RWLockInv

(* What a step of a thread outside the writer functions leaves alone. *)
LEMMA ReaderFrame ==
    ASSUME RWLockInv, NEW t, NEW a, NEW b, Moves(pc, pc', t, a, b),
           a \in {"idle"} \cup ReaderPcs, b \in {"idle"} \cup ReaderPcs,
           writerMutex' = writerMutex
    PROVE  MutexInv' /\ NoBug' /\ pc' \in [Threads -> Pcs] /\ Phase' = Phase
<1>1. pc \in [Threads -> Pcs] /\ writerMutex \in Threads \cup {NoThread}
  BY DEF RWLockInv, TypeOK
<1>2. t \in Threads /\ pc[t] = a /\ pc' = [pc EXCEPT ![t] = b]
  BY DEF Moves
<1>3. writerMutex # t
  BY <1>2 DEF RWLockInv, MutexInv, ReaderPcs, WriterPcs
<1>4. MutexInv'
  BY <1>1, <1>2, <1>3 DEF RWLockInv, MutexInv, ReaderPcs, WriterPcs
<1>5. NoBug' /\ pc' \in [Threads -> Pcs]
  BY <1>1, <1>2 DEF RWLockInv, NoBug, ReaderPcs, Pcs
<1>6. Phase' = Phase
  BY <1>1, <1>2, <1>3, ThreadsAssumption DEF Phase
<1>7. QED
  BY <1>4, <1>5, <1>6

(* What a step of the writer from one writer function label to the next
   leaves alone. *)
LEMMA WriterFrame ==
    ASSUME RWLockInv, NEW t, NEW a, NEW b, Moves(pc, pc', t, a, b),
           a \in WriterPcs, b \in WriterPcs, writerMutex' = writerMutex
    PROVE  /\ MutexInv' /\ NoBug' /\ pc' \in [Threads -> Pcs]
           /\ writerMutex = t /\ Phase = a /\ Phase' = b
<1>1. pc \in [Threads -> Pcs] /\ writerMutex \in Threads \cup {NoThread}
  BY DEF RWLockInv, TypeOK
<1>2. t \in Threads /\ pc[t] = a /\ pc' = [pc EXCEPT ![t] = b]
  BY DEF Moves
<1>3. writerMutex = t
  BY <1>2 DEF RWLockInv, MutexInv
<1>4. MutexInv'
  BY <1>1, <1>2, <1>3 DEF RWLockInv, MutexInv
<1>5. NoBug' /\ pc' \in [Threads -> Pcs]
  BY <1>1, <1>2 DEF RWLockInv, NoBug, WriterPcs, Pcs
<1>6. Phase = a /\ Phase' = b
  BY <1>1, <1>2, <1>3, ThreadsAssumption DEF Phase
<1>7. QED
  BY <1>3, <1>4, <1>5, <1>6

(* What has to be shown of a step. *)
StepGoal == MutexInv' /\ NoBug' /\ WeakTypeOK' /\ PhaseInv'

(* The counters of a step that keeps the accounting stay within int16_t. *)
LEMMA StepSuffices == StepGoal => RWLockInv'
<1>1. (WeakTypeOK /\ MutexInv /\ PhaseInv => TypeOK)'
  BY NoOverflow, PTL
<1>2. QED
  BY <1>1 DEF RWLockInv, StepGoal

(* The steps of the reader functions preserve the accounting, in whatever
   phase the writer is. *)
LEMMA ReaderStep ==
    ASSUME RWLockInv, NEW t \in Threads,
           \/ ReaderLock(t) \/ ReaderReleased(t) \/ ReaderUnlock(t)
           \/ ReaderDepart(t) \/ ReaderSignal(t)
    PROVE  RWLockInv'
<1> USE MaxReadersAssumption
<1>1. /\ WeakTypeOK /\ PhaseInv /\ CountFacts(pc) /\ CountFacts(pc')
      /\ writerMutex # NoThread => seen[writerMutex] \in Nat
  BY Counts DEF RWLockInv, TypeOK, WeakTypeOK
<1> SUFFICES StepGoal
  BY StepSuffices
<1>2. Phase \in {"wdepart", "wrelease"} => seen[writerMutex] \in Nat
  BY <1>1 DEF Phase
<1>3. CASE ReaderLock(t) /\ pending + 1 < 0
  <2>1. Moves(pc, pc', t, "idle", "rwait")
    BY <1>1, <1>3 DEF ReaderLock, Goto, WeakTypeOK, Moves
  <2>2. /\ N("reading")' = N("reading") /\ N("rwait")' = N("rwait") + 1
        /\ N("rdepart")' = N("rdepart") /\ N("rsignal")' = N("rsignal")
    BY <2>1, CountMove DEF N
  <2>3. MutexInv' /\ NoBug' /\ pc' \in [Threads -> Pcs] /\ Phase' = Phase
    BY <1>3, <2>1, ReaderFrame DEF ReaderLock, ReaderPcs
  <2>4. WeakTypeOK'
    BY <1>1, <1>3, <2>3 DEF WeakTypeOK, ReaderLock
  <2>5. PhaseInv'
    BY <1>1, <1>2, <1>3, <2>2, <2>3 DEF WeakTypeOK, PhaseInv, Settled, CountFacts, N, ReaderLock
  <2>6. QED
    BY <2>3, <2>4, <2>5 DEF StepGoal
<1>4. CASE ReaderLock(t) /\ ~(pending + 1 < 0)
  <2>1. Moves(pc, pc', t, "idle", "reading")
    BY <1>1, <1>4 DEF ReaderLock, Goto, WeakTypeOK, Moves
  <2>2. /\ N("reading")' = N("reading") + 1 /\ N("rwait")' = N("rwait")
        /\ N("rdepart")' = N("rdepart") /\ N("rsignal")' = N("rsignal")
    BY <2>1, CountMove DEF N
  <2>3. MutexInv' /\ NoBug' /\ pc' \in [Threads -> Pcs] /\ Phase' = Phase
    BY <1>4, <2>1, ReaderFrame DEF ReaderLock, ReaderPcs
  <2>4. WeakTypeOK'
    BY <1>1, <1>4, <2>3 DEF WeakTypeOK, ReaderLock
  <2>5. PhaseInv'
    BY <1>1, <1>2, <1>4, <2>2, <2>3 DEF WeakTypeOK, PhaseInv, Settled, CountFacts, N, ReaderLock
  <2>6. QED
    BY <2>3, <2>4, <2>5 DEF StepGoal
<1>5. CASE ReaderReleased(t)
  <2>1. Moves(pc, pc', t, "rwait", "reading")
    BY <1>1, <1>5 DEF ReaderReleased, Goto, WeakTypeOK, Moves
  <2>2. /\ N("reading")' = N("reading") + 1 /\ N("rwait")' = N("rwait") - 1
        /\ N("rdepart")' = N("rdepart") /\ N("rsignal")' = N("rsignal")
    BY <2>1, CountMove DEF N
  <2>3. MutexInv' /\ NoBug' /\ pc' \in [Threads -> Pcs] /\ Phase' = Phase
    BY <1>5, <2>1, ReaderFrame DEF ReaderReleased, ReaderPcs
  <2>4. WeakTypeOK'
    BY <1>1, <1>5, <2>3 DEF WeakTypeOK, ReaderReleased
  <2>5. PhaseInv'
    BY <1>1, <1>2, <1>5, <2>2, <2>3 DEF WeakTypeOK, PhaseInv, Settled, CountFacts, N, ReaderReleased
  <2>6. QED
    BY <2>3, <2>4, <2>5 DEF StepGoal
<1>6. CASE ReaderUnlock(t) /\ pending - 1 < 0
  <2>1. Moves(pc, pc', t, "reading", "rdepart")
    BY <1>1, <1>6 DEF ReaderUnlock, Goto, WeakTypeOK, Moves
  <2>2. /\ N("reading")' = N("reading") - 1 /\ N("rwait")' = N("rwait")
        /\ N("rdepart")' = N("rdepart") + 1 /\ N("rsignal")' = N("rsignal")
    BY <2>1, CountMove DEF N
  <2>3. MutexInv' /\ NoBug' /\ pc' \in [Threads -> Pcs] /\ Phase' = Phase
    BY <1>6, <2>1, ReaderFrame DEF ReaderUnlock, ReaderPcs
  <2>4. WeakTypeOK'
    BY <1>1, <1>6, <2>3 DEF WeakTypeOK, ReaderUnlock
  <2>5. Phase \in {"wdepart", "wwait"} /\ N("reading") > 0
    BY <1>1, <1>6 DEF WeakTypeOK, PhaseInv, Settled, CountFacts, N, ReaderUnlock
  <2>6. PhaseInv'
    <3>1. CASE Phase = "wdepart"
      BY <1>1, <1>2, <1>6, <2>2, <2>3, <2>5, <3>1
         DEF WeakTypeOK, PhaseInv, CountFacts, N, ReaderUnlock
    <3>2. CASE Phase = "wwait"
      <4>1. /\ pending = N("reading") + N("rwait") - MaxReaders
            /\ releaseNReaders <= N("rwait")
            /\ departing = N("reading") + releaseNReaders + N("rdepart")
            /\ N("rsignal") + releaseWriter = IF departing = 0 THEN 1 ELSE 0
        BY <1>1, <3>2 DEF PhaseInv
      <4>2. /\ pending \in Int /\ departing \in Int /\ releaseNReaders \in Nat
            /\ N("reading") \in Nat /\ N("rwait") \in Nat
            /\ N("rdepart") \in Nat /\ N("rsignal") \in Nat
            /\ releaseWriter \in {0, 1} /\ MaxReaders \in Nat
        BY <1>1 DEF WeakTypeOK, CountFacts, N
      <4>3. /\ pending' = N("reading")' + N("rwait")' - MaxReaders
            /\ releaseNReaders' <= N("rwait")'
            /\ departing' = N("reading")' + releaseNReaders' + N("rdepart")'
            /\ N("rsignal")' + releaseWriter' = IF departing' = 0 THEN 1 ELSE 0
        BY <1>6, <2>2, <2>5, <4>1, <4>2 DEF ReaderUnlock
      <4>4. QED
        BY <2>3, <3>2, <4>3 DEF PhaseInv
    <3>3. QED
      BY <2>5, <3>1, <3>2
  <2>7. QED
    BY <2>3, <2>4, <2>6 DEF StepGoal
<1>7. CASE ReaderUnlock(t) /\ ~(pending - 1 < 0)
  <2>1. Moves(pc, pc', t, "reading", "idle")
    BY <1>1, <1>7 DEF ReaderUnlock, Goto, WeakTypeOK, Moves
  <2>2. /\ N("reading")' = N("reading") - 1 /\ N("rwait")' = N("rwait")
        /\ N("rdepart")' = N("rdepart") /\ N("rsignal")' = N("rsignal")
    BY <2>1, CountMove DEF N
  <2>3. MutexInv' /\ NoBug' /\ pc' \in [Threads -> Pcs] /\ Phase' = Phase
    BY <1>7, <2>1, ReaderFrame DEF ReaderUnlock, ReaderPcs
  <2>4. WeakTypeOK'
    BY <1>1, <1>7, <2>3 DEF WeakTypeOK, ReaderUnlock
  <2>5. PhaseInv'
    BY <1>1, <1>2, <1>7, <2>2, <2>3 DEF WeakTypeOK, PhaseInv, Settled, CountFacts, N, ReaderUnlock
  <2>6. QED
    BY <2>3, <2>4, <2>5 DEF StepGoal
<1>8. CASE ReaderDepart(t) /\ departing - 1 = 0
  <2>1. Moves(pc, pc', t, "rdepart", "rsignal")
    BY <1>1, <1>8 DEF ReaderDepart, Goto, WeakTypeOK, Moves
  <2>2. /\ N("reading")' = N("reading") /\ N("rwait")' = N("rwait")
        /\ N("rdepart")' = N("rdepart") - 1 /\ N("rsignal")' = N("rsignal") + 1
    BY <2>1, CountMove DEF N
  <2>3. MutexInv' /\ NoBug' /\ pc' \in [Threads -> Pcs] /\ Phase' = Phase
    BY <1>8, <2>1, ReaderFrame DEF ReaderDepart, ReaderPcs
  <2>4. WeakTypeOK'
    BY <1>1, <1>8, <2>3 DEF WeakTypeOK, ReaderDepart
  <2>5. Phase \in {"wdepart", "wwait"} /\ N("rdepart") > 0
    BY <1>1, <1>8 DEF WeakTypeOK, PhaseInv, Settled, CountFacts, N, ReaderDepart
  <2>6. PhaseInv'
    <3>1. CASE Phase = "wdepart"
      BY <1>1, <1>2, <1>8, <2>2, <2>3, <2>5, <3>1
         DEF WeakTypeOK, PhaseInv, CountFacts, N, ReaderDepart
    <3>2. CASE Phase = "wwait"
      <4>1. /\ pending = N("reading") + N("rwait") - MaxReaders
            /\ releaseNReaders <= N("rwait")
            /\ departing = N("reading") + releaseNReaders + N("rdepart")
            /\ N("rsignal") + releaseWriter = IF departing = 0 THEN 1 ELSE 0
        BY <1>1, <3>2 DEF PhaseInv
      <4>2. /\ pending \in Int /\ departing \in Int /\ releaseNReaders \in Nat
            /\ N("reading") \in Nat /\ N("rwait") \in Nat
            /\ N("rdepart") \in Nat /\ N("rsignal") \in Nat
            /\ releaseWriter \in {0, 1} /\ MaxReaders \in Nat
        BY <1>1 DEF WeakTypeOK, CountFacts, N
      <4>3. /\ pending' = N("reading")' + N("rwait")' - MaxReaders
            /\ releaseNReaders' <= N("rwait")'
            /\ departing' = N("reading")' + releaseNReaders' + N("rdepart")'
            /\ N("rsignal")' + releaseWriter' = IF departing' = 0 THEN 1 ELSE 0
        BY <1>8, <2>2, <2>5, <4>1, <4>2 DEF ReaderDepart
      <4>4. QED
        BY <2>3, <3>2, <4>3 DEF PhaseInv
    <3>3. QED
      BY <2>5, <3>1, <3>2
  <2>7. QED
    BY <2>3, <2>4, <2>6 DEF StepGoal
<1>9. CASE ReaderDepart(t) /\ departing - 1 # 0
  <2>1. Moves(pc, pc', t, "rdepart", "idle")
    BY <1>1, <1>9 DEF ReaderDepart, Goto, WeakTypeOK, Moves
  <2>2. /\ N("reading")' = N("reading") /\ N("rwait")' = N("rwait")
        /\ N("rdepart")' = N("rdepart") - 1 /\ N("rsignal")' = N("rsignal")
    BY <2>1, CountMove DEF N
  <2>3. MutexInv' /\ NoBug' /\ pc' \in [Threads -> Pcs] /\ Phase' = Phase
    BY <1>9, <2>1, ReaderFrame DEF ReaderDepart, ReaderPcs
  <2>4. WeakTypeOK'
    BY <1>1, <1>9, <2>3 DEF WeakTypeOK, ReaderDepart
  <2>5. Phase \in {"wdepart", "wwait"} /\ N("rdepart") > 0
    BY <1>1, <1>9 DEF WeakTypeOK, PhaseInv, Settled, CountFacts, N, ReaderDepart
  <2>6. PhaseInv'
    <3>1. CASE Phase = "wdepart"
      BY <1>1, <1>2, <1>9, <2>2, <2>3, <2>5, <3>1
         DEF WeakTypeOK, PhaseInv, CountFacts, N, ReaderDepart
    <3>2. CASE Phase = "wwait"
      <4>1. /\ pending = N("reading") + N("rwait") - MaxReaders
            /\ releaseNReaders <= N("rwait")
            /\ departing = N("reading") + releaseNReaders + N("rdepart")
            /\ N("rsignal") + releaseWriter = IF departing = 0 THEN 1 ELSE 0
        BY <1>1, <3>2 DEF PhaseInv
      <4>2. /\ pending \in Int /\ departing \in Int /\ releaseNReaders \in Nat
            /\ N("reading") \in Nat /\ N("rwait") \in Nat
            /\ N("rdepart") \in Nat /\ N("rsignal") \in Nat
            /\ releaseWriter \in {0, 1} /\ MaxReaders \in Nat
        BY <1>1 DEF WeakTypeOK, CountFacts, N
      <4>3. /\ pending' = N("reading")' + N("rwait")' - MaxReaders
            /\ releaseNReaders' <= N("rwait")'
            /\ departing' = N("reading")' + releaseNReaders' + N("rdepart")'
            /\ N("rsignal")' + releaseWriter' = IF departing' = 0 THEN 1 ELSE 0
        BY <1>9, <2>2, <2>5, <4>1, <4>2 DEF ReaderDepart
      <4>4. QED
        BY <2>3, <3>2, <4>3 DEF PhaseInv
    <3>3. QED
      BY <2>5, <3>1, <3>2
  <2>7. QED
    BY <2>3, <2>4, <2>6 DEF StepGoal
<1>10. CASE ReaderSignal(t) /\ releaseWriter = 0
  <2>1. Moves(pc, pc', t, "rsignal", "idle")
    BY <1>1, <1>10 DEF ReaderSignal, Goto, WeakTypeOK, Moves
  <2>2. /\ N("reading")' = N("reading") /\ N("rwait")' = N("rwait")
        /\ N("rdepart")' = N("rdepart") /\ N("rsignal")' = N("rsignal") - 1
    BY <2>1, CountMove DEF N
  <2>3. MutexInv' /\ NoBug' /\ pc' \in [Threads -> Pcs] /\ Phase' = Phase
    BY <1>10, <2>1, ReaderFrame DEF ReaderSignal, ReaderPcs
  <2>4. WeakTypeOK'
    BY <1>1, <1>10, <2>3 DEF WeakTypeOK, ReaderSignal
  <2>5. PhaseInv'
    BY <1>1, <1>2, <1>10, <2>2, <2>3 DEF WeakTypeOK, PhaseInv, Settled, CountFacts, N, ReaderSignal
  <2>6. QED
    BY <2>3, <2>4, <2>5 DEF StepGoal
<1>11. ReaderSignal(t) => releaseWriter = 0
  BY <1>1 DEF ReaderSignal, PhaseInv, Settled, CountFacts, N, WeakTypeOK
<1>12. QED
  BY <1>3, <1>4, <1>5, <1>6, <1>7, <1>8, <1>9, <1>10, <1>11

(* The steps of the writer functions preserve the accounting. *)
LEMMA WriterStep ==
    ASSUME RWLockInv, NEW t \in Threads,
           \/ WriterMutexLock(t) \/ WriterAnnounce(t) \/ WriterCountDeparting(t)
           \/ WriterReleased(t) \/ WriterUnlock(t) \/ WriterReleaseReaders(t)
           \/ WriterMutexUnlock(t)
    PROVE  RWLockInv'
<1> USE MaxReadersAssumption
<1>1. WeakTypeOK /\ PhaseInv /\ MutexInv /\ CountFacts(pc) /\ CountFacts(pc')
  BY Counts DEF RWLockInv, TypeOK, WeakTypeOK
<1> SUFFICES StepGoal
  BY StepSuffices
<1>2. CASE WriterAnnounce(t) /\ pending # 0
  <2>1. Moves(pc, pc', t, "wannounce", "wdepart")
    BY <1>1, <1>2 DEF WriterAnnounce, Goto, WeakTypeOK, Moves
  <2>2. /\ N("reading")' = N("reading") /\ N("rwait")' = N("rwait")
        /\ N("rdepart")' = N("rdepart") /\ N("rsignal")' = N("rsignal")
    BY <2>1, CountMove DEF N
  <2>3. /\ MutexInv' /\ NoBug' /\ pc' \in [Threads -> Pcs]
        /\ writerMutex = t /\ Phase = "wannounce" /\ Phase' = "wdepart"
    BY <1>2, <2>1, WriterFrame DEF WriterAnnounce, WriterPcs
  <2>4. /\ WeakTypeOK'
        /\ seen'[t] = pending' + MaxReaders
    <3>1. pending \in 0..MaxReaders
      BY <1>1, <2>3 DEF WeakTypeOK, PhaseInv, CountFacts, N
    <3>2. seen' = [seen EXCEPT ![t] = pending]
      BY <1>2 DEF WriterAnnounce
    <3>3. /\ seen' \in [Threads -> 0..MaxReaders]
          /\ seen'[t] = pending
      BY <1>1, <3>1, <3>2 DEF WeakTypeOK
    <3>4. QED
      BY <1>1, <1>2, <2>3, <3>1, <3>3 DEF WeakTypeOK, WriterAnnounce
  <2>5. PhaseInv'
    BY <1>1, <1>2, <2>2, <2>3, <2>4 DEF WeakTypeOK, PhaseInv, Settled, CountFacts, N, WriterAnnounce
  <2>6. QED
    BY <2>3, <2>4, <2>5 DEF StepGoal
<1>3. CASE WriterAnnounce(t) /\ pending = 0
  <2>1. Moves(pc, pc', t, "wannounce", "writing")
    BY <1>1, <1>3 DEF WriterAnnounce, Goto, WeakTypeOK, Moves
  <2>2. /\ N("reading")' = N("reading") /\ N("rwait")' = N("rwait")
        /\ N("rdepart")' = N("rdepart") /\ N("rsignal")' = N("rsignal")
    BY <2>1, CountMove DEF N
  <2>3. /\ MutexInv' /\ NoBug' /\ pc' \in [Threads -> Pcs]
        /\ writerMutex = t /\ Phase = "wannounce" /\ Phase' = "writing"
    BY <1>3, <2>1, WriterFrame DEF WriterAnnounce, WriterPcs
  <2>4. /\ WeakTypeOK'
        /\ seen'[t] = pending' + MaxReaders
    <3>1. pending \in 0..MaxReaders
      BY <1>1, <2>3 DEF WeakTypeOK, PhaseInv, CountFacts, N
    <3>2. seen' = [seen EXCEPT ![t] = pending]
      BY <1>3 DEF WriterAnnounce
    <3>3. /\ seen' \in [Threads -> 0..MaxReaders]
          /\ seen'[t] = pending
      BY <1>1, <3>1, <3>2 DEF WeakTypeOK
    <3>4. QED
      BY <1>1, <1>3, <2>3, <3>1, <3>3 DEF WeakTypeOK, WriterAnnounce
  <2>5. PhaseInv'
    <3>1. /\ N("reading") = 0 /\ N("rwait") = 0 /\ Settled
      BY <1>1, <1>3, <2>3 DEF PhaseInv, CountFacts, N
    <3>2. QED
      BY <1>3, <2>2, <2>3, <3>1 DEF PhaseInv, Settled, WriterAnnounce
  <2>6. QED
    BY <2>3, <2>4, <2>5 DEF StepGoal
<1>4. CASE WriterCountDeparting(t) /\ departing + seen[t] # 0
  <2>1. Moves(pc, pc', t, "wdepart", "wwait")
    BY <1>1, <1>4 DEF WriterCountDeparting, Goto, WeakTypeOK, Moves
  <2>2. /\ N("reading")' = N("reading") /\ N("rwait")' = N("rwait")
        /\ N("rdepart")' = N("rdepart") /\ N("rsignal")' = N("rsignal")
    BY <2>1, CountMove DEF N
  <2>3. /\ MutexInv' /\ NoBug' /\ pc' \in [Threads -> Pcs]
        /\ writerMutex = t /\ Phase = "wdepart" /\ Phase' = "wwait"
    BY <1>4, <2>1, WriterFrame DEF WriterCountDeparting, WriterPcs
  <2>4. WeakTypeOK'
    BY <1>1, <1>4, <2>3 DEF WeakTypeOK, WriterCountDeparting
  <2>5. PhaseInv'
    BY <1>1, <1>4, <2>2, <2>3, <2>4 DEF WeakTypeOK, PhaseInv, Settled, CountFacts, N, WriterCountDeparting
  <2>6. QED
    BY <2>3, <2>4, <2>5 DEF StepGoal
<1>5. CASE WriterCountDeparting(t) /\ departing + seen[t] = 0
  <2>1. Moves(pc, pc', t, "wdepart", "writing")
    BY <1>1, <1>5 DEF WriterCountDeparting, Goto, WeakTypeOK, Moves
  <2>2. /\ N("reading")' = N("reading") /\ N("rwait")' = N("rwait")
        /\ N("rdepart")' = N("rdepart") /\ N("rsignal")' = N("rsignal")
    BY <2>1, CountMove DEF N
  <2>3. /\ MutexInv' /\ NoBug' /\ pc' \in [Threads -> Pcs]
        /\ writerMutex = t /\ Phase = "wdepart" /\ Phase' = "writing"
    BY <1>5, <2>1, WriterFrame DEF WriterCountDeparting, WriterPcs
  <2>4. WeakTypeOK'
    BY <1>1, <1>5, <2>3 DEF WeakTypeOK, WriterCountDeparting
  <2>5. PhaseInv'
    BY <1>1, <1>5, <2>2, <2>3, <2>4 DEF WeakTypeOK, PhaseInv, Settled, CountFacts, N, WriterCountDeparting
  <2>6. QED
    BY <2>3, <2>4, <2>5 DEF StepGoal
<1>6. CASE WriterReleased(t)
  <2>1. Moves(pc, pc', t, "wwait", "writing")
    BY <1>1, <1>6 DEF WriterReleased, Goto, WeakTypeOK, Moves
  <2>2. /\ N("reading")' = N("reading") /\ N("rwait")' = N("rwait")
        /\ N("rdepart")' = N("rdepart") /\ N("rsignal")' = N("rsignal")
    BY <2>1, CountMove DEF N
  <2>3. /\ MutexInv' /\ NoBug' /\ pc' \in [Threads -> Pcs]
        /\ writerMutex = t /\ Phase = "wwait" /\ Phase' = "writing"
    BY <1>6, <2>1, WriterFrame DEF WriterReleased, WriterPcs
  <2>4. WeakTypeOK'
    BY <1>1, <1>6, <2>3 DEF WeakTypeOK, WriterReleased
  <2>5. PhaseInv'
    BY <1>1, <1>6, <2>2, <2>3, <2>4 DEF WeakTypeOK, PhaseInv, Settled, CountFacts, N, WriterReleased
  <2>6. QED
    BY <2>3, <2>4, <2>5 DEF StepGoal
<1>7. CASE WriterUnlock(t) /\ pending + MaxReaders > 0
  <2>1. Moves(pc, pc', t, "writing", "wrelease")
    BY <1>1, <1>7 DEF WriterUnlock, Goto, WeakTypeOK, Moves
  <2>2. /\ N("reading")' = N("reading") /\ N("rwait")' = N("rwait")
        /\ N("rdepart")' = N("rdepart") /\ N("rsignal")' = N("rsignal")
    BY <2>1, CountMove DEF N
  <2>3. /\ MutexInv' /\ NoBug' /\ pc' \in [Threads -> Pcs]
        /\ writerMutex = t /\ Phase = "writing" /\ Phase' = "wrelease"
    BY <1>7, <2>1, WriterFrame DEF WriterUnlock, WriterPcs
  <2>4. /\ WeakTypeOK'
        /\ seen'[t] = pending'
    <3>1. pending + MaxReaders \in 0..MaxReaders
      BY <1>1, <2>3 DEF WeakTypeOK, PhaseInv, CountFacts, N
    <3>2. seen' = [seen EXCEPT ![t] = pending + MaxReaders]
      BY <1>7 DEF WriterUnlock
    <3>3. /\ seen' \in [Threads -> 0..MaxReaders]
          /\ seen'[t] = pending + MaxReaders
      BY <1>1, <3>1, <3>2 DEF WeakTypeOK
    <3>4. QED
      BY <1>1, <1>7, <2>3, <3>1, <3>3 DEF WeakTypeOK, WriterUnlock
  <2>5. PhaseInv'
    BY <1>1, <1>7, <2>2, <2>3, <2>4 DEF WeakTypeOK, PhaseInv, Settled, CountFacts, N, WriterUnlock
  <2>6. QED
    BY <2>3, <2>4, <2>5 DEF StepGoal
<1>8. CASE WriterUnlock(t) /\ ~(pending + MaxReaders > 0)
  <2>1. Moves(pc, pc', t, "writing", "wunlock")
    BY <1>1, <1>8 DEF WriterUnlock, Goto, WeakTypeOK, Moves
  <2>2. /\ N("reading")' = N("reading") /\ N("rwait")' = N("rwait")
        /\ N("rdepart")' = N("rdepart") /\ N("rsignal")' = N("rsignal")
    BY <2>1, CountMove DEF N
  <2>3. /\ MutexInv' /\ NoBug' /\ pc' \in [Threads -> Pcs]
        /\ writerMutex = t /\ Phase = "writing" /\ Phase' = "wunlock"
    BY <1>8, <2>1, WriterFrame DEF WriterUnlock, WriterPcs
  <2>4. /\ WeakTypeOK'
        /\ seen'[t] = pending'
    <3>1. pending + MaxReaders \in 0..MaxReaders
      BY <1>1, <2>3 DEF WeakTypeOK, PhaseInv, CountFacts, N
    <3>2. seen' = [seen EXCEPT ![t] = pending + MaxReaders]
      BY <1>8 DEF WriterUnlock
    <3>3. /\ seen' \in [Threads -> 0..MaxReaders]
          /\ seen'[t] = pending + MaxReaders
      BY <1>1, <3>1, <3>2 DEF WeakTypeOK
    <3>4. QED
      BY <1>1, <1>8, <2>3, <3>1, <3>3 DEF WeakTypeOK, WriterUnlock
  <2>5. PhaseInv'
    BY <1>1, <1>8, <2>2, <2>3, <2>4 DEF WeakTypeOK, PhaseInv, Settled, CountFacts, N, WriterUnlock
  <2>6. QED
    BY <2>3, <2>4, <2>5 DEF StepGoal
<1>9. CASE WriterReleaseReaders(t) /\ releaseNReaders = 0
  <2>1. Moves(pc, pc', t, "wrelease", "wunlock")
    BY <1>1, <1>9 DEF WriterReleaseReaders, Goto, WeakTypeOK, Moves
  <2>2. /\ N("reading")' = N("reading") /\ N("rwait")' = N("rwait")
        /\ N("rdepart")' = N("rdepart") /\ N("rsignal")' = N("rsignal")
    BY <2>1, CountMove DEF N
  <2>3. /\ MutexInv' /\ NoBug' /\ pc' \in [Threads -> Pcs]
        /\ writerMutex = t /\ Phase = "wrelease" /\ Phase' = "wunlock"
    BY <1>9, <2>1, WriterFrame DEF WriterReleaseReaders, WriterPcs
  <2>4. WeakTypeOK'
    BY <1>1, <1>9, <2>3 DEF WeakTypeOK, WriterReleaseReaders
  <2>5. PhaseInv'
    BY <1>1, <1>9, <2>2, <2>3, <2>4 DEF WeakTypeOK, PhaseInv, Settled, CountFacts, N, WriterReleaseReaders
  <2>6. QED
    BY <2>3, <2>4, <2>5 DEF StepGoal
<1>10. WriterReleaseReaders(t) => releaseNReaders = 0
  <2>1. WriterReleaseReaders(t) => Phase = "wrelease"
    BY <1>1, ThreadsAssumption DEF WriterReleaseReaders, MutexInv, WriterPcs, Phase
  <2>2. QED
    BY <1>1, <2>1 DEF PhaseInv
<1>11. CASE WriterMutexLock(t)
  <2>1. Moves(pc, pc', t, "idle", "wannounce")
    BY <1>1, <1>11 DEF WriterMutexLock, Goto, WeakTypeOK, Moves
  <2>2. /\ N("reading")' = N("reading") /\ N("rwait")' = N("rwait")
        /\ N("rdepart")' = N("rdepart") /\ N("rsignal")' = N("rsignal")
    BY <2>1, CountMove DEF N
  <2>3. /\ pc \in [Threads -> Pcs] /\ pc' = [pc EXCEPT ![t] = "wannounce"]
        /\ writerMutex = NoThread /\ writerMutex' = t
    BY <1>11, <2>1 DEF Moves, WriterMutexLock
  <2>4. Phase = "none" /\ Phase' = "wannounce"
    BY <2>3, ThreadsAssumption DEF Phase
  <2>5. MutexInv'
    BY <1>1, <2>3, ThreadsAssumption DEF MutexInv, WriterPcs
  <2>6. NoBug' /\ WeakTypeOK'
    BY <1>1, <1>11, <2>3 DEF RWLockInv, NoBug, WeakTypeOK, Pcs, WriterPcs, WriterMutexLock
  <2>7. PhaseInv'
    BY <1>1, <1>11, <2>2, <2>4 DEF PhaseInv, Settled, WriterMutexLock
  <2>8. QED
    BY <2>5, <2>6, <2>7 DEF StepGoal
<1>12. CASE WriterMutexUnlock(t)
  <2>1. Moves(pc, pc', t, "wunlock", "idle")
    BY <1>1, <1>12 DEF WriterMutexUnlock, Goto, WeakTypeOK, Moves
  <2>2. /\ N("reading")' = N("reading") /\ N("rwait")' = N("rwait")
        /\ N("rdepart")' = N("rdepart") /\ N("rsignal")' = N("rsignal")
    BY <2>1, CountMove DEF N
  <2>3. /\ pc \in [Threads -> Pcs] /\ pc' = [pc EXCEPT ![t] = "idle"]
        /\ pc[t] = "wunlock" /\ writerMutex = t /\ writerMutex' = NoThread
    BY <1>1, <1>12, <2>1 DEF Moves, WriterMutexUnlock, MutexInv, WriterPcs
  <2>4. Phase = "wunlock" /\ Phase' = "none"
    BY <2>3, ThreadsAssumption DEF Phase
  <2>5. MutexInv'
    BY <1>1, <2>3, ThreadsAssumption DEF MutexInv, WriterPcs
  <2>6. NoBug' /\ WeakTypeOK'
    BY <1>1, <1>12, <2>3 DEF RWLockInv, NoBug, WeakTypeOK, Pcs, WriterPcs, WriterMutexUnlock
  <2>7. PhaseInv'
    BY <1>1, <1>12, <2>2, <2>4 DEF PhaseInv, Settled, WriterMutexUnlock
  <2>8. QED
    BY <2>5, <2>6, <2>7 DEF StepGoal
<1>13. QED
  BY <1>2, <1>3, <1>4, <1>5, <1>6, <1>7, <1>8, <1>9, <1>10, <1>11, <1>12

(* The accounting of readers by phase holds at every step of the lock, for
   any number of threads below RWLOCK_MAX_READERS. *)
THEOREM Invariance == Spec => []RWLockInv
<1>1. RWLockInv /\ [Next]_vars => RWLockInv'
  <2> SUFFICES ASSUME RWLockInv, [Next]_vars
               PROVE  RWLockInv'
    OBVIOUS
  <2>1. CASE UNCHANGED vars
    BY <2>1 DEF vars, RWLockInv, TypeOK, MutexInv, NoBug, PhaseInv, Settled, Phase, N
  <2>2. CASE Next
    BY <2>2, ReaderStep, WriterStep DEF Next, Progress
  <2>3. QED
    BY <2>1, <2>2
<1>2. QED
  BY InitInv, <1>1, PTL DEF Spec

(* A writer is alone in its critical section, whatever the readers that an
   earlier writer released late are doing. *)
THEOREM Exclusion == Spec => []MutualExclusion
<1>1. RWLockInv => MutualExclusion
  <2> SUFFICES ASSUME RWLockInv, NEW t \in Threads, NEW u \in Threads,
                      pc[t] = "writing", u # t
               PROVE  pc[u] \notin {"reading", "writing"}
    BY DEF MutualExclusion
  <2>1. writerMutex = t /\ pc[u] # "writing"
    BY DEF RWLockInv, MutexInv, WriterPcs
  <2>2. Phase = "writing"
    BY <2>1, ThreadsAssumption DEF Phase
  <2>3. AtIn(pc, "reading") = {}
    BY <2>2, CountType DEF RWLockInv, PhaseInv, N
  <2>4. QED
    BY <2>1, <2>3 DEF AtIn
<1>2. QED
  BY <1>1, Invariance, PTL

(* The assertions UTILS_BUG_ON( swapped != 0 ) of ReaderUnlock and
   WriterUnlock never fail. *)
THEOREM AssertionsHold == Spec => []NoBug
<1>1. RWLockInv => NoBug
  BY DEF RWLockInv
<1>2. QED
  BY <1>1, Invariance, PTL

(* A lock nobody uses is back in its initial state. *)
THEOREM BackToInitial == Spec => []Quiescent
<1>1. RWLockInv => Quiescent
  <2> SUFFICES ASSUME RWLockInv, \A t \in Threads : pc[t] = "idle"
               PROVE  /\ pending = 0 /\ departing = 0 /\ releaseNReaders = 0
                      /\ releaseWriter = 0 /\ writerMutex = NoThread
    BY DEF Quiescent
  <2>1. writerMutex = NoThread
    BY DEF RWLockInv, TypeOK, MutexInv, WriterPcs
  <2>2. AtIn(pc, "reading") = {} /\ AtIn(pc, "rwait") = {}
    BY DEF AtIn
  <2>3. N("reading") = 0 /\ N("rwait") = 0
    BY <2>2, CountType DEF N
  <2>4. QED
    BY <2>1, <2>3 DEF RWLockInv, PhaseInv, Settled, Phase
<1>2. QED
  BY <1>1, Invariance, PTL

(* Who is inside, by phase of the writer. *)
LEMMA Inside ==
    ASSUME RWLockInv
    PROVE  /\ Phase = "writing" => AtIn(pc, "reading") = {}
           /\ Phase # "writing" => AtIn(pc, "writing") = {}
           /\ \A t \in Threads : pc[t] = "writing" => AtIn(pc, "writing") = {t}
<1>1. Phase = "writing" => AtIn(pc, "reading") = {}
  BY CountType DEF RWLockInv, PhaseInv, N
<1>2. ASSUME NEW t \in Threads, pc[t] = "writing"
      PROVE  AtIn(pc, "writing") = {t} /\ Phase = "writing"
  BY <1>2, ThreadsAssumption DEF AtIn, RWLockInv, MutexInv, WriterPcs, Phase
<1>3. Phase # "writing" => AtIn(pc, "writing") = {}
  BY <1>2 DEF AtIn
<1>4. QED
  BY <1>1, <1>2, <1>3

(* Every step of the lock is a step of the abstract lock or a stutter. *)
LEMMA StepRefines ==
    ASSUME RWLockInv, RWLockInv', NEW t \in Threads,
           ReaderLock(t) \/ WriterMutexLock(t) \/ Progress(t)
    PROVE  [Abstract!SpecNext]_(Abstract!specVars)
<1> USE MaxReadersAssumption
<1>1. WeakTypeOK /\ PhaseInv /\ MutexInv /\ CountFacts(pc)
  BY Counts DEF RWLockInv, TypeOK, WeakTypeOK
<1>2. ASSUME NEW a, NEW b, Moves(pc, pc', t, a, b),
             a \notin {"reading", "writing"}, b \notin {"reading", "writing"}
      PROVE  UNCHANGED Abstract!specVars
  <2>1. /\ AtIn(pc', "reading") = AtIn(pc, "reading")
        /\ AtIn(pc', "writing") = AtIn(pc, "writing")
    BY <1>2, SetMove
  <2>2. QED
    BY <2>1 DEF Abstract!specVars, At
<1>3. CASE ReaderLock(t) /\ ~(pending + 1 < 0)
  <2>1. Moves(pc, pc', t, "idle", "reading")
    BY <1>1, <1>3 DEF ReaderLock, Goto, WeakTypeOK, Moves
  <2>2. Phase # "writing"
    BY <1>1, <1>3 DEF ReaderLock, WeakTypeOK, PhaseInv, CountFacts, N
  <2>3. AtIn(pc, "writing") = {}
    BY <2>2, Inside
  <2>4. Abstract!AcquireRead(t)
    BY <2>1, <2>3, SetMove DEF Abstract!AcquireRead, At
  <2>5. QED
    BY <2>4 DEF Abstract!SpecNext
<1>4. CASE ReaderReleased(t)
  <2>1. Moves(pc, pc', t, "rwait", "reading")
    BY <1>1, <1>4 DEF ReaderReleased, Goto, WeakTypeOK, Moves
  <2>2. Phase # "writing"
    BY <1>1, <1>4 DEF ReaderReleased, PhaseInv
  <2>3. AtIn(pc, "writing") = {}
    BY <2>2, Inside
  <2>4. Abstract!AcquireRead(t)
    BY <2>1, <2>3, SetMove DEF Abstract!AcquireRead, At
  <2>5. QED
    BY <2>4 DEF Abstract!SpecNext
<1>5. CASE ReaderUnlock(t)
  <2>1. PICK b \in {"rdepart", "idle"} : Moves(pc, pc', t, "reading", b)
    BY <1>1, <1>5 DEF ReaderUnlock, Goto, WeakTypeOK, Moves
  <2>2. Abstract!ReleaseRead(t)
    BY <2>1, SetMove DEF Abstract!ReleaseRead, At
  <2>3. QED
    BY <2>2 DEF Abstract!SpecNext
<1>6. ASSUME NEW a \in {"wannounce", "wdepart", "wwait"},
             Moves(pc, pc', t, a, "writing")
      PROVE  Abstract!SpecNext
  <2>1. pc'[t] = "writing" /\ pc[t] = a
    BY <1>6 DEF Moves
  <2>2. Phase = a /\ Phase # "writing"
    BY <1>1, <2>1, ThreadsAssumption DEF MutexInv, WriterPcs, Phase
  <2>3. AtIn(pc, "writing") = {}
    BY <2>2, Inside
  <2>4. Phase' = "writing"
    BY <2>1, ThreadsAssumption DEF RWLockInv, MutexInv, WriterPcs, Phase
  <2>5. AtIn(pc', "reading") = {}
    BY <2>4, CountType DEF RWLockInv, PhaseInv, N
  <2>6. AtIn(pc, "reading") = {}
    BY <1>6, <2>5, SetMove
  <2>7. Abstract!AcquireWrite(t)
    BY <1>6, <2>3, <2>6, SetMove DEF Abstract!AcquireWrite, At
  <2>8. QED
    BY <2>7 DEF Abstract!SpecNext
<1>7. CASE WriterAnnounce(t) \/ WriterCountDeparting(t) \/ WriterReleased(t)
  <2>1. PICK a \in {"wannounce", "wdepart", "wwait"},
             b \in {"wdepart", "wwait", "writing"} : Moves(pc, pc', t, a, b)
    BY <1>1, <1>7 DEF WriterAnnounce, WriterCountDeparting, WriterReleased,
                      Goto, WeakTypeOK, Moves
  <2>2. QED
    BY <1>2, <1>6, <2>1
<1>8. CASE WriterUnlock(t)
  <2>1. PICK b \in {"wrelease", "wunlock"} : Moves(pc, pc', t, "writing", b)
    BY <1>1, <1>8 DEF WriterUnlock, Goto, WeakTypeOK, Moves
  <2>2. Abstract!ReleaseWrite(t)
    BY <2>1, SetMove DEF Abstract!ReleaseWrite, At
  <2>3. QED
    BY <2>2 DEF Abstract!SpecNext
<1>9. CASE \/ ReaderLock(t) /\ pending + 1 < 0
           \/ ReaderDepart(t) \/ ReaderSignal(t) \/ WriterMutexLock(t)
           \/ WriterReleaseReaders(t) \/ WriterMutexUnlock(t)
  <2>1. PICK a \in Pcs \ {"reading", "writing"}, b \in Pcs \ {"reading", "writing"} :
             Moves(pc, pc', t, a, b)
    BY <1>1, <1>9 DEF ReaderLock, ReaderDepart, ReaderSignal, WriterMutexLock,
       WriterReleaseReaders, WriterMutexUnlock, Goto, WeakTypeOK, Moves, Pcs,
       ReaderPcs, WriterPcs
  <2>2. QED
    BY <1>2, <2>1
<1>10. QED
  BY <1>3, <1>4, <1>5, <1>7, <1>8, <1>9 DEF Progress

(* SCOREP_ReaderWriterLock.h is a reader-writer lock: seen through the set
   of threads inside, every behaviour of its atomic counters is one of the
   abstract lock, for any number of threads below RWLOCK_MAX_READERS. *)
THEOREM Refinement == Spec => ImplementsRWLockSpec
<1>1. Init => Abstract!SpecInit
  BY DEF Init, Abstract!SpecInit, At, AtIn
<1>2. RWLockInv /\ RWLockInv' /\ [Next]_vars
          => [Abstract!SpecNext]_(Abstract!specVars)
  <2> SUFFICES ASSUME RWLockInv, RWLockInv', [Next]_vars
               PROVE  [Abstract!SpecNext]_(Abstract!specVars)
    OBVIOUS
  <2>1. CASE UNCHANGED vars
    BY <2>1 DEF vars, Abstract!specVars, At
  <2>2. CASE Next
    BY <2>2, StepRefines DEF Next
  <2>3. QED
    BY <2>1, <2>2
<1>3. QED
  BY <1>1, <1>2, Invariance, PTL DEF Spec, ImplementsRWLockSpec, Abstract!Spec
=============================================================================

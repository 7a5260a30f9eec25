------------------------------- MODULE RWLock -------------------------------
(***************************************************************************)
(* The writer-preferring reader-writer lock of                             *)
(* src/src/utils/include/SCOREP_ReaderWriterLock.h, on which the           *)
(* concurrent hash tables and the address-to-line service rest.            *)
(*                                                                         *)
(* One action per atomic access of the code.  The two spin loops (load a   *)
(* release counter, then try to take one unit of it by compare-exchange)   *)
(* are single steps: a failed round changes nothing but a dead local.      *)
(* The int16_t counters are unbounded integers here; RWLockInv proves that *)
(* they stay within -MaxReaders..MaxReaders, well inside an int16_t.       *)
(***************************************************************************)
EXTENDS Integers, FiniteSets

CONSTANTS Threads,     \* the threads that use the lock
          MaxReaders,  \* RWLOCK_MAX_READERS (1 << 14 in the code)
          NoThread     \* owner of an unlocked UTILS_Mutex

ASSUME ThreadsAssumption == IsFiniteSet(Threads) /\ NoThread \notin Threads

(* "Some value large enough to let a writer make 'pending' negative". *)
ASSUME MaxReadersAssumption ==
    MaxReaders \in Nat /\ Cardinality(Threads) < MaxReaders

VARIABLES pending,          \* readers inside or waiting; minus MaxReaders under a writer
          departing,        \* readers the announced writer still waits for
          releaseNReaders,  \* waiting readers that may enter
          releaseWriter,    \* 1 when the waiting writer may enter
          writerMutex,      \* holder of the UTILS_Mutex that serializes writers
          pc,               \* where each thread is
          seen              \* the local 'pending' of the writer functions

vars == <<pending, departing, releaseNReaders, releaseWriter, writerMutex, pc,
          seen>>

ReaderPcs == {"rwait", "reading", "rdepart", "rsignal"}
WriterPcs == {"wannounce", "wdepart", "wwait", "writing", "wrelease", "wunlock"}
Pcs == {"idle", "bug"} \cup ReaderPcs \cup WriterPcs

Goto(t, l) == pc' = [pc EXCEPT ![t] = l]

Init ==
    /\ pending = 0
    /\ departing = 0
    /\ releaseNReaders = 0
    /\ releaseWriter = 0
    /\ writerMutex = NoThread
    /\ pc = [t \in Threads |-> "idle"]
    /\ seen = [t \in Threads |-> 0]

-----------------------------------------------------------------------------
(* SCOREP_RWLock_ReaderLock *)

ReaderLock(t) ==
    /\ pc[t] = "idle"
    /\ pending' = pending + 1
    /\ Goto(t, IF pending + 1 < 0 THEN "rwait" ELSE "reading")
    /\ UNCHANGED <<departing, releaseNReaders, releaseWriter, writerMutex, seen>>

(* One unit of release_n_readers is taken, by whichever waiting reader
   wins the compare-exchange: not necessarily one the writer counted. *)
ReaderReleased(t) ==
    /\ pc[t] = "rwait"
    /\ releaseNReaders # 0
    /\ releaseNReaders' = releaseNReaders - 1
    /\ Goto(t, "reading")
    /\ UNCHANGED <<pending, departing, releaseWriter, writerMutex, seen>>

(* SCOREP_RWLock_ReaderUnlock *)

ReaderUnlock(t) ==
    /\ pc[t] = "reading"
    /\ pending' = pending - 1
    /\ Goto(t, IF pending - 1 < 0 THEN "rdepart" ELSE "idle")
    /\ UNCHANGED <<departing, releaseNReaders, releaseWriter, writerMutex, seen>>

(* Bug: the first departing reader, not the last, signals the writer. *)
ReaderDepartSignalsEarly(t) ==
    /\ pc[t] = "rdepart"
    /\ departing' = departing - 1
    /\ Goto(t, IF departing - 1 >= 0 THEN "rsignal" ELSE "idle")
    /\ UNCHANGED <<pending, releaseNReaders, releaseWriter, writerMutex, seen>>

ReaderDepart(t) ==
    /\ pc[t] = "rdepart"
    /\ departing' = departing - 1
    /\ Goto(t, IF departing - 1 = 0 THEN "rsignal" ELSE "idle")
    /\ UNCHANGED <<pending, releaseNReaders, releaseWriter, writerMutex, seen>>

(* The exchange returns the old value; UTILS_BUG_ON( swapped != 0 ). *)
ReaderSignal(t) ==
    /\ pc[t] = "rsignal"
    /\ releaseWriter' = 1
    /\ Goto(t, IF releaseWriter = 0 THEN "idle" ELSE "bug")
    /\ UNCHANGED <<pending, departing, releaseNReaders, writerMutex, seen>>

-----------------------------------------------------------------------------
(* SCOREP_RWLock_WriterLock *)

WriterMutexLock(t) ==
    /\ pc[t] = "idle"
    /\ writerMutex = NoThread
    /\ writerMutex' = t
    /\ Goto(t, "wannounce")
    /\ UNCHANGED <<pending, departing, releaseNReaders, releaseWriter, seen>>

(* Bug: the writer does not wait for the readers already inside. *)
WriterAnnounceNoWait(t) ==
    /\ pc[t] = "wannounce"
    /\ pending' = pending - MaxReaders
    /\ seen' = [seen EXCEPT ![t] = pending]
    /\ Goto(t, "writing")
    /\ UNCHANGED <<departing, releaseNReaders, releaseWriter, writerMutex>>

WriterAnnounce(t) ==
    /\ pc[t] = "wannounce"
    /\ pending' = pending - MaxReaders
    /\ seen' = [seen EXCEPT ![t] = pending]
    /\ Goto(t, IF pending # 0 THEN "wdepart" ELSE "writing")
    /\ UNCHANGED <<departing, releaseNReaders, releaseWriter, writerMutex>>

(* Bug: the writer always waits for a signal, even when the last reader it
   counted has left before it could be counted. *)
WriterCountDepartingAlwaysWaits(t) ==
    /\ pc[t] = "wdepart"
    /\ departing' = departing + seen[t]
    /\ Goto(t, "wwait")
    /\ UNCHANGED <<pending, releaseNReaders, releaseWriter, writerMutex, seen>>

WriterCountDeparting(t) ==
    /\ pc[t] = "wdepart"
    /\ departing' = departing + seen[t]
    /\ Goto(t, IF departing + seen[t] # 0 THEN "wwait" ELSE "writing")
    /\ UNCHANGED <<pending, releaseNReaders, releaseWriter, writerMutex, seen>>

(* Bug: the writer takes the signal without consuming it. *)
WriterReleasedKeepsSignal(t) ==
    /\ pc[t] = "wwait"
    /\ releaseWriter # 0
    /\ Goto(t, "writing")
    /\ UNCHANGED <<pending, departing, releaseNReaders, releaseWriter, writerMutex,
                   seen>>

WriterReleased(t) ==
    /\ pc[t] = "wwait"
    /\ releaseWriter # 0
    /\ releaseWriter' = releaseWriter - 1
    /\ Goto(t, "writing")
    /\ UNCHANGED <<pending, departing, releaseNReaders, writerMutex, seen>>

(* SCOREP_RWLock_WriterUnlock *)

WriterUnlock(t) ==
    /\ pc[t] = "writing"
    /\ pending' = pending + MaxReaders
    /\ seen' = [seen EXCEPT ![t] = pending + MaxReaders]
    /\ Goto(t, IF pending + MaxReaders > 0 THEN "wrelease" ELSE "wunlock")
    /\ UNCHANGED <<departing, releaseNReaders, releaseWriter, writerMutex>>

(* Bug: the writer releases one waiting reader only. *)
WriterReleaseReadersOne(t) ==
    /\ pc[t] = "wrelease"
    /\ releaseNReaders' = 1
    /\ Goto(t, IF releaseNReaders = 0 THEN "wunlock" ELSE "bug")
    /\ UNCHANGED <<pending, departing, releaseWriter, writerMutex, seen>>

(* Bug: the writer forgets the readers that arrived while it was inside. *)
WriterReleaseReadersNone(t) ==
    /\ pc[t] = "wrelease"
    /\ Goto(t, "wunlock")
    /\ UNCHANGED <<pending, departing, releaseNReaders, releaseWriter, writerMutex,
                   seen>>

(* The exchange returns the old value; UTILS_BUG_ON( swapped != 0 ). *)
WriterReleaseReaders(t) ==
    /\ pc[t] = "wrelease"
    /\ releaseNReaders' = seen[t]
    /\ Goto(t, IF releaseNReaders = 0 THEN "wunlock" ELSE "bug")
    /\ UNCHANGED <<pending, departing, releaseWriter, writerMutex, seen>>

WriterMutexUnlock(t) ==
    /\ pc[t] = "wunlock"
    /\ writerMutex' = NoThread
    /\ Goto(t, "idle")
    /\ UNCHANGED <<pending, departing, releaseNReaders, releaseWriter, seen>>

-----------------------------------------------------------------------------
(* Steps a thread takes once it has called the lock. *)
Progress(t) ==
    \/ ReaderReleased(t) \/ ReaderUnlock(t) \/ ReaderDepart(t) \/ ReaderSignal(t)
    \/ WriterAnnounce(t) \/ WriterCountDeparting(t) \/ WriterReleased(t)
    \/ WriterUnlock(t) \/ WriterReleaseReaders(t) \/ WriterMutexUnlock(t)

Next == \E t \in Threads : ReaderLock(t) \/ WriterMutexLock(t) \/ Progress(t)

Spec == Init /\ [][Next]_vars

(* Every thread keeps running and leaves its critical sections; nobody has
   to call the lock. *)
FairSpec == Spec /\ \A t \in Threads : WF_vars(Progress(t))
-----------------------------------------------------------------------------
(* Counting the threads that are at a label. *)
AtIn(f, l) == {t \in Threads : f[t] = l}
Count(f, l) == Cardinality(AtIn(f, l))
At(l) == AtIn(pc, l)
N(l) == Count(pc, l)

(* Where the holder of the writer mutex is: "none" without one. *)
Phase == IF writerMutex = NoThread THEN "none" ELSE pc[writerMutex]

(* Values the program can hold in the lock's data: the int16_t counters
   never leave -MaxReaders..MaxReaders, so 16 bits never overflow. *)
TypeOK ==
    /\ pending \in -MaxReaders..MaxReaders
    /\ departing \in -MaxReaders..MaxReaders
    /\ releaseNReaders \in 0..MaxReaders
    /\ releaseWriter \in {0, 1}
    /\ writerMutex \in Threads \cup {NoThread}
    /\ pc \in [Threads -> Pcs]
    /\ seen \in [Threads -> 0..MaxReaders]

(* A writer inside SCOREP_RWLock_WriterLock .. WriterUnlock is alone:
   no second writer and no reader, the ones released late by an earlier
   writer included. *)
MutualExclusion ==
    \A t, u \in Threads :
        pc[t] = "writing" /\ u # t => pc[u] \notin {"reading", "writing"}

(* The UTILS_BUG_ON( swapped != 0 ) of ReaderUnlock and of WriterUnlock
   never fire: a release is never issued on top of one not yet consumed. *)
NoBug == \A t \in Threads : pc[t] # "bug"

(* Once no call is in flight the lock is as good as new: no release unit
   and no departure is left over for a later reader or writer to trip on. *)
Quiescent ==
    (\A t \in Threads : pc[t] = "idle") =>
        /\ pending = 0
        /\ departing = 0
        /\ releaseNReaders = 0
        /\ releaseWriter = 0
        /\ writerMutex = NoThread

(* The accounting behind the lock, one disjunct per position of the writer:
   how many readers it still has to see leave, and in which of the four
   counters each of them is recorded. *)
Settled ==
    /\ releaseNReaders = N("rwait")
    /\ N("rdepart") = 0
    /\ N("rsignal") = 0
    /\ departing = 0
    /\ releaseWriter = 0

PhaseInv ==
    \/ /\ Phase \in {"none", "wannounce", "wunlock"}
       /\ pending = N("reading") + N("rwait")
       /\ Settled
    \/ /\ Phase = "wrelease"
       /\ pending = N("reading") + N("rwait")
       /\ releaseNReaders = 0
       /\ seen[writerMutex] = N("rwait")
       /\ N("rdepart") = 0
       /\ N("rsignal") = 0
       /\ departing = 0
       /\ releaseWriter = 0
    \/ /\ Phase = "wdepart"
       /\ pending = N("reading") + N("rwait") - MaxReaders
       /\ releaseNReaders <= N("rwait")
       /\ seen[writerMutex] > 0
       /\ departing <= 0
       /\ seen[writerMutex] + departing = N("reading") + releaseNReaders + N("rdepart")
       /\ N("rsignal") = 0
       /\ releaseWriter = 0
    \/ /\ Phase = "wwait"
       /\ pending = N("reading") + N("rwait") - MaxReaders
       /\ releaseNReaders <= N("rwait")
       /\ departing = N("reading") + releaseNReaders + N("rdepart")
       /\ N("rsignal") + releaseWriter = IF departing = 0 THEN 1 ELSE 0
    \/ /\ Phase = "writing"
       /\ pending = N("rwait") - MaxReaders
       /\ releaseNReaders = 0
       /\ N("reading") = 0
       /\ N("rdepart") = 0
       /\ N("rsignal") = 0
       /\ departing = 0
       /\ releaseWriter = 0

(* Exactly the holder of the writer mutex is inside the writer functions. *)
MutexInv ==
    \A t \in Threads : pc[t] \in WriterPcs <=> writerMutex = t

(* The inductive invariant of the lock: the types, the writer mutex, the
   accounting of readers by phase, and no failed UTILS_BUG_ON. *)
RWLockInv == TypeOK /\ MutexInv /\ PhaseInv /\ NoBug

(* The lock as its users see it: who is inside. *)
Abstract == INSTANCE RWLockSpec
                WITH readers <- At("reading"), writers <- At("writing")

(* The lock implements the abstract reader-writer lock. *)
ImplementsRWLockSpec == Abstract!Spec

(* A writer that holds the writer mutex gets in: every reader it counted
   leaves, whichever reader took its release. *)
WriterGetsIn ==
    \A t \in Threads : pc[t] = "wannounce" ~> pc[t] = "writing"

(* Waiting readers are released: while some reader waits, some reader
   enters.  (Which one is left open: a late reader may take the release of
   an earlier one.) *)
ReadersReleased ==
    (\E t \in Threads : pc[t] = "rwait") ~> (\E t \in Threads : pc[t] = "reading")
=============================================================================

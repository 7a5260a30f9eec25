----------------------------- MODULE RWLockSpec -----------------------------
(***************************************************************************)
(* What a reader-writer lock promises to its users: any number of readers, *)
(* or one writer and no reader, hold it.  SCOREP_ReaderWriterLock.h        *)
(* (module RWLock) implements it; the buckets of the concurrent hash table *)
(* (module FastHashtab) rely on nothing else of it.                        *)
(***************************************************************************)
CONSTANTS Threads    \* the threads that use the lock

VARIABLES readers,   \* the threads inside a reader critical section
          writers    \* the threads inside a writer critical section

specVars == <<readers, writers>>

(* Nobody holds the lock. *)
SpecInit ==
    /\ readers = {}
    /\ writers = {}

(* A ReaderLock call returns: no writer is inside. *)
AcquireRead(t) ==
    /\ t \notin readers \cup writers
    /\ writers = {}
    /\ readers' = readers \cup {t}
    /\ UNCHANGED writers

(* A reader leaves its critical section. *)
ReleaseRead(t) ==
    /\ t \in readers
    /\ readers' = readers \ {t}
    /\ UNCHANGED writers

(* A WriterLock call returns: nobody else is inside. *)
AcquireWrite(t) ==
    /\ readers = {}
    /\ writers = {}
    /\ writers' = {t}
    /\ UNCHANGED readers

(* The writer leaves its critical section. *)
ReleaseWrite(t) ==
    /\ t \in writers
    /\ writers' = writers \ {t}
    /\ UNCHANGED readers

SpecNext ==
    \E t \in Threads :
        AcquireRead(t) \/ ReleaseRead(t) \/ AcquireWrite(t) \/ ReleaseWrite(t)

Spec == SpecInit /\ [][SpecNext]_specVars
=============================================================================

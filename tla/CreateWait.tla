----------------------------- MODULE CreateWait -----------------------------
(***************************************************************************)
(* The life of create/wait threads under measurement, and its end: POSIX   *)
(* threads begin on a location (a new one or one of an ended thread),      *)
(* record events there while the measurement phase is WITHIN, and end by   *)
(* returning, by pthread_exit or by cancellation; threads that Score-P did *)
(* not see being created (orphans) get a location with their first event.  *)
(* Meanwhile some thread calls scorep_finalize, which never waits for the  *)
(* others: it ends their locations for them.                               *)
(*                                                                         *)
(* src/src/measurement/thread/create_wait/*.c with the thread functions of *)
(* src/src/adapters/pthread/scorep_pthread_event.c, the location list and  *)
(* scorep_finalize.  An action is a section under one of the mutexes, or   *)
(* what a thread does between two accesses to data others change.  A read  *)
(* of scorep_measurement_phase is a step of its own: the event it allows   *)
(* is written later.                                                       *)
(***************************************************************************)
EXTENDS Integers, Sequences, FiniteSets

CONSTANTS Main,      \* the thread that initialized the measurement
          Created,   \* threads started by the wrapped pthread_create
          Foreign,   \* threads started behind Score-P's back: orphans
          Detached,  \* the created ones with PTHREAD_CREATE_DETACHED
          ReuseKey,  \* scorep_thread_create_wait_get_reuse_key; None: no reuse
          MaxNest,   \* regions a thread has open at a time (bound)
          None

Others == Created \cup Foreign
Threads == {Main} \cup Others
MainLocation == 1
Locations == 1..1 + Cardinality(Others)   \* a thread creates at most one

ASSUME CreateWaitAssumption ==
    /\ IsFiniteSet(Others) /\ Main \notin Others
    /\ Created \cap Foreign = {} /\ Detached \subseteq Created
    /\ DOMAIN ReuseKey = Others
    /\ MaxNest \in Nat \ {0} /\ None \notin Threads \cup Locations

ReuseKeys == {ReuseKey[t] : t \in Others}

VARIABLES phase,            \* scorep_measurement_phase: "within" or "post"
          nLocations,       \* length of the location list, in creation order
          activeLocations,  \* active_locations
          isFinalized,      \* is_finalized of the create/wait subsystem
          data,             \* data[l]: its subsystem data is set
          pool,             \* pool[k]: unused_tpds of reuse key k, latest first
          wrapped,          \* wrapped[l]: the pthread adapter's data->wrapped_arg
          stack,            \* stack[l]: depth of the task stack of location l
          record,           \* record[l]: what l's events amount to so far
          pc, at, nest,     \* per thread: control, location, open regions
          how,              \* how[t]: how its start routine was left
          held,             \* held[t]: TryTerminate told t to end the location
          fin, finalizer, cursor, late,  \* scorep_finalize: control, its thread,
                                         \* the location visited, as held
          quiet,            \* locations nobody was writing to at the barrier
          proc              \* "running", "exited" or "aborted"

listVars == <<nLocations, data, pool, wrapped>>
eventVars == <<stack, record>>
threadVars == <<pc, at, nest, how, held>>
finVars == <<phase, isFinalized, fin, finalizer, cursor, late, quiet>>
vars == <<phase, nLocations, activeLocations, isFinalized, data, pool, wrapped,
          stack, record, pc, at, nest, how, held, fin, finalizer, cursor, late,
          quiet, proc>>

Goto(t, l) == pc' = [pc EXCEPT ![t] = l]

Init ==
    /\ phase = "within"
    /\ nLocations = 1
    /\ activeLocations = 0
    /\ isFinalized = FALSE
    /\ data = [l \in Locations |-> FALSE]
    /\ pool = [k \in ReuseKeys |-> <<>>]
    /\ wrapped = [l \in Locations |-> None]
    /\ stack = [l \in Locations |-> 0]
    /\ record = [l \in Locations |-> IF l = MainLocation THEN "open" ELSE "closed"]
    /\ pc = [t \in Threads |-> IF t \in Created THEN "none" ELSE "run"]
    /\ at = [t \in Threads |-> IF t = Main THEN MainLocation ELSE None]
    /\ nest = [t \in Threads |-> 0]
    /\ how = [t \in Threads |-> "cancelled"]
    /\ held = [t \in Threads |-> FALSE]
    /\ fin = "none" /\ finalizer = None /\ cursor = 0 /\ late = FALSE
    /\ quiet = {}
    /\ proc = "running"

-----------------------------------------------------------------------------
(* What is written to a location: BEGIN, events, END.  The stream is broken
   for good once an event comes outside of BEGIN and END or END leaves
   regions open; l goes on as r if this one is legal. *)
Put(l, legal, r) == record' = [record EXCEPT ![l] = IF legal THEN r ELSE "broken"]

(* SCOREP_Task_Enter and SCOREP_Task_Exit. *)
PushRegion(l) == stack' = [stack EXCEPT ![l] = @ + 1]
PopRegion(l) == stack' = [stack EXCEPT ![l] = @ - 1]

(* SCOREP_Task_ExitAllRegions: an exit event for each open region. *)
ExitAllRegions(l) ==
    /\ stack' = [stack EXCEPT ![l] = 0]
    /\ IF stack[l] = 0 THEN UNCHANGED record ELSE Put(l, record[l] = "open", "open")

EndEvent(l) == Put(l, record[l] = "open" /\ stack[l] = 0, "closed")

Abort == proc' = "aborted"

-----------------------------------------------------------------------------
(* A thread begins: SCOREP_ThreadCreateWait_Begin, and orphan_begin. *)

(* Bug: the tpd reused stays in its pool. *)
PopKeeps(k) == UNCHANGED pool

(* pop_from_tpd_reuse_pool finds one. *)
Pop(k) == pool' = [pool EXCEPT ![k] = Tail(@)]

(* SCOREP_Location_CreateCPULocation: at the end of the list. *)
NewLocation(t) ==
    /\ nLocations' = nLocations + 1
    /\ at' = [at EXCEPT ![t] = nLocations + 1]

(* A pooled tpd with its location, or else a new location.  No mutex is held
   from here on. *)
TakeLocation(t) ==
    LET k == ReuseKey[t] IN
    /\ \/ /\ k # None /\ pool[k] # <<>>
          /\ at' = [at EXCEPT ![t] = Head(pool[k])]
          /\ Pop(k)
          /\ UNCHANGED nLocations
       \/ /\ k = None \/ pool[k] = <<>>
          /\ NewLocation(t)
          /\ UNCHANGED pool
    /\ Goto(t, "count")
    /\ UNCHANGED <<activeLocations, data, wrapped, eventVars, nest, how, held, finVars,
                   proc>>

(* scorep_thread_create_wait_on_begin, in the new thread. *)
OnBegin(t) == pc[t] = "created" /\ TakeLocation(t)

(* scorep_thread_create_wait_on_orphan_begin: an event finds its thread
   without a tpd. *)
OnOrphanBegin(t) == pc[t] = "event" /\ at[t] = None /\ TakeLocation(t)

(* init_thread: the counter under thread_create_mutex ... *)
Count(t) ==
    /\ pc[t] = "count"
    /\ activeLocations' = activeLocations + 1
    /\ Goto(t, "publish")
    /\ UNCHANGED <<listVars, eventVars, at, nest, how, held, finVars, proc>>

(* ... and the subsystem data under thread_subsystem_data_mutex. *)
Publish(t) ==
    /\ pc[t] = "publish"
    /\ data' = [data EXCEPT ![at[t]] = TRUE]
    /\ Goto(t, "begin")
    /\ UNCHANGED <<nLocations, pool, wrapped, activeLocations, eventVars, at, nest, how,
                   held, finVars, proc>>

(* The BEGIN event.  A created thread then leaves its wrapped_arg with the
   location and runs ... *)
Begin(t) ==
    LET l == at[t] IN
    /\ pc[t] = "begin" /\ t \in Created
    /\ Put(l, record[l] = "closed", "open")
    /\ wrapped' = [wrapped EXCEPT ![l] = t]
    /\ Goto(t, "run")
    /\ UNCHANGED <<nLocations, data, pool, activeLocations, stack, at, nest, how, held,
                   finVars, proc>>

(* ... an orphan goes on with the event that it came for. *)
OrphanBegin(t) ==
    LET l == at[t] IN
    /\ pc[t] = "begin" /\ t \in Foreign
    /\ Put(l, record[l] = "closed", "open")
    /\ Goto(t, "event")
    /\ UNCHANGED <<listVars, activeLocations, stack, at, nest, how, held, finVars, proc>>

-----------------------------------------------------------------------------
(* A thread runs. *)

(* SCOREP_IS_MEASUREMENT_PHASE( WITHIN ) of an adapter's wrapper: go on to
   the event, to pthread_exit, or past the measurement. *)
CheckPhase(t) ==
    /\ pc[t] = "run" /\ phase = "within"
    /\ \/ Goto(t, "event")
       \/ t \notin Foreign /\ Goto(t, "exit")
    /\ UNCHANGED <<listVars, activeLocations, eventVars, at, nest, how, held, finVars,
                   proc>>

Enter(t) ==
    LET l == at[t] IN
    /\ pc[t] = "event" /\ l # None /\ nest[t] < MaxNest
    /\ nest' = [nest EXCEPT ![t] = @ + 1]
    /\ PushRegion(l)
    /\ Put(l, record[l] = "open", "open")
    /\ Goto(t, "run")
    /\ UNCHANGED <<listVars, activeLocations, at, how, held, finVars, proc>>

(* task_pop_stack: UTILS_BUG_ON( ..., "Task stack underflow." ). *)
Exit(t) ==
    LET l == at[t] IN
    /\ pc[t] = "event" /\ l # None /\ nest[t] > 0
    /\ nest' = [nest EXCEPT ![t] = @ - 1]
    /\ Put(l, record[l] = "open" /\ stack[l] > 0, "open")
    /\ Goto(t, "run")
    /\ IF stack[l] = 0 THEN Abort /\ UNCHANGED stack
       ELSE PopRegion(l) /\ UNCHANGED proc
    /\ UNCHANGED <<listVars, activeLocations, at, how, held, finVars>>

(* pthread_create: its events, and a thread that has still to begin. *)
Create(t, u) ==
    LET l == at[t] IN
    /\ pc[t] = "event" /\ l # None
    /\ u \in Created /\ pc[u] = "none"
    /\ Put(l, record[l] = "open", "open")
    /\ pc' = [pc EXCEPT ![t] = "run", ![u] = "created"]
    /\ UNCHANGED <<listVars, activeLocations, stack, at, nest, how, held, finVars, proc>>

(* pthread_exit enters its region and asks for wrapped_arg; without one, it
   takes the caller for the main thread, exits the region and goes. *)
PthreadExit(t) ==
    LET l == at[t] IN
    /\ pc[t] = "exit"
    /\ Put(l, record[l] = "open", "open")
    /\ \/ /\ wrapped[l] = None
          /\ Goto(t, "takenformain")
          /\ UNCHANGED <<stack, how>>
       \/ /\ wrapped[l] # None
          /\ PushRegion(l)
          /\ how' = [how EXCEPT ![t] = "exited"]
          /\ Goto(t, "cleanup")
    /\ UNCHANGED <<listVars, activeLocations, at, nest, held, finVars, proc>>

(* The real pthread_exit: the main thread has no cleanup handler. *)
ExitTakenForMain(t) ==
    /\ pc[t] = "takenformain"
    /\ Goto(t, IF t = Main THEN "gone" ELSE "cleanup")
    /\ UNCHANGED <<listVars, activeLocations, eventVars, at, nest, how, held, finVars,
                   proc>>

(* The start routine returns (no regions open), and within the measurement
   marks the thread as not cancelled. *)
Return(t) ==
    /\ pc[t] = "run" /\ t \in Created /\ nest[t] = 0
    /\ IF phase = "within"
       THEN how' = [how EXCEPT ![t] = "returned"] /\ Goto(t, "cleanup")
       ELSE Goto(t, "gone") /\ UNCHANGED how
    /\ UNCHANGED <<listVars, activeLocations, eventVars, at, nest, held, finVars, proc>>

(* A created thread is cancelled, or leaves by the real pthread_exit, which
   the wrapper calls right away outside of the measurement; an orphan ends in
   any way.  An orphan without a location leaves no trace. *)
Leave(t) ==
    /\ pc[t] = "run" /\ t \in Others
    /\ Goto(t, IF at[t] = None THEN "gone" ELSE "cleanup")
    /\ UNCHANGED <<listVars, activeLocations, eventVars, at, nest, how, held, finVars,
                   proc>>

-----------------------------------------------------------------------------
(* A thread ends: cleanup_handler, and orphan_dtor.  Both check the phase,
   and leave what ends later to scorep_finalize. *)

IfWithin(t) ==
    /\ Goto(t, IF phase = "within" THEN "tryterminate" ELSE "gone")
    /\ UNCHANGED <<listVars, activeLocations, eventVars, at, nest, how, held, finVars,
                   proc>>

CleanupCheck(t) == pc[t] = "cleanup" /\ t \notin Foreign /\ IfWithin(t)

OrphanDtor(t) == pc[t] = "cleanup" /\ t \in Foreign /\ IfWithin(t)

(* Bug: TryTerminate leaves the subsystem data set. *)
TakeKeeps(l) == UNCHANGED data

(* SCOREP_ThreadCreateWait_TryTerminate: take the subsystem data. *)
Take(l) == data' = [data EXCEPT ![l] = FALSE]

(* cleanup_handler has read data->wrapped_arg and uses it in any case. *)
TryTerminate(t) ==
    LET l == at[t]
        lost == t \in Created /\ wrapped[l] = None
    IN
    /\ pc[t] = "tryterminate"
    /\ \/ /\ isFinalized \/ lost
          /\ Abort
          /\ UNCHANGED <<data, held, pc>>
       \/ /\ ~isFinalized /\ ~lost
          /\ Take(l)
          /\ held' = [held EXCEPT ![t] = data[l]]
          /\ Goto(t, IF data[l] THEN "exitregions" ELSE "recycle")
          /\ UNCHANGED proc
    /\ UNCHANGED <<nLocations, pool, wrapped, activeLocations, eventVars, at, nest, how,
                   finVars>>

(* Bug: the regions of a thread that called pthread_exit stay open. *)
ExitRegionsIfCancelled(t) ==
    /\ pc[t] = "exitregions" /\ t \in Created
    /\ IF how[t] = "cancelled" THEN ExitAllRegions(at[t]) ELSE UNCHANGED eventVars
    /\ Goto(t, "end")
    /\ UNCHANGED <<listVars, activeLocations, at, nest, how, held, finVars, proc>>

(* cleanup_handler: the regions left open, pthread_exit's own included. *)
ExitRegions(t) ==
    /\ pc[t] = "exitregions" /\ t \in Created
    /\ IF how[t] # "returned" THEN ExitAllRegions(at[t]) ELSE UNCHANGED eventVars
    /\ Goto(t, "end")
    /\ UNCHANGED <<listVars, activeLocations, at, nest, how, held, finVars, proc>>

(* orphan_dtor: the regions left open, in whichever way it ended. *)
OrphanExitRegions(t) ==
    /\ pc[t] = "exitregions" /\ t \in Foreign
    /\ ExitAllRegions(at[t])
    /\ Goto(t, "end")
    /\ UNCHANGED <<listVars, activeLocations, at, nest, how, held, finVars, proc>>

(* SCOREP_ThreadCreateWait_End, and orphan_end: the END event ... *)
ToPush(t) ==
    /\ EndEvent(at[t])
    /\ Goto(t, "push")
    /\ UNCHANGED <<listVars, activeLocations, stack, at, nest, how, held, finVars, proc>>

End(t) == pc[t] = "end" /\ t \notin Foreign /\ ToPush(t)

OrphanEnd(t) == pc[t] = "end" /\ t \in Foreign /\ ToPush(t)

(* ... on_end, on_orphan_end: the thread has no tpd any more, the pool may
   have it ... *)
Push(t) ==
    LET k == ReuseKey[t] IN
    /\ pc[t] = "push"
    /\ pool' = IF k = None THEN pool ELSE [pool EXCEPT ![k] = <<at[t]>> \o @]
    /\ Goto(t, "terminate")
    /\ UNCHANGED <<nLocations, data, wrapped, activeLocations, eventVars, at, nest, how,
                   held, finVars, proc>>

(* Bug: the counter is decremented by the location's END and here. *)
TerminateThreadTwice == activeLocations' = activeLocations - 2

(* ... terminate_thread. *)
TerminateThread == activeLocations' = activeLocations - 1

Terminate(t) ==
    /\ pc[t] = "terminate"
    /\ TerminateThread
    /\ held' = [held EXCEPT ![t] = FALSE]
    /\ Goto(t, "recycle")
    /\ UNCHANGED <<listVars, eventVars, at, nest, how, finVars, proc>>

(* cleanup_handler gives away a wrapped_arg nobody will join, and clears the
   location's pointer. *)
Recycle(t) ==
    /\ pc[t] = "recycle"
    /\ wrapped' = IF t \in Created /\ (how[t] = "cancelled" \/ t \in Detached)
                  THEN [wrapped EXCEPT ![at[t]] = None] ELSE wrapped
    /\ Goto(t, "gone")
    /\ UNCHANGED <<nLocations, data, pool, activeLocations, eventVars, at, nest, how,
                   held, finVars, proc>>

-----------------------------------------------------------------------------
(* scorep_finalize, on whichever measured thread calls exit(). *)

Finalize(t) ==
    /\ fin = "none" /\ pc[t] = "run" /\ at[t] # None
    /\ finalizer' = t
    /\ fin' = "barrier"
    /\ Goto(t, "finalizing")
    /\ UNCHANGED <<phase, isFinalized, cursor, late, quiet, listVars, activeLocations,
                   eventVars, at, nest, how, held, proc>>

(* "This barrier should prevent entering events from outside." *)
Barrier ==
    /\ fin = "barrier"
    /\ phase' = "post"
    /\ quiet' = {at[t] : t \in {u \in Threads : pc[u] \in {"run", "finalizing"}}} \ {None}
    /\ fin' = "own"
    /\ UNCHANGED <<isFinalized, finalizer, cursor, late, listVars, activeLocations,
                   eventVars, threadVars, proc>>

(* The caller's own regions, then create_wait_subsystem_end. *)
ExitOwnRegions ==
    /\ fin = "own"
    /\ ExitAllRegions(at[finalizer])
    /\ cursor' = 1
    /\ fin' = "visit"
    /\ UNCHANGED <<phase, isFinalized, finalizer, late, quiet, listVars, activeLocations,
                   threadVars, proc>>

(* Bug: the walk does not follow the list. *)
AdvanceNot ==
    /\ UNCHANGED cursor
    /\ fin' = IF cursor < nLocations THEN "visit" ELSE "epoch"

(* SCOREP_Location_ForAll( end_latecomer ): the list may grow meanwhile. *)
Advance ==
    /\ cursor' = cursor + 1
    /\ fin' = IF cursor < nLocations THEN "visit" ELSE "epoch"

Visit ==
    /\ fin = "visit"
    /\ Take(cursor)
    /\ late' = data[cursor]
    /\ IF data[cursor] THEN fin' = "lateregions" /\ UNCHANGED cursor ELSE Advance
    /\ UNCHANGED <<phase, isFinalized, finalizer, quiet, nLocations, pool, wrapped,
                   activeLocations, eventVars, threadVars, proc>>

(* Bug: end_latecomer does not exit the regions of the other thread. *)
LateExitRegionsNot ==
    /\ fin = "lateregions"
    /\ fin' = "lateend"
    /\ UNCHANGED <<phase, isFinalized, finalizer, cursor, late, quiet, listVars,
                   activeLocations, eventVars, threadVars, proc>>

LateExitRegions ==
    /\ fin = "lateregions"
    /\ ExitAllRegions(cursor)
    /\ fin' = "lateend"
    /\ UNCHANGED <<phase, isFinalized, finalizer, cursor, late, quiet, listVars,
                   activeLocations, threadVars, proc>>

LateEnd ==
    /\ fin = "lateend"
    /\ EndEvent(cursor)
    /\ fin' = "lateterminate"
    /\ UNCHANGED <<phase, isFinalized, finalizer, cursor, late, quiet, listVars,
                   activeLocations, stack, threadVars, proc>>

LateTerminate ==
    /\ fin = "lateterminate"
    /\ TerminateThread
    /\ late' = FALSE
    /\ Advance
    /\ UNCHANGED <<phase, isFinalized, finalizer, quiet, listVars, eventVars, threadVars,
                   proc>>

(* end_epoch: the regions open on the main thread's location, PROGRAM_END. *)
EndEpoch ==
    /\ fin = "epoch"
    /\ stack' = [stack EXCEPT ![MainLocation] = 0]
    /\ Put(MainLocation, record[MainLocation] = "open", "closed")
    /\ fin' = "locations"
    /\ UNCHANGED <<phase, isFinalized, finalizer, cursor, late, quiet, listVars,
                   activeLocations, threadVars, proc>>

(* SCOREP_Thread_InParallel *)
InParallel == ~isFinalized /\ activeLocations > 1

(* SCOREP_Location_FinalizeLocations: UTILS_BUG_ON( ..., "Threads other than
   the master active." ), then every location loses its page managers. *)
FinalizeLocations ==
    /\ fin = "locations"
    /\ IF InParallel THEN Abort /\ UNCHANGED fin ELSE fin' = "subsystems" /\ UNCHANGED proc
    /\ UNCHANGED <<phase, isFinalized, finalizer, cursor, late, quiet, listVars,
                   activeLocations, eventVars, threadVars>>

(* create_wait_subsystem_finalize. *)
FinalizeSubsystems ==
    /\ fin = "subsystems"
    /\ isFinalized' = TRUE
    /\ fin' = "list"
    /\ UNCHANGED <<phase, finalizer, cursor, late, quiet, listVars, activeLocations,
                   eventVars, threadVars, proc>>

(* SCOREP_Location_Finalize; the program ends. *)
LocationFinalize ==
    /\ fin = "list"
    /\ proc' = IF InParallel THEN "aborted" ELSE "exited"
    /\ UNCHANGED <<finVars, listVars, activeLocations, eventVars, threadVars>>

-----------------------------------------------------------------------------
Thread(t) ==
    \/ OnBegin(t) \/ Count(t) \/ Publish(t) \/ Begin(t)
    \/ CheckPhase(t) \/ Enter(t) \/ Exit(t) \/ \E u \in Created : Create(t, u)
    \/ PthreadExit(t) \/ ExitTakenForMain(t) \/ Return(t) \/ Leave(t)
    \/ CleanupCheck(t) \/ TryTerminate(t) \/ ExitRegions(t) \/ End(t) \/ Push(t)
    \/ Terminate(t) \/ Recycle(t)
    \/ OnOrphanBegin(t) \/ OrphanBegin(t)
    \/ OrphanDtor(t) \/ OrphanExitRegions(t) \/ OrphanEnd(t)

Finalizer ==
    \/ Barrier \/ ExitOwnRegions \/ Visit \/ LateExitRegions \/ LateEnd
    \/ LateTerminate \/ EndEpoch \/ FinalizeLocations \/ FinalizeSubsystems
    \/ LocationFinalize

Next ==
    /\ proc = "running"
    /\ Finalizer \/ \E t \in Threads : Thread(t) \/ Finalize(t)

Spec == Init /\ [][Next]_vars

(* The thread in scorep_finalize keeps running; the others need not. *)
FairSpec == Spec /\ WF_vars(proc = "running" /\ Finalizer)
-----------------------------------------------------------------------------
Pcs == {"none", "created", "count", "publish", "begin", "run", "event", "exit",
        "takenformain", "cleanup", "tryterminate", "exitregions", "end", "push",
        "terminate", "recycle", "gone", "finalizing"}
Fins == {"none", "barrier", "own", "visit", "lateregions", "lateend",
         "lateterminate", "epoch", "locations", "subsystems", "list"}

(* The values of the create/wait data; active_locations, a uint32_t, never
   wraps below zero and never exceeds the threads that there are. *)
TypeOK ==
    /\ phase \in {"within", "post"}
    /\ nLocations \in Locations
    /\ activeLocations \in 0..Cardinality(Others)
    /\ isFinalized \in BOOLEAN
    /\ data \in [Locations -> BOOLEAN]
    /\ pool \in [ReuseKeys -> Seq(Locations)]
    /\ wrapped \in [Locations -> Created \cup {None}]
    /\ stack \in [Locations -> 0..MaxNest + 1]
    /\ record \in [Locations -> {"closed", "open", "broken"}]
    /\ pc \in [Threads -> Pcs]
    /\ at \in [Threads -> Locations \cup {None}]
    /\ nest \in [Threads -> 0..MaxNest]
    /\ how \in [Threads -> {"cancelled", "returned", "exited"}]
    /\ held \in [Threads -> BOOLEAN]
    /\ fin \in Fins
    /\ finalizer \in Threads \cup {None}
    /\ cursor \in 0..Cardinality(Locations) + 1
    /\ late \in BOOLEAN
    /\ quiet \subseteq Locations
    /\ proc \in {"running", "exited", "aborted"}

(* The threads whose tpd refers to location l. *)
Users(l) == {t \in Threads : at[t] = l /\ pc[t] \notin {"terminate", "recycle", "gone"}}

(* A location is never shared: two threads that both write events to it, or
   a thread and the reuse pool, never own one location at a time, however
   the end of one thread and the begin of the next interleave. *)
LocationExclusive ==
    LET pooled(l) == {s \in ReuseKeys \X Locations :
                          s[2] <= Len(pool[s[1]]) /\ pool[s[1]][s[2]] = l}
    IN \A l \in Locations : Cardinality(Users(l)) + Cardinality(pooled(l)) <= 1

(* "Ensure that only one caller gets the OK to terminate the thread": the
   thread itself and the finalizing thread never both end a location, and
   neither ends one that is still announced as running. *)
TerminatedOnce ==
    \A l \in Locations :
        Cardinality({t \in Threads : held[t] /\ at[t] = l /\ pc[t] # "terminate"})
        + (IF data[l] THEN 1 ELSE 0) + (IF late /\ cursor = l THEN 1 ELSE 0) <= 1

(* As long as nobody finalizes, every location's events are well-formed:
   BEGIN, nested regions, END, and again when the location is reused,
   however its threads ended. *)
WithinWellFormed ==
    phase = "within" => \A l \in Locations : record[l] # "broken"

(* A thread that was not in the measurement when scorep_finalize set the
   phase is safe: its location is ended for it exactly once, all of its
   regions are exited, and it writes nothing more. *)
QuietComplete ==
    fin \in {"locations", "subsystems", "list"} =>
        \A l \in quiet : record[l] = "closed"

(* scorep_finalize ends, without the cooperation of any other thread. *)
FinalizeEnds == fin # "none" ~> proc # "running"

(* The UTILS_BUG_ON "Threads other than the master active." keeps locations
   from losing their memory while another thread is between its begin and
   its end. *)
FinalizedAlone == [][fin = "locations" /\ fin' = "subsystems" => activeLocations = 0]_vars

(* "Main thread called pthread_exit()." holds of the thread of which
   pthread_exit says so. *)
NotTakenForMain == \A t \in Created : pc[t] # "takenformain"
-----------------------------------------------------------------------------
(* The inductive invariant. *)

(* Thread t has a tpd and may use it. *)
Using(t) == at[t] # None /\ pc[t] \notin {"terminate", "recycle", "gone"}

InPool(l) == \E k \in ReuseKeys : \E i \in 1..Len(pool[k]) : pool[k][i] = l

(* Between BEGIN, which it is about to write, and TryTerminate. *)
Open == {"begin", "run", "event", "exit", "takenformain", "cleanup", "tryterminate",
         "finalizing"}
Ending == {"exitregions", "end", "push", "terminate"}
LateSteps == {"lateregions", "lateend", "lateterminate"}

(* Control: who has a location, which threads end theirs, and how. *)
ThreadOK(t) ==
    /\ at[t] = None => /\ pc[t] \in {"none", "created", "run", "event", "gone"}
                       /\ pc[t] \in {"run", "event"} => t \in Foreign
    /\ pc[t] \in {"none", "created"} => at[t] = None
    /\ t = Main => /\ at[t] = MainLocation
                   /\ pc[t] \in {"run", "event", "exit", "takenformain", "gone", "finalizing"}
    /\ held[t] <=> pc[t] \in Ending
    /\ how[t] # "cancelled" =>
         pc[t] \in {"cleanup", "tryterminate", "recycle", "gone"} \cup Ending
    /\ how[t] = "returned" \/ at[t] = None \/ pc[t] \in {"count", "publish", "begin"}
         => nest[t] = 0

FinalizerOK ==
    /\ fin # "none" => finalizer \in Threads /\ pc[finalizer] = "finalizing"
    /\ phase = "within" <=> fin \in {"none", "barrier"}
    /\ late <=> fin \in LateSteps
    /\ fin \in {"visit"} \cup LateSteps => cursor \in 1..nLocations

(* Locations have one user, which may be a pool; there are enough of them. *)
LocationsOwned ==
    /\ \A t \in Threads : at[t] # None =>
         /\ at[t] <= nLocations
         /\ at[t] = MainLocation => t = Main
    /\ \A t, u \in Threads : Using(t) /\ Using(u) /\ at[t] = at[u] => t = u
    /\ \A t \in Threads : Using(t) => ~InPool(at[t])
    /\ \A l \in Locations : InPool(l) => l \in 2..nLocations
    /\ \A k, m \in ReuseKeys : \A i \in 1..Len(pool[k]), j \in 1..Len(pool[m]) :
         pool[k][i] = pool[m][j] => k = m /\ i = j
    /\ nLocations <= 1 + Cardinality({t \in Others : at[t] # None})

(* Somebody has still to end location l: it is announced, or being ended late. *)
Announced(l) == data[l] \/ (late /\ cursor = l)

LocationsAnnounced ==
    /\ late => ~data[cursor]
    /\ \A l \in Locations : Announced(l) =>
         /\ l \in 2..nLocations /\ ~InPool(l)
         /\ \A t \in Threads : Using(t) /\ at[t] = l => pc[t] \in Open
    /\ phase = "within" => \A t \in Others : Using(t) /\ pc[t] \in Open => data[at[t]]

(* The region of pthread_exit itself *)
OwnRegion(t) == IF how[t] = "exited" THEN 1 ELSE 0

StacksBounded ==
    /\ \A t \in Threads : Using(t) =>
         stack[at[t]] <= IF pc[t] \in {"end", "push"} THEN 0 ELSE nest[t] + OwnRegion(t)
    /\ \A l \in Locations : l > nLocations \/ InPool(l) => stack[l] = 0

(* As long as nobody finalizes, events and stacks are those of the threads. *)
WithinInv ==
    phase = "within" =>
      /\ \A t \in Threads : Using(t) =>
           /\ record[at[t]] = IF pc[t] \in {"count", "publish", "begin", "push"}
                              THEN "closed" ELSE "open"
           /\ pc[t] \notin {"end", "push"} => stack[at[t]] = nest[t] + OwnRegion(t)
      /\ \A l \in Locations : l > nLocations \/ InPool(l) => record[l] = "closed"
      /\ \A l \in Locations : record[l] # "broken"

(* scorep_finalize has written the END of location l. *)
Ended(l) ==
    \/ fin \in {"locations", "subsystems", "list"}
    \/ /\ l # MainLocation
       /\ \/ fin = "epoch"
          \/ fin \in {"visit"} \cup LateSteps /\ l < cursor
          \/ fin = "lateterminate" /\ l = cursor

QuietInv ==
    phase = "post" => \A l \in quiet :
      /\ l <= nLocations /\ ~InPool(l)
      /\ \A t \in Threads : Using(t) /\ at[t] = l => pc[t] \in {"run", "cleanup", "finalizing"}
      /\ IF Ended(l) THEN record[l] = "closed"
         ELSE /\ record[l] = "open" /\ (l # MainLocation => Announced(l))
              /\ fin = "lateend" /\ l = cursor => stack[l] = 0

(* active_locations counts the threads that are about to announce their
   location or end it, the locations announced, and the one ended late. *)
ActiveCounted ==
    /\ activeLocations =
         Cardinality({t \in Threads : pc[t] \in {"publish"} \cup Ending})
         + Cardinality({l \in Locations : data[l]}) + (IF late THEN 1 ELSE 0)
    /\ activeLocations <= Cardinality({t \in Others : at[t] # None /\ pc[t] # "count"})

CreateWaitInv ==
    /\ TypeOK /\ \A t \in Threads : ThreadOK(t)
    /\ FinalizerOK /\ LocationsOwned /\ LocationsAnnounced
    /\ StacksBounded /\ WithinInv /\ QuietInv /\ ActiveCounted
    /\ wrapped[MainLocation] = None
=============================================================================

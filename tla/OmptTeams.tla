----------------------------- MODULE OmptTeams -----------------------------
(***************************************************************************)
(* Parallel regions as the OMPT adapter records them.  A member of a team  *)
(* gets the location of its index, not of its thread.  The OpenMP runtime  *)
(* reports the end of a worker's barrier and implicit task whenever it     *)
(* likes, often after another thread was given the same index in a later   *)
(* region; that thread then writes the overdue events for it.              *)
(*                                                                         *)
(* src/src/adapters/ompt/scorep_ompt_events_host.inc.c with the fork/join  *)
(* layer it calls (src/src/measurement/thread/fork_join/).  The runtime is *)
(* external: one thread opens the regions, the team is a set of indices,   *)
(* each taken by any thread that has nothing pending, and nobody leaves a  *)
(* barrier before all members reached it.  An action is a section under    *)
(* protect_task_exchange or what a thread does between two accesses to     *)
(* data others change; each read of the clock is a step of its own when it *)
(* may come after a decision it belongs to.                                *)
(***************************************************************************)
EXTENDS Integers, FiniteSets, SequencesExt

CONSTANTS Primary,     \* the thread that encounters the parallel constructs
          Workers,     \* the runtime's other threads
          Regions,     \* number of parallel regions (bound)
          Sizes,       \* team sizes the runtime may grant
          Recording,   \* values SCOREP_RecordingEnabled may return
          Tick,        \* what the clock advances by from one read to the next;
                       \* 0: all reads fall into one tick of a coarse timer
          InitialTask, \* initial_task
          None

Threads == {Primary} \cup Workers
Indices == 0..Cardinality(Workers)    \* of team members, and their locations
Parallels == 1..Regions               \* parallel_t objects

(* On behalf of which callback a thread writes the end of a task *)
Callers == {"sync_region", "finalize_tool", "overdue", "implicit_task"}

ASSUME OmptTeamsAssumption ==
    /\ IsFiniteSet(Workers) /\ Primary \notin Workers
    /\ Regions \in Nat \ {0}
    /\ Sizes \subseteq 1..1 + Cardinality(Workers) /\ Sizes # {}
    /\ Recording \subseteq BOOLEAN /\ Recording # {}
    /\ Tick \in {0, 1}
    /\ InitialTask \notin Threads /\ None \notin Threads \cup {InitialTask} \cup Callers

VARIABLES
    \* the runtime's
    region,        \* number of the region opened last
    size, taken, arrived,  \* its team: size, indices taken, members at the barrier
    parallelData,  \* parallel_data->ptr of that region
    taskData,      \* task_data->ptr of the implicit task a thread executes
    \* the adapter's
    parallel, parallelFree,  \* parallel_t objects and their free list
    task, taskFree,          \* task_t objects and the thread-local free lists
    stored,                  \* stored_data->task, per location
    isOmpt, preserveOrder,   \* stored_data's is_ompt_location and preserve_order
    finalizing, finalizeTool,  \* scorep_ompt_finalizing_tool, and a mutex
    \* the measurement core's
    team,          \* thread team of the tpd of an index
    lastTimestamp, \* last_timestamp of a location
    events,        \* the last event written to a location
    clock,
    bug,           \* the assertion that failed, if one did
    \* per thread
    pc, index,
    object,        \* the task whose end a thread writes
    caller,        \* and on behalf of which callback
    stamp          \* local variable timestamp

runtimeVars == <<region, size, taken, arrived, parallelData, taskData>>
poolVars == <<parallel, parallelFree, task, taskFree>>
locationVars == <<stored, isOmpt, preserveOrder, team>>
eventVars == <<lastTimestamp, events, clock>>
threadVars == <<pc, index, object, caller, stamp>>
endVars == <<finalizing, finalizeTool>>
vars == <<runtimeVars, poolVars, locationVars, eventVars, threadVars, endVars, bug>>

Goto(t, l) == pc' = [pc EXCEPT ![t] = l]

Init ==
    /\ region = 0 /\ size = 1 /\ taken = {} /\ arrived = 0 /\ parallelData = None
    /\ taskData = [t \in Threads |-> None]
    /\ parallel = [o \in Parallels |->
                     [no |-> 0, ref |-> 0, barrierEnd |-> 0, taskEnd |-> 0, recorded |-> FALSE]]
    /\ parallelFree = <<>>
    /\ task = [x \in Threads |-> [parallel |-> None, index |-> 0, overdue |-> FALSE, syncs |-> 0]]
    /\ taskFree = [t \in Threads |-> <<>>]
    /\ stored = [l \in Indices |-> IF l = 0 THEN InitialTask ELSE None]
    /\ isOmpt = [l \in Indices |-> FALSE]
    /\ preserveOrder = [l \in Indices |-> FALSE]
    /\ finalizing = FALSE /\ finalizeTool = FALSE
    /\ team = [l \in Indices |-> 0]
    /\ lastTimestamp = [l \in Indices |-> 0]
    /\ events = [l \in Indices |-> [kind |-> "none", no |-> 0, team |-> 0]]
    /\ clock = 1
    /\ bug = None
    /\ pc = [t \in Threads |-> IF t = Primary THEN "serial" ELSE "idle"]
    /\ index = [t \in Threads |-> 0]
    /\ object = [t \in Threads |-> None]
    /\ caller = [t \in Threads |-> None]
    /\ stamp = [t \in Threads |-> 0]

-----------------------------------------------------------------------------
(* The callback is over: its local variables are gone, and a worker that
   leaves the team gives its index back. *)
Return(t, l) ==
    /\ Goto(t, l)
    /\ index' = IF l = "idle" THEN [index EXCEPT ![t] = 0] ELSE index
    /\ object' = [object EXCEPT ![t] = None] /\ caller' = [caller EXCEPT ![t] = None]
    /\ stamp' = [stamp EXCEPT ![t] = 0]

(* UTILS_BUG_ON: the process aborts. *)
BugOn(condition, label) == bug' = IF condition THEN label ELSE bug

(* SCOREP_Timer_GetClockTicks. *)
Now == clock + Tick

(* An event of region no after event e of the same location.  FORK and JOIN
   enclose the region on the primary's location; "begin" stands for TEAM_BEGIN
   and the enter of the region, "end" for its exit and TEAM_END. *)
Follows(e, kind, no) ==
    CASE kind = "fork" -> e.kind \in {"none", "join"}
      [] kind = "join" -> e.kind = "end" /\ e.no = no
      [] kind = "begin" -> e.kind \in {"none", "end"} \/ (e.kind = "fork" /\ e.no = no)
      [] kind = "barrier_enter" -> e.kind = "begin" /\ e.no = no
      [] kind = "barrier_exit" -> e.kind = "barrier_enter" /\ e.no = no
      [] kind = "end" -> e.kind \in {"begin", "barrier_exit"} /\ e.no = no

(* It is written to the location, whose stream is broken for good if it does
   not fit; tm is the team it names. *)
Put(l, kind, no, tm) ==
    events' = [events EXCEPT ![l] =
                 [kind |-> IF Follows(@, kind, no) THEN kind ELSE "broken",
                  no |-> no, team |-> tm]]

(* SCOREP_Location_SetLastTimestamp. *)
SetLastTimestamp(l, s) ==
    /\ BugOn(s < lastTimestamp[l], "timestamp order")
    /\ lastTimestamp' = [lastTimestamp EXCEPT ![l] = s]

(* get_parallel_region_from_pool: the head of the free list, or a new one. *)
PooledParallel ==
    IF parallelFree # <<>> THEN Head(parallelFree)
    ELSE CHOOSE o \in Parallels : parallel[o].no = 0
TakeParallel ==
    parallelFree' = IF parallelFree # <<>> THEN Tail(parallelFree) ELSE parallelFree

(* release_parallel_region.  Its wait for ref_count to be set is the guard. *)
ReleaseParallel(o) ==
    /\ parallel[o].ref >= 0
    /\ parallel' = [parallel EXCEPT ![o].ref = @ - 1]
    /\ parallelFree' = IF parallel[o].ref = 1 THEN <<o>> \o parallelFree ELSE parallelFree

(* get_task_from_pool.  In a thread's own list there is the one object it ever
   allocates, named like the thread, unless another is returned there. *)
PooledTask(t) == IF taskFree[t] # <<>> THEN Head(taskFree[t]) ELSE t

-----------------------------------------------------------------------------
(* A region opens and its team begins. *)

(* scorep_ompt_cb_host_parallel_begin with SCOREP_ThreadForkJoin_Fork.  The
   runtime decides on the team it is going to grant. *)
ParallelBegin ==
    /\ pc[Primary] = "serial" /\ region < Regions
    /\ \E n \in Sizes, recorded \in Recording :
         /\ size' = n
         /\ parallel' = [parallel EXCEPT ![PooledParallel] =
                           [no |-> region + 1, ref |-> -1, barrierEnd |-> 0,
                            taskEnd |-> 0, recorded |-> recorded]]
    /\ parallelData' = PooledParallel /\ TakeParallel
    /\ region' = region + 1 /\ taken' = {} /\ arrived' = 0
    /\ Put(0, "fork", region + 1, 0)
    /\ BugOn(stored[0] = None, "parallel_begin: no stored task")
    /\ stored' = [stored EXCEPT ![0] = None]
    /\ Goto(Primary, "forked")
    /\ UNCHANGED <<taskData, task, taskFree, isOmpt, preserveOrder, team, lastTimestamp,
                   clock, index, object, caller, stamp, endVars>>

(* ref_count: the members' releases and the one of parallel_end. *)
InitRefCount(o) == parallel' = [parallel EXCEPT ![o].ref = size + 1]

(* scorep_ompt_cb_host_implicit_task begins: the primary sets the reference
   count, a worker takes any index that is left. *)
ImplicitTaskBegin(t) ==
    /\ IF t = Primary
       THEN /\ pc[t] = "forked"
            /\ InitRefCount(parallelData)
            /\ UNCHANGED <<taken, index>>
       ELSE /\ pc[t] = "idle" /\ region > 0
            /\ \E i \in (1..size - 1) \ taken :
                 taken' = taken \cup {i} /\ index' = [index EXCEPT ![t] = i]
            /\ UNCHANGED parallel
    /\ Goto(t, "team_begin")
    /\ UNCHANGED <<region, size, arrived, parallelData, taskData, parallelFree, task,
                   taskFree, locationVars, eventVars, object, caller, stamp, endVars, bug>>

(* scorep_thread_on_team_begin takes the current time ... *)
TeamBeginClock(t) ==
    /\ pc[t] = "team_begin"
    /\ stamp' = [stamp EXCEPT ![t] = Now] /\ clock' = Now
    /\ Goto(t, "team_check")
    /\ UNCHANGED <<runtimeVars, poolVars, locationVars, lastTimestamp, events, index,
                   object, caller, endVars, bug>>

(* ... and compares it with the location's.  The tpd of the index, used by
   every team with such a member, now belongs to this team. *)
TeamBeginCheck(t) ==
    /\ pc[t] = "team_check"
    /\ BugOn(lastTimestamp[index[t]] > stamp[t], "timestamp order at team_begin")
    /\ team' = [team EXCEPT ![index[t]] = size]
    /\ stamp' = [stamp EXCEPT ![t] = 0]
    /\ Goto(t, "overdue")
    /\ UNCHANGED <<runtimeVars, poolVars, stored, isOmpt, preserveOrder, eventVars,
                   index, object, caller, endVars>>

MarkOverdue(x) == task' = [task EXCEPT ![x].overdue = TRUE]

(* scorep_ompt_subsystem_trigger_overdue_events: whoever takes the stored task
   writes its end; if someone else did, wait until it is written. *)
TriggerOverdue(t) ==
    LET l == index[t]
        x == stored[l]
    IN  /\ pc[t] = "overdue"
        /\ \/ /\ isOmpt[l] /\ x # None
              /\ MarkOverdue(x)
              /\ stored' = [stored EXCEPT ![l] = None]
              /\ object' = [object EXCEPT ![t] = x]
              /\ caller' = [caller EXCEPT ![t] = "overdue"]
              /\ Goto(t, "barrier_end")
           \/ /\ isOmpt[l] => x = None
              /\ Goto(t, IF isOmpt[l] THEN "wait_order" ELSE "task_begin")
              /\ UNCHANGED <<task, stored, object, caller>>
        /\ UNCHANGED <<runtimeVars, parallel, parallelFree, taskFree, isOmpt,
                       preserveOrder, team, eventVars, index, stamp, endVars, bug>>

(* Bug: the new member does not wait. *)
OrderPreservedAlways(l) == TRUE

(* UTILS_MutexWait( preserve_order ). *)
OrderPreserved(l) == ~preserveOrder[l]

WaitOrder(t) ==
    /\ pc[t] = "wait_order"
    /\ OrderPreserved(index[t])
    /\ Goto(t, "task_begin")
    /\ UNCHANGED <<runtimeVars, poolVars, locationVars, eventVars, index, object,
                   caller, stamp, endVars, bug>>

(* The rest of the callback: TEAM_BEGIN and the enter of the parallel region,
   a task object, stored for whoever gets the location next. *)
TaskBegin(t) ==
    LET l == index[t]
        x == PooledTask(t)
    IN  /\ pc[t] = "task_begin"
        /\ Put(l, "begin", parallel[parallelData].no, team[l])
        /\ clock' = Now /\ lastTimestamp' = [lastTimestamp EXCEPT ![l] = Now]
        /\ task' = [task EXCEPT ![x] =
                      [parallel |-> parallelData, index |-> l, overdue |-> FALSE, syncs |-> 0]]
        /\ taskFree' = [taskFree EXCEPT ![t] = IF @ = <<>> THEN @ ELSE Tail(@)]
        /\ taskData' = [taskData EXCEPT ![t] = x]
        /\ isOmpt' = [isOmpt EXCEPT ![l] = TRUE]
        /\ BugOn(stored[l] # None, "implicit_task: a task is stored")
        /\ stored' = [stored EXCEPT ![l] = x]
        /\ Return(t, "running")
        /\ UNCHANGED <<region, size, taken, arrived, parallelData, parallel, parallelFree,
                       preserveOrder, team, endVars>>

-----------------------------------------------------------------------------
(* The implicit barrier, and the end of the implicit task. *)

(* sync_region begins: the implicit barrier.  There is none for a team of one. *)
BarrierBegin(t) ==
    LET x == taskData[t]
        o == task[x].parallel
    IN  /\ pc[t] = "running" /\ size > 1
        /\ task' = [task EXCEPT ![x].syncs = @ + 1]
        /\ IF parallel[o].recorded
           THEN /\ Put(index[t], "barrier_enter", parallel[o].no, team[index[t]])
                /\ clock' = Now
                /\ lastTimestamp' = [lastTimestamp EXCEPT ![index[t]] = Now]
           ELSE UNCHANGED eventVars
        /\ arrived' = arrived + 1
        /\ Goto(t, "barrier")
        /\ UNCHANGED <<region, size, taken, parallelData, taskData, parallel, parallelFree,
                       taskFree, locationVars, index, object, caller, stamp, endVars, bug>>

(* sync_region ends, reported at any time after the last member arrived.  The
   thread now acts for its own task. *)
SyncRegionEnd(t) ==
    LET no == parallel[task[taskData[t]].parallel].no
    IN  /\ pc[t] = "barrier"
        /\ no < region \/ arrived = size
        /\ object' = [object EXCEPT ![t] = taskData[t]]
        /\ caller' = [caller EXCEPT ![t] = IF finalizing THEN "finalize_tool" ELSE "sync_region"]
        /\ Goto(t, IF finalizing THEN "lock_finalize" ELSE "lock_order")
        /\ UNCHANGED <<runtimeVars, poolVars, locationVars, eventVars, index, stamp,
                       endVars, bug>>

(* Bug: the task is taken without looking whether it is still stored. *)
StoredHereAlways(t) == TRUE

StoredHere(t) == stored[index[t]] = object[t]

(* barrier_implicit_parallel_end takes preserve_order and, under
   protect_task_exchange, the task if nobody took it: then it keeps
   preserve_order until the end of the task is written, maybe by another
   callback. *)
BarrierImplicitParallelEnd(t) ==
    /\ pc[t] = "lock_order" /\ ~preserveOrder[index[t]]
    /\ IF StoredHere(t)
       THEN /\ preserveOrder' = [preserveOrder EXCEPT ![index[t]] = TRUE]
            /\ stored' = [stored EXCEPT ![index[t]] = None]
            /\ Goto(t, "barrier_end")
       ELSE Goto(t, "release") /\ UNCHANGED <<preserveOrder, stored>>
    /\ UNCHANGED <<runtimeVars, poolVars, isOmpt, team, eventVars, index, object, caller,
                   stamp, endVars, bug>>

(* barrier_implicit_parallel_end_finalize_tool, under a mutex of its own. *)
FinalizeToolEnd(t) ==
    /\ pc[t] = "lock_finalize" /\ ~finalizeTool
    /\ finalizeTool' = TRUE
    /\ IF StoredHere(t)
       THEN stored' = [stored EXCEPT ![index[t]] = None] /\ Goto(t, "barrier_end")
       ELSE Goto(t, "release") /\ UNCHANGED stored
    /\ UNCHANGED <<runtimeVars, poolVars, isOmpt, preserveOrder, team, eventVars, index,
                   object, caller, stamp, finalizing, bug>>

(* barrier_implicit_parallel_end_impl: the primary takes the time for all, the
   others use its time if it is there ... *)
BarrierEnd(t) ==
    LET x == object[t]
    IN  /\ pc[t] = "barrier_end"
        /\ IF task[x].index = 0
           THEN stamp' = [stamp EXCEPT ![t] = Now] /\ clock' = Now
           ELSE /\ stamp' = [stamp EXCEPT ![t] = parallel[task[x].parallel].barrierEnd]
                /\ UNCHANGED clock
        /\ Goto(t, "barrier_exit")
        /\ UNCHANGED <<runtimeVars, poolVars, locationVars, lastTimestamp, events, index,
                       object, caller, endVars, bug>>

(* ... and their own if not. *)
OwnTime(t, x) == IF task[x].index # 0 /\ stamp[t] = 0 THEN Now ELSE stamp[t]

(* The rest of it, up to the next access to timestamp_itask_end. *)
BarrierExit(t) ==
    LET x == object[t]
        o == task[x].parallel
        l == task[x].index
    IN  /\ pc[t] = "barrier_exit"
        /\ clock' = IF l # 0 /\ stamp[t] = 0 THEN Now ELSE clock
        /\ parallel' = IF l = 0 THEN [parallel EXCEPT ![o].barrierEnd = stamp[t]] ELSE parallel
        /\ task' = [task EXCEPT ![x].syncs = @ - 1]
        /\ IF task[x].syncs = 0
           THEN bug' = "sync_region_end: none open" /\ UNCHANGED <<events, lastTimestamp>>
           ELSE IF parallel[o].recorded
           THEN /\ Put(l, "barrier_exit", parallel[o].no, events[l].team)
                /\ SetLastTimestamp(l, OwnTime(t, x))
           ELSE UNCHANGED <<events, lastTimestamp, bug>>
        /\ Goto(t, IF caller[t] = "overdue" THEN "task_end" ELSE "decide")
        /\ stamp' = [stamp EXCEPT ![t] = 0]
        /\ UNCHANGED <<runtimeVars, parallelFree, taskFree, locationVars, index, object,
                       caller, endVars>>

(* Is the primary's end of the implicit task known? *)
TaskEndKnown(o) == parallel[o].taskEnd # 0

Decide(t) ==
    LET o == task[object[t]].parallel
    IN  /\ pc[t] = "decide"
        /\ BugOn(caller[t] = "finalize_tool" /\ ~TaskEndKnown(o), "finalize_tool: no time")
        /\ IF TaskEndKnown(o)
           THEN Goto(t, "task_end") /\ UNCHANGED <<index, object, caller, stamp>>
           ELSE Return(t, "barrier_done")
        /\ UNCHANGED <<runtimeVars, poolVars, locationVars, eventVars, endVars>>

(* implicit_task ends.  The task is gone if its end was written already. *)
ImplicitTaskEnd(t) ==
    /\ \/ pc[t] = "barrier_done"
       \/ pc[t] = "running" /\ size = 1
    /\ IF taskData[t] # None
       THEN /\ object' = [object EXCEPT ![t] = taskData[t]]
            /\ caller' = [caller EXCEPT ![t] = "implicit_task"]
            /\ Goto(t, "task_end")
            /\ UNCHANGED <<index, stamp>>
       ELSE Return(t, IF t = Primary THEN "parallel_end" ELSE "idle")
    /\ UNCHANGED <<runtimeVars, poolVars, locationVars, eventVars, endVars, bug>>

(* implicit_task_end_impl reads the clock or the primary's time ... *)
TaskEnd(t) ==
    LET x == object[t]
    IN  /\ pc[t] = "task_end"
        /\ IF task[x].index = 0
           THEN stamp' = [stamp EXCEPT ![t] = Now] /\ clock' = Now
           ELSE /\ stamp' = [stamp EXCEPT ![t] = parallel[task[x].parallel].taskEnd]
                /\ UNCHANGED clock
        /\ Goto(t, "task_exit")
        /\ UNCHANGED <<runtimeVars, poolVars, locationVars, lastTimestamp, events, index,
                       object, caller, endVars, bug>>

(* Bug: a thread that wrote overdue events leaves the task marked. *)
OverdueDoneNot(x) == UNCHANGED task

OverdueDone(x) == task' = [task EXCEPT ![x].overdue = FALSE]

(* Bug: the end of the implicit task leaves the location to others no more. *)
UnlocksOrderAtBarrier(c) == c = "sync_region"

(* Callbacks that end with preserve_order unlocked. *)
UnlocksOrder(c) == c \in {"sync_region", "implicit_task"}

(* ... and writes the exit of the parallel region and TEAM_END, the latter
   with the team of the tpd (SCOREP_ThreadForkJoin_Tpd_TeamEnd).  Then the
   location is free for others. *)
TaskExit(t) ==
    LET x == object[t]
        o == task[x].parallel
        l == task[x].index
    IN  /\ pc[t] = "task_exit"
        /\ clock' = IF l # 0 /\ stamp[t] = 0 THEN Now ELSE clock
        /\ parallel' = IF l = 0 THEN [parallel EXCEPT ![o].taskEnd = stamp[t]] ELSE parallel
        /\ Put(l, "end", parallel[o].no, team[l])
        /\ IF parallel[o].recorded THEN SetLastTimestamp(l, OwnTime(t, x))
           ELSE UNCHANGED <<lastTimestamp, bug>>
        /\ IF caller[t] = "overdue"
           THEN /\ OverdueDone(x)
                /\ Goto(t, "task_begin")
           ELSE Goto(t, "release") /\ UNCHANGED task
        /\ preserveOrder' =
             IF UnlocksOrder(caller[t])
             THEN [preserveOrder EXCEPT ![l] = FALSE] ELSE preserveOrder
        /\ UNCHANGED <<runtimeVars, parallelFree, taskFree, stored, isOmpt, team, index,
                       object, caller, stamp, endVars>>

(* Bug: the task is released while another thread writes its end. *)
OverdueOverAlways(x) == TRUE

(* UTILS_MutexWait( in_overdue_use ). *)
OverdueOver(x) == ~task[x].overdue

(* RELEASE_AT_TEAM_END, and back to the runtime. *)
ReleaseAtTeamEnd(t) ==
    LET x == taskData[t]
    IN  /\ pc[t] = "release"
        /\ OverdueOver(x)
        /\ ReleaseParallel(task[x].parallel)
        /\ taskData' = [taskData EXCEPT ![t] = None]
        /\ taskFree' = [taskFree EXCEPT ![t] = <<x>> \o @]
        /\ finalizeTool' = IF caller[t] = "finalize_tool" THEN FALSE ELSE finalizeTool
        /\ Return(t, IF caller[t] # "implicit_task" THEN "barrier_done"
                     ELSE IF t = Primary THEN "parallel_end" ELSE "idle")
        /\ UNCHANGED <<region, size, taken, arrived, parallelData, task, locationVars,
                       eventVars, finalizing, bug>>

(* scorep_ompt_cb_host_parallel_end with SCOREP_ThreadForkJoin_Join. *)
ParallelEnd ==
    /\ pc[Primary] = "parallel_end"
    /\ Put(0, "join", region, 0)
    /\ BugOn(size > 1 /\ stored[0] # None, "parallel_end: a task is stored")
    /\ stored' = [stored EXCEPT ![0] = InitialTask]
    /\ ReleaseParallel(parallelData)
    /\ Goto(Primary, "serial")
    /\ UNCHANGED <<runtimeVars, task, taskFree, isOmpt, preserveOrder, team, lastTimestamp,
                   clock, index, object, caller, stamp, endVars>>

(* ompt_subsystem_end: ompt_finalize_tool makes the runtime report what is
   pending, and returns when it has; later events are ignored. *)
SubsystemEnd ==
    /\ pc[Primary] = "serial"
    /\ finalizing' = TRUE
    /\ Goto(Primary, "finalizing")
    /\ UNCHANGED <<runtimeVars, poolVars, locationVars, eventVars, index, object, caller,
                   stamp, finalizeTool, bug>>

FinalizeToolReturns ==
    /\ pc[Primary] = "finalizing"
    /\ \A t \in Workers : pc[t] = "idle"
    /\ Goto(Primary, "done")
    /\ UNCHANGED <<runtimeVars, poolVars, locationVars, eventVars, index, object, caller,
                   stamp, endVars, bug>>

Ended == pc[Primary] = "done" /\ UNCHANGED vars

-----------------------------------------------------------------------------
(* What a thread does inside a callback, and the callbacks the runtime does
   not put off: all but the end of a worker's barrier. *)
Step(t) ==
    \/ ImplicitTaskBegin(t) \/ TeamBeginClock(t) \/ TeamBeginCheck(t)
    \/ TriggerOverdue(t) \/ WaitOrder(t) \/ TaskBegin(t) \/ BarrierBegin(t)
    \/ BarrierImplicitParallelEnd(t) \/ FinalizeToolEnd(t)
    \/ BarrierEnd(t) \/ BarrierExit(t) \/ Decide(t)
    \/ ImplicitTaskEnd(t) \/ TaskEnd(t) \/ TaskExit(t) \/ ReleaseAtTeamEnd(t)

Next ==
    /\ bug = None
    /\ \/ ParallelBegin \/ ParallelEnd \/ SubsystemEnd \/ FinalizeToolReturns \/ Ended
       \/ \E t \in Threads : Step(t) \/ SyncRegionEnd(t)

Spec == Init /\ [][Next]_vars

(* What does not depend on the runtime's mood: the threads' steps, the
   callbacks of the primary, and those of the workers once the runtime is
   finalized. *)
Prompt ==
    /\ bug = None
    /\ \/ ParallelEnd \/ FinalizeToolReturns
       \/ \E t \in Threads : Step(t) \/ ((t = Primary \/ finalizing) /\ SyncRegionEnd(t))

(* As long as some of it can happen, some of it does: nothing is assumed about
   when regions open, nor, before the end, of when a worker's barrier ends. *)
Fairness == WF_vars(Prompt)

FairSpec == Spec /\ Fairness

-----------------------------------------------------------------------------
Ids == Threads \cup {None}

TypeOK ==
    /\ region \in 0..Regions /\ size \in Sizes \cup {1}
    /\ taken \subseteq Indices \ {0} /\ arrived \in 0..size
    /\ parallelData \in Parallels \cup {None}
    /\ taskData \in [Threads -> Ids]
    /\ parallel \in [Parallels -> [no : 0..Regions, ref : -1..1 + Cardinality(Threads),
                                   barrierEnd : Nat, taskEnd : Nat, recorded : BOOLEAN]]
    /\ parallelFree \in Seq(Parallels)
    /\ task \in [Threads -> [parallel : Parallels \cup {None}, index : Indices,
                             overdue : BOOLEAN, syncs : 0..1]]
    /\ taskFree \in [Threads -> Seq(Threads)]
    /\ stored \in [Indices -> Ids \cup {InitialTask}]
    /\ isOmpt \in [Indices -> BOOLEAN] /\ preserveOrder \in [Indices -> BOOLEAN]
    /\ finalizing \in BOOLEAN /\ finalizeTool \in BOOLEAN
    /\ index \in [Threads -> Indices] /\ object \in [Threads -> Ids]

(* No assertion of the adapter or of the core fails: the stored task is there
   or not as each callback expects, a barrier that ends was begun, and the
   primary's times are known when the runtime is finalized. *)
NoAssertionFails == bug = None

(* The events of a location form whole implicit tasks, one after the other,
   whichever thread writes them: none is lost, written twice or out of place. *)
EventOrder == \A l \in Indices : events[l].kind # "broken"

(* The thread writes the end of another thread's task. *)
WritesOverdue(t) ==
    /\ caller[t] = "overdue"
    /\ pc[t] \in {"barrier_end", "barrier_exit", "task_end", "task_exit"}

(* A task object, and the parallel region's, are in no free list while some
   thread uses them: its own, or the one that writes its overdue events. *)
InUse(t) == ({taskData[t]} \cup (IF WritesOverdue(t) THEN {object[t]} ELSE {})) \ {None}
NoUseAfterRelease ==
    \A t \in Threads : \A x \in InUse(t) :
      /\ \A u \in Threads : x \notin Range(taskFree[u])
      /\ task[x].parallel \notin Range(parallelFree)

(* When no thread is in a region, every object is back in a free list, no
   location is held or owes an event, and the primary's task is stored. *)
NothingLeftBehind ==
    pc[Primary] \in {"serial", "done"} /\ (\A t \in Workers : pc[t] = "idle")
      => /\ \A o \in Parallels : parallel[o].no = 0 \/ o \in Range(parallelFree)
         /\ \A l \in Indices : ~preserveOrder[l] /\ (l # 0 => stored[l] = None)
         /\ stored[0] = InitialTask
         /\ \A l \in Indices : events[l].kind \in {"none", IF l = 0 THEN "join" ELSE "end"}

(* A member that begins gets to run although the end of its location's last
   task may never be reported: nobody waits for a callback that can be late. *)
MemberRuns == \A t \in Threads : pc[t] = "team_begin" ~> pc[t] = "running"

(* The end of the tool comes: all pending ends are written. *)
FinalizeEnds == finalizing ~> pc[Primary] = "done"

(* The times of a location never decrease: the assertions of
   SCOREP_Location_SetLastTimestamp and scorep_thread_on_team_begin. *)
TimestampsOrdered == bug \notin {"timestamp order", "timestamp order at team_begin"}

(* A location leaves the team it joined: TEAM_END names the team of the last
   TEAM_BEGIN. *)
LeavesItsTeam ==
    [][\A l \in Indices : events'[l] # events[l] /\ events'[l].kind = "end"
                            => events'[l].team = events[l].team]_vars

-----------------------------------------------------------------------------
(* The inductive invariant. *)

(* A thread executes an implicit task from TaskBegin to ReleaseAtTeamEnd. *)
Executes(t) == taskData[t] # None

Entering == {"team_begin", "team_check", "overdue", "wait_order", "task_begin"}
Writing == {"barrier_end", "barrier_exit", "task_end", "task_exit"}
AtEnd == {"barrier", "lock_order", "lock_finalize"}
Barrier == AtEnd \cup {"barrier_end", "barrier_exit", "decide", "barrier_done"}
OfPrimary == {"serial", "forked", "parallel_end", "finalizing", "done"}

Points == Entering \cup Writing \cup AtEnd \cup OfPrimary
            \cup {"idle", "running", "decide", "barrier_done", "release"}
Kinds == {"none", "fork", "join", "begin", "barrier_enter", "barrier_exit", "end"}

(* Types of the variables that TypeOK leaves out *)
TypesOK ==
    /\ TypeOK
    /\ pc \in [Threads -> Points] /\ caller \in [Threads -> Callers \cup {None}]
    /\ events \in [Indices -> [kind : Kinds, no : 0..Regions, team : Nat]]
    /\ team \in [Indices -> Nat]
    /\ clock \in Nat \ {0} /\ stamp \in [Threads -> Nat]

(* A thread is about to begin its task. *)
Joining(t) == pc[t] \in Entering \/ WritesOverdue(t)

(* The thread writes the end of its own task, or has yet to. *)
HandlesOwn(t) == Executes(t) /\ pc[t] \in Writing \cup {"decide", "barrier_done"}

(* The end of the task is still to be written, by whoever it may be. *)
Open(t) ==
    /\ Executes(t)
    /\ \/ pc[t] = "running"
       \/ pc[t] \in AtEnd /\ stored[index[t]] = t
       \/ task[t].overdue
       \/ HandlesOwn(t)

(* What each point of a thread's control says about its own variables. *)
ControlOK(t) ==
    /\ IF t = Primary THEN pc[t] \notin {"idle", "lock_finalize"} ELSE pc[t] \notin OfPrimary
    /\ index[t] = 0 <=> (t = Primary \/ pc[t] = "idle")
    /\ taskData[t] \in {None, t}
    /\ pc[t] \in AtEnd \cup {"running", "decide", "release"} => Executes(t)
    /\ pc[t] = "barrier_done" /\ t = Primary => Executes(t)
    /\ pc[t] \in Entering \cup OfPrimary \cup {"idle"} => ~Executes(t)
    /\ pc[t] \in Writing => (Executes(t) <=> caller[t] # "overdue")
    /\ taskFree[t] \in {<<>>, <<t>>} /\ (Executes(t) => taskFree[t] = <<>>)

CallerOK(t) ==
    /\ pc[t] = "lock_order" => caller[t] = "sync_region"
    /\ pc[t] = "lock_finalize" => caller[t] = "finalize_tool"
    /\ pc[t] = "decide" => caller[t] \in {"sync_region", "finalize_tool"}
    /\ pc[t] \in {"barrier_end", "barrier_exit"} =>
         caller[t] \in {"sync_region", "finalize_tool", "overdue"}
    /\ pc[t] \in {"task_end", "task_exit"} =>
         caller[t] \in {"sync_region", "finalize_tool", "overdue", "implicit_task"}
    /\ pc[t] = "release" => caller[t] \in {"sync_region", "finalize_tool", "implicit_task"}
    /\ pc[t] \in {"lock_order", "lock_finalize", "decide", "release"}
         \/ (HandlesOwn(t) /\ pc[t] # "barrier_done") => object[t] = t
    /\ caller[t] = "finalize_tool" => finalizing
    /\ t = Primary => caller[t] \notin {"overdue", "finalize_tool"}
    /\ t = Primary /\ pc[t] \in {"task_end", "task_exit", "release"} => caller[t] = "implicit_task"

ThreadsOK ==
    /\ \A t \in Threads : ControlOK(t) /\ CallerOK(t)
    /\ finalizing <=> pc[Primary] \in {"finalizing", "done"}

(* A task is marked while exactly one thread, which got its location, writes
   its end. *)
OverdueAt(t) ==
    WritesOverdue(t) =>
      LET x == object[t]
      IN  /\ x \in Workers /\ Executes(x) /\ task[x].overdue /\ index[x] = index[t]
          /\ pc[x] \in AtEnd \cup {"release"} /\ stored[index[t]] = None
OverdueOK ==
    /\ \A t \in Threads : OverdueAt(t)
    /\ \A x \in Threads : task[x].overdue =>
         Executes(x) /\ \E t \in Threads : WritesOverdue(t) /\ object[t] = x

(* The tasks in execution and their parallel regions. *)
TasksOK ==
    /\ region > 0 => parallelData \in Parallels /\ parallel[parallelData].no = region
    /\ \A x \in Threads : Executes(x) =>
         /\ task[x].index = index[x] /\ isOmpt[index[x]]
         /\ task[x].parallel \in Parallels /\ parallel[task[x].parallel].no \in 1..region
         /\ pc[x] = "running" \/ x = Primary => task[x].parallel = parallelData

(* The members of the current team: those that have to begin and those that
   have begun. *)
Member(t) == Joining(t) \/ (Executes(t) /\ task[t].parallel = parallelData)

(* A team has one member of each index. *)
MembersOK ==
    /\ taken \subseteq 1..size - 1
    /\ \A t \in Workers : Member(t) => index[t] \in taken
    /\ \A t, u \in Threads : Member(t) /\ Member(u) /\ index[t] = index[u] => t = u
    /\ \A t, u \in Threads :
         /\ Executes(t) /\ Executes(u)
         /\ task[t].parallel = task[u].parallel /\ index[t] = index[u]
         => t = u
    /\ region = 0 => \A t \in Threads : ~Member(t)

(* The barrier's count, until it is complete. *)
AtBarrier == {t \in Threads : pc[t] = "barrier" /\ task[t].parallel = parallelData}
BarrierOK ==
    /\ arrived < size /\ size > 1 =>
         /\ arrived = Cardinality({index[t] : t \in AtBarrier})
         /\ pc[Primary] \in Entering \cup {"forked", "running", "barrier"}
         /\ \A t \in Threads : Executes(t) /\ task[t].parallel = parallelData =>
              pc[t] \in {"running", "barrier"}
    /\ arrived = size =>
         /\ taken = 1..size - 1
         /\ \A t \in Threads : ~Joining(t) /\ pc[t] \notin {"running", "forked"}
    /\ size = 1 => arrived = 0 /\ pc[Primary] \notin Barrier

(* All members of the current team have begun. *)
Assembled ==
    IF size = 1 THEN pc[Primary] \notin Entering \cup {"forked"} ELSE arrived = size

InRegion == pc[Primary] \notin {"serial", "finalizing", "done"}
MemberIndices(o) == {index[t] : t \in {u \in Threads : Executes(u) /\ task[u].parallel = o}}

(* How often the object of a region is still to be released. *)
References(o) ==
    IF o # parallelData THEN Cardinality(MemberIndices(o))
    ELSE IF pc[Primary] = "forked" THEN -1
    ELSE IF ~Assembled THEN size + 1
    ELSE Cardinality(MemberIndices(o)) + (IF InRegion THEN 1 ELSE 0)

ReferencesOK ==
    /\ InRegion => region > 0
    /\ IsInjective(parallelFree)
    /\ Cardinality({o \in Parallels : parallel[o].no # 0}) <= region
    /\ \A o \in Parallels :
         IF parallel[o].no = 0 THEN o \notin Range(parallelFree)
         ELSE /\ parallel[o].ref = References(o)
              /\ o \in Range(parallelFree) <=> parallel[o].ref = 0

(* Who is stored for a location. *)
StoredOfPrimary ==
    CASE pc[Primary] \in {"serial", "finalizing", "done"} -> InitialTask
      [] pc[Primary] \in AtEnd \cup {"running"} -> Primary
      [] pc[Primary] \in {"task_end", "task_exit", "release", "parallel_end"} /\ size = 1 -> Primary
      [] OTHER -> None
StoredAt(l) ==
    stored[l] # None =>
      LET x == stored[l]
      IN  /\ x \in Workers /\ Executes(x) /\ index[x] = l
          /\ pc[x] \in AtEnd \cup {"running"} /\ ~task[x].overdue
StoredOK ==
    /\ \A l \in Indices \ {0} : StoredAt(l)
    /\ \A x \in Threads : pc[x] = "running" => stored[index[x]] = x
    /\ stored[0] = StoredOfPrimary

(* At most one task of a location has not ended, and none when the next
   begins. *)
OpenOK ==
    /\ \A x, y \in Threads : Open(x) /\ Open(y) /\ index[x] = index[y] => x = y
    /\ \A t \in Threads : pc[t] = "task_begin" =>
         \A x \in Threads : Open(x) => index[x] # index[t]
    /\ \A t \in Threads : pc[t] = "wait_order" => stored[index[t]] = None

(* preserve_order is locked by who writes the end of its own task. *)
Keeps(x) == HandlesOwn(x) /\ (pc[x] = "barrier_done" \/ caller[x] # "finalize_tool")
OrderOK ==
    /\ \A x \in Workers : Keeps(x) => preserveOrder[index[x]]
    /\ \A l \in Indices : preserveOrder[l] => \E x \in Threads : Keeps(x) /\ index[x] = l

(* A barrier that was begun has to be ended. *)
SyncsAt(x) ==
    /\ pc[x] = "running" => task[x].syncs = 0
    /\ pc[x] \in AtEnd /\ stored[index[x]] = x => task[x].syncs = 1
    /\ pc[x] \in {"barrier_end", "barrier_exit"} => task[object[x]].syncs = 1
    /\ pc[x] \in {"decide", "task_end", "task_exit"} => task[object[x]].syncs = 0
    /\ pc[x] = "barrier_done" /\ Executes(x) => task[x].syncs = 0
SyncsOK == \A x \in Threads : SyncsAt(x)

(* What was written to the location of a task that has not ended ... *)
Written(x) ==
    LET e == events[index[x]]
        o == task[x].parallel
    IN  /\ e.no = parallel[o].no
        /\ pc[x] = "running" => e.kind = "begin"
        /\ e.kind \in IF task[x].syncs = 0 THEN {"begin", "barrier_exit"}
                      ELSE {IF parallel[o].recorded THEN "barrier_enter" ELSE "begin"}

(* ... and to the others. *)
EventsOK ==
    /\ \A x \in Threads : Open(x) => Written(x)
    /\ \A l \in Indices \ {0} :
         (\A x \in Threads : Open(x) => index[x] # l) => events[l].kind \in {"none", "end"}
    /\ pc[Primary] \in {"serial", "finalizing", "done"} => events[0].kind \in {"none", "join"}
    /\ pc[Primary] \in Entering \cup {"forked"} =>
         events[0].kind = "fork" /\ events[0].no = region
    /\ pc[Primary] \in {"release", "parallel_end"} =>
         events[0].kind = "end" /\ events[0].no = region

(* The primary's time for the end of a region is known to whoever is still in
   the region once the primary is past it. *)
PastEnd == pc[Primary] \in {"serial", "finalizing", "done", "release", "parallel_end"}
EndKnownOK ==
    /\ \A t \in Threads :
         Executes(t) /\ (task[t].parallel # parallelData \/ PastEnd) => TaskEndKnown(task[t].parallel)
    /\ ~PastEnd => ~TaskEndKnown(parallelData)
    /\ pc[Primary] \in {"barrier_exit", "task_exit"} => stamp[Primary] # 0

TimestampBugs == {"timestamp order", "timestamp order at team_begin"}

OmptTeamsInv ==
    /\ TypesOK /\ ThreadsOK /\ OverdueOK /\ TasksOK /\ MembersOK /\ BarrierOK
    /\ ReferencesOK /\ StoredOK /\ OpenOK /\ OrderOK /\ SyncsOK /\ EventsOK /\ EndKnownOK
    /\ bug \in TimestampBugs \cup {None}

(* When the clock stands still, no time is less than another. *)
TimesOK ==
    /\ Tick = 0 => clock = 1
    /\ lastTimestamp \in [Indices -> Nat] /\ \A l \in Indices : lastTimestamp[l] <= clock
    /\ \A t \in Threads :
         /\ stamp[t] \in 0..clock
         /\ pc[t] = "team_check" => stamp[t] # 0
    /\ \A o \in Parallels : parallel[o].barrierEnd \in 0..clock /\ parallel[o].taskEnd \in 0..clock
=============================================================================

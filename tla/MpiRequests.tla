---------------------------- MODULE MpiRequests ----------------------------
(***************************************************************************)
(* The MPI adapter's request management: from the handle of a request MPI  *)
(* gave to the program to the object that remembers what was started.      *)
(* Handles come back: MPI reuses the handle of a request that is over, and *)
(* some handles stand for many small requests at once.  A table entry      *)
(* therefore has a list of objects; entries and objects are recycled.      *)
(*                                                                         *)
(* src/src/adapters/mpi/c/scorep_mpi_request_mgmt.c and the wrappers that  *)
(* call it.  MPI is external: it hands out handles and completes requests  *)
(* as it likes.  The hash table is what HashtabSpec promises, a map whose  *)
(* constructor and destructor of values run within an operation, with its  *)
(* key locked.  An action is one access to memory that threads share: an   *)
(* operation on the table or on a pool, a lock, a marker, a pointer of a   *)
(* list.  A thread that follows a null pointer goes no further.            *)
(***************************************************************************)
EXTENDS Naturals, FiniteSets, SequencesExt

CONSTANTS Threads,
          Handles,       \* of type MPI_Request
          Dummies,       \* handles of requests that MPI completes at once
          MaxRequests,   \* bound on the requests created
          MaxArray,      \* longest array_of_requests
          Shared,        \* handles that several threads may use at a time
          MaxShared,     \* bound on the requests created when they do, and when
                         \* there is more than one handle
          MaxProbed,     \* bound on the requests cancelled or asked for their status
          StatusOfInactive, \* MPI_Request_get_status of inactive requests
          FreeActive,    \* MPI_Request_free of active persistent requests
          None

Ids == 1..MaxRequests

(* Addresses.  A call that creates a request takes an object for the list and,
   if the entry vanishes meanwhile, one with a new entry. *)
Objects == 1..2 * MaxRequests
Entries == 2 * MaxRequests + 1..3 * MaxRequests

ASSUME MpiRequestsAssumption ==
    /\ IsFiniteSet(Threads) /\ IsFiniteSet(Handles)
    /\ Dummies \subseteq Handles /\ Shared \subseteq Handles
    /\ MaxRequests \in Nat \ {0} /\ MaxArray \in Nat \ {0}
    /\ MaxShared \in Nat /\ MaxProbed \in Nat
    /\ StatusOfInactive \in BOOLEAN /\ FreeActive \in BOOLEAN
    /\ None \notin Objects \cup Entries

VARIABLES
    \* MPI's requests by their id, which is the adapter's, and their events
    op,           \* owner, handle, whether persistent, state; reported: the
                  \* program knows from MPI_Request_get_status that it is complete
    stream,       \* is a completion event due?
    \* the adapter's
    table,        \* handle -> entry
    entry,        \* request_lock and payload, a union: the first object of the
                  \* list, or the next entry of the free list
    object,       \* scorep_mpi_request objects
    free,         \* request_free_list, request_table_entry_free_list
    used,         \* objects and entries ever allocated
    error,        \* SCOREP_ERROR_MPI_REQUEST_NOT_REMOVED was reported
    \* per thread
    pc, call,
    work,         \* requests the call has still to look up, and whether done
    key,          \* what it constructs or destructs a table value for
    value,        \* the entry found in the table
    req,          \* the object it works on
    cur, prev     \* where it is in a list; control

mpiVars == <<op, stream>>
poolVars == <<free, used>>
localVars == <<call, work, value, req>>
vars == <<mpiVars, table, entry, object, poolVars, error, pc, localVars, key, cur, prev>>

Init ==
    /\ op = [i \in Ids |-> [owner |-> None, handle |-> None, persistent |-> FALSE,
                            state |-> "unused", reported |-> FALSE]]
    /\ stream = [i \in Ids |-> "closed"]
    /\ table = [h \in Handles |-> None]
    /\ entry = [e \in Entries |-> [lock |-> FALSE, payload |-> None]]
    /\ object = [r \in Objects |-> [id |-> 1, active |-> FALSE, canCancel |-> FALSE,
                                    completed |-> FALSE, deallocate |-> FALSE,
                                    marker |-> FALSE, next |-> None]]
    /\ free = [objects |-> None, entries |-> None]
    /\ used = [objects |-> 0, entries |-> 0]
    /\ error = FALSE
    /\ pc = [t \in Threads |-> "idle"] /\ call = [t \in Threads |-> None]
    /\ work = [t \in Threads |-> <<>>] /\ key = [t \in Threads |-> None]
    /\ value = [t \in Threads |-> None] /\ req = [t \in Threads |-> None]
    /\ cur = [t \in Threads |-> None] /\ prev = [t \in Threads |-> None]

-----------------------------------------------------------------------------
Goto(t, l) == pc' = [pc EXCEPT ![t] = l]
Set(x, t, v) == [x EXCEPT ![t] = v]

Live(i) == op[i].state \in {"active", "inactive"}
Own(t) == {i \in Ids : op[i].owner = t /\ Live(i)}

(* Start and completion of an operation, in the events of its id. *)
Starts(i) == stream' = [stream EXCEPT ![i] = IF @ = "closed" THEN "open" ELSE "broken"]
Completes(i) == stream' = [stream EXCEPT ![i] = IF @ = "open" THEN "closed" ELSE "broken"]

(* The threads that have a request with handle h or are in a call on one. *)
Users(h) ==
    {op[i].owner : i \in {j \in Ids : Live(j) /\ op[j].handle = h}}
        \cup {t \in Threads : \E w \in Range(work[t]) : op[w.id].handle = h}

(* Handles MPI may give to a new request i of thread t.  A dummy is given again
   while it is in use.  Bound: more than MaxShared requests are created only
   with a single handle, which no two threads use at a time. *)
Available(t, i, persistent) ==
    {h \in Handles :
       /\ h \in Dummies => ~persistent
       /\ h \in Dummies \/ \A j \in Ids : Live(j) => op[j].handle # h
       /\ (h \in Shared /\ i <= MaxShared) \/ Users(h) \subseteq {t}
       /\ i <= MaxShared \/ \A j \in 1..i - 1 : op[j].handle = h}

(* The handle the thread's call is about. *)
Handle(t) == op[Head(work[t]).id].handle

(* A call looks up the requests of the sequence s, one after the other. *)
Begin(t, c, s) ==
    /\ pc[t] = "idle"
    /\ work' = Set(work, t, s) /\ call' = Set(call, t, c)

(* A request is created: by MPI_Isend, with its event, or by MPI_Send_init. *)
Create(t) ==
    \E i \in Ids, persistent \in BOOLEAN :
      /\ op[i].state = "unused" /\ \A j \in 1..i - 1 : op[j].state # "unused"
      /\ \E h \in Available(t, i, persistent) :
           op' = [op EXCEPT ![i] =
                    [owner |-> t, handle |-> h, persistent |-> persistent,
                     state |-> IF persistent THEN "inactive" ELSE "active",
                     reported |-> FALSE]]
      /\ IF persistent THEN UNCHANGED stream ELSE Starts(i)
      /\ Begin(t, "create", <<[id |-> i, done |-> FALSE]>>)
      /\ Goto(t, "insert")
      /\ UNCHANGED <<table, entry, object, poolVars, error, value, req, key, cur, prev>>

-----------------------------------------------------------------------------
(* The pools: what was released last, or else new memory. *)

NextEntry == IF free.entries = None THEN 2 * MaxRequests + used.entries + 1 ELSE free.entries
NextObject == IF free.objects = None THEN used.objects + 1 ELSE free.objects

(* get_request_table_entry_from_pool: entry e, zeroed, its lock included. *)
TakeEntry(e) ==
    /\ e = NextEntry /\ e \in Entries
    /\ IF free.entries = None
       THEN used' = [used EXCEPT !.entries = @ + 1] /\ UNCHANGED free
       ELSE free' = [free EXCEPT !.entries = entry[e].payload] /\ UNCHANGED used
    /\ entry' = [entry EXCEPT ![e] = [lock |-> FALSE, payload |-> None]]

NewObject(i) == [id |-> i, active |-> FALSE, canCancel |-> FALSE, completed |-> FALSE,
                 deallocate |-> FALSE, marker |-> FALSE, next |-> None]

(* get_scorep_request_from_pool and memcpy: object r is that of request i. *)
TakeObject(r, i) ==
    /\ r = NextObject
    /\ IF free.objects = None
       THEN used' = [used EXCEPT !.objects = @ + 1] /\ UNCHANGED free
       ELSE free' = [free EXCEPT !.objects = object[r].next] /\ UNCHANGED used
    /\ object' = [object EXCEPT ![r] = NewObject(i)]

(* release_scorep_request_to_pool *)
ReleaseObject(r) ==
    /\ object' = [object EXCEPT ![r].next = free.objects]
    /\ free' = [free EXCEPT !.objects = r]
    /\ UNCHANGED used

(* release_request_table_entry_to_pool; the lock stays as it is. *)
ReleaseEntry(e) ==
    /\ entry' = [entry EXCEPT ![e].payload = free.entries]
    /\ free' = [free EXCEPT !.entries = e]
    /\ UNCHANGED used

(* An operation on the table waits while another thread constructs a value for
   the handle, unless it only reads, or destructs one. *)
Reads(h) == \A u \in Threads : pc[u] = "destruct" => key[u] # h
Writes(h) == \A u \in Threads : key[u] # h

-----------------------------------------------------------------------------
(* insert_scorep_mpi_request *)

(* The call is over. *)
Return(t) ==
    /\ Goto(t, "idle")
    /\ call' = Set(call, t, None) /\ work' = Set(work, t, <<>>)
    /\ value' = Set(value, t, None) /\ req' = Set(req, t, None)

(* request_table_value_ctor takes an entry ... *)
Construct(t, h) ==
    /\ table[h] = None
    /\ TakeEntry(NextEntry)
    /\ key' = Set(key, t, h) /\ cur' = Set(cur, t, NextEntry)
    /\ Goto(t, "construct")
    /\ UNCHANGED <<object, value>>

(* ... and an object, and the pair is in the table. *)
Constructed(t) ==
    /\ pc[t] = "construct"
    /\ \E r \in Objects :
         /\ TakeObject(r, Head(work[t]).id)
         /\ entry' = [entry EXCEPT ![cur[t]].payload = r]
    /\ table' = Set(table, key[t], cur[t])
    /\ key' = Set(key, t, None) /\ cur' = Set(cur, t, None)
    /\ IF req[t] = None THEN Return(t) ELSE Goto(t, "spare_unlock") /\ UNCHANGED localVars
    /\ UNCHANGED <<mpiVars, error, prev>>

(* request_table_get_and_insert inserts, or finds an entry. *)
Insert(t) ==
    LET h == Handle(t)
    IN  /\ pc[t] = "insert" /\ Writes(h)
        /\ \/ Construct(t, h)
           \/ /\ table[h] # None
              /\ value' = Set(value, t, table[h])
              /\ Goto(t, "insert_take")
              /\ UNCHANGED <<entry, object, poolVars, key, cur>>
        /\ UNCHANGED <<mpiVars, table, error, call, work, req, prev>>

(* The object that is to be appended to the entry's list. *)
InsertTake(t) ==
    /\ pc[t] = "insert_take"
    /\ \E r \in Objects : TakeObject(r, Head(work[t]).id) /\ req' = Set(req, t, r)
    /\ Goto(t, "insert_lock")
    /\ UNCHANGED <<mpiVars, table, entry, error, call, work, value, key, cur, prev>>

(* UTILS_MutexLock( request_lock ) of the entry found. *)
Lock(t) ==
    /\ pc[t] \in {"insert_lock", "get_lock", "free_lock"}
    /\ ~entry[value[t]].lock
    /\ entry' = [entry EXCEPT ![value[t]].lock = TRUE]
    /\ Goto(t, CASE pc[t] = "insert_lock" -> "insert_control"
                 [] pc[t] = "get_lock" -> "get_control"
                 [] pc[t] = "free_lock" -> "free_control")
    /\ UNCHANGED <<mpiVars, table, object, poolVars, error, localVars, key, cur, prev>>

(* A second look at the table: the entry is the one found before, or another
   one, with which to try again. *)
Control(t, h, same, retry) ==
    IF table[h] = value[t] THEN Goto(t, same) /\ UNCHANGED cur
    ELSE Goto(t, retry) /\ cur' = Set(cur, t, table[h])

InsertControl(t) ==
    LET h == Handle(t)
    IN  /\ pc[t] = "insert_control" /\ Writes(h)
        /\ \/ Construct(t, h)
           \/ /\ table[h] # None
              /\ Control(t, h, "insert_head", "insert_retry")
              /\ UNCHANGED <<entry, object, poolVars, value, key>>
        /\ UNCHANGED <<mpiVars, table, error, call, work, req, prev>>

(* The end of the list: from its head ... *)
InsertHead(t) ==
    /\ pc[t] = "insert_head"
    /\ cur' = Set(cur, t, entry[value[t]].payload)
    /\ Goto(t, "insert_walk")
    /\ UNCHANGED <<mpiVars, table, entry, object, poolVars, error, localVars, key, prev>>

(* ... to the object without a next one ... *)
InsertWalk(t) ==
    /\ pc[t] = "insert_walk" /\ cur[t] \in Objects
    /\ LET n == object[cur[t]].next
       IN  IF n = None THEN Goto(t, "insert_link") /\ UNCHANGED cur
           ELSE cur' = Set(cur, t, n) /\ UNCHANGED pc
    /\ UNCHANGED <<mpiVars, table, entry, object, poolVars, error, localVars, key, prev>>

(* ... which the new one comes after ... *)
InsertLink(t) ==
    /\ pc[t] = "insert_link"
    /\ object' = [object EXCEPT ![cur[t]].next = req[t]]
    /\ Goto(t, "insert_end")
    /\ UNCHANGED <<mpiVars, table, entry, poolVars, error, localVars, key, cur, prev>>

(* ... as the last. *)
InsertEnd(t) ==
    /\ pc[t] = "insert_end"
    /\ object[cur[t]].next # None
    /\ object' = [object EXCEPT ![object[cur[t]].next].next = None]
    /\ cur' = Set(cur, t, None)
    /\ Goto(t, "insert_unlock")
    /\ UNCHANGED <<mpiVars, table, entry, poolVars, error, localVars, key, prev>>

(* Unlocks the entry, a plain store, whoever holds the lock by then; after a
   retry the lock of the other entry is next. *)
Unlock(t) ==
    /\ pc[t] \in {"insert_unlock", "spare_unlock", "get_unlock", "free_unlock", "unlink_unlock",
                  "insert_retry", "get_retry", "free_retry"}
    /\ entry' = [entry EXCEPT ![value[t]].lock = FALSE]
    /\ IF pc[t] = "insert_unlock" THEN Return(t) /\ UNCHANGED cur
       ELSE /\ Goto(t, CASE pc[t] = "spare_unlock" -> "release"
                         [] pc[t] = "get_unlock" -> "process"
                         [] pc[t] = "free_unlock" -> "unmark"
                         [] pc[t] = "unlink_unlock" -> "release"
                         [] pc[t] = "insert_retry" -> "insert_lock"
                         [] pc[t] = "get_retry" -> "get_lock"
                         [] pc[t] = "free_retry" -> "free_lock")
            /\ value' = Set(value, t, cur[t]) /\ cur' = Set(cur, t, None)
            /\ UNCHANGED <<call, work, req>>
    /\ UNCHANGED <<mpiVars, table, object, poolVars, error, key, prev>>

(* The object is given back: the spare one of insert, or the one that free has
   taken out of its list. *)
(* Bug: the spare object is kept, so that one is lost each time an entry vanishes. *)
ReleaseNotSpare(t) ==
    /\ pc[t] = "release"
    /\ IF call[t] = "create" THEN Return(t) /\ UNCHANGED <<object, poolVars>>
       ELSE ReleaseObject(req[t]) /\ Goto(t, "unmark") /\ UNCHANGED localVars
    /\ UNCHANGED <<mpiVars, table, entry, error, key, cur, prev>>

Release(t) ==
    /\ pc[t] = "release"
    /\ ReleaseObject(req[t])
    /\ IF call[t] = "create" THEN Return(t) ELSE Goto(t, "unmark") /\ UNCHANGED localVars
    /\ UNCHANGED <<mpiVars, table, entry, error, key, cur, prev>>

-----------------------------------------------------------------------------
(* Calls on requests.  Each looks its requests up (scorep_mpi_request_get). *)

Items(s, done) == [k \in DOMAIN s |-> [id |-> s[k], done |-> s[k] \in done]]

(* MPI_Wait, MPI_Test and their kin return: some active requests of the array
   are complete, all, or none.  Of the others those are looked up that a
   "tested" event is written for, if any. *)
Complete(t) ==
    \E n \in 1..MaxArray : \E s \in [1..n -> Own(t)] :
      /\ IsInjective(s)
      /\ \E done \in SUBSET {i \in Range(s) : op[i].state = "active"} :
           /\ op' = [i \in Ids |->
                       IF i \notin done THEN op[i]
                       ELSE [op[i] EXCEPT !.state = IF op[i].persistent THEN "inactive" ELSE "gone",
                                          !.reported = FALSE]]
           /\ Begin(t, "complete", Items(s, done))
      /\ Goto(t, "get")
      /\ UNCHANGED <<stream, table, entry, object, poolVars, error, value, req, key, cur, prev>>

(* The calls on a single request: MPI_Start of an inactive one, MPI_Cancel,
   MPI_Request_get_status and MPI_Request_free.  Bound: only the first MaxProbed
   requests are cancelled or asked for their status. *)
Permitted(c, i) ==
    CASE c = "start" -> op[i].state = "inactive"
      [] c = "cancel" -> op[i].state = "active"
      [] c = "status" -> op[i].state = "active" \/ StatusOfInactive
      [] c = "free" -> op[i].state = "inactive" \/ ~op[i].persistent \/ FreeActive

Single(t) ==
    \E c \in {"start", "cancel", "status", "free"}, i \in Own(t) :
      /\ Permitted(c, i)
      /\ c \in {"cancel", "status"} => i <= MaxProbed
      /\ Begin(t, c, <<[id |-> i, done |-> FALSE]>>)
      /\ Goto(t, "get")
      /\ UNCHANGED <<mpiVars, table, entry, object, poolVars, error, value, req, key, cur, prev>>

-----------------------------------------------------------------------------
(* scorep_mpi_request_get *)

Get(t) ==
    LET e == table[Handle(t)]
    IN  /\ pc[t] = "get" /\ Reads(Handle(t))
        /\ value' = Set(value, t, e)
        /\ Goto(t, IF e = None THEN "process" ELSE "get_lock")
        /\ UNCHANGED <<mpiVars, table, entry, object, poolVars, error, call, work, req, key, cur, prev>>

GetControl(t) ==
    LET h == Handle(t)
    IN  /\ pc[t] = "get_control" /\ Reads(h)
        /\ IF table[h] = None THEN Goto(t, "get_unlock") /\ UNCHANGED cur
           ELSE Control(t, h, "get_head", "get_retry")
        /\ UNCHANGED <<mpiVars, table, entry, object, poolVars, error, localVars, key, prev>>

GetHead(t) ==
    /\ pc[t] = "get_head"
    /\ cur' = Set(cur, t, entry[value[t]].payload)
    /\ Goto(t, "get_walk")
    /\ UNCHANGED <<mpiVars, table, entry, object, poolVars, error, localVars, key, prev>>

(* May the object be had, or is a call working on it? *)
(* Bug: the marker is not looked at. *)
UnmarkedOrNot(r) == TRUE

Unmarked(r) == ~object[r].marker

(* The first unmarked object, or none. *)
GetWalk(t) ==
    /\ pc[t] = "get_walk" /\ cur[t] \in Objects \cup {None}
    /\ CASE cur[t] = None -> Goto(t, "get_unlock") /\ UNCHANGED cur
         [] cur[t] # None /\ Unmarked(cur[t]) -> Goto(t, "get_mark") /\ UNCHANGED cur
         [] OTHER -> cur' = Set(cur, t, object[cur[t]].next) /\ UNCHANGED pc
    /\ UNCHANGED <<mpiVars, table, entry, object, poolVars, error, localVars, key, prev>>

GetMark(t) ==
    /\ pc[t] = "get_mark"
    /\ object' = [object EXCEPT ![cur[t]].marker = TRUE]
    /\ req' = Set(req, t, cur[t]) /\ cur' = Set(cur, t, None)
    /\ Goto(t, "get_unlock")
    /\ UNCHANGED <<mpiVars, table, entry, poolVars, error, call, work, value, key, prev>>

-----------------------------------------------------------------------------
(* What is done with the object. *)

(* scorep_mpi_request_free is called, or not. *)
Free(t) == Goto(t, "free")
Keep(t) == Goto(t, "unmark")

Persistent(o) == op[o.id].persistent

(* A persistent request that was not started is not looked at. *)
Ignored(o) == Persistent(o) /\ ~o.active

(* scorep_mpi_check_request: the completion event, unless it was written when
   MPI_Request_get_status found the request complete. *)
(* Bug: it is written again by the call that ends the request. *)
CheckRequestAgain(o) == IF Ignored(o) THEN UNCHANGED stream ELSE Completes(o.id)

CheckRequest(o) ==
    IF Ignored(o) \/ o.completed THEN UNCHANGED stream ELSE Completes(o.id)

(* scorep_mpi_cleanup_request *)
(* Bug: a completed persistent request is dropped like any other. *)
CleanupRequestAlways(t, o) == UNCHANGED object /\ Free(t)

CleanupRequest(t, o) ==
    /\ object' = IF Persistent(o)
                 THEN [object EXCEPT ![req[t]].active = FALSE, ![req[t]].completed = FALSE]
                 ELSE object
    /\ IF Persistent(o) /\ ~o.deallocate THEN Keep(t) ELSE Free(t)

CheckDone(t, o) ==
    /\ call[t] = "complete" /\ Head(work[t]).done /\ ~Ignored(o)
    /\ CheckRequest(o) /\ CleanupRequest(t, o)
    /\ UNCHANGED op

(* A "tested" event, or none. *)
Tested(t, o) ==
    /\ call[t] = "complete" /\ (~Head(work[t]).done \/ Ignored(o))
    /\ Keep(t)
    /\ UNCHANGED <<mpiVars, object>>

(* scorep_mpi_request_start, then PMPI_Start *)
RequestStart(t, o) ==
    /\ call[t] = "start"
    /\ op' = [op EXCEPT ![Head(work[t]).id].state = "active"]
    /\ IF Persistent(o)
       THEN object' = [object EXCEPT ![req[t]].active = TRUE] /\ Starts(o.id)
       ELSE UNCHANGED <<object, stream>>
    /\ Keep(t)

(* scorep_mpi_request_set_cancel; PMPI_Cancel leaves the request active. *)
SetCancel(t) ==
    /\ call[t] = "cancel"
    /\ object' = [object EXCEPT ![req[t]].canCancel = TRUE]
    /\ Keep(t)
    /\ UNCHANGED mpiVars

(* PMPI_Request_get_status; what it finds complete stays so, and an inactive
   request is complete. *)
GetStatus(t, o) ==
    LET i == Head(work[t]).id
    IN  /\ call[t] = "status"
        /\ \/ /\ op' = [op EXCEPT ![i].reported = (op[i].state = "active")]
              /\ CheckRequest(o)
              /\ object' = [object EXCEPT ![req[t]].completed = TRUE]
           \/ /\ op[i].state = "active" /\ ~op[i].reported
              /\ UNCHANGED <<mpiVars, object>>
        /\ Keep(t)

(* scorep_mpi_request_free_wrapper: a request that may be cancelled is waited
   for, which ends MPI's use of its handle if it is not persistent. *)
FreeWrapper(t, o) ==
    LET i == Head(work[t]).id
    IN  /\ call[t] = "free"
        /\ IF o.canCancel
           THEN /\ op' = [op EXCEPT ![i].state = IF op[i].persistent THEN "inactive" ELSE "freed"]
                /\ UNCHANGED stream \/ (op[i].state = "active" /\ Completes(o.id))
           ELSE UNCHANGED mpiVars
        /\ IF Persistent(o) /\ o.active
           THEN object' = [object EXCEPT ![req[t]].deallocate = TRUE] /\ Keep(t)
           ELSE Free(t) /\ UNCHANGED object

Process(t) ==
    /\ pc[t] = "process"
    /\ IF req[t] # None
       THEN LET o == object[req[t]]
            IN  \/ CheckDone(t, o) \/ Tested(t, o) \/ RequestStart(t, o) \/ SetCancel(t)
                \/ GetStatus(t, o) \/ FreeWrapper(t, o)
       ELSE /\ op' = IF call[t] = "start" THEN [op EXCEPT ![Head(work[t]).id].state = "active"]
                     ELSE op
            /\ Keep(t)
            /\ UNCHANGED <<stream, object>>
    /\ UNCHANGED <<table, entry, poolVars, error, localVars, key, cur, prev>>

-----------------------------------------------------------------------------
(* scorep_mpi_request_free *)

(* The handle stored in the object. *)
RequestOf(t) == op[object[req[t]].id].handle

RequestFree(t) ==
    LET e == table[RequestOf(t)]
    IN  /\ pc[t] = "free" /\ Reads(RequestOf(t))
        /\ value' = Set(value, t, e)
        /\ error' = (error \/ e = None)
        /\ Goto(t, IF e = None THEN "unmark" ELSE "free_lock")
        /\ UNCHANGED <<mpiVars, table, entry, object, poolVars, call, work, req, key, cur, prev>>

FreeControl(t) ==
    LET h == RequestOf(t)
    IN  /\ pc[t] = "free_control" /\ Reads(h)
        /\ IF table[h] = None THEN error' = TRUE /\ Goto(t, "free_unlock") /\ UNCHANGED cur
           ELSE Control(t, h, "free_head", "free_retry") /\ UNCHANGED error
        /\ UNCHANGED <<mpiVars, table, entry, object, poolVars, localVars, key, prev>>

FreeHead(t) ==
    LET p == entry[value[t]].payload
    IN  /\ pc[t] = "free_head"
        /\ error' = (error \/ p = None)
        /\ cur' = Set(cur, t, p)
        /\ Goto(t, IF p = None THEN "free_unlock" ELSE "free_check")
        /\ UNCHANGED <<mpiVars, table, entry, object, poolVars, localVars, key, prev>>

(* Is it the only object?  Then the entry is to go as well. *)
FreeCheck(t) ==
    /\ pc[t] = "free_check" /\ cur[t] \in Objects
    /\ IF object[cur[t]].next = None /\ cur[t] = req[t]
       THEN Goto(t, "free_remove") /\ cur' = Set(cur, t, None)
       ELSE Goto(t, "free_walk") /\ UNCHANGED cur
    /\ UNCHANGED <<mpiVars, table, entry, object, poolVars, error, localVars, key, prev>>

(* request_table_remove, whose request_table_value_dtor gives back first the
   object ... *)
FreeRemove(t) ==
    LET h == RequestOf(t)
        e == table[h]
    IN  /\ pc[t] = "free_remove" /\ Writes(h)
        /\ IF e = None
           THEN error' = TRUE /\ Goto(t, "free_unlock") /\ UNCHANGED <<object, poolVars, key>>
           ELSE /\ entry[e].payload \in Objects
                /\ ReleaseObject(entry[e].payload)
                /\ key' = Set(key, t, h)
                /\ Goto(t, "destruct")
                /\ UNCHANGED error
        /\ UNCHANGED <<mpiVars, table, entry, localVars, cur, prev>>

(* ... and then the entry, still locked, which other threads may then reuse. *)
FreeEntry(t) ==
    /\ pc[t] = "destruct"
    /\ table' = Set(table, key[t], None)
    /\ ReleaseEntry(table[key[t]])
    /\ key' = Set(key, t, None)
    /\ Goto(t, "free_unlock")
    /\ UNCHANGED <<mpiVars, object, error, localVars, cur, prev>>

(* Where is the object in the list?  cur is then the one after it. *)
FreeWalk(t) ==
    LET c == cur[t]
    IN  /\ pc[t] = "free_walk" /\ c \in Objects \cup {None}
        /\ CASE c = None -> /\ Goto(t, "free_unlock") /\ error' = TRUE
                           /\ prev' = Set(prev, t, None) /\ UNCHANGED cur
             [] c = req[t] -> /\ Goto(t, "free_unlink") /\ cur' = Set(cur, t, object[c].next)
                              /\ UNCHANGED <<error, prev>>
             [] OTHER -> /\ prev' = Set(prev, t, c) /\ cur' = Set(cur, t, object[c].next)
                         /\ UNCHANGED <<pc, error>>
        /\ UNCHANGED <<mpiVars, table, entry, object, poolVars, localVars, key>>

FreeUnlink(t) ==
    /\ pc[t] = "free_unlink"
    /\ IF prev[t] = None
       THEN entry' = [entry EXCEPT ![value[t]].payload = cur[t]] /\ UNCHANGED object
       ELSE object' = [object EXCEPT ![prev[t]].next = cur[t]] /\ UNCHANGED entry
    /\ cur' = Set(cur, t, None) /\ prev' = Set(prev, t, None)
    /\ Goto(t, "unlink_unlock")
    /\ UNCHANGED <<mpiVars, table, poolVars, error, localVars, key>>

(* scorep_mpi_unmark_request, also of an object that was freed; then the next
   request of the array.  MPI_Request_free calls MPI's last. *)
Unmark(t) ==
    /\ pc[t] = "unmark"
    /\ object' = IF req[t] = None THEN object ELSE [object EXCEPT ![req[t]].marker = FALSE]
    /\ op' = IF call[t] = "free" THEN [op EXCEPT ![Head(work[t]).id].state = "freed"] ELSE op
    /\ IF Len(work[t]) > 1
       THEN /\ work' = [work EXCEPT ![t] = Tail(@)]
            /\ value' = Set(value, t, None) /\ req' = Set(req, t, None)
            /\ Goto(t, "get")
            /\ UNCHANGED call
       ELSE Return(t)
    /\ UNCHANGED <<stream, table, entry, poolVars, error, key, cur, prev>>

-----------------------------------------------------------------------------
Inserts(t) ==
    \/ Insert(t) \/ Constructed(t) \/ InsertTake(t) \/ InsertControl(t) \/ InsertHead(t)
    \/ InsertWalk(t) \/ InsertLink(t) \/ InsertEnd(t)
Gets(t) == Get(t) \/ GetControl(t) \/ GetHead(t) \/ GetWalk(t) \/ GetMark(t)
Frees(t) ==
    \/ RequestFree(t) \/ FreeControl(t) \/ FreeHead(t) \/ FreeCheck(t) \/ FreeRemove(t)
    \/ FreeEntry(t) \/ FreeWalk(t) \/ FreeUnlink(t)
Step(t) ==
    \/ Inserts(t) \/ Gets(t) \/ Process(t) \/ Frees(t)
    \/ Lock(t) \/ Unlock(t) \/ Release(t) \/ Unmark(t)

Next == \E t \in Threads : Create(t) \/ Complete(t) \/ Single(t) \/ Step(t)

Spec == Init /\ [][Next]_vars

(* The wrappers' threads run, and one that waits for a lock gets it when it is
   free again and again; nobody has to call MPI. *)
Fairness == \A t \in Threads : SF_vars(Step(t))

FairSpec == Spec /\ Fairness

-----------------------------------------------------------------------------
TypeOK ==
    /\ op \in [Ids -> [owner : Threads \cup {None}, handle : Handles \cup {None},
                       persistent : BOOLEAN, reported : BOOLEAN,
                       state : {"unused", "active", "inactive", "gone", "freed"}]]
    /\ stream \in [Ids -> {"closed", "open", "broken"}]
    /\ table \in [Handles -> Entries \cup {None}]
    /\ entry \in [Entries -> [lock : BOOLEAN, payload : Objects \cup Entries \cup {None}]]
    /\ object \in [Objects -> [id : Ids, active : BOOLEAN, canCancel : BOOLEAN,
                               completed : BOOLEAN, deallocate : BOOLEAN, marker : BOOLEAN,
                               next : Objects \cup {None}]]
    /\ free \in [objects : Objects \cup {None}, entries : Entries \cup {None}]
    /\ used \in [objects : 0..2 * MaxRequests, entries : 0..MaxRequests]
    /\ error \in BOOLEAN
    /\ key \in [Threads -> Handles \cup {None}]
    /\ value \in [Threads -> Entries \cup {None}]
    /\ req \in [Threads -> Objects \cup {None}]

(* What was ever allocated. *)
UsedObjects == 1..used.objects
UsedEntries == 2 * MaxRequests + 1..2 * MaxRequests + used.entries

(* What a thread has taken and not yet put in place, or taken out and not yet
   given back. *)
Holding(t) ==
    \/ pc[t] \in {"insert_lock", "insert_control", "insert_head", "insert_walk", "insert_link",
                 "insert_retry", "spare_unlock", "unlink_unlock", "release"}
    \/ pc[t] = "construct" /\ req[t] # None
HeldObjects == {req[t] : t \in {u \in Threads : Holding(u)}}
HeldEntries == {cur[t] : t \in {u \in Threads : pc[u] = "construct"}}

(* Entries in the table, but for those whose object was given back. *)
Filled(h) == table[h] # None /\ \A t \in Threads : pc[t] = "destruct" => key[t] # h

(* The objects of handle h: the smallest set with the entry's first and with
   each one's next. *)
Listed(h) ==
    {r \in UsedObjects : Filled(h) /\ \A S \in SUBSET UsedObjects :
       /\ entry[table[h]].payload \in S
       /\ \A s \in S : object[s].next # None => object[s].next \in S
       => r \in S}

(* Number of pointers to an object: heads of lists and of the free list, and
   objects before it. *)
ObjectPointers(r) ==
    Cardinality({h \in Handles : Filled(h) /\ entry[table[h]].payload = r})
      + Cardinality({s \in UsedObjects \ HeldObjects : object[s].next = r})
      + IF free.objects = r THEN 1 ELSE 0

InTable == {table[h] : h \in Handles} \ {None}
EntryPointers(e) ==
    Cardinality({h \in Handles : table[h] = e})
      + Cardinality({d \in UsedEntries \ (InTable \cup HeldEntries) : entry[d].payload = e})
      + IF free.entries = e THEN 1 ELSE 0

(* From every member of S the pointers lead out of S in the end. *)
Acyclic(S, next) == \A C \in SUBSET S : C # {} => \E r \in C : next[r] \notin C

(* Entries and objects are conserved: each object that was ever allocated is
   in the free list, in the list of one entry of the table, or with a thread;
   each entry in the free list, in the table, or about to be put there.  In
   pointers: exactly one leads to each, none to what a thread has, and none
   leads in a circle. *)
ObjectsConserved ==
    /\ \A h \in Handles : Filled(h) => entry[table[h]].payload # None
    /\ \A r \in UsedObjects : ObjectPointers(r) = IF r \in HeldObjects THEN 0 ELSE 1
    /\ \A e \in UsedEntries : EntryPointers(e) = IF e \in HeldEntries THEN 0 ELSE 1
    /\ \A t, u \in Threads : t # u /\ Holding(t) /\ Holding(u) => req[t] # req[u]
    /\ Acyclic(UsedObjects \ HeldObjects, [r \in Objects |-> object[r].next])
    /\ Acyclic(UsedEntries \ (InTable \cup HeldEntries), [e \in Entries |-> entry[e].payload])

(* Between lock and unlock, up to the last access to what the lock protects. *)
InSection(t) ==
    pc[t] \in {"insert_control", "insert_head", "insert_walk", "insert_link", "insert_end",
              "get_control", "get_head", "get_walk", "get_mark",
              "free_control", "free_head", "free_check", "free_remove", "free_walk", "free_unlink"}

(* One thread at a time is in the section that request_lock protects. *)
LockExclusive ==
    \A t, u \in Threads : t # u /\ InSection(t) /\ InSection(u) => value[t] # value[u]

(* The thread has looked a request up and not yet freed the object. *)
Working(t) ==
    pc[t] \in {"process", "free", "free_lock", "free_control", "free_retry", "free_head",
              "free_check", "free_remove", "free_walk", "free_unlink"}

(* scorep_mpi_request_get returns the object of the very request the program
   passed, except that requests with a dummy handle cannot be told apart, and
   no two calls work on one object. *)
CorrespondingRequest ==
    \A t \in Threads : Working(t) =>
      /\ req[t] # None
      /\ LET i == object[req[t]].id
         IN  \/ i = Head(work[t]).id
             \/ Handle(t) \in Dummies /\ op[i].handle = Handle(t)
      /\ \A u \in Threads \ {t} : Working(u) => req[u] # req[t]

(* The object that a call works on is marked, for other calls to pass it over. *)
MarkerKept == \A t \in Threads : Working(t) /\ req[t] # None => object[req[t]].marker

(* Whoever is not inside a call has a completion event due for exactly those
   of its requests that run; those with a dummy handle have had all their
   events once none of them is left.  A request freed while it runs gets none. *)
CompletionsRecorded ==
    \A i \in Ids :
      LET t == op[i].owner
          alike == {j \in Ids : op[j].handle = op[i].handle}
      IN  op[i].state \notin {"unused", "freed"} /\ pc[t] = "idle" =>
            IF op[i].handle \in Dummies
            THEN (\A j \in alike : op[j].state = "gone" /\ pc[op[j].owner] = "idle")
                   => stream[i] = "closed"
            ELSE stream[i] = IF op[i].state = "active" /\ ~op[i].reported
                             THEN "open" ELSE "closed"

(* Nothing that is to be freed is missing (the UTILS_ERRORs), and when no call
   is in progress, the table has the requests MPI has, no object is marked and
   no entry locked. *)
TableComplete ==
    /\ ~error
    /\ (\A t \in Threads : pc[t] = "idle") =>
         /\ \A h \in Handles :
              LET live == {i \in Ids : Live(i) /\ op[i].handle = h}
              IN  IF h \in Dummies THEN Cardinality(Listed(h)) = Cardinality(live)
                  ELSE {object[r].id : r \in Listed(h)} = live
         /\ \A r \in Objects : ~object[r].marker
         /\ \A e \in Entries : ~entry[e].lock

(* Every call returns to the program: no lock is kept, no retry goes on. *)
CallsReturn == \A t \in Threads : pc[t] # "idle" ~> pc[t] = "idle"
=============================================================================

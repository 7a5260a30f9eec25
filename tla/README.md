# Score-P: TLA+ models, model checking and proofs

This directory holds TLA+ modules for the parts of Score-P whose correctness rests
on interleavings, on partial failures or on bookkeeping that unit tests hardly
reach. Paths below are relative to the repository; `utils/…` and
`measurement/…` stand for `src/utils/…` and `src/measurement/…`.

Score-P is a measurement infrastructure linked into (or preloaded by) the
measured program. Adapters (compiler instrumentation, MPI, pthread, OMPT,
CUDA, …) intercept what the program does and call the measurement core, which
assigns each thread or stream a *location*, writes events to it, and hands them
to substrates (profile, trace). At the end, definitions of all processes are
unified and everything is written. Score-P runs *inside* threads it does not
control: threads begin and end as the program likes, and the end of the program
can come at any time. That is where its hard behaviour is.

Contents: [1 Inventory](#1-inventory) · [2 Modules](#2-modules) ·
[3 How the modules correspond to the code](#3-how-the-modules-correspond-to-the-code) ·
[4 Runs](#4-runs) · [5 Proofs](#5-proofs) · [6 Disagreements with the code's own
words](#6-disagreements-with-the-codes-own-words) · [7 What is not
modelled](#7-what-is-not-modelled) · [8 Plan](#8-plan)

## 1 Inventory

The first column's parts are the components of `PROJECT.json`.

### Shared-memory building blocks

| Component | State | Operations | Hard behaviour | Correct when |
|---|---|---|---|---|
| Reader-writer lock (`utils/include/SCOREP_ReaderWriterLock.h`) | `pending`, `departing`, `release_n_readers`, `release_writer` (16-bit atomics) and a mutex for writers | ReaderLock/Unlock, WriterLock/Unlock | a writer announces itself by subtracting 2^14 from `pending`; readers and writer hand each other over through two release counters; late readers take units meant for earlier ones | a writer is alone; the two `UTILS_BUG_ON` never fire; nothing is left in the counters; the writer is never forgotten |
| Concurrent hash table (`utils/include/SCOREP_FastHashtab.h`) | per bucket: atomic `size`, chain of chunks, `insert_lock`, RW lock; a free list of chunks with its own mutex | get, get_and_insert, remove, get_and_remove, remove_if, iterate, free_chunks; MONOTONIC and NON_MONOTONIC templates | lock-free searches beside an insert; the size publishes a pair; removal moves the last pair into the hole; emptied chunks travel between buckets | linearizable map; one pair per key; no chunk or value lost or shared; no access outside a chunk; calls return |
| Paged allocator (`utils/memory/SCOREP_Allocator.c`, `scorep_page.h`) | bitset of pages, free descriptor objects, counters; per manager a page list, mapping of moved pages, last movable allocation | create/delete/free managers, Alloc, AlignedAlloc, AllocMovable, rollback, AllocMovedPage, address translation, statistics | its own descriptors come from the memory it manages, so every request may fail half way; runs of several pages; pages copied from other processes | pages and objects have one owner and are conserved; clients' regions are disjoint; rollback takes back exactly the last allocation; handles lead to the right byte |
| Bitset (`utils/memory/scorep_bitset.h`) | words | set/clear of ranges, next free/used, first-fit search | masks at word boundaries, the invalid tail of the last word | same as sets of positions, lowest fit |
| Sequential containers (`utils/hashtab`, `vector`, `bitstring`, Skiplist) | – | – | none beyond sequential data structures | have unit tests; not modelled |
| Common utilities (`common/utils`: UTILS_Mutex, errors, I/O) | lock word | lock, unlock | – | UTILS_Mutex is a test-and-set lock; every module takes it as an atomic acquire |

### Measurement core

| Component | State | Operations | Hard behaviour | Correct when |
|---|---|---|---|---|
| Runtime management (`measurement/SCOREP_RuntimeManagement.c`) | phase PRE/WITHIN/POST, recording flag, initialized/finalized | init, finalize, on/off recording, abort, exit callbacks | finalize runs on whatever thread calls `exit()`, beside threads still running; the phase is read without synchronization | ends always, ends every location once, in the right order |
| Subsystem management (`scorep_subsystem_management.c`) | registered subsystems, how many are initialized | init, begin, end, pre-unify, finalize, (de)activate locations – forward or reverse order | order of calls across subsystems | what is begun first is ended last |
| Location management (`scorep_location_management.c`) | the location list, per-location substrate data, deferred initialization flag, last timestamp | create, activate, ForAll, finalize | the list is walked without the lock while others append; locations created before MPI_Init are initialized later | each location is initialized once and finalized once |
| Threads: create/wait (`measurement/thread/create_wait`, `adapters/pthread`) | `active_locations`, subsystem data per location, reuse pools, `wrapped_arg` | create, begin, end, cancel, pthread_exit, orphan begin/end, TryTerminate, end_latecomer | three parties can end a thread's location: the thread, its destructor, the finalizing thread; locations are reused | a location has one user and is ended once; its events are well-formed |
| Threads: fork/join (`measurement/thread/fork_join`) | team tree of thread-private data, reuse by fork hash | fork, team begin/end, join | nesting, reuse of first-fork location | a location has one user; teams form a tree |
| Memory (`measurement/SCOREP_Memory.c`) | allocator lock, list of tracing page managers, out-of-memory flag | create managers, out-of-memory report | the list is walked without the lock in the report | one report, then abort |
| Task stack (`SCOREP_Task.c`) | stack of regions per task | create, switch, enter/exit, ExitAllRegions | frames recycled per location, underflow | balanced |
| Event layer (`SCOREP_Events.c`) | – | enter/exit and some 80 other events | forwards to substrates | see task stack |
| Definitions (`measurement/definitions`) | hash-consed objects in movable memory, one mutex | define, look up | rollback of a duplicate's memory | one handle per definition |
| Unification (`scorep_unify*.c`, `paradigm/scorep_unify_mpp_ipc.c`) | moved page managers, mappings | tree reduction between processes | message order, several-page runs, running out of memory | all local handles map to one global definition |
| Profiling (`measurement/profiling`) | call trees per location, task trees, free lists of nodes | enter/exit, task switch, migration | tasks migrate between locations | trees stay trees; nodes conserved |
| Tracing and rewind (`measurement/tracing`) | OTF2 writers, rewind stack | write, store/discard rewind points | discarding nested points | a stack |
| I/O management (`measurement/io`, `adapters/io/posix`) | handle table (FastHashtab), per-thread operation stacks | create, dup, destroy handles, operations | descriptors reused by other threads at once | a handle is destroyed once and not used after |
| Substrates and plugins | callback table | registration | none after initialization | – |
| Clock synchronization | offsets | measure | numeric | – |
| Filtering | rules | match | none | – |

### Adapters, services, tools

| Component | State and behaviour |
|---|---|
| MPI request management (`adapters/mpi/c/scorep_mpi_request_mgmt.c`) | a table from handles to lists of request objects, a lock per entry, pools of entries and objects; persistent requests; start, test, wait, cancel, get_status, free in any order. Handles return: MPI reuses one that is over and hands out one for all small requests. Correct when a lookup finds the request the program passed and every operation that ends is recorded once |
| OMPT (`adapters/ompt`) | task and parallel objects, per location the task whose end is pending. The runtime reports the end of a worker's barrier and task late, when another thread may already be the member of the same location, which then writes the overdue events. Correct when each location's events are whole and in order, and no object is reused while in use |
| Allocation tracking (`utils/alloc_metric`) | splay tree of allocations under a mutex |
| Metric, timer, sampling services | per-location metric buffers; values from PAPI, perf, rusage, the clock |
| Address-to-line, unwinding | users of RWLock and FastHashtab around libbfd and libunwind |
| Accelerator, compiler, user and library adapters; generated MPI and SHMEM wrappers | enter, call, exit |
| Tools (`scorep`, `scorep-score`, `scorep-config`, …) | command-line programs |
| Build system, vendored code | no state |

### Interactions

* Every adapter reads `scorep_measurement_phase` and then writes events to the
  calling thread's location. The read and the write are not atomic (CreateWait).
* Buckets of FastHashtab are protected by RWLock; FastHashtab's free list and
  `insert_lock` are UTILS_Mutex locks.
* FastHashtab is used by MPI requests, I/O handles, OMPT, address-to-line and others;
  its callers rely on linearizability only (HashtabSpec).
* The OMPT adapter calls the fork/join layer at the begin and end of each team; both
  write to locations that belong to member indices, not to threads (OmptTeams).
* The allocator's page managers serve locations (profile, trace), definitions
  (movable memory with rollback), and unification (moved pages). Definitions use
  AllocMovable only (SCOREP_Memory.c:483-510), never mixed with Alloc on the same
  manager.
* scorep_finalize walks the subsystems: thread subsystems end the locations of
  other threads (end_latecomer), then locations lose their page managers, then
  subsystems and the location list are finalized.

## 2 Modules

| Module | What it is |
|---|---|
| `RWLockSpec` | abstract reader-writer lock: sets of readers and writers |
| `RWLock` | the five words and the thread-local control of the four functions |
| `RWLockProofs` | invariance, exclusion, assertions, refinement, for any number of threads |
| `HashtabSpec` | abstract concurrent map: invocation, one atomic effect, return |
| `FastHashtab` | the code of the template, one access to shared data per step; uses the abstract lock of `RWLockSpec` |
| `FastHashtabProofs` | unique keys, complete removal, values, placement of chunks, for any number of threads, keys, buckets and chunks |
| `FastHashtabRefinement` | the table implements HashtabSpec, for the same |
| `FirstFit` | the search result the bitset promises and the allocator relies on |
| `BitsetSpec`, `Bitset` | the bitset as a set, and word by word |
| `BitsetProofs` | the second implements the first, for any word size and number of members |
| `AllocatorSpec`, `Allocator` | what clients see of the allocator, and pages, descriptors and managers; uses `FirstFit` for the bitset search |
| `AllocatorProofs` | page ownership; clients' regions, rollback, page infos, moved addresses, refinement of AllocatorSpec; conservation of the allocator's objects, its counters, types; for any capacity, page size, managers and requests |
| `CreateWait` | create/wait threads, their locations and scorep_finalize |
| `CreateWaitProofs` | locations have one user and are ended once, events are well-formed, for any number of threads |
| `OmptTeams` | parallel regions of the OMPT adapter with the fork/join layer below, and the end of the tool |
| `OmptTeamsProofs` | order of events, nothing released in use, nothing left behind, no assertion fails, for any number of threads and regions |
| `MpiRequests` | the MPI adapter's request table and the calls that use it |
| `MCRWLock`, `MCFastHashtab`, `MCAllocator`, `MCCreateWait`, `MCOmptTeams`, `MCMpiRequests` | constants and symmetry for TLC |

Composition goes through the abstract specifications. `RWLock` implements
`RWLockSpec` (proved), and `FastHashtab` acquires its bucket locks as `RWLockSpec`
allows and implements `HashtabSpec` (proved). `Bitset` implements `BitsetSpec` (proved), whose searches are `FirstFit`,
and `Allocator` searches by `FirstFit`. `MpiRequests` takes each operation on its table
as the one atomic effect that `HashtabSpec` allows it; the constructor and
destructor of a value run inside, in steps of their own, with the key locked as
`FastHashtab` has it.

## 3 How the modules correspond to the code

The definition-by-definition correspondence is the `map` of `PROJECT.json`. What
follows says how to read it.

### RWLock

`pending`, `departing`, `releaseNReaders`, `releaseWriter` and `writerMutex` are the
five words of a lock; `pc[t]` says between which two atomic accesses thread `t` is,
and `seen[t]` is the writer functions' local `pending`. One action is one atomic
access. The two spin loops are one step each, enabled when the loop could end:
a failed round changes nothing but a dead local. A failed `UTILS_BUG_ON` puts the
thread in `"bug"`, where it stays. The counters are unbounded integers; the
invariant shows that they stay within ±MaxReaders, so the 16 bits of the code
never overflow. In the code `RWLOCK_MAX_READERS` is 2^14; a program with that many
threads in the lock at once is outside of the model's assumption
`Cardinality(Threads) < MaxReaders`.

`RWLockSpec` has two variables, the sets of threads inside. The refinement
mapping counts a thread as inside while its pc is `"reading"` or `"writing"`.

### FastHashtab

The template's per-bucket data are `size`, `head`, `insertLock` and the RW lock
(`readers`, `writers`); `next` and `pairs` are the chunks, `freeList` the table's
free list. `loc[t]` holds the locals of a call. A step is one access to shared
data, with two exceptions that a lock makes atomic: the section under the free
list's mutex, and the search of a remover, which holds the bucket exclusively.
`at` models the code's pointer to a chunk *pointer* (`chunk = &(*chunk)->next`),
which is why a search can continue through a link that an insertion has set
meanwhile. A read of `keys[j]` outside of a chunk puts the thread in `"oob"`.

With `Ops = {"get", "insert"}` the module is also the MONOTONIC template, which
has no RW lock and no removal. `iterate_key_value_pairs` changes nothing; the set
it visits is part of `FreeChunks`, which is serial in the code. `alive` is a
history variable: the values constructed and neither destroyed nor handed out.

`HashtabSpec` is a linearizable map: `Invoke`, one atomic effect, `Return`. The
refinement mapping `Map` reads the abstract map off the buckets, and `AbsStatus`
names the linearization point of each operation: the size load that proves a key
absent, the publication of the new size, the move that makes a pair unreachable.
`remove_if` only promises to remove its matching pairs one after the other.

### Bitset

Words are sets of bit positions, so masks stay masks and bitwise operators are
set operators. `InRange`, `RangeMask` and `MarkInvalid` follow the code's cases for
the first word, the last word and a range inside one word. `Members` maps words to
the set that `BitsetSpec` speaks of.

### Allocator

`allocator` is the shared object: the bitset, which pages hold its own objects
(`maintenance`), how many descriptor objects are free, and the two counters that
statistics report. A page descriptor is `[id, order, used]`; `pages[m]` is a
manager's list, head first, which matters because allocation takes the first page
with room. The functions that run under the allocator lock are operators that map
an allocator to the next one; each action is what happens between lock and
unlock, together with what the manager's owner then does to its own list. A
constructor of a page manager takes the lock twice, so it is two actions, and a
competing client can take the last page in between.

Every path on which memory runs out is there: a descriptor that needs a
maintenance page, a run of pages not found after the descriptor was taken, a
mapping that gets no page. `inUse` is a history variable: the regions handed out.
Its refinement `AllocatorSpec` says that they never overlap and disappear only by
Free, Delete or rollback. Rollback is modelled for the last allocation only, as
SCOREP_Definitions uses it. `ObjectsConserved` counts the descriptors in use as pairs of a
manager and an index of its lists.

### CreateWait

The module joins the generic create/wait code, its pthread variant, the thread
functions of the pthread adapter, the location list and scorep_finalize.
Locations are numbered in list order; location 1 is the main thread's. Per
location, `data` is the subsystem data that says "somebody has still to end this",
`wrapped` the adapter's `wrapped_arg`, `stack` the depth of the implicit task's
region stack, and `record` a monitor of the events written so far: `"closed"`
(before BEGIN or after END), `"open"`, and `"broken"` for good once an event comes
outside BEGIN…END or END leaves regions open. Per thread, `at` is its location,
`how` the way its start routine was left, `held` whether TryTerminate told it to
end its location.

An action is a section under one of the mutexes, or what a thread does between
two accesses to data others change. The read of the measurement phase is a step of
its own (`CheckPhase`, `CleanupCheck`, `OrphanDtor`): the events it allows are written later,
possibly after the finalizing thread has set the phase to POST. The finalizing
thread can be any thread with a location. It walks the location list
(`Visit`/`Advance`) while other threads append to it.

Abstractions: each created thread id is created at most once, so that the number
of locations is bounded; `MaxNest` bounds the user regions open at a time; the
events of one pthread_create call are one step; pthread_join, whose effect is to
recycle a `wrapped_arg` object, is left out, as are the wrappers of mutexes and
condition variables, which only write events; cancellation is acted upon between
Score-P calls; a thread that calls `exit()` after its own thread-specific
destructors have run is left out. Created threads and orphans have actions of their
own where the code has functions of its own (`OnBegin`/`OnOrphanBegin`,
`Begin`/`OrphanBegin`, `ExitRegions`/`OrphanExitRegions`, `End`/`OrphanEnd`) and share
the others. `UTILS_BUG_ON` failures and the null pointer a
cleanup handler dereferences end the process (`proc = "aborted"`).

### OmptTeams

The OpenMP runtime is external and modelled as far as it promises something: one
thread, the primary, opens regions one after the other; a team is a set of indices,
index 0 the primary's; a worker thread takes any free index of the current team; no
member leaves a barrier before all have reached it. It promises nothing about *when* a
worker returns from its last barrier: a thread may do so when two more regions have
passed and its location has a new member, or when the tool is finalized.

`stored[l]` is what the next member of location `l` finds there: the task whose barrier
end and task end are still to be written. Whoever takes it (`TriggerOverdue`, the late
thread itself in `BarrierImplicitParallelEnd`, or the end of the tool) writes those
events; `caller[t]` says in which of the three roles thread `t` is. `preserveOrder[l]`
is the lock that keeps a new member from beginning while a late one writes.
`events[l]` holds the last event written, and becomes `"broken"` for good when an
event comes that must not follow it. `parallel[o].ref` is `ref_count` of a region
object, -1 until the primary sets it.

An action is a section under `protect_task_exchange`, or what a thread does between
accesses to data others change. With `Tick = 0` the clock stands still, a coarse timer;
with `Tick = 1` each read advances it, and reads have steps of their own.

Abstractions: no nested regions and no leagues, no explicit tasks, worksharing, locks or
target constructs; the callbacks of a task come on the thread that executed it, and
its task object is named like that thread; the array of child teams and the reuse
counter of the fork/join layer are left out; taking `preserve_order` and the check under
it are one step; recording is switched only when no callback is pending; the adapter
is initialized before the first region. Memory accesses are in program order.

### MpiRequests

`op` and `stream` are not in the code. `op[i]` is request `i` as MPI sees it: its owner,
its handle, whether it is persistent, and whether it is active. `stream[i]` watches
its events: `"open"` from the start of an operation to its completion event, `"broken"`
for good when either comes out of turn. The adapter's state is `table` (handle to
entry), `entry` (a lock and a payload, which is a union as in the code: the first object
of the list, or the next entry of the free list), `object` with its `next` pointer, the
heads of the two free lists in `free`, and in `used` how much memory was
allocated for either. Objects and entries are numbers, in place of addresses. `work[t]`
is the array of requests a call looks up one after the other, after MPI returned.

A step is a single access to what threads share: one operation on the table, on
a pool, on a lock, on a marker or on one pointer of a list, with the thread's own work.
In particular the sections under an entry's lock are not atomic. They must not be: the
lock does not always exclude (section 6), and what then happens between the check that
an object is alone in its list (line 592) and the removal of the entry (line 594), or
between a look at a marker and its setting, is the interesting part. A thread that
follows a null pointer stops.

MPI is external: `Available` says which handle a new request may get. A dummy handle
may be given to any number of requests at once. Any other handle is free for
reuse as soon as its request is over, for MPI that is before the adapter has looked it up
once more. `Shared` is the set of handles that several threads may use at a time;
the others are given to a thread only when no other has a request with them or is in a call on one. For
handles that are no dummies sharing is a race the adapter
cannot win, since the handle is its only key, and the instances exclude it.
`MaxShared` bounds how many requests are created where handles are shared, and
`MaxProbed` how many are cancelled or asked for their status (section 4).
`StatusOfInactive` and `FreeActive` switch on two uses that MPI permits and the adapter
does not survive (section 6).

Abstractions: a request is an immediate or a persistent point-to-point operation;
other kinds differ in the events written at completion. A request is used by the thread
that created it. All event groups are on. Cancelled and received operations have one
completion event like any other.

## 4 Runs

| Run | Instance | Distinct states | Checks |
|---|---|---|---|
| `rwlock` | 3 threads, MaxReaders 4 | 4,545 | mutual exclusion, quiescence, the inductive invariant, refinement of RWLockSpec, writers get in, readers are released |
| `hashtab_one_bucket` | 2 threads, 1 bucket, 3 keys, chunks of 2 pairs, 5 calls, remove_if with every condition | 283,904 | unique keys, remove_if complete, linearizability |
| `hashtab_two_buckets` | 2 threads, 2 buckets, 3 keys, chunks of 1 pair, 4 calls | 343,204 | type, emptied chunks given back, chunk placement, values, every call returns |
| `hashtab_remove_if` | 1 thread, 3 keys, 5 calls | violation | emptied chunks given back |
| `allocator` | 5 pages of 4 bytes; a Plain, a Definitions and a Moved manager, sizes 1, 3, 6, two remote pages | 123,554 | type, page ownership, objects conserved, rollback, page infos, moved addresses, refinement |
| `bitset` | words of 3 bits; 2, 4, 6, 8 members | 2,844 | type, refinement of BitsetSpec |
| `create_wait_reuse` | 2 created threads (1 detached), reuse ALWAYS | 572,980 | type, exclusive locations, ended once, well-formed while WITHIN, quiet locations complete |
| `create_wait_orphans` | 2 orphans, 2 nested regions, reuse ALWAYS | 566,778 | scorep_finalize ends |
| `ompt_teams` | 3 regions of 1 or 2 members, recorded or not, 2 workers | 264,301 | type, no assertion fails, no use after release, nothing left behind, order of events, members run, finalization ends |
| `ompt_times` | 1 region of 2 members, a clock that advances | violation | timestamps of a location do not decrease |
| `mpi_requests` | 2 threads, 3 requests, a dummy handle both are given at once and one that is reused, arrays of up to 2; the third request only with a handle that one thread at a time uses, one request that is cancelled or asked for its status | 661,447 | objects conserved, corresponding request, completions recorded, table complete |
| `mpi_two_calls` | 2 threads, 3 requests with a dummy handle both are given at once | violation | corresponding request |

Thirteen configurations more are kept beside these runs, for questions of their own; none
of them is needed for the statements about the runs above. Five of them check the
inductive invariants of section 5 on small instances.

| Configuration | Module | Result |
|---|---|---|
| `FastHashtabInductive.cfg` | `MCFastHashtab` | `HashtabInv` and `EffectsOK` (section 5) hold, 283,904 states |
| `FastHashtabNoneEmpty.cfg` | `MCFastHashtab` | `HashtabInv`, `EffectsOK` and `NoneEmpty` (section 5) hold, 613,244 states |
| `CreateWaitAlone.cfg` | `MCCreateWait` | `FinalizedAlone` is violated (section 6) |
| `CreateWaitExit.cfg` | `MCCreateWait` | `NotTakenForMain` is violated (section 6) |
| `CreateWaitInductive.cfg` | `MCCreateWait` | `CreateWaitInv` (section 5) holds, 279,608 states |
| `AllocatorInductive.cfg` | `MCAllocator` | `ClientsInv` and `CountersInv` (section 5) hold, 123,554 states |
| `OmptTeamsLeave.cfg` | `MCOmptTeams` | `LeavesItsTeam` is violated (section 6) |
| `OmptTeamsInductive.cfg` | `MCOmptTeams` | `OmptTeamsInv` and `TimesOK` (section 5) hold, also for teams of 3, 1,064,239 states |
| `MpiRequestsStatus.cfg` | `MCMpiRequests` | `CompletionsRecorded` is violated (section 6) |
| `MpiRequestsFreeActive.cfg` | `MCMpiRequests` | `CorrespondingRequest` is violated (section 6) |
| `MpiRequestsLock.cfg` | `MCMpiRequests` | `LockExclusive` is violated (section 6) |
| `MpiRequestsUnmark.cfg` | `MCMpiRequests` | `MarkerKept` is violated (section 6) |
| `MpiRequestsReturn.cfg` | `MCMpiRequests` | `TypeOK` and `CallsReturn` hold, 364,397 states |

Every property of a passing run has a mutant, an operator named after the bug it
plants (`WriterReleaseReadersOne`, `KeptForgotten`, `ReleaseNotSpare`, …) and defined
in front of the operator it would replace.

### Why the bounds are enough

* **rwlock.** Three threads give a writer inside or waiting, a second writer at the
  mutex, and a reader, or two readers that a writer must count; behaviour is
  unbounded. For safety this is only the cheap first look: the same properties
  are proved for every number of threads.
* **hashtab.** Two threads suffice for every race between two operations. With three keys and chunks of two pairs a bucket grows by
  a chunk and shrinks again; with chunks of one pair every insertion and removal
  moves a chunk, and four calls are what it takes to fill a bucket with two chunks,
  empty it, and use the freed chunk in the other bucket. `MaxCalls` bounds the calls
  and also supplies the values. `Conditions` is the set of sets of keys a remove_if
  condition may hold for: all non-empty sets in `hashtab_one_bucket` and
  `hashtab_remove_if`, all keys in `hashtab_two_buckets`, where the defect of section 6
  does not arise and placement of chunks can be checked. `NChunks` is never a limit: the
  allocator of the template aborts the program when it fails.
  `hashtab_two_buckets` has neither `get`, whose steps are the first half of `insert`'s, nor
  `remove`, which differs from `get_and_remove` in what its caller is given. For safety both are
  the cheap first look: all of it is proved for any number of threads, keys, buckets and chunks.
* **allocator.** A page of four bytes with alignments 2 and 4 has an aligned and an
  unaligned end; size 6 needs a run of two pages; the constructor's page leaves room for
  two descriptors only, so the third object needs a maintenance page, and memory runs out
  in every position of every request. `MaxAllocated` bounds the page counter, which the
  code increments even if no page is found and which would otherwise grow without end.
  The other process sends a two-page run and a one-page page. For safety this is the
  cheap first look: every property of the run is proved for all sizes.
* **bitset.** Word size is a parameter; with 3 bits, ranges start, end and lie within
  words, span a whole word, and the last word is full, has one and has two members.
  All contents are reachable, all ranges and lengths are tried. For all other sizes it is proved.
* **create_wait.** Two threads beside the main thread give a thread that ends and one
  that begins on its location, while the main thread (or one of the two) finalizes.
  The non-reuse policy is the behaviour in which the pool is empty whenever a
  thread begins, and that occurs here too. The safety properties are proved for any number of
  threads, any reuse keys and any nesting.
* **ompt_teams.** The hard case needs a location whose member of one region is late while
  another thread is its member in the next, and a third region so that the second may
  be late as well and the first still not back: one index, two threads that take turns, three
  regions. Regions of one member and unrecorded ones come in between in every order.
* **mpi_requests, mpi_two_calls.** Two requests with the dummy handle make a list, whose objects two threads
  look up, append and remove in any interleaving of single accesses, and an entry that
  vanishes between lookup and lock. With a third request on
  the same handle the properties fail, of the model and of the code: that is what
  `mpi_two_calls` shows, and why `mpi_requests` has the bound `MaxShared` = 2. A third
  request is created there only if all requests have one handle and no two threads
  use it at a time: lists of three, an entry that goes and comes back from the
  pool, and a handle that passes from thread to thread. Two requests with different handles make
  reuse of an ordinary handle, of an entry and of an object. With three requests
  on both handles the instance has tens of millions of states, and was not completed.
  `MaxProbed` = 1: only the first request is cancelled and asked for its status, as often as
  the program likes. These calls set a flag of the object they find; what matters is
  that the flag survives until the completion and not into the object's next use.

Symmetry is used where only invariants or a refinement are checked and the
permuted values are interchangeable; no run with a liveness property uses it.

### Deadlock

TLC's deadlock check is on, except where the program may stop: CreateWait ends with the
process; MpiRequests has nothing left to do when its requests are used up; in `hashtab_one_bucket` a thread stops at an access outside a chunk (the
defect of section 6); in the allocator run the bound may leave nothing to do.

### Fairness

* **RWLock.** Weak fairness on the steps of each thread already inside a call, and on
  leaving a critical section: threads keep running and Score-P's critical sections
  are finite. Nobody has to call the lock. Under this, an announced writer gets in
  (`WriterGetsIn`), and if readers wait some are released (`ReadersReleased`).
  An *individual* reader may starve: the release units are anonymous, and a reader that
  arrives later can take the one meant for an earlier one. So the liveness property
  is about readers as a group.
* **FastHashtab.** Weak fairness on each thread inside a call. `EveryCallReturns` holds
  for finitely many calls, which is what `MaxCalls` gives; with an endless stream of
  inserts a search may be overtaken for ever (the code's search starts again when the
  bucket grew), and a thread may lose `TryLock` for ever.
* **CreateWait.** Weak fairness on the finalizing thread only. Other threads may stop
  anywhere, as they do in reality, when the program calls `exit()`: `FinalizeEnds` shows
  that scorep_finalize waits for nobody, and that a list growing under its walk does not
  keep it from ending. It ends because each thread appends at most one location.
* **OmptTeams.** Weak fairness on `Prompt`: threads and the callbacks the runtime owes are
  not put off for ever, except for the ends of the workers' barriers, which the runtime
  need not report before the tool is finalized. So `MemberRuns`, a member that was given an
  index begins its task, holds although the location's previous member never
  comes back; `FinalizeEnds` says that the finalization of the tool writes what is pending and ends.
* **MpiRequests** (`MpiRequestsReturn.cfg`). Strong fairness on the steps of each thread inside a
  call. Weak fairness would do but for the waiting: UTILS_Mutex is a test-and-set lock
  without a queue, and a thread spinning on an entry's lock could lose every time to one that
  calls MPI_Test in a loop. That it does not is assumed of the machine. Nobody has to call MPI.

## 5 Proofs

Proofs are in `RWLockProofs`, `FastHashtabProofs`, `FastHashtabRefinement`, `BitsetProofs`,
`AllocatorProofs`, `CreateWaitProofs` and `OmptTeamsProofs`, all checked by TLAPS with
its SMT, Zenon and LS4 backends.

### Reader-writer lock, any number of threads

Assumptions: `Threads` is finite, `NoThread` is not one of them, and there are fewer
threads than `MaxReaders`.

`MutualExclusion` is not inductive: which counter accounts for a reader depends on
where the writer is. The inductive invariant `RWLockInv` has the types, the mutex
discipline (exactly the holder is at a writer's pc), and `PhaseInv`, one disjunct per
position of the writer. Each disjunct says how `pending` splits into readers inside
and readers waiting, how `departing` and `release_writer` account for those that the
writer still has to see leave, and how many units of `release_n_readers` match readers
that wait for them. Cardinalities of the sets of threads at a pc change by one with
each step; the lemmas on `Count` say so and everything else is arithmetic.

* `Invariance`: `Spec => []RWLockInv`.
* `Exclusion`: `Spec => []MutualExclusion`.
* `AssertionsHold`: neither `UTILS_BUG_ON( swapped != 0 )` fires.
* `BackToInitial`: `Spec => []Quiescent`.
* `Refinement`: `Spec => ImplementsRWLockSpec`; every step that enters or leaves a
  critical section is the abstract step, all others stutter, and exclusion gives the
  abstract guards.

### Concurrent hash table, any number of threads, keys, buckets and chunks

Assumptions (`HashtabAssumption`): chunks have at least one slot and the table at least one
bucket, every key has a bucket, conditions are sets of keys. Nothing else is fixed: not the
hash function, which functions are called, nor how many threads call them.

`UniqueKeys` depends on nearly everything else: an insertion may publish its pair only because its
search under `insert_lock` saw every pair of the bucket, which it did only if its pointer into the
chain and its indices still denoted the slot after the ones it had seen, although
insertions before it made the chain longer, and chunks come back from other
buckets. `HashtabInv` says so in parts:

* `TypesOK`: types, of the locals too. Unlike `TypeOK` it admits the point `"oob"`, because a
  remove_if with a condition for some keys gets there;
* `LocksOK`: who holds a bucket's three locks can be told from the threads' control; a remover is alone;
* `CallsOK`: which call a thread is in at each point, that a call on a key is in the key's bucket,
  and that the values of two insertions under way differ;
* `ChunksApart`: the chains of the buckets and the free list, as paths along `next`, have no
  chunk in common and pass none twice, so each of them ends;
* `FilledOK`, `PairsUnique`: there are chunks for all pairs of a bucket, their keys belong to the bucket and
  differ. Between the move of the last pair and the decrement of `size` that pair is
  there twice, so both speak of `Top`, the size without it;
* `SearchOK`: a search stands at the cell in front of a chunk (`AtCell`) and has found none of the
  pairs before (`NoneBefore`). The size it loaded may be stale, but not under `insert_lock`;
* `RemoveOK`: a removal stands in a chunk (`AtChunk`), its chunk to be released is the last one, and
  what it has passed, or moved, does not match;
* `ValuesOK`: a value is in the table once, and alive exactly while its pair is in the table, or just about to
  be published, and not on its way out (`Dead`).

The free chunk that an insertion takes may have been any bucket's, and the one that a removal
gives back becomes the first of the free list; `AssignedLines` and `ReleaseLines` say what either
does to every chain at once. Everything about a chain follows from four lemmas on paths (`PathFrame`,
`PathShift`, `PathNull`, `PathCut`): what a change of links leaves of a path.

* `Invariance`: `Spec => []HashtabInv`.
* `UniqueKeysAlways`, `RemoveIfCompleteAlways`, `ValueAccountingAlways`: the properties
  `UniqueKeys`, `RemoveIfComplete`, `ValueAccounting`, whatever the conditions of remove_if.

The other invariants have the hypothesis `WholeTable`: remove_if is called with conditions
that hold for all keys, or not at all. Without it they fail, which is the defect of section 6. With
it `NoneEmpty` is inductive relative to `HashtabInv`: a chunk behind the first of a bucket has a pair,
or gets it by the insertion in progress (`Limit`); the allocated chunks are all placed;
and remove_if looks at the first slot only, from where the walk to the last chunk always
finds the one before it, so that an emptied chunk is released unless it is the first.

* `NoneEmptyAlways`: `WholeTable` implies `Spec => []NoneEmpty`.
* `TypesAlways`, `EmptyChunksReturnedAlways`, `ChunkPlacementAlways`: `TypeOK` (no access
  outside a chunk), `EmptyChunksReturned` and `ChunkPlacement`.

**Linearizability** (`FastHashtabRefinement`) needs no such hypothesis. Where a call takes effect
depends on other calls: an insertion takes effect when it stores the size, or when it sees another's
pair; a get that returns false when it finds the size unchanged; a removal with whichever
of its writes makes the key unreachable. That is the move, if the pair was not the last, otherwise the
release of the chunk or the store of the size, and each of these may also change nothing. `Map`
therefore reads the buckets with all their pairs, not only those below `Top`. Two invariants
on top of `HashtabInv` make it a map:

* `EffectsOK`: a result is set no earlier than its call's effect, or is the value of the pair in a remover's
  hand; the last pair of a bucket whose pair is being removed has become unreachable, or is the pair
  moved, or the one that goes, and its value is none that an insertion under way brings;
* `MapOK`, which follows (`MapIs`): `Map[k] = v` exactly if some pair of k's bucket is (k, v).

A step of one thread is *local* (`Local`): it leaves all pairs where they are, or appends, or its
thread is alone in the bucket. So it changes neither the status nor the result that the mapping gives the other
calls (`OthersFrame`). For its own call it is one of seven outcomes (`Outcomes`): it
stays, misses, sees its pair, returns, begins, publishes, or writes for a removal. One lemma for each outcome
leads to the action of HashtabSpec, with `Takes` for what a write removes.

* `EffectsAlways`: `Spec => []EffectsOK`.
* `Refinement`: `Spec => ImplementsHashtabSpec`.

### Bitset, any word size and number of members

Assumptions (`WordSizeAssumption`, `MemberCountsAssumption`): words have a bit and bitsets a member.

All arithmetic with the word size is in three lemmas: every position is one bit of one word
(`PositionIs`, `AtIs`), and positions are ordered by word, then by bit (`AtOrder`). By them `RangeMaskIs`
is a distinction of linear cases: wherever a range starts and ends in its words,
the mask of a word has exactly the bits of the positions in the range.

The searches compare whole words, so a lemma about positions needs that the bits behind the last
member are 1, which is `TypeOK` and inductive: a mask never reaches them (`MaskBits`). With it
`NextUsedIs` and `NextFreeIs` say what the two searches return, the number of members included. A round
of `bitset_find_and_set_range` ends at a run that fits or goes on behind one in which no
range fits (`SearchRound`). The search is recursive, but no induction over data is needed: the
function that gives every position the first fit from there on (`FitsFrom`) solves
the recursion, and no other does, since every round moves forward (`FirstRunIs`).

* `BitsetTypes`: `Spec => []TypeOK`.
* `BitsetRefinement`: `Spec => ImplementsBitsetSpec`.

### Allocator, any capacity, page size, managers and requests

`PagesInvariance` is the inductive invariant `PagesInv`: types, one owner per page
(`OneOwner` over the concatenation of a manager's list and its mapping page), no page
owned by a manager under construction, a positive number of pages per descriptor.
`PageOwnership` concludes `PagesHaveOneOwner`. The argument is in terms of lists of
descriptors: a manager *gains* a page whose span was free, *loses* all its pages
and the bitset loses their spans, or *refills* one of them, which changes no span.
One lemma each says what happens to `OneOwner`; one lemma per function under the lock
says what it returns; one per action puts the two together. Of the bitset search the
proof uses only that the result is a run that fits (`FirstFit`), which `BitsetProofs` shows of the code. `MaxAllocated` is any number, so that the proofs cover every
finite run of the program.

**Regions.** Three assumptions are added to those on sizes and
alignments, together `MovedAssumption`: a manager for definitions is never one for moved pages, the runs
that another process sends lie in its block, and no two of them overlap. The code creates
the two kinds of managers with different functions, and the sender's allocator gives every page
one owner, which is `PageOwnership` over there. `PagesLaidOut` translates ownership of
pages into bytes: descriptors are intervals apart from each other, behind page 0, in the
block. The inductive invariant `ClientsInv` says on top of it

* that the constructor's page 0 is never given away, so that no region and no mapped page
  has the address 0, which the code takes for "none";
* that every region lies in the used part of one of its manager's pages, and
  regions lie apart, of one manager or of two (`RegionsKept`);
* `RollbackPossible`, which is inductive with the rest: a later allocation of the same manager makes *its*
  region the last one, and other managers have other pages;
* that a run which has been mapped is mapped as a whole, and its bytes are one region
  (`MappedRun`): here disjointness of the runs is needed, for otherwise a later run would be
  written over the mapping of an earlier one.

A step adds a region at the end of a page's used part (`AddStep`, for a page with room, a new page
and a moved page alike), takes all of a manager's away (`AllFreed`), or takes back the last one.

* `ClientsInvariance`: `Spec => [](PagesInv /\ ClientsInv)`.
* `Refinement`: `Spec => ImplementsAllocatorSpec`.
* `Rollback`, `InfosComplete`, `MovedHandles`: `RollbackPossible`, `PageInfosComplete`,
  `MovedAddresses`. The last is arithmetic with division: any byte of any page of the run.

**Objects and counters.** What a maintenance page provides is
counted when it is made, so the number to follow is
`Balance` = free objects − maintenance pages × objects per page, which a get_union_object that
succeeds lowers by one whether or not it costs a page, one that fails leaves, and put_union_object raises
by one. The lemmas compose this through get_page and put_pages; `ObjectsStep` relates it
once for all operations to the number of descriptors in lists and of managers. That freed
pages are nobody's maintenance pages comes from `PagesInv`. The counters need
no more: the bitset has at most as many pages as n_pages_allocated counts (fewer when searches failed).

* `CountersInvariance`: `Spec => [](PagesInv /\ ClientsInv /\ CountersInv)`.
* `Conserved`: `Spec => []ObjectsConserved`.
* `TypeCorrect`: `Spec => []TypeOK`, whose bounds on descriptors need all three invariants.

### Create/wait threads, any number of threads

Assumptions (`CreateWaitAssumption`): finitely many threads beside the main thread, created ones and orphans
apart, each with a reuse key, at least one region of nesting. Which of them begin, end,
are cancelled, exit or never come back is open, and so is who calls exit() and when.

`CreateWaitInv` is the conjunction of

* `ThreadOK`: what a thread's control implies for its location, how it ends, and whether it was
  told to end its location;
* `FinalizerOK`: where the finalizing thread is in its walk, and the phase;
* `LocationsOwned`: a location is one thread's or in one pool once, and there are no more
  locations than threads that came; this is `LocationExclusive` made inductive;
* `LocationsAnnounced`: a location whose subsystem data is set, or that end_latecomer has
  taken, is in no pool, and its user has not begun to end it; who finds the data set and clears it
  is the one to end the location, hence `TerminatedOnce`;
* `StacksBounded`: a task stack is no deeper than its thread's regions. An inequality,
  because after the phase change threads leave regions without an event;
* `WithinInv`: as long as nobody finalizes, the stacks and the monitor of the events
  are exactly what the threads' control says;
* `QuietInv`: after the phase change, the same for the locations that nobody was writing to, by the
  position of the walk (`Ended`): such a location is still announced until the walk comes to it, since its
  user, when it wakes, no longer gets past the check of the phase;
* `ActiveCounted`: active_locations is the number of threads about to announce or to end
  their location, of locations announced, and of the one ended late: it can neither wrap
  below zero nor exceed the threads that came;
* that the main thread never has a `wrapped_arg`.

Most steps of a thread satisfy `OwnStep`: they change its own control and the events of its own location.
One lemma per conjunct carries it over such steps. Taking a location from a pool
or the list, announcing it, TryTerminate, giving it to a pool, and each step of the finalizing thread
have a lemma of their own; for the latter `QuietKept` is the common part.

* `Invariance`: `Spec => []CreateWaitInv`.
* `TypeCorrect`, `Exclusive`, `EndedOnce`, `WellFormed`, `QuietEnded`: the five properties of the
  run `create_wait_reuse`.

### OMPT teams, any number of threads, regions and members

Assumptions (`OmptTeamsAssumption`): finitely many workers, at least one region, team sizes
that the threads can fill. Which of them the runtime forms, which regions are
recorded, and how late a worker returns from its last barrier is open.

`EventOrder` and `NoUseAfterRelease` depend on each other: the events of a location are
in order because only one thread at a time may write the end of a task, and the task that it
writes for is still whole because its executing thread is waiting or far behind.
`OmptTeamsInv` says so in parts:

* `ThreadsOK`: what a thread's control implies for its index, its task, and for which of the
  three roles it writes an end (`ControlOK`, `CallerOK`);
* `OverdueOK`: a task is marked `overdue` exactly while one other thread, with the same index, writes its
  end, and the executing thread is then at or before the wait for that mark;
* `TasksOK`, `MembersOK`: a task belongs to a region that was opened; a team has one member of each
  index, so that two threads with the same index are in different regions;
* `BarrierOK`: until the barrier is complete its count is the number of the members that are
  there, and nobody is past it;
* `ReferencesOK`: `ref_count` of a region's object is the number of its members that have not
  released it, plus the primary's own reference; it is in the free list exactly when that
  is 0. Until all members have begun the count is that of the whole team (`References`), and
  this is where `MembersOK` and `BarrierOK` are needed;
* `StoredOK`: a worker stored for a location executes a task there and nobody is writing its end; for
  location 0 the primary's position says which task it is;
* `OpenOK`: at most one task of a location has not ended, and none when the next one begins;
* `OrderOK`: `preserve_order` of a location is locked exactly while the executing thread of a task of it writes
  its own end outside of the end of the tool; with `OpenOK` it says that a new member waits for
  it, and that it is unlocked by who locked it;
* `SyncsOK`, `EventsOK`: the barriers open and the last event of a location are what the
  position of its open task says;
* `EndKnownOK`: the primary's time for the end of a region is known to every thread that is left in the
  region when the primary is past it, which is why the end of the tool may assert it.

Its last conjunct says that of the assertions at most two can have failed, those about times. Most
steps satisfy a frame condition with one lemma per conjunct; the two begins, the two ends
written for another thread, the release of the objects, and the fork and join of a region are
proved conjunct by conjunct.

* `Invariance`: `Spec => []OmptTeamsInv`.
* `TypeCorrect`, `EventsOrdered`, `NothingReleasedInUse`, `NothingIsLeftBehind`: the
  properties `TypeOK`, `EventOrder`, `NoUseAfterRelease`, `NothingLeftBehind` of `ompt_teams`.
* `OnlyTimesMayFail`: whatever the clock does, only the assertions of
  SCOREP_Location_SetLastTimestamp and of the team begin may fail.
* `NoAssertionEverFails`: with `Tick = 0`, when all reads of the clock give one value, not
  even these; the invariant is then joined by `TimesOK`. The hypothesis
  is the instance that `ompt_teams` checks. It cannot be dropped: with a clock that advances
  `ompt_times` shows the first of the two assertions fail (section 6).

### What is only model-checked

All of MpiRequests; and liveness: that writers get in, that calls return, that a member of a team
begins and that both finalizations end. Of the lock, the hash table, the bitset, the allocator, create/wait and OmptTeams
nothing else that a passing run checks is left.

Out of TLAPS' reach are liveness and ENABLED, and the library's induction theorems, whose
parameter is an operator. Where an induction over numbers is needed (the paths of
FastHashtabProofs, the search of BitsetProofs) it is over the set of numbers that have the property, and rests on
well-foundedness (`SmallestOf`, `SetInduction`, `LeastOf`). The modules that proofs use have no
RECURSIVE operator; recursive functions are used instead.

## 6 Disagreements with the code's own words

Three runs are expected to fail, and each shows a disagreement between the code and
what a comment, an assertion or the documentation says.

1. `hashtab_remove_if`. The header says that a removal that empties a chunk stores it
   in the free list (SCOREP_FastHashtab.h:196). `remove_if` passes
   `previous_chunk = NULL` (line 697), and when it removes the only pair of the last
   chunk, and that is not the first, the chunk stays chained. A later removal in the
   same bucket looks for the last pair in the empty chunk (line 535). TLC shows
   the chunk; the type invariant, which excludes an access outside a chunk, is checked
   where it cannot arise.
2. `ompt_times`. The end of a worker's barrier and task are given the primary's times
   if those are set when the worker looks, and the current time otherwise, each for itself. A
   worker that reads the clock for its barrier end, when the primary has since
   taken the time of the task end, writes a task end earlier than its barrier end.
   SCOREP_Location_SetLastTimestamp asserts the contrary and aborts, suspecting the
   clock ("Wrong timestamp order on location").
3. `mpi_two_calls`. scorep_mpi_request_get returns the "Pointer to corresponding internal
   request entry" (scorep_mpi_request_mgmt.h:277), and marks the object so that no other
   call gets it until "no more work needs to be done on the request" (line 178). With
   three requests on one dummy handle, used by two threads, two calls get the same object. There are two ways;
   the run's trace takes the first.
   * The lock does not exclude. scorep_mpi_request_free removes the entry from the table, which returns it
     to the pool, and unlocks it afterwards (scorep_mpi_request_mgmt.c:594-600). A thread that has
     taken it from the pool and locked it loses the lock; so does a thread that locks an
     entry which another one takes from the pool and clears (line 127). "Lock the current entry, such that the new request can be
     inserted" (line 260) then does not keep others out: `MpiRequestsLock.cfg` shows two threads in
     the section. Two walks over the list may both see an object unmarked, and between the check that an object
     is alone (line 592) and the removal of its entry another may be appended, which is lost.
   * The mark is cleared late. A call unmarks its object after it has freed it (line 550),
     when it may be the object of another request and marked for a call on that:
     `MpiRequestsUnmark.cfg` shows it with two requests, where it does no harm yet. A third
     request makes a list whose first object is in use and not marked.

   The completion of one request is then written twice and that of another never, and
   the second call to free the object reports that it is not in the list: at three requests
   `CompletionsRecorded`, `TableComplete` and `ObjectsConserved` fail as well.
   It takes MPI_THREAD_MULTIPLE, for which OPEN_ISSUES promises limited support that does not crash.

The additional configurations of section 4 show five more.

4. `CreateWaitAlone.cfg`. SCOREP_Thread_InParallel is documented to return true if more
   than one thread is active; it tests `active_locations > 1`, and the master is not
   counted in that variable. With one other thread active it returns false, and the
   assertion "Threads other than the master active." of
   SCOREP_Location_FinalizeLocations passes.
5. `CreateWaitExit.cfg`. cleanup_handler of a detached or cancelled thread clears
   `wrapped_arg` after the location has gone to the reuse pool. The thread that has begun
   on that location loses its own, and its pthread_exit takes it for the main thread.
6. `OmptTeamsLeave.cfg`. A worker's TEAM_END takes the team from the location's thread-private
   data when it is written. If the location's next member has begun in a team of another
   size by then, the event names that one.
7. `MpiRequestsStatus.cfg`. MPI_Request_get_status of an inactive persistent request returns
   true, and the wrapper marks the object completed; MPI_Start does not clear the mark, and
   the next operation's completion is not recorded. The manual says that "an
   OTF2_IsendComplete event [is recorded] when the event was completed"
   (doc/doxygen-user/05_measurement.dox:829).
8. `MpiRequestsFreeActive.cfg`. Freeing an active persistent request marks its object for deallocation
   when the operation is completed by a call on it, but there is no such call any more.
   The object stays in the table, and the next request that MPI gives the handle is looked
   up as the one that was freed.

Two more facts that a reader of the models should know. The counter
`n_pages_allocated` is incremented even if no page is found ("increment even if there is
no new page"), so GetStats overstates the use after a failed request. And the phase change of
scorep_finalize, a plain store, does not stop a thread that is already on its way
to an event: `QuietComplete` is therefore about the locations nobody was writing
to at that moment.

## 7 What is not modelled

* Subsystem order, deferred initialization of locations, the out-of-memory report,
  definitions, unification, profiling, rewind regions and I/O handles: planned, see
  section 8.
* Of OMPT and the fork/join layer, and of the MPI requests: see the abstractions in
  section 3. The fork/join layer is modelled as OMPT calls it, not as OPARI2 does.
* Of the create/wait component: pthread_join, the wrappers of mutexes, condition
  variables and rwlocks, explicit tasks, and the substrates' activation and
  deactivation callbacks.
* Of the runtime management: initialization, recording on/off, abort, the exit
  callbacks; scorep_finalize only as far as other threads see it.
* The weak memory order of the machine. The atomics of the code are sequentially
  consistent except for the relaxed loads in spin loops, which are followed by a
  compare-exchange; models take every access as atomic and in program order.
* `CreateAllocator`'s arithmetic on sizes: the number of pages the constructor takes and
  how many descriptors fit are constants.
* Clock synchronization, filtering, tools, generated wrappers, build system: numeric,
  sequential or stateless.
* Timestamps, except in OmptTeams.

## 8 Plan

Done, in this order: RWLock and its proofs, FastHashtab, Bitset, Allocator and
its ownership proof, CreateWait, OmptTeams, MpiRequests, the proofs of
CreateWait, of the allocator's regions, objects and refinement, of OmptTeams, of FastHashtab
and its refinement of HashtabSpec, and of Bitset.

| Step | Module | Composes | Abstract specification / main properties | Proof |
|---|---|---|---|---|
| 1 | `Location` | the list of CreateWait | each location is initialized once, by its creator or by ActivateInitLocations, and finalized once | the safety invariant |
| 2 | `RuntimeManagement` | Location, subsystems in order | forward and reverse order of subsystems; recording on/off; finalize from exit, abort and signal; at most one finalization | order invariant |
| 3 | `Memory` | Allocator's failures | one out-of-memory report, which walks the managers without the lock | – |
| 4 | `OmptTeams` (more) | Location | nested regions: teams form a tree; reuse by fork hash; explicit tasks | location exclusivity |
| 5 | `Definitions`, `Unify` | Allocator (AllocMovable, rollback, moved pages) | hash-consing: one handle per definition; every local handle maps to one global definition whatever the order of messages | – |
| 6 | `IoHandles` | HashtabSpec | a handle is destroyed once, never used after; operations nest per thread | – |
| 7 | `ProfileTasks`, `Rewind` | Location | nodes conserved under migration; rewind stack | as far as time allows |
| 8 | `MpiRequestsProofs` | MpiRequests | – | with `Shared = {}`, for any number of threads and requests: no object in two calls, then `ObjectsConserved`. With shared handles it is false (section 6, item 3) |

Principles for these: at most twelve instances are kept, each for a question of its
own; when a theorem makes a run redundant the run gives way to a new one. Parameters
are CONSTANTS with assumptions as weak as the code justifies, one action per operation,
invariants as conjunctions of named parts, no RECURSIVE operators.

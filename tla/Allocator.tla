----------------------------- MODULE Allocator ------------------------------
(***************************************************************************)
(* The paged memory allocator of src/src/utils/memory.                     *)
(*                                                                         *)
(* One block of memory, cut into Capacity pages, serves every subsystem.   *)
(* A page manager owns a list of pages (each a run of `order' consecutive  *)
(* pages) and carves client memory out of them, front to back.  The pages  *)
(* that hold the allocator's own objects (page descriptors and page        *)
(* managers) come from the same block, on demand.                          *)
(*                                                                         *)
(* The steps between lock_allocator and unlock_allocator are one action;   *)
(* what a manager's owner does to its own list outside the lock is part of *)
(* the action it follows.  An address is counted in bytes from the start   *)
(* of the block, so an address below PageSize is the code's null pointer.  *)
(***************************************************************************)
EXTENDS Integers, Sequences, FiniteSets, FirstFit

CONSTANTS Plain,          \* page managers used with Alloc and AlignedAlloc
          Definitions,    \* those used with AllocMovable and its rollback
          Moved,          \* those that receive the pages of another process
          Capacity,       \* n_pages_capacity
          PageSize,       \* bytes per page
          MaintPages,     \* pages the constructor takes for itself
          FirstObjects,   \* objects that fit behind the constructor's data
          ObjectsPerPage, \* objects a new maintenance page provides
          MappingOrder,   \* pages of the mapping of a moved page manager
          Alignment,      \* SCOREP_ALLOCATOR_ALIGNMENT
          Alignments,     \* alignments clients ask for
          Sizes,          \* sizes clients ask for
          RemoteUsage,    \* remote page id -> bytes used, of the moved pages
          MaxAllocated    \* bound on n_pages_allocated, see MayTake

Managers == Plain \cup Definitions \cup Moved
PageIds == 0..Capacity - 1

ASSUME PagesAssumption ==
    /\ Capacity \in Nat /\ PageSize \in Nat \ {0}
    /\ MaintPages \in 1..Capacity /\ MappingOrder \in Nat \ {0}
    /\ FirstObjects \in Nat /\ ObjectsPerPage \in Nat \ {0}
    /\ MaxAllocated \in Nat

ASSUME RequestsAssumption ==
    /\ Sizes \subseteq Nat \ {0}
    /\ Alignments \subseteq 1..PageSize
    /\ Alignment \in Alignments
    /\ DOMAIN RemoteUsage \subseteq PageIds \ {0}
    /\ \A r \in DOMAIN RemoteUsage : RemoteUsage[r] \in Nat \ {0}

VARIABLES allocator,       \* the SCOREP_Allocator_Allocator
          stage,           \* how far the creation of a page manager is
          pages,           \* pages_in_use_list, head first
          mappingPage,     \* moved_page_id_mapping_page, as <<page>> or <<>>
          mapping,         \* remote page id -> local page id, 0 if not mapped
          lastAllocation,  \* the allocation that could be rolled back
          inUse            \* history: regions handed out and not given back

vars == <<allocator, stage, pages, mappingPage, mapping, lastAllocation, inUse>>

NoMapping == [r \in PageIds |-> 0]

Init ==
    /\ allocator = [bitset |-> 0..MaintPages - 1,
                    maintenance |-> 0..MaintPages - 1,
                    freeObjects |-> FirstObjects,
                    nAllocated |-> MaintPages,
                    highWatermark |-> MaintPages]
    /\ stage = [m \in Managers |-> "absent"]
    /\ pages = [m \in Managers |-> <<>>]
    /\ mappingPage = [m \in Managers |-> <<>>]
    /\ mapping = [m \in Managers |-> NoMapping]
    /\ lastAllocation = [m \in Managers |-> 0]
    /\ inUse = [m \in Managers |-> {}]

-----------------------------------------------------------------------------
(* Pages: scorep_page.h.  A page is [id, order, used]. *)

Order(bytes) == (bytes + PageSize - 1) \div PageSize
Span(p) == p.id..p.id + p.order - 1
Start(p) == p.id * PageSize
RoundUp(n, alignment) == ((n + alignment - 1) \div alignment) * alignment

(* Definitions live in a manager of their own, and the pages that another
   process sends lie in its block and are no two runs' at once. *)
RemoteRun(r) == r..r + Order(RemoteUsage[r]) - 1
ASSUME MovedAssumption ==
    /\ Definitions \cap Moved = {}
    /\ \A r \in DOMAIN RemoteUsage : RemoteRun(r) \subseteq PageIds
    /\ \A r, s \in DOMAIN RemoteUsage : r # s => RemoteRun(r) \cap RemoteRun(s) = {}

(* grab_page_memory: where the request would start, and whether it fits. *)
GrabAt(p, alignment) == RoundUp(p.used, alignment)
(* Bug: the room the alignment costs is forgotten. *)
FitsUnaligned(p, size, alignment) == p.used + size <= p.order * PageSize

Fits(p, size, alignment) ==
    GrabAt(p, alignment) + size <= p.order * PageSize
Grab(p, size, alignment) == [p EXCEPT !.used = GrabAt(p, alignment) + size]
Region(p, size, alignment) ==
    <<Start(p) + GrabAt(p, alignment), Start(p) + GrabAt(p, alignment) + size>>

-----------------------------------------------------------------------------
(* The functions a caller runs under the allocator lock.  Each maps an
   allocator to what it becomes; a search that fails returns Capacity. *)

(* bitset_find_and_set[_range], as module Bitset shows them to be *)
FindRange(a, length) == FirstFit(a.bitset, Capacity, length)

(* track_bitset_find_and_set[_range]: counts the pages even if there are none. *)
TakePages(a, id, length) ==
    LET n == a.nAllocated + length
    IN  [a EXCEPT !.nAllocated = n,
                  !.highWatermark = IF n > @ THEN n ELSE @,
                  !.bitset = IF id < Capacity THEN @ \cup id..id + length - 1 ELSE @]

(* put_union_object *)
PutObject(a) == [a EXCEPT !.freeObjects = @ + 1]

(* get_union_object, which may turn a page into a maintenance page *)
GetObject(a) ==
    LET id == FindRange(a, 1)
        b == TakePages(a, id, 1)
    IN  IF a.freeObjects > 0
        THEN [ok |-> TRUE, a |-> [a EXCEPT !.freeObjects = @ - 1]]
        ELSE IF id = Capacity
        THEN [ok |-> FALSE, a |-> b]
        ELSE [ok |-> TRUE,
              a |-> [b EXCEPT !.maintenance = @ \cup {id},
                              !.freeObjects = ObjectsPerPage - 1]]

(* get_page *)
GetPage(a, order) ==
    LET g == GetObject(a)
        id == FindRange(g.a, order)
        b == TakePages(g.a, id, order)
    IN  IF ~g.ok
        THEN [ok |-> FALSE, a |-> g.a, page |-> <<>>]
        ELSE IF id = Capacity
        THEN [ok |-> FALSE, a |-> PutObject(b), page |-> <<>>]
        ELSE [ok |-> TRUE, a |-> b,
              page |-> <<[id |-> id, order |-> order, used |-> 0]>>]

(* Bug: of a run of pages only the first is cleared. *)
PutPagesFirst(a, list) ==
    [a EXCEPT !.bitset = @ \ {list[i].id : i \in DOMAIN list},
              !.nAllocated = @ - Len(list),
              !.freeObjects = @ + Len(list)]

(* put_page for every page of a list *)
PutPages(a, list) ==
    LET back == UNION {Span(list[i]) : i \in DOMAIN list}
    IN  [a EXCEPT !.bitset = @ \ back,
                  !.nAllocated = @ - Cardinality(back),
                  !.freeObjects = @ + Len(list)]

-----------------------------------------------------------------------------
(* get_page_manager, first half of both constructors *)

CreateObject(m) ==
    LET g == GetObject(allocator)
    IN  /\ stage[m] = "absent"
        /\ allocator' = g.a
        /\ stage' = [stage EXCEPT ![m] = IF g.ok THEN "object" ELSE "absent"]
        /\ UNCHANGED <<pages, mappingPage, mapping, lastAllocation, inUse>>

(* SCOREP_Allocator_CreatePageManager, second half: the first page may fail. *)
CreatePage(m) ==
    LET g == GetPage(allocator, Order(PageSize))
    IN  /\ m \notin Moved
        /\ stage[m] = "object"
        /\ allocator' = g.a
        /\ pages' = [pages EXCEPT ![m] = g.page]
        /\ stage' = [stage EXCEPT ![m] = "ready"]
        /\ UNCHANGED <<mappingPage, mapping, lastAllocation, inUse>>

(* Bug: the manager object is forgotten when the mapping gets no page. *)
CreateMappingLeaks(m) ==
    LET g == GetPage(allocator, MappingOrder)
    IN  /\ m \in Moved
        /\ stage[m] = "object"
        /\ allocator' = g.a
        /\ mappingPage' = [mappingPage EXCEPT ![m] = g.page]
        /\ stage' = [stage EXCEPT ![m] = IF g.ok THEN "ready" ELSE "absent"]
        /\ UNCHANGED <<pages, mapping, lastAllocation, inUse>>

(* SCOREP_Allocator_CreateMovedPageManager, second half: without a page for
   the mapping the manager object is put back. *)
CreateMapping(m) ==
    LET g == GetPage(allocator, MappingOrder)
    IN  /\ m \in Moved
        /\ stage[m] = "object"
        /\ allocator' = IF g.ok THEN g.a ELSE PutObject(g.a)
        /\ mappingPage' = [mappingPage EXCEPT ![m] = g.page]
        /\ stage' = [stage EXCEPT ![m] = IF g.ok THEN "ready" ELSE "absent"]
        /\ UNCHANGED <<pages, mapping, lastAllocation, inUse>>

(* Bug: a rollback stays possible after everything was freed. *)
FreeKeepsLast(m) ==
    /\ stage[m] = "ready"
    /\ allocator' = PutPages(allocator, pages[m])
    /\ pages' = [pages EXCEPT ![m] = <<>>]
    /\ mapping' = [mapping EXCEPT ![m] = NoMapping]
    /\ inUse' = [inUse EXCEPT ![m] = {}]
    /\ UNCHANGED <<stage, mappingPage, lastAllocation>>

(* SCOREP_Allocator_Free *)
Free(m) ==
    /\ stage[m] = "ready"
    /\ allocator' = PutPages(allocator, pages[m])
    /\ pages' = [pages EXCEPT ![m] = <<>>]
    /\ mapping' = [mapping EXCEPT ![m] = NoMapping]
    /\ lastAllocation' = [lastAllocation EXCEPT ![m] = 0]
    /\ inUse' = [inUse EXCEPT ![m] = {}]
    /\ UNCHANGED <<stage, mappingPage>>

(* SCOREP_Allocator_DeletePageManager *)
Delete(m) ==
    /\ stage[m] = "ready"
    /\ allocator' = PutObject(PutPages(allocator, pages[m] \o mappingPage[m]))
    /\ pages' = [pages EXCEPT ![m] = <<>>]
    /\ mappingPage' = [mappingPage EXCEPT ![m] = <<>>]
    /\ mapping' = [mapping EXCEPT ![m] = NoMapping]
    /\ lastAllocation' = [lastAllocation EXCEPT ![m] = 0]
    /\ inUse' = [inUse EXCEPT ![m] = {}]
    /\ stage' = [stage EXCEPT ![m] = "absent"]

-----------------------------------------------------------------------------
(* page_manager_alloc: the first page of the list with room, else a new one.
   A region handed out by AllocMovable is the one a rollback may discard. *)

HandOut(m, page, size, alignment) ==
    LET region == Region(page, size, alignment)
    IN  /\ inUse' = [inUse EXCEPT ![m] = @ \cup {region}]
        /\ lastAllocation' = IF m \in Definitions
                             THEN [lastAllocation EXCEPT ![m] = region[1]]
                             ELSE lastAllocation

NoRoom(m, n, size, alignment) ==
    \A i \in 1..n : ~Fits(pages[m][i], size, alignment)

AllocFromList(m, size, alignment) ==
    \E i \in DOMAIN pages[m] :
        /\ NoRoom(m, i - 1, size, alignment)
        /\ Fits(pages[m][i], size, alignment)
        /\ pages' = [pages EXCEPT ![m][i] = Grab(@, size, alignment)]
        /\ HandOut(m, pages[m][i], size, alignment)
        /\ UNCHANGED allocator

AllocFromNewPage(m, size, alignment) ==
    LET g == GetPage(allocator, Order(size))
    IN  /\ NoRoom(m, Len(pages[m]), size, alignment)
        /\ g.ok
        /\ allocator' = g.a
        /\ pages' = [pages EXCEPT ![m] = <<Grab(g.page[1], size, alignment)>> \o @]
        /\ HandOut(m, g.page[1], size, alignment)

AllocFails(m, size, alignment) ==
    LET g == GetPage(allocator, Order(size))
    IN  /\ NoRoom(m, Len(pages[m]), size, alignment)
        /\ ~g.ok
        /\ allocator' = g.a
        /\ UNCHANGED <<pages, lastAllocation, inUse>>

PageManagerAlloc(m, size, alignment) ==
    /\ stage[m] = "ready"
    /\ size <= Capacity * PageSize
    /\ \/ AllocFromList(m, size, alignment)
       \/ AllocFromNewPage(m, size, alignment)
       \/ AllocFails(m, size, alignment)
    /\ UNCHANGED <<stage, mappingPage, mapping>>

(* SCOREP_Allocator_Alloc, SCOREP_Allocator_AlignedAlloc *)
Alloc(m, size, alignment) == m \in Plain /\ PageManagerAlloc(m, size, alignment)

(* SCOREP_Allocator_AllocMovable *)
AllocMovable(m, size) ==
    m \in Definitions /\ PageManagerAlloc(m, size, Alignment)

(* Bug: the whole page is taken back with the last allocation. *)
RollbackWholePage(m) ==
    LET last == lastAllocation[m]
        holds(p) == Start(p) <= last /\ last < Start(p) + p.used
    IN  /\ last # 0
        /\ \E i \in DOMAIN pages[m] :
              /\ holds(pages[m][i])
              /\ \A j \in 1..i - 1 : ~holds(pages[m][j])
              /\ pages' = [pages EXCEPT ![m][i].used = 0]
        /\ lastAllocation' = [lastAllocation EXCEPT ![m] = 0]
        /\ inUse' = [inUse EXCEPT ![m] = {r \in @ : r[1] # last}]
        /\ UNCHANGED <<allocator, stage, mappingPage, mapping>>

(* SCOREP_Allocator_RollbackAllocMovable( pageManager, last_allocation ) *)
RollbackAllocMovable(m) ==
    LET last == lastAllocation[m]
        holds(p) == Start(p) <= last /\ last < Start(p) + p.used
    IN  /\ last # 0
        /\ \E i \in DOMAIN pages[m] :
              /\ holds(pages[m][i])
              /\ \A j \in 1..i - 1 : ~holds(pages[m][j])
              /\ pages' = [pages EXCEPT ![m][i].used = last - Start(pages[m][i])]
        /\ lastAllocation' = [lastAllocation EXCEPT ![m] = 0]
        /\ inUse' = [inUse EXCEPT ![m] = {r \in @ : r[1] # last}]
        /\ UNCHANGED <<allocator, stage, mappingPage, mapping>>

-----------------------------------------------------------------------------
(* SCOREP_Allocator_AllocMovedPage: page r of another process, which uses
   RemoteUsage[r] of its bytes, gets a page here to be copied into. *)

(* Bug: only the first page of the run is entered. *)
MapSpanFirst(f, r, page) == [f EXCEPT ![r] = page.id]

MapSpan(f, r, page) ==
    [q \in PageIds |-> IF q \in r..r + page.order - 1
                       THEN page.id + (q - r)
                       ELSE f[q]]

AllocMovedPage(m, r) ==
    LET g == GetPage(allocator, Order(RemoteUsage[r]))
        page == [g.page[1] EXCEPT !.used = RemoteUsage[r]]
    IN  /\ m \in Moved
        /\ stage[m] = "ready"
        /\ mapping[m][r] = 0
        /\ allocator' = g.a
        /\ IF g.ok
           THEN /\ pages' = [pages EXCEPT ![m] = <<page>> \o @]
                /\ mapping' = [mapping EXCEPT ![m] = MapSpan(@, r, page)]
                /\ inUse' = [inUse EXCEPT ![m] =
                                @ \cup {<<Start(page), Start(page) + page.used>>}]
           ELSE UNCHANGED <<pages, mapping, inUse>>
        /\ UNCHANGED <<stage, mappingPage, lastAllocation>>

(* SCOREP_Allocator_GetAddressFromMovedMemory *)
AddressFromMoved(m, movable) ==
    mapping[m][movable \div PageSize] * PageSize + (movable % PageSize)

(* Bug: every page is written to the first position of the arrays. *)
PageInfosLast(m) ==
    {p \in {pages[m][i] : i \in DOMAIN pages[m]} :
        /\ p.used > 0
        /\ p = pages[m][Len(pages[m])]}

(* SCOREP_Allocator_GetPageInfos: what is sent to another process *)
PageInfos(m) ==
    {p \in {pages[m][i] : i \in DOMAIN pages[m]} : p.used > 0}

-----------------------------------------------------------------------------
(* The program may stop asking: once n_pages_allocated could pass the bound,
   only the operations that give back are left. *)
MayTake == allocator.nAllocated < MaxAllocated

Next ==
    \E m \in Managers :
        \/ MayTake /\ CreateObject(m)
        \/ MayTake /\ CreatePage(m)
        \/ MayTake /\ CreateMapping(m)
        \/ Free(m)
        \/ Delete(m)
        \/ \E size \in Sizes, alignment \in Alignments :
              MayTake /\ Alloc(m, size, alignment)
        \/ \E size \in Sizes : MayTake /\ AllocMovable(m, size)
        \/ RollbackAllocMovable(m)
        \/ \E r \in DOMAIN RemoteUsage : MayTake /\ AllocMovedPage(m, r)

Spec == Init /\ [][Next]_vars

-----------------------------------------------------------------------------
(* Properties *)

PageRecord == [id : PageIds, order : 1..Capacity, used : 0..Capacity * PageSize]

(* The allocator's fields and every page descriptor stay in range; a
   descriptor lies within the block and never hands out more than it has. *)
TypeOK ==
    /\ allocator \in [bitset : SUBSET PageIds, maintenance : SUBSET PageIds,
                      freeObjects : Nat, nAllocated : Nat, highWatermark : Nat]
    /\ stage \in [Managers -> {"absent", "object", "ready"}]
    /\ pages \in [Managers -> Seq(PageRecord)]
    /\ mappingPage \in [Managers -> Seq(PageRecord)]
    /\ mapping \in [Managers -> [PageIds -> PageIds]]
    /\ lastAllocation \in [Managers -> Nat]
    /\ \A m \in Managers : \A i \in DOMAIN pages[m] :
          LET p == pages[m][i]
          IN  p.id + p.order <= Capacity /\ p.used <= p.order * PageSize

(* The pages of a manager, its mapping included. *)
Owned(m) == pages[m] \o mappingPage[m]
OwnedIds(m) == UNION {Span(Owned(m)[i]) : i \in DOMAIN Owned(m)}

(* The bitset marks exactly the pages that somebody owns, and no page has two
   owners: neither two descriptors, of one manager or of two, nor a descriptor
   and the allocator's own bookkeeping (n_pages_maintenance of them). *)
PagesHaveOneOwner ==
    /\ allocator.bitset =
          allocator.maintenance \cup UNION {OwnedIds(m) : m \in Managers}
    /\ \A m \in Managers : OwnedIds(m) \cap allocator.maintenance = {}
    /\ \A m, n \in Managers :
          \A i \in DOMAIN Owned(m), j \in DOMAIN Owned(n) :
             <<m, i>> # <<n, j>> => Span(Owned(m)[i]) \cap Span(Owned(n)[j]) = {}

(* No descriptor or manager object is lost or doubled, whatever requests
   failed half way: the objects made so far are free, or describe an owned
   page, or are a page manager. *)
Descriptors == UNION {{m} \X DOMAIN Owned(m) : m \in Managers}
Made == {m \in Managers : stage[m] # "absent"}
ObjectsConserved ==
    allocator.freeObjects + Cardinality(Descriptors) + Cardinality(Made) =
       FirstObjects
       + (Cardinality(allocator.maintenance) - MaintPages) * ObjectsPerPage

(* The rollback's search always finds the page of the last movable
   allocation, and discards nothing else: that region ends the used part. *)
RollbackPossible ==
    \A m \in Managers :
        lastAllocation[m] # 0 =>
            \E r \in inUse[m], i \in DOMAIN pages[m] :
                /\ r[1] = lastAllocation[m]
                /\ Start(pages[m][i]) <= r[1]
                /\ r[2] = Start(pages[m][i]) + pages[m][i].used

(* Every definition written to this process's pages is inside the used part
   of a page that GetPageInfos announces to the process unifying them. *)
PageInfosComplete ==
    \A m \in Definitions : \A r \in inUse[m] :
        \E p \in PageInfos(m) :
            Start(p) <= r[1] /\ r[2] <= Start(p) + p.used

(* A handle into a moved page, of any order, leads to the byte of the local
   copy at the same offset: multi-page runs stay consecutive and no other
   moved page disturbs the mapping. *)
MovedAddresses ==
    \A m \in Moved : \A r \in DOMAIN RemoteUsage :
        mapping[m][r] # 0 =>
            LET copy == AddressFromMoved(m, r * PageSize)
            IN  /\ <<copy, copy + RemoteUsage[r]>> \in inUse[m]
                /\ \A k \in 0..RemoteUsage[r] - 1 :
                      AddressFromMoved(m, r * PageSize + k) = copy + k

Regions == {<<a, a + n>> : a \in PageSize..Capacity * PageSize,
                           n \in Sizes \cup {RemoteUsage[r] : r \in DOMAIN RemoteUsage}}

Abstract == INSTANCE AllocatorSpec

(* Clients see disjoint regions that vanish only when they give them back. *)
ImplementsAllocatorSpec == Abstract!Spec

-----------------------------------------------------------------------------
(* The inductive invariant of what clients hold *)

Covers(p, r) == Start(p) <= r[1] /\ r[2] <= Start(p) + p.used

(* Regions lie apart, in the used parts of their manager's pages P. *)
UsedInPage(P) ==
    \A m \in Managers : \A i \in DOMAIN P[m] :
       0 <= P[m][i].used /\ P[m][i].used <= P[m][i].order * PageSize
RegionsApart(U) ==
    \A m, n \in Managers : \A r \in U[m], s \in U[n] :
       <<m, r>> # <<n, s>> => Abstract!Apart(r, s)
RegionsKept(P, U) ==
    /\ U \in [Managers -> SUBSET Regions]
    /\ UsedInPage(P) /\ RegionsApart(U)
    /\ \A m \in Managers : \A r \in U[m] :
          \E i \in DOMAIN P[m] : Covers(P[m][i], r)

(* The mapping of a run that has arrived is the identity but for an offset,
   and its bytes are one region. *)
MappedRun(f, regions, r) ==
    f[r] # 0 => /\ <<f[r] * PageSize, f[r] * PageSize + RemoteUsage[r]>> \in regions
                /\ \A q \in RemoteRun(r) : f[q] = f[r] + (q - r)

ClientsInv ==
    /\ 0 \in allocator.maintenance
    /\ RegionsKept(pages, inUse)
    /\ \A m \in Managers : lastAllocation[m] # 0 => m \in Definitions
    /\ RollbackPossible
    /\ mapping \in [Managers -> [PageIds -> PageIds]]
    /\ \A m \in Moved : \A r \in DOMAIN RemoteUsage :
          MappedRun(mapping[m], inUse[m], r)

(* n_pages_allocated also counts pages that were not found. *)
CountersInv ==
    /\ allocator.freeObjects >= 0
    /\ Cardinality(allocator.bitset) <= allocator.nAllocated
    /\ allocator.highWatermark >= 0
    /\ IsFiniteSet(Descriptors) /\ IsFiniteSet(Made) /\ ObjectsConserved
    /\ \A m \in Managers : \A i \in DOMAIN mappingPage[m] : mappingPage[m][i].used = 0
=============================================================================

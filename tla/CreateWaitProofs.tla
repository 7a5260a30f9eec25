-------------------------- MODULE CreateWaitProofs --------------------------
(***************************************************************************)
(* Create/wait threads and scorep_finalize, for any number of threads, any *)
(* reuse keys, and any threads that are still running when the measurement *)
(* ends: a location has one user at a time, is ended once, and its events  *)
(* are well-formed.                                                        *)
(*                                                                         *)
(* OwnStep describes what most steps of a thread are: they change nothing  *)
(* but the thread's control and the events of its own location.  The steps *)
(* that take, announce or give away a location, and those of               *)
(* scorep_finalize, are proved one by one.                                 *)
(***************************************************************************)
EXTENDS CreateWait, FiniteSetTheorems, TLAPS

-----------------------------------------------------------------------------
(* Finite sets and numbers *)

LEMMA SetFacts ==
    /\ IsFiniteSet(Threads) /\ IsFiniteSet(Locations) /\ IsFiniteSet(Others)
    /\ Cardinality(Others) \in Nat /\ Others \subseteq Threads /\ Main \notin Others
    /\ Main \in Threads /\ \A t \in Threads : t # Main => t \in Others
    /\ \A l \in Locations : l \in Nat /\ l >= 1 /\ l <= 1 + Cardinality(Others)
    /\ \A l \in Nat : l >= 1 /\ l <= 1 + Cardinality(Others) => l \in Locations
    /\ MainLocation \in Locations /\ MainLocation = 1 /\ None \notin Locations
    /\ Cardinality(Locations) = 1 + Cardinality(Others)
<1>1. IsFiniteSet(Others) /\ Cardinality(Others) \in Nat /\ Main \notin Others
  BY FS_CardinalityType, CreateWaitAssumption
<1>2. IsFiniteSet(Threads)
  BY <1>1, FS_Singleton, FS_Union DEF Threads
<1>3. IsFiniteSet(Locations) /\ Cardinality(Locations) = 1 + Cardinality(Others)
  BY <1>1, FS_Interval DEF Locations
<1>4. QED
  BY <1>1, <1>2, <1>3, CreateWaitAssumption DEF Threads, Locations, MainLocation

LEMMA CountUp ==
    ASSUME NEW S, IsFiniteSet(S), NEW x, x \notin S
    PROVE  Cardinality(S \cup {x}) = Cardinality(S) + 1
  BY FS_AddElement, FS_CardinalityType

LEMMA CountDown ==
    ASSUME NEW S, IsFiniteSet(S), NEW x \in S
    PROVE  Cardinality(S \ {x}) = Cardinality(S) - 1
  BY FS_RemoveElement, FS_CardinalityType

LEMMA AtMostOne ==
    ASSUME NEW S, \A x, y \in S : x = y
    PROVE  Cardinality(S) = IF S = {} THEN 0 ELSE 1
<1>1. CASE S = {}
  BY <1>1, FS_EmptySet
<1>2. CASE S # {}
  <2>1. PICK x \in S : TRUE
    BY <1>2
  <2>2. S = {x}
    BY <2>1
  <2>3. QED
    BY <1>2, <2>2, FS_Singleton
<1>3. QED
  BY <1>1, <1>2
-----------------------------------------------------------------------------
(* Steps of a thread that concern its own location only *)

(* Everything that says who has which location stays. *)
Places ==
    /\ nLocations' = nLocations /\ pool' = pool /\ at' = at
    /\ \A t \in Threads : Using(t)' => Using(t)

LEMMA PlacesKept ==
    ASSUME LocationsOwned, Places
    PROVE  /\ LocationsOwned'
           /\ \A l : InPool(l)' <=> InPool(l)
  BY DEF LocationsOwned, Places, InPool, Using

OwnStep(t) ==
    /\ nLocations' = nLocations /\ pool' = pool /\ at' = at
    /\ phase' = phase /\ fin' = fin /\ finalizer' = finalizer /\ cursor' = cursor
    /\ late' = late /\ quiet' = quiet /\ wrapped'[MainLocation] = wrapped[MainLocation]
    /\ pc[t] # "finalizing" /\ (Using(t)' => Using(t))
    /\ \A u \in Threads \ {t} :
         /\ nest'[u] = nest[u] /\ how'[u] = how[u] /\ held'[u] = held[u]
         /\ pc'[u] = pc[u] \/ (pc[u] = "none" /\ pc'[u] = "created")
    /\ \A l \in Locations : ~Using(t) \/ l # at[t] =>
         stack'[l] = stack[l] /\ record'[l] = record[l] /\ data'[l] = data[l]

(* What the thread does on its own location is right. *)
OwnOK(t) ==
    /\ ThreadOK(t)'
    /\ Using(t)' =>
         stack'[at[t]] <= IF pc'[t] \in {"end", "push"} THEN 0 ELSE nest'[t] + OwnRegion(t)'
    /\ phase = "within" /\ Using(t) =>
         /\ record'[at[t]] # "broken"
         /\ Using(t)' =>
              /\ record'[at[t]] = IF pc'[t] \in {"count", "publish", "begin", "push"}
                                  THEN "closed" ELSE "open"
              /\ pc'[t] \notin {"end", "push"} => stack'[at[t]] = nest'[t] + OwnRegion(t)'
    /\ phase = "post" /\ Using(t) /\ pc[t] \in {"run", "cleanup"} =>
         /\ record'[at[t]] = record[at[t]] /\ stack'[at[t]] = stack[at[t]]
         /\ data'[at[t]] = data[at[t]]
         /\ Using(t)' => pc'[t] = "cleanup"

LEMMA OwnPlaces ==
    ASSUME CreateWaitInv, NEW t \in Threads, OwnStep(t)
    PROVE  /\ Places
           /\ \A u \in Threads \ {t} : Using(u) <=> Using(u)'
           /\ \A u \in Threads : Using(u)' => at[u] \in Locations
<1>1. at \in [Threads -> Locations \cup {None}]
  BY DEF CreateWaitInv, TypeOK
<1>2. \A u \in Threads \ {t} : Using(u) <=> Using(u)'
  BY DEF OwnStep, Using
<1>3. QED
  BY <1>1, <1>2 DEF OwnStep, Using, Places

LEMMA OwnControl ==
    ASSUME CreateWaitInv, NEW t \in Threads, OwnStep(t), OwnOK(t)
    PROVE  (\A u \in Threads : ThreadOK(u)') /\ FinalizerOK'
<1>1. ASSUME NEW u \in Threads \ {t}
      PROVE  ThreadOK(u)'
  <2>1. ThreadOK(u)
    BY DEF CreateWaitInv
  <2>2. CASE pc'[u] = pc[u]
    BY <2>1, <2>2 DEF OwnStep, ThreadOK
  <2>3. CASE pc[u] = "none" /\ pc'[u] = "created"
    BY <2>1, <2>3 DEF OwnStep, ThreadOK, Ending
  <2>4. QED
    BY <2>2, <2>3 DEF OwnStep
<1>2. FinalizerOK'
  BY DEF CreateWaitInv, FinalizerOK, OwnStep
<1>3. QED
  BY <1>1, <1>2 DEF OwnOK

LEMMA OwnAnnounced ==
    ASSUME CreateWaitInv, NEW t \in Threads, OwnStep(t), data' = data,
           Using(t)' => (pc[t] \in Open <=> pc'[t] \in Open)
    PROVE  LocationsAnnounced'
<1>1. \A l \in Locations : InPool(l)' <=> InPool(l)
  BY OwnPlaces, PlacesKept DEF CreateWaitInv
<1>2. \A u \in Threads : Using(u)' => /\ Using(u) /\ at'[u] = at[u]
                                      /\ pc'[u] \in Open <=> pc[u] \in Open
  <2>1. \A u \in Threads \ {t} : Using(u) => pc[u] # "none"
    BY DEF CreateWaitInv, ThreadOK, Using
  <2>2. QED
    BY <2>1, OwnPlaces DEF OwnStep
<1>3. \A l : Announced(l)' <=> Announced(l)
  BY DEF OwnStep, Announced
<1>4. LocationsAnnounced
  BY DEF CreateWaitInv
<1>5. (late => ~data[cursor])' /\ nLocations' = nLocations /\ phase' = phase /\ data' = data
  BY <1>4 DEF OwnStep, LocationsAnnounced
<1>6. QED
  BY <1>1, <1>2, <1>3, <1>4, <1>5, SetFacts DEF LocationsAnnounced

LEMMA OwnStacks ==
    ASSUME CreateWaitInv, NEW t \in Threads, OwnStep(t), OwnOK(t)
    PROVE  StacksBounded'
<1>1. \A l \in Locations : InPool(l)' <=> InPool(l)
  BY OwnPlaces, PlacesKept DEF CreateWaitInv
<1>2. ASSUME NEW u \in Threads, Using(u)'
      PROVE  stack'[at'[u]] <= IF pc'[u] \in {"end", "push"} THEN 0
                               ELSE nest'[u] + OwnRegion(u)'
  <2>1. CASE u = t
    BY <1>2, <2>1 DEF OwnOK, OwnStep
  <2>2. CASE u # t
    <3>1. Using(u) /\ at[u] \in Locations /\ pc'[u] = pc[u]
      BY <1>2, <2>2, OwnPlaces DEF OwnStep, Using, CreateWaitInv, ThreadOK
    <3>2. ~Using(t) \/ at[u] # at[t]
      BY <2>2, <3>1 DEF CreateWaitInv, LocationsOwned
    <3>3. stack'[at'[u]] = stack[at[u]] /\ nest'[u] = nest[u] /\ OwnRegion(u)' = OwnRegion(u)
      BY <2>2, <3>1, <3>2 DEF OwnStep, OwnRegion
    <3>4. stack[at[u]] <= IF pc[u] \in {"end", "push"} THEN 0 ELSE nest[u] + OwnRegion(u)
      BY <3>1 DEF CreateWaitInv, StacksBounded
    <3>5. QED
      BY <3>1, <3>3, <3>4
  <2>3. QED
    BY <2>1, <2>2
<1>3. ASSUME NEW l \in Locations, l > nLocations' \/ InPool(l)'
      PROVE  stack'[l] = 0
  <2>1. l > nLocations \/ InPool(l)
    BY <1>1, <1>3 DEF OwnStep
  <2>2. ~Using(t) \/ l # at[t]
    BY <2>1, SetFacts DEF CreateWaitInv, LocationsOwned, TypeOK, Using
  <2>3. QED
    BY <2>1, <2>2 DEF OwnStep, CreateWaitInv, StacksBounded
<1>4. QED
  BY <1>2, <1>3 DEF StacksBounded

LEMMA OwnWithin ==
    ASSUME CreateWaitInv, NEW t \in Threads, OwnStep(t), OwnOK(t)
    PROVE  WithinInv'
<1> SUFFICES ASSUME phase' = "within"
             PROVE  WithinInv'
  BY DEF WithinInv
<1>1. phase = "within" /\ \A l \in Locations : InPool(l)' <=> InPool(l)
  BY OwnPlaces, PlacesKept DEF CreateWaitInv, OwnStep
<1>2. ASSUME NEW u \in Threads, Using(u)'
      PROVE  /\ record'[at'[u]] = IF pc'[u] \in {"count", "publish", "begin", "push"}
                                  THEN "closed" ELSE "open"
             /\ pc'[u] \notin {"end", "push"} => stack'[at'[u]] = nest'[u] + OwnRegion(u)'
  <2>1. CASE u = t
    BY <1>1, <1>2, <2>1 DEF OwnOK, OwnStep
  <2>2. CASE u # t
    <3>1. Using(u) /\ at[u] \in Locations /\ pc'[u] = pc[u]
      BY <1>2, <2>2, OwnPlaces DEF OwnStep, Using, CreateWaitInv, ThreadOK
    <3>2. ~Using(t) \/ at[u] # at[t]
      BY <2>2, <3>1 DEF CreateWaitInv, LocationsOwned
    <3>3. /\ stack'[at'[u]] = stack[at[u]] /\ record'[at'[u]] = record[at[u]]
          /\ nest'[u] = nest[u] /\ OwnRegion(u)' = OwnRegion(u)
      BY <2>2, <3>1, <3>2 DEF OwnStep, OwnRegion
    <3>4. /\ record[at[u]] = IF pc[u] \in {"count", "publish", "begin", "push"}
                             THEN "closed" ELSE "open"
          /\ pc[u] \notin {"end", "push"} => stack[at[u]] = nest[u] + OwnRegion(u)
      BY <1>1, <3>1 DEF CreateWaitInv, WithinInv
    <3>5. QED
      BY <3>1, <3>3, <3>4
  <2>3. QED
    BY <2>1, <2>2
<1>3. ASSUME NEW l \in Locations, l > nLocations' \/ InPool(l)'
      PROVE  record'[l] = "closed"
  <2>1. l > nLocations \/ InPool(l)
    BY <1>1, <1>3 DEF OwnStep
  <2>2. ~Using(t) \/ l # at[t]
    BY <2>1, SetFacts DEF CreateWaitInv, LocationsOwned, TypeOK, Using
  <2>3. QED
    BY <1>1, <2>1, <2>2 DEF OwnStep, CreateWaitInv, WithinInv
<1>4. ASSUME NEW l \in Locations
      PROVE  record'[l] # "broken"
  BY <1>1 DEF OwnStep, OwnOK, CreateWaitInv, WithinInv
<1>5. QED
  BY <1>2, <1>3, <1>4 DEF WithinInv

LEMMA OwnQuiet ==
    ASSUME CreateWaitInv, NEW t \in Threads, OwnStep(t), OwnOK(t)
    PROVE  QuietInv'
<1> SUFFICES ASSUME phase' = "post", NEW l \in quiet'
             PROVE  /\ l <= nLocations' /\ ~InPool(l)'
                    /\ \A u \in Threads : Using(u)' /\ at'[u] = l =>
                         pc'[u] \in {"run", "cleanup", "finalizing"}
                    /\ IF Ended(l)' THEN record'[l] = "closed"
                       ELSE /\ record'[l] = "open" /\ (l # MainLocation => Announced(l)')
                            /\ fin' = "lateend" /\ l = cursor' => stack'[l] = 0
  BY DEF QuietInv
<1>1. /\ phase = "post" /\ l \in quiet /\ l \in Locations
      /\ InPool(l)' <=> InPool(l)
  BY OwnPlaces, PlacesKept DEF CreateWaitInv, OwnStep, TypeOK
<1>2. /\ l <= nLocations /\ ~InPool(l)
      /\ \A u \in Threads : Using(u) /\ at[u] = l => pc[u] \in {"run", "cleanup", "finalizing"}
      /\ IF Ended(l) THEN record[l] = "closed"
         ELSE /\ record[l] = "open" /\ (l # MainLocation => Announced(l))
              /\ fin = "lateend" /\ l = cursor => stack[l] = 0
  BY <1>1 DEF CreateWaitInv, QuietInv
<1>3. record'[l] = record[l] /\ stack'[l] = stack[l] /\ data'[l] = data[l]
  BY <1>1, <1>2 DEF OwnStep, OwnOK
<1>4. (Ended(l)' <=> Ended(l)) /\ (Announced(l)' <=> Announced(l))
  BY <1>3 DEF OwnStep, Ended, Announced
<1>5. ASSUME NEW u \in Threads, Using(u)', at'[u] = l
      PROVE  pc'[u] \in {"run", "cleanup", "finalizing"}
  <2>1. Using(u) /\ at[u] = l
    BY <1>5, OwnPlaces DEF OwnStep, Places
  <2>2. CASE u = t
    BY <1>1, <1>2, <1>5, <2>1, <2>2 DEF OwnStep, OwnOK
  <2>3. CASE u # t
    BY <1>2, <2>1, <2>3 DEF OwnStep
  <2>4. QED
    BY <2>2, <2>3
<1>6. QED
  BY <1>1, <1>2, <1>3, <1>4, <1>5 DEF OwnStep

(* All but the types, the announcements and the counter *)
LEMMA OwnStepKeeps ==
    ASSUME CreateWaitInv, NEW t \in Threads, OwnStep(t), OwnOK(t)
    PROVE  /\ \A u \in Threads : ThreadOK(u)'
           /\ FinalizerOK' /\ LocationsOwned' /\ StacksBounded' /\ WithinInv' /\ QuietInv'
           /\ wrapped'[MainLocation] = None
  BY OwnPlaces, PlacesKept, OwnControl, OwnStacks, OwnWithin, OwnQuiet
     DEF CreateWaitInv, OwnStep

-----------------------------------------------------------------------------
(* The counter of active locations *)

Counted == {"publish"} \cup Ending

(* The threads on their way and the locations announced that are counted,
   and the threads that were counted once *)
Moving == {t \in Threads : pc[t] \in Counted}
Data == {l \in Locations : data[l]}
Begun == {t \in Others : at[t] # None /\ pc[t] # "count"}

LEMMA CountedFinite ==
    /\ IsFiniteSet(Moving) /\ IsFiniteSet(Data) /\ IsFiniteSet(Begun)
    /\ Cardinality(Moving) \in Nat /\ Cardinality(Data) \in Nat /\ Cardinality(Begun) \in Nat
    /\ Cardinality(Begun) <= Cardinality(Others)
<1>1. /\ Moving \in SUBSET Threads /\ Data \in SUBSET Locations /\ Begun \in SUBSET Others
  BY DEF Moving, Data, Begun
<1>2. IsFiniteSet(Moving) /\ IsFiniteSet(Data) /\ IsFiniteSet(Begun)
      /\ Cardinality(Begun) <= Cardinality(Others)
  BY <1>1, SetFacts, FS_Subset
<1>3. QED
  BY <1>2, FS_CardinalityType

(* Threads that were counted remain so. *)
LEMMA BegunGrows ==
    ASSUME Begun \subseteq Begun'
    PROVE  Cardinality(Begun) <= Cardinality(Begun')
<1>1. IsFiniteSet(Begun') /\ Begun \in SUBSET Begun'
  <2>1. Begun' \in SUBSET Others
    BY DEF Begun
  <2>2. QED
    BY <2>1, SetFacts, FS_Subset
<1>2. QED
  BY <1>1, FS_Subset

LEMMA ActiveCountedDef ==
    ActiveCounted <=>
      /\ activeLocations = Cardinality(Moving) + Cardinality(Data) + (IF late THEN 1 ELSE 0)
      /\ activeLocations <= Cardinality(Begun)
  BY DEF ActiveCounted, Moving, Data, Begun, Counted

LEMMA ActiveKept ==
    ASSUME ActiveCounted, activeLocations' = activeLocations, Moving' = Moving,
           Data' = Data, late' = late, Begun \subseteq Begun'
    PROVE  ActiveCounted'
<1>1. Cardinality(Begun) <= Cardinality(Begun')
  BY BegunGrows
<1>2. /\ activeLocations' = Cardinality(Moving') + Cardinality(Data') + (IF late' THEN 1 ELSE 0)
      /\ activeLocations' <= Cardinality(Begun')
  <2>1. Cardinality(Begun') \in Nat
    <3>1. Begun' \in SUBSET Others
      BY DEF Begun
    <3>2. QED
      BY <3>1, SetFacts, FS_Subset, FS_CardinalityType
  <2>2. QED
    BY <1>1, <2>1, ActiveCountedDef, CountedFinite
<1>3. QED
  BY <1>2 DEF ActiveCounted, Moving, Data, Begun, Counted

(* A step of a thread on its own location that leaves the counter alone *)
LEMMA OwnStepDone ==
    ASSUME CreateWaitInv, NEW t \in Threads, OwnStep(t), OwnOK(t), TypeOK',
           activeLocations' = activeLocations, data' = data,
           Using(t)' => (pc[t] \in Open <=> pc'[t] \in Open),
           pc[t] \in Counted <=> pc'[t] \in Counted, pc'[t] # "count"
    PROVE  CreateWaitInv'
<1>1. Moving' = Moving
  <2>1. \A u \in Threads : pc'[u] \in Counted <=> pc[u] \in Counted
    BY DEF OwnStep, Counted, Ending
  <2>2. QED
    BY <2>1 DEF Moving
<1>2. Data' = Data /\ late' = late
  BY DEF OwnStep, Data
<1>3. Begun \subseteq Begun'
  <2>1. \A u \in Threads : at'[u] = at[u] /\ (pc'[u] = "count" => pc[u] = "count")
    BY DEF OwnStep
  <2>2. QED
    BY <2>1, SetFacts DEF Begun
<1>4. ActiveCounted'
  BY <1>1, <1>2, <1>3, ActiveKept DEF CreateWaitInv
<1>5. QED
  BY <1>4, OwnStepKeeps, OwnAnnounced DEF CreateWaitInv

-----------------------------------------------------------------------------
(* A thread goes on, with no event *)

LEMMA MoveStep ==
    ASSUME CreateWaitInv, NEW t \in Threads,
           \/ CheckPhase(t) \/ ExitTakenForMain(t) \/ Return(t) \/ Leave(t)
           \/ CleanupCheck(t) \/ OrphanDtor(t)
    PROVE  CreateWaitInv'
<1>1. PICK b \in {"event", "exit", "gone", "cleanup", "tryterminate"} :
        /\ pc' = [pc EXCEPT ![t] = b]
        /\ pc[t] \in {"run", "takenformain", "cleanup"}
        /\ b = "event" => pc[t] = "run" /\ phase = "within"
        /\ b = "exit" => pc[t] = "run" /\ phase = "within" /\ t \notin Foreign
        /\ b = "cleanup" => pc[t] \in {"run", "takenformain"} /\ t # Main /\ at[t] # None
        /\ b = "tryterminate" => pc[t] = "cleanup" /\ phase = "within"
        /\ b = "gone" /\ phase = "within" => t = Main \/ at[t] = None
        /\ how' = how \/ (/\ pc[t] = "run" /\ b = "cleanup" /\ nest[t] = 0
                          /\ how' = [how EXCEPT ![t] = "returned"])
        /\ nLocations' = nLocations /\ pool' = pool /\ at' = at /\ data' = data
        /\ wrapped' = wrapped /\ stack' = stack /\ record' = record /\ nest' = nest
        /\ held' = held /\ activeLocations' = activeLocations /\ proc' = proc
        /\ phase' = phase /\ fin' = fin /\ finalizer' = finalizer /\ cursor' = cursor
        /\ late' = late /\ quiet' = quiet /\ isFinalized' = isFinalized
  <2>1. t \in Others <=> t # Main
    BY SetFacts
  <2>2. ThreadOK(t)
    BY DEF CreateWaitInv
  <2>3. CASE CheckPhase(t)
    BY <2>3 DEF CheckPhase, Goto, listVars, eventVars, finVars
  <2>4. CASE ExitTakenForMain(t)
    BY <2>2, <2>4 DEF ExitTakenForMain, Goto, listVars, eventVars, finVars, ThreadOK
  <2>5. CASE Return(t)
    BY <2>1, <2>2, <2>5, CreateWaitAssumption
       DEF Return, Goto, listVars, eventVars, finVars, ThreadOK, Others
  <2>6. CASE Leave(t)
    BY <2>1, <2>6 DEF Leave, Goto, listVars, eventVars, finVars
  <2>7. CASE CleanupCheck(t) \/ OrphanDtor(t)
    BY <2>7 DEF CleanupCheck, OrphanDtor, IfWithin, Goto, listVars, eventVars, finVars
  <2>8. QED
    BY <2>3, <2>4, <2>5, <2>6, <2>7
<1>2. TypeOK /\ ThreadOK(t)
  BY DEF CreateWaitInv
<1>3. TypeOK'
  BY <1>1, <1>2 DEF TypeOK, Pcs
<1>4. OwnStep(t)
  BY <1>1, <1>2 DEF OwnStep, TypeOK, Using, Open
<1>5. OwnOK(t)
  <2>1. ThreadOK(t)'
    BY <1>1, <1>2, <1>3 DEF ThreadOK, Ending, TypeOK
  <2>2. /\ OwnRegion(t)' = OwnRegion(t) /\ nest' = nest /\ stack' = stack /\ record' = record
        /\ data' = data
    BY <1>1, <1>2 DEF OwnRegion, ThreadOK, Ending, TypeOK
  <2>3. /\ Using(t)' => Using(t) /\ pc'[t] \in {"event", "exit", "cleanup", "tryterminate"}
        /\ pc[t] \notin {"count", "publish", "begin", "end", "push"}
        /\ phase = "post" /\ Using(t)' /\ pc[t] \in {"run", "cleanup"} => pc'[t] = "cleanup"
    BY <1>1, <1>2 DEF Using, TypeOK
  <2>4. Using(t) => stack[at[t]] <= nest[t] + OwnRegion(t)
    BY <2>3 DEF CreateWaitInv, StacksBounded
  <2>5. phase = "within" /\ Using(t) =>
          record[at[t]] = "open" /\ stack[at[t]] = nest[t] + OwnRegion(t)
    BY <2>3 DEF CreateWaitInv, WithinInv
  <2>6. QED
    BY <2>1, <2>2, <2>3, <2>4, <2>5 DEF OwnOK
<1>6. /\ activeLocations' = activeLocations /\ data' = data
      /\ Using(t)' => pc[t] \in Open /\ pc'[t] \in Open
      /\ pc[t] \notin Counted /\ pc'[t] \notin Counted /\ pc'[t] # "count"
  BY <1>1, <1>2 DEF TypeOK, Counted, Ending, Open, Using
<1>7. QED
  BY <1>3, <1>4, <1>5, <1>6, OwnStepDone

-----------------------------------------------------------------------------
(* A thread writes events to its location *)

LEMMA UserFacts ==
    ASSUME CreateWaitInv, NEW t \in Threads, at[t] # None,
           pc[t] \notin {"terminate", "recycle", "gone"}
    PROVE  /\ TypeOK /\ ThreadOK(t) /\ Using(t) /\ at[t] \in Locations
           /\ stack[at[t]] \in Nat /\ nest[t] \in Nat /\ OwnRegion(t) \in {0, 1}
           /\ stack[at[t]] <= IF pc[t] \in {"end", "push"} THEN 0 ELSE nest[t] + OwnRegion(t)
           /\ phase = "within" =>
                /\ record[at[t]] = IF pc[t] \in {"count", "publish", "begin", "push"}
                                   THEN "closed" ELSE "open"
                /\ pc[t] \notin {"end", "push"} => stack[at[t]] = nest[t] + OwnRegion(t)
<1>1. TypeOK /\ ThreadOK(t) /\ Using(t) /\ at[t] \in Locations
  BY DEF CreateWaitInv, TypeOK, Using
<1>2. stack[at[t]] \in Nat /\ nest[t] \in Nat /\ OwnRegion(t) \in {0, 1}
  BY <1>1, CreateWaitAssumption DEF TypeOK, OwnRegion
<1>3. QED
  BY <1>1, <1>2 DEF CreateWaitInv, StacksBounded, WithinInv

LEMMA BeginStep ==
    ASSUME CreateWaitInv, NEW t \in Threads, Begin(t) \/ OrphanBegin(t)
    PROVE  CreateWaitInv'
<1>1. PICK b \in {"run", "event"}, r \in {"open", "broken"} :
        /\ pc[t] = "begin" /\ t \in Others /\ (b = "event" => t \in Foreign)
        /\ pc' = [pc EXCEPT ![t] = b]
        /\ record' = [record EXCEPT ![at[t]] = r]
        /\ record[at[t]] = "closed" => r = "open"
        /\ wrapped' = wrapped \/ (t \in Created /\ wrapped' = [wrapped EXCEPT ![at[t]] = t])
        /\ nLocations' = nLocations /\ pool' = pool /\ at' = at /\ data' = data
        /\ stack' = stack /\ nest' = nest /\ how' = how
        /\ held' = held /\ activeLocations' = activeLocations /\ proc' = proc
        /\ phase' = phase /\ fin' = fin /\ finalizer' = finalizer /\ cursor' = cursor
        /\ late' = late /\ quiet' = quiet /\ isFinalized' = isFinalized
  BY DEF Begin, OrphanBegin, Put, Goto, listVars, eventVars, finVars, Others
<1>2. at[t] # None /\ t # Main
  BY <1>1, SetFacts DEF CreateWaitInv, ThreadOK
<1>3. /\ TypeOK /\ ThreadOK(t) /\ Using(t) /\ at[t] \in Locations
      /\ stack[at[t]] <= nest[t] + OwnRegion(t) /\ at[t] # MainLocation
      /\ phase = "within" => record[at[t]] = "closed" /\ stack[at[t]] = nest[t] + OwnRegion(t)
  BY <1>1, <1>2, UserFacts DEF CreateWaitInv, LocationsOwned
<1>4. TypeOK'
  BY <1>1, <1>3 DEF TypeOK, Pcs
<1>5. OwnStep(t)
  <2>1. wrapped'[MainLocation] = wrapped[MainLocation]
    BY <1>1, <1>3, SetFacts DEF TypeOK
  <2>2. pc[t] \in Open /\ pc'[t] \in Open
    BY <1>1, <1>3 DEF TypeOK, Open
  <2>3. QED
    BY <1>1, <1>3, <2>1, <2>2 DEF OwnStep, TypeOK, Using
<1>6. OwnOK(t)
  <2>1. ThreadOK(t)'
    BY <1>1, <1>2, <1>3 DEF ThreadOK, Ending, TypeOK
  <2>2. OwnRegion(t)' = OwnRegion(t) /\ pc'[t] = b /\ record'[at[t]] = r
    BY <1>1, <1>3 DEF OwnRegion, TypeOK
  <2>3. QED
    BY <1>1, <1>3, <2>1, <2>2 DEF OwnOK
<1>7. pc[t] = "begin" /\ pc'[t] = b
  BY <1>1, <1>3 DEF TypeOK
<1>8. QED
  BY <1>1, <1>4, <1>5, <1>6, <1>7, OwnStepDone DEF Counted, Ending, Open

LEMMA EnterStep ==
    ASSUME CreateWaitInv, NEW t \in Threads, Enter(t)
    PROVE  CreateWaitInv'
<1>1. PICK r \in {"open", "broken"} :
        /\ pc[t] = "event" /\ at[t] # None /\ nest[t] < MaxNest
        /\ pc' = [pc EXCEPT ![t] = "run"]
        /\ record' = [record EXCEPT ![at[t]] = r]
        /\ record[at[t]] = "open" => r = "open"
        /\ stack' = [stack EXCEPT ![at[t]] = @ + 1] /\ nest' = [nest EXCEPT ![t] = @ + 1]
        /\ nLocations' = nLocations /\ pool' = pool /\ at' = at /\ data' = data
        /\ wrapped' = wrapped /\ how' = how
        /\ held' = held /\ activeLocations' = activeLocations /\ proc' = proc
        /\ phase' = phase /\ fin' = fin /\ finalizer' = finalizer /\ cursor' = cursor
        /\ late' = late /\ quiet' = quiet /\ isFinalized' = isFinalized
  BY DEF Enter, Put, PushRegion, Goto, listVars, finVars
<1>2. /\ TypeOK /\ ThreadOK(t) /\ Using(t) /\ at[t] \in Locations
      /\ stack[at[t]] \in Nat /\ nest[t] \in Nat /\ OwnRegion(t) \in {0, 1}
      /\ stack[at[t]] <= nest[t] + OwnRegion(t)
      /\ phase = "within" => record[at[t]] = "open" /\ stack[at[t]] = nest[t] + OwnRegion(t)
  BY <1>1, UserFacts
<1>3. how[t] = "cancelled" /\ OwnRegion(t) = 0
  BY <1>1, <1>2 DEF ThreadOK, Ending, OwnRegion
<1>4. TypeOK'
  <2>1. /\ stack \in [Locations -> 0..MaxNest + 1] /\ nest \in [Threads -> 0..MaxNest]
        /\ MaxNest \in Nat
    BY <1>2, CreateWaitAssumption DEF TypeOK
  <2>2. stack' \in [Locations -> 0..MaxNest + 1] /\ nest' \in [Threads -> 0..MaxNest]
    BY <1>1, <1>2, <1>3, <2>1
  <2>3. QED
    BY <1>1, <1>2, <2>2 DEF TypeOK, Pcs
<1>5. OwnStep(t)
  BY <1>1, <1>2 DEF OwnStep, TypeOK, Using, Open
<1>6. OwnOK(t)
  <2>1. ThreadOK(t)'
    BY <1>1, <1>2, <1>3 DEF ThreadOK, Ending, TypeOK
  <2>2. /\ OwnRegion(t)' = 0 /\ pc'[t] = "run" /\ record'[at[t]] = r
        /\ stack'[at[t]] = stack[at[t]] + 1 /\ nest'[t] = nest[t] + 1
    BY <1>1, <1>2, <1>3 DEF OwnRegion, TypeOK
  <2>3. QED
    BY <1>1, <1>2, <1>3, <2>1, <2>2 DEF OwnOK
<1>7. /\ activeLocations' = activeLocations /\ data' = data
      /\ pc[t] = "event" /\ pc'[t] = "run"
  BY <1>1, <1>2 DEF TypeOK
<1>8. QED
  BY <1>4, <1>5, <1>6, <1>7, OwnStepDone DEF Counted, Ending, Open

LEMMA ExitStep ==
    ASSUME CreateWaitInv, NEW t \in Threads, Exit(t)
    PROVE  CreateWaitInv'
<1>1. PICK r \in {"open", "broken"}, s \in {stack[at[t]], stack[at[t]] - 1} :
        /\ pc[t] = "event" /\ at[t] # None /\ nest[t] > 0
        /\ pc' = [pc EXCEPT ![t] = "run"]
        /\ record' = [record EXCEPT ![at[t]] = r]
        /\ record[at[t]] = "open" /\ stack[at[t]] > 0 => r = "open"
        /\ s = IF stack[at[t]] = 0 THEN stack[at[t]] ELSE stack[at[t]] - 1
        /\ stack' = IF stack[at[t]] = 0 THEN stack ELSE [stack EXCEPT ![at[t]] = s]
        /\ nest' = [nest EXCEPT ![t] = @ - 1]
        /\ nLocations' = nLocations /\ pool' = pool /\ at' = at /\ data' = data
        /\ wrapped' = wrapped /\ how' = how
        /\ held' = held /\ activeLocations' = activeLocations
        /\ proc' = proc \/ proc' = "aborted"
        /\ phase' = phase /\ fin' = fin /\ finalizer' = finalizer /\ cursor' = cursor
        /\ late' = late /\ quiet' = quiet /\ isFinalized' = isFinalized
  BY DEF Exit, Put, PopRegion, Abort, Goto, listVars, finVars
<1>2. /\ TypeOK /\ ThreadOK(t) /\ Using(t) /\ at[t] \in Locations
      /\ stack[at[t]] \in Nat /\ nest[t] \in Nat /\ OwnRegion(t) \in {0, 1}
      /\ stack[at[t]] <= nest[t] + OwnRegion(t)
      /\ phase = "within" => record[at[t]] = "open" /\ stack[at[t]] = nest[t] + OwnRegion(t)
  BY <1>1, UserFacts
<1>3. how[t] = "cancelled" /\ OwnRegion(t) = 0
  BY <1>1, <1>2 DEF ThreadOK, Ending, OwnRegion
<1>4. /\ stack \in [Locations -> 0..MaxNest + 1] /\ nest \in [Threads -> 0..MaxNest]
      /\ stack'[at[t]] = s /\ nest'[t] = nest[t] - 1 /\ MaxNest \in Nat
  BY <1>1, <1>2, CreateWaitAssumption DEF TypeOK
<1>5. TypeOK'
  <2>1. stack' \in [Locations -> 0..MaxNest + 1] /\ nest' \in [Threads -> 0..MaxNest]
    BY <1>1, <1>2, <1>4
  <2>2. QED
    BY <1>1, <1>2, <2>1 DEF TypeOK, Pcs
<1>6. OwnStep(t)
  BY <1>1, <1>2 DEF OwnStep, TypeOK, Using, Open
<1>7. OwnOK(t)
  <2>1. ThreadOK(t)'
    BY <1>1, <1>2, <1>3 DEF ThreadOK, Ending, TypeOK
  <2>2. /\ OwnRegion(t)' = 0 /\ pc'[t] = "run" /\ record'[at[t]] = r
    BY <1>1, <1>2, <1>3 DEF OwnRegion, TypeOK
  <2>3. QED
    BY <1>1, <1>2, <1>3, <1>4, <2>1, <2>2 DEF OwnOK
<1>8. /\ activeLocations' = activeLocations /\ data' = data
      /\ pc[t] = "event" /\ pc'[t] = "run"
  BY <1>1, <1>2 DEF TypeOK
<1>9. QED
  BY <1>5, <1>6, <1>7, <1>8, OwnStepDone DEF Counted, Ending, Open

LEMMA CreateStep ==
    ASSUME CreateWaitInv, NEW t \in Threads, NEW u \in Created, Create(t, u)
    PROVE  CreateWaitInv'
<1>1. PICK r \in {"open", "broken"} :
        /\ pc[t] = "event" /\ at[t] # None /\ pc[u] = "none"
        /\ pc' = [pc EXCEPT ![t] = "run", ![u] = "created"]
        /\ record' = [record EXCEPT ![at[t]] = r]
        /\ record[at[t]] = "open" => r = "open"
        /\ nLocations' = nLocations /\ pool' = pool /\ at' = at /\ data' = data
        /\ wrapped' = wrapped /\ stack' = stack /\ nest' = nest /\ how' = how
        /\ held' = held /\ activeLocations' = activeLocations /\ proc' = proc
        /\ phase' = phase /\ fin' = fin /\ finalizer' = finalizer /\ cursor' = cursor
        /\ late' = late /\ quiet' = quiet /\ isFinalized' = isFinalized
  BY DEF Create, Put, listVars, finVars
<1>2. /\ TypeOK /\ ThreadOK(t) /\ Using(t) /\ at[t] \in Locations
      /\ stack[at[t]] <= nest[t] + OwnRegion(t)
      /\ phase = "within" => record[at[t]] = "open" /\ stack[at[t]] = nest[t] + OwnRegion(t)
  BY <1>1, UserFacts
<1>3. TypeOK' /\ pc'[t] = "run" /\ u # t
  BY <1>1, <1>2 DEF TypeOK, Pcs
<1>4. OwnStep(t)
  BY <1>1, <1>2, <1>3 DEF OwnStep, TypeOK, Using, Open
<1>5. OwnOK(t)
  <2>1. ThreadOK(t)'
    BY <1>1, <1>2, <1>3 DEF ThreadOK, Ending, TypeOK
  <2>2. OwnRegion(t)' = OwnRegion(t) /\ record'[at[t]] = r
    BY <1>1, <1>2 DEF OwnRegion, TypeOK
  <2>3. QED
    BY <1>1, <1>2, <1>3, <2>1, <2>2 DEF OwnOK
<1>6. QED
  BY <1>1, <1>3, <1>4, <1>5, OwnStepDone DEF Counted, Ending, Open

LEMMA PthreadExitStep ==
    ASSUME CreateWaitInv, NEW t \in Threads, PthreadExit(t)
    PROVE  CreateWaitInv'
<1>1. PICK r \in {"open", "broken"}, dest \in {"takenformain", "cleanup"} :
        /\ pc[t] = "exit" /\ pc' = [pc EXCEPT ![t] = dest]
        /\ record' = [record EXCEPT ![at[t]] = r]
        /\ record[at[t]] = "open" => r = "open"
        /\ dest = "takenformain" => stack' = stack /\ how' = how
        /\ dest = "cleanup" => /\ wrapped[at[t]] # None
                            /\ stack' = [stack EXCEPT ![at[t]] = @ + 1]
                            /\ how' = [how EXCEPT ![t] = "exited"]
        /\ nLocations' = nLocations /\ pool' = pool /\ at' = at /\ data' = data
        /\ wrapped' = wrapped /\ nest' = nest
        /\ held' = held /\ activeLocations' = activeLocations /\ proc' = proc
        /\ phase' = phase /\ fin' = fin /\ finalizer' = finalizer /\ cursor' = cursor
        /\ late' = late /\ quiet' = quiet /\ isFinalized' = isFinalized
  BY DEF PthreadExit, Put, PushRegion, Goto, listVars, finVars
<1>2. at[t] # None
  BY <1>1 DEF CreateWaitInv, ThreadOK
<1>3. /\ TypeOK /\ ThreadOK(t) /\ Using(t) /\ at[t] \in Locations
      /\ stack[at[t]] \in Nat /\ nest[t] \in Nat
      /\ stack[at[t]] <= nest[t] + OwnRegion(t)
      /\ phase = "within" => record[at[t]] = "open" /\ stack[at[t]] = nest[t] + OwnRegion(t)
  BY <1>1, <1>2, UserFacts
<1>4. /\ how[t] = "cancelled" /\ stack[at[t]] \in Nat /\ stack[at[t]] <= nest[t]
      /\ phase = "within" => stack[at[t]] = nest[t]
  <2>1. how[t] = "cancelled"
    BY <1>1, <1>3 DEF ThreadOK, Ending
  <2>2. stack \in [Locations -> 0..MaxNest + 1] /\ nest \in [Threads -> 0..MaxNest] /\ MaxNest \in Nat
    BY <1>3, CreateWaitAssumption DEF TypeOK
  <2>3. QED
    BY <1>3, <2>1, <2>2 DEF OwnRegion
<1>5. TypeOK'
  <2>1. /\ stack \in [Locations -> 0..MaxNest + 1] /\ nest \in [Threads -> 0..MaxNest]
        /\ MaxNest \in Nat
    BY <1>3, CreateWaitAssumption DEF TypeOK
  <2>2. stack[at[t]] + 1 \in 0..MaxNest + 1
    BY <1>3, <1>4, <2>1 DEF OwnRegion
  <2>3. stack' \in [Locations -> 0..MaxNest + 1]
    BY <1>1, <1>3, <2>1, <2>2
  <2>4. QED
    BY <1>1, <1>3, <2>3 DEF TypeOK, Pcs
<1>6. OwnStep(t)
  BY <1>1, <1>3 DEF OwnStep, TypeOK, Using, Open
<1>7. pc'[t] = dest /\ record'[at[t]] = r
  BY <1>1, <1>3 DEF TypeOK
<1>8. OwnOK(t)
  <2>1. dest = "cleanup" => t # Main
    BY <1>1, <1>3 DEF ThreadOK, CreateWaitInv
  <2>2. dest = "cleanup" => stack'[at[t]] = stack[at[t]] + 1 /\ OwnRegion(t)' = 1
    BY <1>1, <1>3 DEF TypeOK, OwnRegion
  <2>3. dest = "takenformain" => stack'[at[t]] = stack[at[t]] /\ OwnRegion(t)' = 0
    BY <1>1, <1>3, <1>4 DEF OwnRegion
  <2>4. ThreadOK(t)'
    BY <1>1, <1>2, <1>3, <1>4, <2>1 DEF ThreadOK, Ending, TypeOK
  <2>5. /\ stack'[at[t]] <= nest'[t] + OwnRegion(t)'
        /\ phase = "within" => stack'[at[t]] = nest'[t] + OwnRegion(t)'
    <3>1. nest'[t] = nest[t] /\ nest[t] \in Nat /\ stack[at[t]] \in Nat
      BY <1>1, <1>3
    <3>2. CASE dest = "cleanup"
      BY <1>4, <2>2, <3>1, <3>2
    <3>3. CASE dest = "takenformain"
      BY <1>4, <2>3, <3>1, <3>3
    <3>4. QED
      BY <3>2, <3>3
  <2>6. phase = "within" => record'[at[t]] = "open"
    BY <1>1, <1>3, <1>7
  <2>7. QED
    BY <1>1, <1>7, <2>4, <2>5, <2>6 DEF OwnOK
<1>9. QED
  BY <1>1, <1>5, <1>6, <1>7, <1>8, OwnStepDone DEF Counted, Ending, Open

LEMMA ExitRegionsStep ==
    ASSUME CreateWaitInv, NEW t \in Threads, ExitRegions(t) \/ OrphanExitRegions(t)
    PROVE  CreateWaitInv'
<1>1. /\ pc[t] = "exitregions" /\ pc' = [pc EXCEPT ![t] = "end"]
      /\ \/ how[t] = "returned" /\ stack' = stack /\ record' = record
         \/ /\ stack' = [stack EXCEPT ![at[t]] = 0]
            /\ \/ record' = record
               \/ record' = [record EXCEPT ![at[t]] = IF record[at[t]] = "open" THEN "open"
                                                      ELSE "broken"]
      /\ nLocations' = nLocations /\ pool' = pool /\ at' = at /\ data' = data
      /\ wrapped' = wrapped /\ nest' = nest /\ how' = how
      /\ held' = held /\ activeLocations' = activeLocations /\ proc' = proc
      /\ phase' = phase /\ fin' = fin /\ finalizer' = finalizer /\ cursor' = cursor
      /\ late' = late /\ quiet' = quiet /\ isFinalized' = isFinalized
  BY DEF ExitRegions, OrphanExitRegions, ExitAllRegions, Put, Goto, listVars, eventVars, finVars
<1>2. at[t] # None /\ t # Main
  BY <1>1 DEF CreateWaitInv, ThreadOK
<1>3. /\ TypeOK /\ ThreadOK(t) /\ Using(t) /\ at[t] \in Locations
      /\ stack[at[t]] \in Nat /\ nest[t] \in Nat
      /\ stack[at[t]] <= nest[t] + OwnRegion(t)
      /\ phase = "within" => record[at[t]] = "open"
  BY <1>1, <1>2, UserFacts
<1>4. stack'[at[t]] = 0
  BY <1>1, <1>3 DEF ThreadOK, OwnRegion, TypeOK
<1>5. TypeOK'
  <2>1. stack \in [Locations -> 0..MaxNest + 1] /\ 0 \in 0..MaxNest + 1
    BY <1>3, CreateWaitAssumption DEF TypeOK
  <2>2. stack' \in [Locations -> 0..MaxNest + 1]
    BY <1>1, <1>3, <2>1
  <2>3. record' \in [Locations -> {"closed", "open", "broken"}]
    BY <1>1, <1>3 DEF TypeOK
  <2>4. QED
    BY <1>1, <1>3, <2>2, <2>3 DEF TypeOK, Pcs
<1>6. OwnStep(t)
  BY <1>1, <1>3 DEF OwnStep, TypeOK, Using, Open
<1>7. pc'[t] = "end" /\ (record[at[t]] = "open" => record'[at[t]] = "open")
  BY <1>1, <1>3 DEF TypeOK
<1>8. OwnOK(t)
  <2>1. ThreadOK(t)'
    BY <1>1, <1>2, <1>3 DEF ThreadOK, Ending, TypeOK
  <2>2. QED
    BY <1>1, <1>3, <1>4, <1>7, <2>1 DEF OwnOK
<1>9. QED
  BY <1>1, <1>5, <1>6, <1>7, <1>8, OwnStepDone DEF Counted, Ending, Open

LEMMA EndStep ==
    ASSUME CreateWaitInv, NEW t \in Threads, End(t) \/ OrphanEnd(t)
    PROVE  CreateWaitInv'
<1>1. PICK r \in {"closed", "broken"} :
        /\ pc[t] = "end" /\ pc' = [pc EXCEPT ![t] = "push"]
        /\ record' = [record EXCEPT ![at[t]] = r]
        /\ record[at[t]] = "open" /\ stack[at[t]] = 0 => r = "closed"
        /\ nLocations' = nLocations /\ pool' = pool /\ at' = at /\ data' = data
        /\ wrapped' = wrapped /\ stack' = stack /\ nest' = nest /\ how' = how
        /\ held' = held /\ activeLocations' = activeLocations /\ proc' = proc
        /\ phase' = phase /\ fin' = fin /\ finalizer' = finalizer /\ cursor' = cursor
        /\ late' = late /\ quiet' = quiet /\ isFinalized' = isFinalized
  BY DEF End, OrphanEnd, ToPush, EndEvent, Put, Goto, listVars, finVars
<1>2. at[t] # None /\ t # Main
  BY <1>1 DEF CreateWaitInv, ThreadOK
<1>3. /\ TypeOK /\ ThreadOK(t) /\ Using(t) /\ at[t] \in Locations /\ stack[at[t]] = 0
      /\ phase = "within" => record[at[t]] = "open"
  BY <1>1, <1>2, UserFacts
<1>4. TypeOK' /\ pc'[t] = "push" /\ record'[at[t]] = r
  BY <1>1, <1>3 DEF TypeOK, Pcs
<1>5. OwnStep(t)
  BY <1>1, <1>3 DEF OwnStep, TypeOK, Using, Open
<1>6. OwnOK(t)
  <2>1. ThreadOK(t)'
    BY <1>1, <1>2, <1>3 DEF ThreadOK, Ending, TypeOK
  <2>2. QED
    BY <1>1, <1>3, <1>4, <2>1 DEF OwnOK
<1>7. QED
  BY <1>1, <1>4, <1>5, <1>6, OwnStepDone DEF Counted, Ending, Open

LEMMA RecycleStep ==
    ASSUME CreateWaitInv, NEW t \in Threads, Recycle(t)
    PROVE  CreateWaitInv'
<1>1. /\ pc[t] = "recycle" /\ pc' = [pc EXCEPT ![t] = "gone"]
      /\ wrapped' = wrapped \/ wrapped' = [wrapped EXCEPT ![at[t]] = None]
      /\ nLocations' = nLocations /\ pool' = pool /\ at' = at /\ data' = data
      /\ stack' = stack /\ record' = record /\ nest' = nest /\ how' = how
      /\ held' = held /\ activeLocations' = activeLocations /\ proc' = proc
      /\ phase' = phase /\ fin' = fin /\ finalizer' = finalizer /\ cursor' = cursor
      /\ late' = late /\ quiet' = quiet /\ isFinalized' = isFinalized
  BY DEF Recycle, Goto, eventVars, finVars
<1>2. TypeOK /\ ThreadOK(t) /\ wrapped[MainLocation] = None /\ MainLocation \in Locations
  BY SetFacts DEF CreateWaitInv
<1>3. TypeOK' /\ pc'[t] = "gone"
  BY <1>1, <1>2 DEF TypeOK, Pcs
<1>4. OwnStep(t)
  <2>1. wrapped'[MainLocation] = wrapped[MainLocation]
    BY <1>1, <1>2 DEF TypeOK
  <2>2. QED
    BY <1>1, <1>2, <1>3, <2>1 DEF OwnStep, TypeOK, Using, Open
<1>5. OwnOK(t)
  <2>1. ThreadOK(t)'
    BY <1>1, <1>2, <1>3 DEF ThreadOK, Ending, TypeOK
  <2>2. ~Using(t) /\ ~Using(t)'
    BY <1>1, <1>3 DEF Using
  <2>3. QED
    BY <1>1, <2>1, <2>2 DEF OwnOK
<1>6. QED
  BY <1>1, <1>3, <1>4, <1>5, OwnStepDone DEF Counted, Ending, Open

-----------------------------------------------------------------------------
(* A thread is counted, and no longer *)

LEMMA ActiveCountedNext ==
    ASSUME activeLocations' = Cardinality(Moving') + Cardinality(Data')
                              + (IF late' THEN 1 ELSE 0),
           activeLocations' <= Cardinality(Begun')
    PROVE  /\ ActiveCounted'
           /\ activeLocations' \in 0..Cardinality(Others)
<1>1. ActiveCounted'
  BY DEF ActiveCounted, Moving, Data, Begun, Counted
<1>2. /\ Moving' \in SUBSET Threads /\ Data' \in SUBSET Locations /\ Begun' \in SUBSET Others
  BY DEF Moving, Data, Begun
<1>3. /\ Cardinality(Moving') \in Nat /\ Cardinality(Data') \in Nat
      /\ Cardinality(Begun') \in Nat /\ Cardinality(Begun') <= Cardinality(Others)
  <2>1. /\ IsFiniteSet(Moving') /\ IsFiniteSet(Data') /\ IsFiniteSet(Begun')
        /\ Cardinality(Begun') <= Cardinality(Others)
    BY <1>2, SetFacts, FS_Subset
  <2>2. QED
    BY <2>1, FS_CardinalityType
<1>4. activeLocations' >= 0
  BY <1>3
<1>5. activeLocations' \in Nat /\ activeLocations' <= Cardinality(Others)
  BY <1>3, <1>4, SetFacts
<1>6. QED
  BY <1>1, <1>5, SetFacts

LEMMA CountStep ==
    ASSUME CreateWaitInv, NEW t \in Threads, Count(t)
    PROVE  CreateWaitInv'
<1>1. /\ pc[t] = "count" /\ pc' = [pc EXCEPT ![t] = "publish"]
      /\ activeLocations' = activeLocations + 1
      /\ nLocations' = nLocations /\ pool' = pool /\ at' = at /\ data' = data
      /\ wrapped' = wrapped /\ stack' = stack /\ record' = record /\ nest' = nest
      /\ held' = held /\ how' = how /\ proc' = proc
      /\ phase' = phase /\ fin' = fin /\ finalizer' = finalizer /\ cursor' = cursor
      /\ late' = late /\ quiet' = quiet /\ isFinalized' = isFinalized
  BY DEF Count, Goto, listVars, eventVars, finVars
<1>2. at[t] # None /\ t \in Others
  BY <1>1, SetFacts DEF CreateWaitInv, ThreadOK
<1>3. /\ TypeOK /\ ThreadOK(t) /\ Using(t) /\ at[t] \in Locations
      /\ stack[at[t]] <= nest[t] + OwnRegion(t)
      /\ phase = "within" => record[at[t]] = "closed" /\ stack[at[t]] = nest[t] + OwnRegion(t)
  BY <1>1, <1>2, UserFacts
<1>4. pc'[t] = "publish" /\ OwnRegion(t)' = OwnRegion(t)
      /\ \A u \in Threads \ {t} : pc'[u] = pc[u]
  BY <1>1, <1>3 DEF TypeOK, OwnRegion
<1>5. OwnStep(t)
  BY <1>1, <1>3, <1>4 DEF OwnStep, Using, Open
<1>6. OwnOK(t)
  <2>1. ThreadOK(t)'
    BY <1>1, <1>2, <1>3, <1>4 DEF ThreadOK, Ending
  <2>2. QED
    BY <1>1, <1>3, <1>4, <2>1 DEF OwnOK
<1>7. ActiveCounted' /\ activeLocations' \in 0..Cardinality(Others)
  <2>1. Moving' = Moving \cup {t} /\ t \notin Moving
    BY <1>1, <1>4 DEF Moving, Counted, Ending
  <2>2. Begun' = Begun \cup {t} /\ t \notin Begun
    BY <1>1, <1>2, <1>4, SetFacts DEF Begun
  <2>3. Data' = Data /\ late' = late
    BY <1>1 DEF Data
  <2>4. /\ Cardinality(Moving') = Cardinality(Moving) + 1
        /\ Cardinality(Begun') = Cardinality(Begun) + 1
    BY <2>1, <2>2, CountedFinite, CountUp
  <2>5. ActiveCounted
    BY DEF CreateWaitInv
  <2>6. /\ activeLocations' = Cardinality(Moving') + Cardinality(Data') + (IF late' THEN 1 ELSE 0)
        /\ activeLocations' <= Cardinality(Begun')
    BY <1>1, <2>3, <2>4, <2>5, CountedFinite, ActiveCountedDef
  <2>7. QED
    BY <2>6, ActiveCountedNext
<1>8. TypeOK'
  BY <1>1, <1>3, <1>7 DEF TypeOK, Pcs
<1>9. LocationsAnnounced'
  BY <1>1, <1>4, <1>5, OwnAnnounced DEF Open
<1>10. QED
  BY <1>1, <1>5, <1>6, <1>7, <1>8, <1>9, OwnStepKeeps DEF CreateWaitInv

LEMMA TerminateStep ==
    ASSUME CreateWaitInv, NEW t \in Threads, Terminate(t)
    PROVE  CreateWaitInv'
<1>1. /\ pc[t] = "terminate" /\ pc' = [pc EXCEPT ![t] = "recycle"]
      /\ activeLocations' = activeLocations - 1
      /\ held' = [held EXCEPT ![t] = FALSE]
      /\ nLocations' = nLocations /\ pool' = pool /\ at' = at /\ data' = data
      /\ wrapped' = wrapped /\ stack' = stack /\ record' = record /\ nest' = nest
      /\ how' = how /\ proc' = proc
      /\ phase' = phase /\ fin' = fin /\ finalizer' = finalizer /\ cursor' = cursor
      /\ late' = late /\ quiet' = quiet /\ isFinalized' = isFinalized
  BY DEF Terminate, TerminateThread, Goto, listVars, eventVars, finVars
<1>2. TypeOK /\ ThreadOK(t)
  BY DEF CreateWaitInv
<1>3. pc'[t] = "recycle" /\ ~held'[t]
      /\ \A u \in Threads \ {t} : pc'[u] = pc[u] /\ held'[u] = held[u]
  BY <1>1, <1>2 DEF TypeOK
<1>4. ~Using(t) /\ ~Using(t)'
  BY <1>1, <1>3 DEF Using
<1>5. OwnStep(t)
  BY <1>1, <1>3, <1>4 DEF OwnStep, Open
<1>6. OwnOK(t)
  <2>1. ThreadOK(t)'
    BY <1>1, <1>2, <1>3 DEF ThreadOK, Ending
  <2>2. QED
    BY <1>1, <1>4, <2>1 DEF OwnOK
<1>7. ActiveCounted' /\ activeLocations' \in 0..Cardinality(Others)
  <2>1. Moving' = Moving \ {t} /\ t \in Moving
    BY <1>1, <1>3 DEF Moving, Counted, Ending
  <2>2. Begun' = Begun
    BY <1>1, <1>3, SetFacts DEF Begun
  <2>3. Data' = Data /\ late' = late
    BY <1>1 DEF Data
  <2>4. Cardinality(Moving') = Cardinality(Moving) - 1
    BY <2>1, CountedFinite, CountDown
  <2>5. ActiveCounted
    BY DEF CreateWaitInv
  <2>6. /\ activeLocations' = Cardinality(Moving') + Cardinality(Data') + (IF late' THEN 1 ELSE 0)
        /\ activeLocations' <= Cardinality(Begun')
    BY <1>1, <2>2, <2>3, <2>4, <2>5, CountedFinite, ActiveCountedDef
  <2>7. QED
    BY <2>6, ActiveCountedNext
<1>8. TypeOK'
  BY <1>1, <1>2, <1>7 DEF TypeOK, Pcs
<1>9. LocationsAnnounced'
  BY <1>1, <1>3, <1>5, OwnAnnounced DEF Open
<1>10. QED
  BY <1>1, <1>5, <1>6, <1>7, <1>8, <1>9, OwnStepKeeps DEF CreateWaitInv

-----------------------------------------------------------------------------
(* A thread takes a location *)

(* Nobody has location l: it is not yet created, or in a pool. *)
Free(l) == l > nLocations \/ InPool(l)

LEMMA FreeFacts ==
    ASSUME CreateWaitInv, NEW l \in Locations, Free(l)
    PROVE  /\ l # MainLocation /\ stack[l] = 0 /\ ~Announced(l)
           /\ \A t \in Threads : Using(t) => at[t] # l
           /\ phase = "within" => record[l] = "closed"
           /\ phase = "post" => l \notin quiet
<1>1. TypeOK /\ nLocations \in Nat /\ nLocations >= 1 /\ l \in Nat
  BY SetFacts DEF CreateWaitInv, TypeOK
<1>2. /\ stack[l] = 0
      /\ phase = "within" => record[l] = "closed"
  BY DEF CreateWaitInv, StacksBounded, WithinInv, Free
<1>3. l # MainLocation
  BY <1>1, SetFacts DEF CreateWaitInv, LocationsOwned, Free
<1>4. ~Announced(l)
  BY <1>1 DEF CreateWaitInv, LocationsAnnounced, Free
<1>5. \A t \in Threads : Using(t) => at[t] # l
  <2>1. \A t \in Threads : Using(t) => at[t] <= nLocations /\ ~InPool(at[t])
    BY DEF CreateWaitInv, LocationsOwned, Using
  <2>2. QED
    BY <1>1, <2>1 DEF Free
<1>6. phase = "post" => l \notin quiet
  <2>1. phase = "post" => \A m \in quiet : m <= nLocations /\ ~InPool(m)
    BY DEF CreateWaitInv, QuietInv
  <2>2. QED
    BY <1>1, <2>1 DEF Free
<1>7. QED
  BY <1>2, <1>3, <1>4, <1>5, <1>6

(* The pools list each location once. *)
PoolsDistinct ==
    \A k, m \in ReuseKeys : \A i \in 1..Len(pool[k]), j \in 1..Len(pool[m]) :
        pool[k][i] = pool[m][j] => k = m /\ i = j

LEMMA TakenLocation ==
    ASSUME CreateWaitInv, NEW t \in Others, at[t] = None, pc[t] \in {"created", "event"},
           NEW l \in Locations, Free(l), ~Free(l)',
           at' = [at EXCEPT ![t] = l], pc' = [pc EXCEPT ![t] = "count"],
           TypeOK', nLocations' >= nLocations, PoolsDistinct',
           \A m \in Locations : InPool(m)' => InPool(m),
           nLocations' <= 1 + Cardinality({u \in Others : at'[u] # None}),
           data' = data, wrapped' = wrapped, stack' = stack, record' = record,
           nest' = nest, how' = how, held' = held, activeLocations' = activeLocations,
           phase' = phase, fin' = fin, finalizer' = finalizer, cursor' = cursor,
           late' = late, quiet' = quiet
    PROVE  CreateWaitInv'
<1>1. /\ TypeOK /\ nLocations \in Nat /\ nLocations' \in Nat /\ nLocations >= 1
      /\ t \in Threads /\ t # Main /\ l \in Nat /\ l # None /\ cursor \in Nat
      /\ at \in [Threads -> Locations \cup {None}] /\ pc \in [Threads -> Pcs]
  <2>1. /\ TypeOK /\ nLocations \in Locations /\ nLocations' \in Locations
        /\ cursor \in 0..Cardinality(Locations) + 1
        /\ at \in [Threads -> Locations \cup {None}] /\ pc \in [Threads -> Pcs]
    BY DEF CreateWaitInv, TypeOK
  <2>2. nLocations \in Nat /\ nLocations' \in Nat /\ nLocations >= 1 /\ l \in Nat
    BY <2>1, SetFacts
  <2>3. cursor \in Nat /\ l # None /\ t \in Threads /\ t # Main
    BY <2>1, SetFacts
  <2>4. QED
    BY <2>1, <2>2, <2>3
<1>2. /\ l # MainLocation /\ stack[l] = 0 /\ ~Announced(l)
      /\ \A u \in Threads : Using(u) => at[u] # l
      /\ phase = "within" => record[l] = "closed"
      /\ phase = "post" => l \notin quiet
  BY FreeFacts
<1>3. l <= nLocations' /\ ~InPool(l)'
  BY <1>1 DEF Free
<1>4. \A u \in Threads \ {t} : /\ at'[u] = at[u] /\ pc'[u] = pc[u] /\ (Using(u)' <=> Using(u))
                               /\ OwnRegion(u)' = OwnRegion(u)
  BY <1>1 DEF Using, OwnRegion
<1>5. /\ at'[t] = l /\ pc'[t] = "count" /\ Using(t)' /\ ~Using(t)
      /\ nest[t] = 0 /\ how[t] = "cancelled" /\ ~held[t] /\ OwnRegion(t)' = 0
  <2>1. at'[t] = l /\ pc'[t] = "count" /\ ThreadOK(t)
    BY <1>1 DEF CreateWaitInv
  <2>2. nest[t] = 0 /\ how[t] = "cancelled" /\ ~held[t]
    BY <2>1 DEF ThreadOK, Ending
  <2>3. QED
    BY <1>1, <2>1, <2>2 DEF Using, OwnRegion
<1>6. ASSUME NEW m \in Locations, Free(m)'
      PROVE  Free(m) /\ m # l /\ m \in Nat
  BY <1>1, <1>6, SetFacts DEF Free
<1>7. \A u \in Threads : ThreadOK(u)'
  <2>1. ThreadOK(t)'
    BY <1>1, <1>5 DEF ThreadOK, Ending
  <2>2. ASSUME NEW u \in Threads \ {t} PROVE ThreadOK(u)'
    BY <1>4 DEF CreateWaitInv, ThreadOK
  <2>3. QED
    BY <2>1, <2>2
<1>8. FinalizerOK'
  <2>1. FinalizerOK
    BY DEF CreateWaitInv
  <2>2. finalizer # t \/ fin = "none"
    BY <2>1 DEF FinalizerOK
  <2>3. cursor \in 1..nLocations => cursor' \in 1..nLocations'
    BY <1>1
  <2>4. QED
    BY <1>4, <2>1, <2>2, <2>3 DEF FinalizerOK
<1>9. LocationsOwned'
  <2>1. LocationsOwned
    BY DEF CreateWaitInv
  <2>2. \A u \in Threads : at'[u] # None => /\ at'[u] <= nLocations'
                                            /\ at'[u] = MainLocation => u = Main
    <3>1. ASSUME NEW u \in Threads \ {t}, at'[u] # None
          PROVE  at'[u] <= nLocations' /\ (at'[u] = MainLocation => u = Main)
      <4>1. at[u] \in Locations /\ at[u] \in Nat /\ at'[u] = at[u]
        BY <1>1, <1>4, <3>1, SetFacts
      <4>2. QED
        BY <1>1, <2>1, <4>1, <3>1 DEF LocationsOwned
    <3>2. QED
      BY <1>2, <1>3, <1>5, <3>1
  <2>3. \A u, v \in Threads : Using(u)' /\ Using(v)' /\ at'[u] = at'[v] => u = v
    BY <1>2, <1>4, <1>5, <2>1 DEF LocationsOwned
  <2>4. \A u \in Threads : Using(u)' => ~InPool(at[u])'
    <3>1. ASSUME NEW u \in Threads \ {t}, Using(u)'
          PROVE  ~InPool(at[u])'
      <4>1. Using(u) /\ at'[u] = at[u] /\ at[u] \in Locations
        BY <1>1, <1>4, <3>1 DEF Using
      <4>2. ~InPool(at[u])
        BY <2>1, <4>1 DEF LocationsOwned
      <4>3. ~(\E k \in ReuseKeys : \E i \in 1..Len(pool'[k]) : pool'[k][i] = at[u])
        <5>1. ASSUME NEW m \in Locations, ~InPool(m)
              PROVE  ~(\E k \in ReuseKeys : \E i \in 1..Len(pool'[k]) : pool'[k][i] = m)
          BY <5>1 DEF InPool
        <5>2. QED
          BY <4>1, <4>2, <5>1
      <4>4. QED
        BY <4>1, <4>3 DEF InPool
    <3>2. ~InPool(at[t])'
      BY <1>3, <1>5 DEF InPool
    <3>3. QED
      BY <3>1, <3>2
  <2>5. \A m \in Locations : InPool(m)' => m \in 2..nLocations'
    BY <1>1, <2>1, SetFacts DEF LocationsOwned
  <2>6. QED
    BY <2>2, <2>3, <2>4, <2>5 DEF LocationsOwned, PoolsDistinct

<1>10. LocationsAnnounced'
  <2>1. LocationsAnnounced /\ \A m \in Locations : Announced(m)' <=> Announced(m)
    BY DEF CreateWaitInv, Announced
  <2>2. (late => ~data[cursor])'
    BY <2>1 DEF LocationsAnnounced
  <2>3. ASSUME NEW m \in Locations, Announced(m)'
        PROVE  /\ m \in 2..nLocations' /\ ~InPool(m)'
               /\ \A u \in Threads : Using(u)' /\ at'[u] = m => pc'[u] \in Open
    <3>1. m \in 2..nLocations /\ ~InPool(m) /\ m # l
      BY <1>2, <2>1, <2>3 DEF LocationsAnnounced
    <3>2. \A u \in Threads : Using(u) /\ at[u] = m => pc[u] \in Open
      BY <2>1, <2>3 DEF LocationsAnnounced
    <3>3. \A u \in Threads : Using(u)' /\ at'[u] = m => pc'[u] \in Open
      BY <1>4, <1>5, <3>1, <3>2
    <3>4. m \in 2..nLocations'
      BY <1>1, <3>1
    <3>5. QED
      BY <3>1, <3>3, <3>4
  <2>4. ASSUME phase' = "within", NEW u \in Others, Using(u)', pc'[u] \in Open
        PROVE  data'[at'[u]]
    <3>1. u # t /\ u \in Threads
      BY <1>5, <2>4, SetFacts DEF Open
    <3>2. QED
      BY <1>4, <2>1, <2>4, <3>1 DEF LocationsAnnounced
  <2>5. QED
    BY <2>2, <2>3, <2>4 DEF LocationsAnnounced
<1>11. StacksBounded'
  <2>1. StacksBounded
    BY DEF CreateWaitInv
  <2>2. ASSUME NEW u \in Threads, Using(u)'
        PROVE  stack'[at'[u]] <= IF pc'[u] \in {"end", "push"} THEN 0
                                 ELSE nest'[u] + OwnRegion(u)'
    <3>1. CASE u = t
      BY <1>2, <1>5, <3>1
    <3>2. CASE u # t
      BY <1>4, <2>1, <2>2, <3>2 DEF StacksBounded
    <3>3. QED
      BY <3>1, <3>2
  <2>3. \A m \in Locations : m > nLocations' \/ InPool(m)' => stack'[m] = 0
    BY <1>6, FreeFacts DEF Free
  <2>4. QED
    BY <2>2, <2>3 DEF StacksBounded
<1>12. WithinInv'
  <2> SUFFICES ASSUME phase' = "within"
               PROVE  WithinInv'
    BY DEF WithinInv
  <2>1. WithinInv /\ phase = "within"
    BY DEF CreateWaitInv
  <2>2. ASSUME NEW u \in Threads, Using(u)'
        PROVE  /\ record'[at'[u]] = IF pc'[u] \in {"count", "publish", "begin", "push"}
                                    THEN "closed" ELSE "open"
               /\ pc'[u] \notin {"end", "push"} => stack'[at'[u]] = nest'[u] + OwnRegion(u)'
    <3>1. CASE u = t
      BY <1>2, <1>5, <2>1, <3>1
    <3>2. CASE u # t
      BY <1>4, <2>1, <2>2, <3>2 DEF WithinInv
    <3>3. QED
      BY <3>1, <3>2
  <2>3. \A m \in Locations : m > nLocations' \/ InPool(m)' => record'[m] = "closed"
    BY <1>6, <2>1, FreeFacts DEF Free
  <2>4. \A m \in Locations : record'[m] # "broken"
    BY <2>1 DEF WithinInv
  <2>5. QED
    BY <2>2, <2>3, <2>4 DEF WithinInv
<1>13. QuietInv'
  <2> SUFFICES ASSUME phase' = "post", NEW m \in quiet'
               PROVE  /\ m <= nLocations' /\ ~InPool(m)'
                      /\ \A u \in Threads : Using(u)' /\ at'[u] = m =>
                           pc'[u] \in {"run", "cleanup", "finalizing"}
                      /\ IF Ended(m)' THEN record'[m] = "closed"
                         ELSE /\ record'[m] = "open" /\ (m # MainLocation => Announced(m)')
                              /\ fin' = "lateend" /\ m = cursor' => stack'[m] = 0
    BY DEF QuietInv
  <2>1. phase = "post" /\ m \in quiet /\ m # l /\ m \in Locations
    BY <1>1, <1>2 DEF TypeOK
  <2>2. (Ended(m)' <=> Ended(m)) /\ (Announced(m)' <=> Announced(m))
    BY DEF Ended, Announced
  <2>3. /\ m <= nLocations /\ ~InPool(m)
        /\ \A u \in Threads : Using(u) /\ at[u] = m => pc[u] \in {"run", "cleanup", "finalizing"}
        /\ IF Ended(m) THEN record[m] = "closed"
           ELSE /\ record[m] = "open" /\ (m # MainLocation => Announced(m))
                /\ fin = "lateend" /\ m = cursor => stack[m] = 0
    BY <2>1 DEF CreateWaitInv, QuietInv
  <2>4. m <= nLocations' /\ ~InPool(m)'
    BY <1>1, <2>1, <2>3, SetFacts
  <2>5. \A u \in Threads : Using(u)' /\ at'[u] = m => pc'[u] \in {"run", "cleanup", "finalizing"}
    BY <1>4, <1>5, <2>1, <2>3
  <2>6. QED
    BY <2>2, <2>3, <2>4, <2>5
<1>14. ActiveCounted'
  <2>1. Moving' = Moving
    <3>1. \A u \in Threads : pc'[u] \in Counted <=> pc[u] \in Counted
      BY <1>4, <1>5 DEF Counted, Ending
    <3>2. QED
      BY <3>1 DEF Moving
  <2>2. Begun \subseteq Begun'
    BY <1>1, <1>4, SetFacts DEF Begun
  <2>3. Data' = Data
    BY DEF Data
  <2>4. QED
    BY <2>1, <2>2, <2>3, ActiveKept DEF CreateWaitInv
<1>15. QED
  BY <1>7, <1>8, <1>9, <1>10, <1>11, <1>12, <1>13, <1>14 DEF CreateWaitInv

(* A pool that gives its latest location away *)
LEMMA PopFacts ==
    ASSUME CreateWaitInv, NEW k \in ReuseKeys, pool[k] # <<>>, Pop(k)
    PROVE  /\ pool' \in [ReuseKeys -> Seq(Locations)] /\ Head(pool[k]) \in Locations
           /\ InPool(Head(pool[k])) /\ PoolsDistinct'
           /\ \A m \in ReuseKeys : \A i \in 1..Len(pool'[m]) : pool'[m][i] # Head(pool[k])
           /\ \A l \in Locations : InPool(l)' => InPool(l)
<1> DEFINE s == pool[k]
<1>1. pool \in [ReuseKeys -> Seq(Locations)] /\ PoolsDistinct
  BY DEF CreateWaitInv, TypeOK, LocationsOwned, PoolsDistinct
<1>2. s \in Seq(Locations) /\ s # <<>>
  BY <1>1
<1>3. /\ Tail(s) \in Seq(Locations) /\ Len(s) \in Nat /\ Len(s) >= 1
      /\ Len(Tail(s)) = Len(s) - 1 /\ Head(s) = s[1] /\ s[1] \in Locations
      /\ \A i \in 1..Len(s) - 1 : Tail(s)[i] = s[i + 1]
  <2> HIDE DEF s
  <2>1. Len(s) \in Nat /\ Len(s) >= 1
    BY <1>2
  <2>2. QED
    BY <1>2, <2>1
<1>4. /\ pool'[k] = Tail(s) /\ \A m \in ReuseKeys \ {k} : pool'[m] = pool[m]
      /\ pool' \in [ReuseKeys -> Seq(Locations)]
  BY <1>1, <1>3 DEF Pop
<1>5. ASSUME NEW m \in ReuseKeys, NEW i \in 1..Len(pool'[m])
      PROVE  LET j == IF m = k THEN i + 1 ELSE i
             IN  j \in 1..Len(pool[m]) /\ pool'[m][i] = pool[m][j] /\ (m = k => j # 1)
  <2> HIDE DEF s
  <2>1. CASE m = k
    <3>1. i \in 1..Len(s) - 1 /\ pool[m] = s
      BY <1>3, <1>4, <2>1 DEF s
    <3>2. i + 1 \in 1..Len(s) /\ i + 1 # 1 /\ pool'[m][i] = s[i + 1]
      BY <1>3, <1>4, <2>1, <3>1
    <3>3. QED
      BY <2>1, <3>1, <3>2
  <2>2. CASE m # k
    BY <1>4, <2>2
  <2>3. QED
    BY <2>1, <2>2
<1>6. \A m \in ReuseKeys : \A i \in 1..Len(pool'[m]) : pool'[m][i] # Head(pool[k])
  <2>1. ASSUME NEW m \in ReuseKeys, NEW i \in 1..Len(pool'[m]), pool'[m][i] = Head(pool[k])
        PROVE  FALSE
    <3>1. PICK j \in 1..Len(pool[m]) : pool'[m][i] = pool[m][j] /\ (m = k => j # 1)
      BY <1>5
    <3>2. 1 \in 1..Len(pool[k]) /\ pool[m][j] = pool[k][1]
      BY <1>3, <2>1, <3>1
    <3>3. m = k /\ j = 1
      BY <1>1, <3>2 DEF PoolsDistinct
    <3>4. QED
      BY <3>1, <3>3
  <2>2. QED
    BY <2>1
<1>7. \A l \in Locations : InPool(l)' => InPool(l)
  BY <1>5 DEF InPool
<1>8. InPool(Head(pool[k]))
  BY <1>3 DEF InPool
<1>9. PoolsDistinct'
  <2>1. ASSUME NEW m \in ReuseKeys, NEW n \in ReuseKeys, NEW i \in 1..Len(pool'[m]),
               NEW j \in 1..Len(pool'[n]), pool'[m][i] = pool'[n][j]
        PROVE  m = n /\ i = j
    <3>1. PICK p \in 1..Len(pool[m]) :
            pool'[m][i] = pool[m][p] /\ p = IF m = k THEN i + 1 ELSE i
      BY <1>5
    <3>2. PICK q \in 1..Len(pool[n]) :
            pool'[n][j] = pool[n][q] /\ q = IF n = k THEN j + 1 ELSE j
      BY <1>5
    <3>3. m = n /\ p = q
      <4>1. pool[m][p] = pool[n][q]
        BY <2>1, <3>1, <3>2
      <4>2. PoolsDistinct
        BY <1>1
      <4>3. QED
        BY <4>1, <4>2 DEF PoolsDistinct
    <3>4. i \in Int /\ j \in Int
      OBVIOUS
    <3>5. QED
      BY <3>1, <3>2, <3>3, <3>4
  <2>2. QED
    BY <2>1 DEF PoolsDistinct
<1>10. QED
  BY <1>3, <1>4, <1>6, <1>7, <1>8, <1>9

LEMMA TakeLocationStep ==
    ASSUME CreateWaitInv, NEW t \in Threads, OnBegin(t) \/ OnOrphanBegin(t)
    PROVE  CreateWaitInv'
<1>1. /\ pc[t] \in {"created", "event"} /\ TakeLocation(t)
  BY DEF OnBegin, OnOrphanBegin
<1>2. at[t] = None /\ t \in Others /\ ReuseKey[t] \in ReuseKeys
  <2>1. at[t] = None /\ t # Main
    BY SetFacts DEF OnBegin, OnOrphanBegin, CreateWaitInv, ThreadOK
  <2>2. QED
    BY <2>1, SetFacts DEF ReuseKeys
<1>3. TypeOK /\ nLocations \in Nat /\ nLocations >= 1
  BY SetFacts DEF CreateWaitInv, TypeOK
<1>4. /\ pc' = [pc EXCEPT ![t] = "count"]
      /\ data' = data /\ wrapped' = wrapped /\ stack' = stack /\ record' = record
      /\ nest' = nest /\ how' = how /\ held' = held /\ activeLocations' = activeLocations
      /\ phase' = phase /\ fin' = fin /\ finalizer' = finalizer /\ cursor' = cursor
      /\ late' = late /\ quiet' = quiet /\ isFinalized' = isFinalized /\ proc' = proc
  BY <1>1 DEF TakeLocation, Goto, eventVars, finVars
(* The threads that have had a location *)
<1> DEFINE H == {u \in Others : at[u] # None}
<1>5. /\ IsFiniteSet(H) /\ Cardinality(H) \in Nat /\ t \notin H
      /\ Cardinality(H \cup {t}) = Cardinality(H) + 1
      /\ Cardinality(H) + 1 <= Cardinality(Others)
      /\ nLocations <= 1 + Cardinality(H)
  <2>1. H \in SUBSET Others /\ t \notin H /\ H \cup {t} \in SUBSET Others
    BY <1>2
  <2>2. IsFiniteSet(H) /\ Cardinality(H) \in Nat
    BY <2>1, SetFacts, FS_Subset, FS_CardinalityType
  <2>3. Cardinality(H \cup {t}) = Cardinality(H) + 1
    BY <2>1, <2>2, CountUp
  <2>4. Cardinality(H \cup {t}) <= Cardinality(Others)
    BY <2>1, SetFacts, FS_Subset
  <2>5. nLocations <= 1 + Cardinality(H)
    BY DEF CreateWaitInv, LocationsOwned
  <2>6. QED
    BY <2>1, <2>2, <2>3, <2>4, <2>5
<1>6. ASSUME NEW l \in Locations, at' = [at EXCEPT ![t] = l]
      PROVE  {u \in Others : at'[u] # None} = H \cup {t}
  BY <1>2, <1>3, <1>6, SetFacts DEF TypeOK
<1> HIDE DEF H
<1>7. CASE ReuseKey[t] # None /\ pool[ReuseKey[t]] # <<>>
  <2>1. Pop(ReuseKey[t]) /\ nLocations' = nLocations
    BY <1>1, <1>7 DEF TakeLocation
  <2>2. PICK l \in Locations :
          /\ at' = [at EXCEPT ![t] = l]
          /\ pool' \in [ReuseKeys -> Seq(Locations)] /\ InPool(l) /\ PoolsDistinct'
          /\ \A m \in ReuseKeys : \A i \in 1..Len(pool'[m]) : pool'[m][i] # l
          /\ \A m \in Locations : InPool(m)' => InPool(m)
    <3>1. at' = [at EXCEPT ![t] = Head(pool[ReuseKey[t]])]
      BY <1>1, <1>7 DEF TakeLocation
    <3>2. QED
      BY <1>2, <1>7, <2>1, <3>1, PopFacts
  <2>3. TypeOK'
    BY <1>2, <1>3, <1>4, <2>1, <2>2 DEF TypeOK, Pcs
  <2>4. Free(l) /\ ~Free(l)'
    <3>1. l \in 2..nLocations
      BY <2>2 DEF CreateWaitInv, LocationsOwned
    <3>2. ~(l > nLocations')
      BY <1>3, <2>1, <3>1
    <3>3. ~(\E m \in ReuseKeys : \E i \in 1..Len(pool'[m]) : pool'[m][i] = l)
      BY <2>2
    <3>4. QED
      BY <2>2, <3>2, <3>3 DEF Free, InPool
  <2>5. nLocations' >= nLocations /\ nLocations' <= 1 + Cardinality({u \in Others : at'[u] # None})
    <3>1. Cardinality({u \in Others : at'[u] # None}) = Cardinality(H) + 1
      BY <1>5, <1>6, <2>1, <2>2
    <3>2. QED
      BY <1>3, <1>5, <2>1, <3>1
  <2>6. QED
    BY <1>1, <1>2, <1>4, <2>1, <2>2, <2>3, <2>4, <2>5, TakenLocation
<1>8. CASE ReuseKey[t] = None \/ pool[ReuseKey[t]] = <<>>
  <2>1. PICK l \in Locations :
          l = nLocations + 1 /\ at' = [at EXCEPT ![t] = l] /\ pool' = pool /\ nLocations' = l
    <3>1. nLocations + 1 \in Locations
      BY <1>3, <1>5, SetFacts
    <3>2. QED
      BY <1>1, <1>8, <3>1 DEF TakeLocation, NewLocation
  <2>2. l \in Nat
    BY <1>3, <2>1
  <2>3. TypeOK'
    BY <1>2, <1>3, <1>4, <2>1, <2>2 DEF TypeOK, Pcs
  <2>4. \A m \in Locations : InPool(m)' => InPool(m)
    BY <2>1 DEF InPool
  <2>5. Free(l) /\ ~Free(l)'
    <3>1. ~InPool(l)
      BY <1>3, <2>1 DEF CreateWaitInv, LocationsOwned
    <3>2. ~(\E m \in ReuseKeys : \E i \in 1..Len(pool'[m]) : pool'[m][i] = l)
      BY <2>1, <3>1 DEF InPool
    <3>3. l > nLocations /\ ~(l > nLocations')
      BY <1>3, <2>1
    <3>4. Free(l)
      BY <3>3 DEF Free
    <3>5. ~(l > nLocations' \/ \E m \in ReuseKeys : \E i \in 1..Len(pool'[m]) : pool'[m][i] = l)
      BY <3>2, <3>3
    <3>6. QED
      BY <1>3, <2>1, <3>4, <3>5 DEF Free, InPool
  <2>6. nLocations' >= nLocations /\ nLocations' <= 1 + Cardinality({u \in Others : at'[u] # None})
    <3>1. Cardinality({u \in Others : at'[u] # None}) = Cardinality(H) + 1
      BY <1>5, <1>6, <2>1, <2>2
    <3>2. QED
      BY <1>3, <1>5, <2>1, <3>1
  <2>7. PoolsDistinct'
    BY <2>1 DEF CreateWaitInv, LocationsOwned, PoolsDistinct
  <2>8. QED
    BY <1>1, <1>2, <1>4, <2>1, <2>2, <2>3, <2>4, <2>5, <2>6, <2>7, TakenLocation
<1>9. QED
  BY <1>7, <1>8

-----------------------------------------------------------------------------
(* A thread announces its location, and takes it back *)

LEMMA PublishStep ==
    ASSUME CreateWaitInv, NEW t \in Threads, Publish(t)
    PROVE  CreateWaitInv'
<1>1. /\ pc[t] = "publish" /\ pc' = [pc EXCEPT ![t] = "begin"]
      /\ data' = [data EXCEPT ![at[t]] = TRUE]
      /\ activeLocations' = activeLocations
      /\ nLocations' = nLocations /\ pool' = pool /\ at' = at
      /\ wrapped' = wrapped /\ stack' = stack /\ record' = record /\ nest' = nest
      /\ held' = held /\ how' = how /\ proc' = proc
      /\ phase' = phase /\ fin' = fin /\ finalizer' = finalizer /\ cursor' = cursor
      /\ late' = late /\ quiet' = quiet /\ isFinalized' = isFinalized
  BY DEF Publish, Goto, eventVars, finVars
<1>2. at[t] # None /\ t \in Others
  BY <1>1, SetFacts DEF CreateWaitInv, ThreadOK
<1>3. /\ TypeOK /\ ThreadOK(t) /\ Using(t) /\ at[t] \in Locations
      /\ stack[at[t]] <= nest[t] + OwnRegion(t)
      /\ phase = "within" => record[at[t]] = "closed" /\ stack[at[t]] = nest[t] + OwnRegion(t)
  BY <1>1, <1>2, UserFacts
<1>4. /\ pc'[t] = "begin" /\ OwnRegion(t)' = OwnRegion(t) /\ Using(t)'
      /\ \A u \in Threads \ {t} : pc'[u] = pc[u] /\ (Using(u)' <=> Using(u))
      /\ \A l \in Locations : data'[l] = IF l = at[t] THEN TRUE ELSE data[l]
  BY <1>1, <1>2, <1>3 DEF TypeOK, OwnRegion, Using
<1>5. OwnStep(t)
  BY <1>1, <1>3, <1>4 DEF OwnStep
<1>6. OwnOK(t)
  <2>1. ThreadOK(t)'
    BY <1>1, <1>2, <1>3, <1>4 DEF ThreadOK, Ending
  <2>2. QED
    BY <1>1, <1>3, <1>4, <2>1 DEF OwnOK
<1>7. LocationsAnnounced /\ LocationsOwned
  BY DEF CreateWaitInv
<1>8. ~Announced(at[t])
  BY <1>1, <1>3, <1>7 DEF LocationsAnnounced, Open
<1>9. LocationsAnnounced'
  <2>1. late => cursor # at[t] /\ ~data[cursor]
    BY <1>7, <1>8 DEF LocationsAnnounced, Announced
  <2>2. (late => ~data[cursor])'
    BY <1>1, <1>3, <2>1 DEF TypeOK
  <2>3. \A l \in Locations : Announced(l)' => Announced(l) \/ l = at[t]
    BY <1>1, <1>4 DEF Announced
  <2>4. at[t] \in 2..nLocations /\ ~InPool(at[t])
    <3>1. at[t] <= nLocations /\ at[t] # MainLocation /\ ~InPool(at[t]) /\ at[t] \in Nat
          /\ at[t] >= 1 /\ nLocations \in Nat
      BY <1>2, <1>3, <1>7, SetFacts DEF LocationsOwned, TypeOK
    <3>2. QED
      BY <3>1, SetFacts
  <2>5. ASSUME NEW l \in Locations, Announced(l)'
        PROVE  /\ l \in 2..nLocations' /\ ~InPool(l)'
               /\ \A u \in Threads : Using(u)' /\ at'[u] = l => pc'[u] \in Open
    <3>1. l \in 2..nLocations /\ ~InPool(l)
      BY <1>7, <2>3, <2>4, <2>5 DEF LocationsAnnounced
    <3>2. ASSUME NEW u \in Threads, Using(u)', at'[u] = l
          PROVE  pc'[u] \in Open
      <4>1. CASE u = t
        BY <1>4, <4>1 DEF Open
      <4>2. CASE u # t
        <5>1. Using(u) /\ at[u] = l /\ l # at[t]
          BY <1>1, <1>3, <1>4, <1>7, <3>2, <4>2 DEF LocationsOwned
        <5>2. Announced(l)
          BY <2>3, <2>5, <5>1
        <5>3. QED
          BY <1>4, <1>7, <4>2, <5>1, <5>2 DEF LocationsAnnounced
      <4>3. QED
        BY <4>1, <4>2
    <3>3. ~InPool(l)'
      BY <1>1, <3>1 DEF InPool
    <3>4. QED
      BY <1>1, <3>1, <3>2, <3>3
  <2>6. ASSUME phase' = "within", NEW u \in Others, Using(u)', pc'[u] \in Open
        PROVE  data'[at'[u]]
    <3>1. CASE u = t
      BY <1>1, <1>3, <1>4, <3>1
    <3>2. CASE u # t
      <4>1. Using(u) /\ pc[u] \in Open /\ at[u] \in Locations /\ u \in Threads
        BY <1>3, <1>4, <2>6, <3>2, SetFacts DEF Using, TypeOK
      <4>2. data[at[u]]
        BY <1>1, <1>7, <2>6, <4>1 DEF LocationsAnnounced
      <4>3. QED
        BY <1>1, <1>4, <4>1, <4>2
    <3>3. QED
      BY <3>1, <3>2
  <2>7. QED
    BY <2>2, <2>5, <2>6 DEF LocationsAnnounced
<1>10. ActiveCounted'
  <2>1. Moving' = Moving \ {t} /\ t \in Moving
    BY <1>1, <1>4 DEF Moving, Counted, Ending
  <2>2. Data' = Data \cup {at[t]} /\ at[t] \notin Data
    BY <1>3, <1>4, <1>8 DEF Data, Announced
  <2>3. Begun' = Begun /\ late' = late
    BY <1>1, <1>4, SetFacts DEF Begun
  <2>4. Cardinality(Moving') = Cardinality(Moving) - 1 /\ Cardinality(Data') = Cardinality(Data) + 1
    BY <2>1, <2>2, CountedFinite, CountDown, CountUp
  <2>5. ActiveCounted
    BY DEF CreateWaitInv
  <2>6. /\ activeLocations' = Cardinality(Moving') + Cardinality(Data') + (IF late' THEN 1 ELSE 0)
        /\ activeLocations' <= Cardinality(Begun')
    BY <1>1, <2>3, <2>4, <2>5, CountedFinite, ActiveCountedDef
  <2>7. QED
    BY <2>6, ActiveCountedNext
<1>11. TypeOK'
  BY <1>1, <1>3 DEF TypeOK, Pcs
<1>12. QED
  BY <1>5, <1>6, <1>9, <1>10, <1>11, OwnStepKeeps DEF CreateWaitInv

(* Nothing happens, or the program aborts. *)
LEMMA Unchanged ==
    ASSUME CreateWaitInv, TypeOK',
           phase' = phase, nLocations' = nLocations, activeLocations' = activeLocations,
           data' = data, pool' = pool, wrapped' = wrapped, stack' = stack, record' = record,
           pc' = pc, at' = at, nest' = nest, how' = how, held' = held, fin' = fin,
           finalizer' = finalizer, cursor' = cursor, late' = late, quiet' = quiet
    PROVE  CreateWaitInv'
<1>1. /\ (\A t \in Threads : ThreadOK(t)') /\ FinalizerOK' /\ LocationsOwned'
      /\ wrapped'[MainLocation] = None
  BY DEF CreateWaitInv, ThreadOK, FinalizerOK, LocationsOwned, InPool, Using
<1>2. LocationsAnnounced' /\ StacksBounded' /\ WithinInv'
  BY DEF CreateWaitInv, LocationsAnnounced, StacksBounded, WithinInv, InPool, Using,
         Announced, OwnRegion
<1>3. QuietInv' /\ ActiveCounted'
  BY DEF CreateWaitInv, QuietInv, ActiveCounted, InPool, Using, Announced, Ended
<1>4. QED
  BY <1>1, <1>2, <1>3 DEF CreateWaitInv

LEMMA TryTerminateStep ==
    ASSUME CreateWaitInv, NEW t \in Threads, TryTerminate(t)
    PROVE  CreateWaitInv'
<1>1. /\ pc[t] = "tryterminate"
      /\ activeLocations' = activeLocations
      /\ nLocations' = nLocations /\ pool' = pool /\ at' = at
      /\ wrapped' = wrapped /\ stack' = stack /\ record' = record /\ nest' = nest
      /\ how' = how
      /\ phase' = phase /\ fin' = fin /\ finalizer' = finalizer /\ cursor' = cursor
      /\ late' = late /\ quiet' = quiet /\ isFinalized' = isFinalized
  BY DEF TryTerminate, eventVars, finVars
<1>2. at[t] # None /\ t \in Others
  BY <1>1, SetFacts DEF CreateWaitInv, ThreadOK
<1>3. /\ TypeOK /\ ThreadOK(t) /\ Using(t) /\ at[t] \in Locations
      /\ stack[at[t]] <= nest[t] + OwnRegion(t)
      /\ phase = "within" => record[at[t]] = "open" /\ stack[at[t]] = nest[t] + OwnRegion(t)
  BY <1>1, <1>2, UserFacts
<1>4. CASE proc' = "aborted" /\ data' = data /\ held' = held /\ pc' = pc
  <2>1. TypeOK'
    BY <1>1, <1>3, <1>4 DEF TypeOK
  <2>2. QED
    BY <1>1, <1>4, <2>1, Unchanged
<1>5. ASSUME proc' = proc, data' = [data EXCEPT ![at[t]] = FALSE],
             held' = [held EXCEPT ![t] = data[at[t]]],
             pc' = [pc EXCEPT ![t] = IF data[at[t]] THEN "exitregions" ELSE "recycle"]
      PROVE  CreateWaitInv'
  <2>1. /\ data[at[t]] \in BOOLEAN /\ held'[t] = data[at[t]] /\ OwnRegion(t)' = OwnRegion(t)
        /\ pc'[t] = IF data[at[t]] THEN "exitregions" ELSE "recycle"
        /\ \A u \in Threads \ {t} : /\ pc'[u] = pc[u] /\ held'[u] = held[u]
                                    /\ Using(u)' <=> Using(u)
        /\ \A l \in Locations : data'[l] = IF l = at[t] THEN FALSE ELSE data[l]
    BY <1>1, <1>2, <1>3, <1>5 DEF TypeOK, OwnRegion, Using
  <2>2. LocationsAnnounced /\ LocationsOwned
    BY DEF CreateWaitInv
  <2>3. phase = "within" => data[at[t]]
    BY <1>1, <1>2, <1>3, <2>2 DEF LocationsAnnounced, Open
  <2>4. OwnStep(t)
    BY <1>1, <1>3, <2>1 DEF OwnStep
  <2>5. OwnOK(t)
    <3>1. ThreadOK(t)'
      BY <1>1, <1>2, <1>3, <2>1 DEF ThreadOK, Ending
    <3>2. QED
      BY <1>1, <1>3, <2>1, <2>3, <3>1 DEF OwnOK
  <2>6. LocationsAnnounced'
    <3>1. (late => ~data[cursor])'
      <4>1. late => ~data[cursor]
        BY <2>2 DEF LocationsAnnounced
      <4>2. QED
        BY <1>1, <1>3, <1>5, <4>1 DEF TypeOK
    <3>2. \A l \in Locations : Announced(l)' => Announced(l)
      BY <1>1, <2>1 DEF Announced
    <3>3. data[at[t]] => ~Announced(at[t])'
      <4>1. data[at[t]] => ~(late /\ cursor = at[t])
        BY <2>2 DEF LocationsAnnounced
      <4>2. ~data'[at[t]]
        BY <1>3, <2>1
      <4>3. QED
        BY <1>1, <4>1, <4>2 DEF Announced
    <3>4. ASSUME NEW l \in Locations, Announced(l)'
          PROVE  /\ l \in 2..nLocations' /\ ~InPool(l)'
                 /\ \A u \in Threads : Using(u)' /\ at'[u] = l => pc'[u] \in Open
      <4>1. l \in 2..nLocations /\ ~InPool(l)
            /\ \A u \in Threads : Using(u) /\ at[u] = l => pc[u] \in Open
        BY <2>2, <3>2, <3>4 DEF LocationsAnnounced
      <4>2. ASSUME NEW u \in Threads, Using(u)', at'[u] = l
            PROVE  pc'[u] \in Open
        <5>1. CASE u = t
          <6>1. data[at[t]] /\ l = at[t]
            BY <1>1, <2>1, <4>2, <5>1 DEF Using
          <6>2. QED
            BY <1>1, <3>3, <3>4, <6>1 DEF Announced
        <5>2. CASE u # t
          BY <1>1, <2>1, <4>1, <4>2, <5>2
        <5>3. QED
          BY <5>1, <5>2
      <4>3. ~InPool(l)'
        BY <1>1, <4>1 DEF InPool
      <4>4. QED
        BY <1>1, <4>1, <4>2, <4>3
    <3>5. ASSUME phase' = "within", NEW u \in Others, Using(u)', pc'[u] \in Open
          PROVE  data'[at'[u]]
      <4>1. u # t /\ u \in Threads
        BY <2>1, <3>5, SetFacts DEF Open
      <4>2. Using(u) /\ pc[u] \in Open /\ at[u] \in Locations
        BY <1>3, <2>1, <3>5, <4>1 DEF Using, TypeOK
      <4>3. data[at[u]] /\ at[u] # at[t]
        BY <1>1, <1>3, <2>2, <3>5, <4>1, <4>2 DEF LocationsAnnounced, LocationsOwned
      <4>4. QED
        BY <1>1, <2>1, <4>2, <4>3
    <3>6. QED
      BY <3>1, <3>4, <3>5 DEF LocationsAnnounced
  <2>7. ActiveCounted'
    <3>1. Begun' = Begun /\ late' = late /\ activeLocations' = activeLocations
      BY <1>1, <2>1, SetFacts DEF Begun
    <3>2. CASE data[at[t]]
      <4>1. Moving' = Moving \cup {t} /\ t \notin Moving
        BY <1>1, <2>1, <3>2 DEF Moving, Counted, Ending
      <4>2. Data' = Data \ {at[t]} /\ at[t] \in Data
        BY <1>3, <2>1, <3>2 DEF Data
      <4>3. Cardinality(Moving') = Cardinality(Moving) + 1 /\ Cardinality(Data') = Cardinality(Data) - 1
        BY <4>1, <4>2, CountedFinite, CountDown, CountUp
      <4>4. ActiveCounted
        BY DEF CreateWaitInv
      <4>5. /\ activeLocations' = Cardinality(Moving') + Cardinality(Data') + (IF late' THEN 1 ELSE 0)
            /\ activeLocations' <= Cardinality(Begun')
        BY <3>1, <4>3, <4>4, CountedFinite, ActiveCountedDef
      <4>6. QED
        BY <4>5, ActiveCountedNext
    <3>3. CASE ~data[at[t]]
      <4>1. Moving' = Moving
        BY <1>1, <2>1, <3>3 DEF Moving, Counted, Ending
      <4>2. Data' = Data
        BY <1>3, <2>1, <3>3 DEF Data
      <4>3. QED
        BY <3>1, <4>1, <4>2, ActiveKept DEF CreateWaitInv
    <3>4. QED
      BY <3>2, <3>3
  <2>8. TypeOK'
    BY <1>1, <1>3, <1>5, <2>1 DEF TypeOK, Pcs
  <2>9. QED
    BY <2>4, <2>5, <2>6, <2>7, <2>8, OwnStepKeeps DEF CreateWaitInv
<1>6. QED
  BY <1>4, <1>5 DEF TryTerminate, Abort, Take, Goto

-----------------------------------------------------------------------------
(* A thread gives its location to the pool *)

LEMMA PushFacts ==
    ASSUME CreateWaitInv, NEW k \in ReuseKeys, NEW l \in Locations, ~InPool(l),
           pool' = [pool EXCEPT ![k] = <<l>> \o @]
    PROVE  /\ pool' \in [ReuseKeys -> Seq(Locations)] /\ PoolsDistinct'
           /\ \A m \in Locations : InPool(m)' => InPool(m) \/ m = l
<1>1. pool \in [ReuseKeys -> Seq(Locations)] /\ PoolsDistinct
  BY DEF CreateWaitInv, TypeOK, LocationsOwned, PoolsDistinct
<1>2. PICK s \in Seq(Locations) : s = pool[k]
  BY <1>1
<1>3. /\ <<l>> \o s \in Seq(Locations) /\ Len(s) \in Nat /\ Len(<<l>> \o s) = Len(s) + 1
      /\ \A i \in 1..Len(s) + 1 : (<<l>> \o s)[i] = IF i = 1 THEN l ELSE s[i - 1]
  BY <1>2
<1>4. /\ pool'[k] = <<l>> \o s /\ \A m \in ReuseKeys \ {k} : pool'[m] = pool[m]
      /\ pool' \in [ReuseKeys -> Seq(Locations)]
  BY <1>1, <1>2, <1>3
<1>5. ASSUME NEW m \in ReuseKeys, NEW i \in 1..Len(pool'[m])
      PROVE  \/ m = k /\ i = 1 /\ pool'[m][i] = l
             \/ \E p \in 1..Len(pool[m]) :
                  pool'[m][i] = pool[m][p] /\ p = IF m = k THEN i - 1 ELSE i
  <2>1. CASE m = k /\ i = 1
    BY <1>3, <1>4, <2>1
  <2>2. CASE m = k /\ i # 1
    <3>1. i \in 1..Len(s) + 1 /\ i - 1 \in 1..Len(pool[m]) /\ pool[m] = s
      BY <1>2, <1>3, <1>4, <2>2
    <3>2. pool'[m][i] = pool[m][i - 1]
      BY <1>3, <1>4, <2>2, <3>1
    <3>3. QED
      BY <2>2, <3>1, <3>2
  <2>3. CASE m # k
    BY <1>4, <2>3
  <2>4. QED
    BY <2>1, <2>2, <2>3
<1>6. \A m \in Locations : InPool(m)' => InPool(m) \/ m = l
  BY <1>5 DEF InPool
<1>7. PoolsDistinct'
  <2>1. ASSUME NEW m \in ReuseKeys, NEW n \in ReuseKeys, NEW i \in 1..Len(pool'[m]),
               NEW j \in 1..Len(pool'[n]), pool'[m][i] = pool'[n][j]
        PROVE  m = n /\ i = j
    <3>1. CASE pool'[m][i] = l
      <4>1. m = k /\ i = 1
        BY <1>5, <3>1 DEF InPool
      <4>2. n = k /\ j = 1
        BY <1>5, <2>1, <3>1 DEF InPool
      <4>3. QED
        BY <4>1, <4>2
    <3>2. CASE pool'[m][i] # l
      <4>1. PICK p \in 1..Len(pool[m]) :
              pool'[m][i] = pool[m][p] /\ p = IF m = k THEN i - 1 ELSE i
        BY <1>5, <3>2
      <4>2. PICK q \in 1..Len(pool[n]) :
              pool'[n][j] = pool[n][q] /\ q = IF n = k THEN j - 1 ELSE j
        BY <1>5, <2>1, <3>2
      <4>3. pool[m][p] = pool[n][q] /\ PoolsDistinct
        BY <1>1, <2>1, <4>1, <4>2
      <4>4. m = n /\ p = q
        BY <4>3 DEF PoolsDistinct
      <4>5. i \in Int /\ j \in Int
        OBVIOUS
      <4>6. QED
        BY <4>1, <4>2, <4>4, <4>5
    <3>3. QED
      BY <3>1, <3>2
  <2>2. QED
    BY <2>1 DEF PoolsDistinct
<1>8. QED
  BY <1>4, <1>6, <1>7

LEMMA PushStep ==
    ASSUME CreateWaitInv, NEW t \in Threads, Push(t)
    PROVE  CreateWaitInv'
<1>1. /\ pc[t] = "push" /\ pc' = [pc EXCEPT ![t] = "terminate"]
      /\ activeLocations' = activeLocations /\ nLocations' = nLocations /\ at' = at
      /\ data' = data /\ wrapped' = wrapped /\ stack' = stack /\ record' = record
      /\ nest' = nest /\ held' = held /\ how' = how /\ proc' = proc
      /\ phase' = phase /\ fin' = fin /\ finalizer' = finalizer /\ cursor' = cursor
      /\ late' = late /\ quiet' = quiet /\ isFinalized' = isFinalized
  BY DEF Push, Goto, eventVars, finVars
<1>2. at[t] # None /\ t \in Others
  BY <1>1, SetFacts DEF CreateWaitInv, ThreadOK
<1>3. /\ TypeOK /\ ThreadOK(t) /\ Using(t) /\ at[t] \in Locations
      /\ stack[at[t]] \in Nat /\ stack[at[t]] <= 0
      /\ phase = "within" => record[at[t]] = "closed"
  BY <1>1, <1>2, UserFacts
<1>4. LocationsOwned /\ LocationsAnnounced /\ StacksBounded /\ WithinInv
  BY DEF CreateWaitInv
<1>5. PICK l \in Locations :
        /\ l = at[t] /\ ~InPool(l) /\ ~Announced(l) /\ l \in 2..nLocations /\ stack[l] = 0
        /\ phase = "within" => record[l] = "closed"
        /\ phase = "post" => l \notin quiet
  <2>1. ~InPool(at[t]) /\ at[t] <= nLocations /\ at[t] # MainLocation
    BY <1>2, <1>3, <1>4, SetFacts DEF LocationsOwned
  <2>2. at[t] \in 2..nLocations
    <3>1. at[t] \in Nat /\ at[t] >= 1 /\ nLocations \in Nat /\ MainLocation = 1
      BY <1>3, SetFacts DEF TypeOK
    <3>2. QED
      BY <2>1, <3>1
  <2>3. ~Announced(at[t])
    BY <1>1, <1>3, <1>4 DEF LocationsAnnounced, Open
  <2>4. phase = "post" => at[t] \notin quiet
    BY <1>1, <1>3 DEF CreateWaitInv, QuietInv
  <2>5. stack[at[t]] = 0
    BY <1>3
  <2>6. QED
    BY <1>3, <2>1, <2>2, <2>3, <2>4, <2>5
<1>6. /\ pool' \in [ReuseKeys -> Seq(Locations)] /\ PoolsDistinct'
      /\ \A m \in Locations : InPool(m)' => InPool(m) \/ m = l
  <2>1. CASE pool' = pool
    BY <1>3, <1>4, <2>1 DEF TypeOK, LocationsOwned, PoolsDistinct, InPool
  <2>2. CASE pool' = [pool EXCEPT ![ReuseKey[t]] = <<at[t]>> \o @]
    <3>1. ReuseKey[t] \in ReuseKeys
      BY <1>2 DEF ReuseKeys
    <3>2. QED
      BY <1>5, <2>2, <3>1, PushFacts
  <2>3. QED
    BY <2>1, <2>2 DEF Push
<1>7. /\ pc'[t] = "terminate" /\ ~Using(t)'
      /\ \A u \in Threads \ {t} : pc'[u] = pc[u] /\ OwnRegion(u)' = OwnRegion(u)
  BY <1>1, <1>3 DEF TypeOK, Using, OwnRegion
<1>8. ASSUME NEW u \in Threads, Using(u)'
      PROVE  /\ Using(u) /\ u # t /\ at[u] \in Locations /\ at[u] # l
             /\ pc'[u] = pc[u] /\ OwnRegion(u)' = OwnRegion(u)
  <2>1. u # t /\ Using(u) /\ at[u] \in Locations
    BY <1>1, <1>3, <1>7, <1>8 DEF Using, TypeOK
  <2>2. at[u] # l
    BY <1>3, <1>4, <1>5, <2>1 DEF LocationsOwned
  <2>3. QED
    BY <1>7, <2>1, <2>2
<1>9. TypeOK'
  BY <1>1, <1>3, <1>6 DEF TypeOK, Pcs
<1>10. \A u \in Threads : ThreadOK(u)'
  <2>1. ThreadOK(t)'
    BY <1>1, <1>2, <1>3, <1>7 DEF ThreadOK, Ending
  <2>2. ASSUME NEW u \in Threads \ {t} PROVE ThreadOK(u)'
    BY <1>1, <1>7 DEF CreateWaitInv, ThreadOK
  <2>3. QED
    BY <2>1, <2>2
<1>11. FinalizerOK'
  BY <1>1, <1>7 DEF CreateWaitInv, FinalizerOK
<1>12. LocationsOwned'
  <2>1. \A u \in Threads : at'[u] # None => /\ at'[u] <= nLocations'
                                            /\ at'[u] = MainLocation => u = Main
    BY <1>1, <1>4 DEF LocationsOwned
  <2>2. \A u, v \in Threads : Using(u)' /\ Using(v)' /\ at'[u] = at'[v] => u = v
    BY <1>1, <1>4, <1>8 DEF LocationsOwned
  <2>3. ASSUME NEW u \in Threads, Using(u)'
        PROVE  ~InPool(at[u])'
    <3>1. \A m \in Locations : m # l /\ ~InPool(m) => ~InPool(m)'
      BY <1>6
    <3>2. ~(\E k \in ReuseKeys : \E i \in 1..Len(pool'[k]) : pool'[k][i] = at[u])
      <4>1. ~InPool(at[u])
        BY <1>4, <1>8, <2>3 DEF LocationsOwned
      <4>2. \A m \in Locations : m # l /\ ~InPool(m) =>
              ~(\E k \in ReuseKeys : \E i \in 1..Len(pool'[k]) : pool'[k][i] = m)
        BY <3>1 DEF InPool
      <4>3. QED
        BY <1>8, <2>3, <4>1, <4>2
    <3>3. QED
      BY <1>1, <3>2 DEF InPool
  <2>4. \A m \in Locations : InPool(m)' => m \in 2..nLocations'
    BY <1>1, <1>4, <1>5, <1>6 DEF LocationsOwned
  <2>5. nLocations' <= 1 + Cardinality({u \in Others : at'[u] # None})
    BY <1>1, <1>4 DEF LocationsOwned
  <2>6. QED
    BY <1>6, <2>1, <2>2, <2>3, <2>4, <2>5 DEF LocationsOwned, PoolsDistinct
<1>13. LocationsAnnounced'
  <2>1. \A m \in Locations : Announced(m)' <=> Announced(m)
    BY <1>1 DEF Announced
  <2>2. ASSUME NEW m \in Locations, Announced(m)'
        PROVE  /\ m \in 2..nLocations' /\ ~InPool(m)'
               /\ \A u \in Threads : Using(u)' /\ at'[u] = m => pc'[u] \in Open
    <3>1. m \in 2..nLocations /\ ~InPool(m) /\ m # l
          /\ \A u \in Threads : Using(u) /\ at[u] = m => pc[u] \in Open
      BY <1>4, <1>5, <2>1, <2>2 DEF LocationsAnnounced
    <3>2. ~InPool(m)'
      BY <1>6, <3>1
    <3>3. QED
      BY <1>1, <1>8, <3>1, <3>2
  <2>3. \A u \in Others : u \in Threads
    BY SetFacts
  <2>4. phase' = "within" => \A u \in Others : Using(u)' /\ pc'[u] \in Open => data'[at'[u]]
    BY <1>1, <1>4, <1>8, <2>3 DEF LocationsAnnounced
  <2>5. (late => ~data[cursor])'
    BY <1>1, <1>4 DEF LocationsAnnounced
  <2>6. QED
    BY <2>2, <2>4, <2>5 DEF LocationsAnnounced
<1>14. StacksBounded' /\ WithinInv'
  <2>1. ASSUME NEW m \in Locations, m > nLocations' \/ InPool(m)'
        PROVE  m > nLocations \/ InPool(m) \/ m = l
    BY <1>1, <1>6, <2>1
  <2>2. StacksBounded'
    BY <1>1, <1>4, <1>5, <1>8, <2>1 DEF StacksBounded
  <2>3. WithinInv'
    BY <1>1, <1>4, <1>5, <1>8, <2>1 DEF WithinInv
  <2>4. QED
    BY <2>2, <2>3
<1>15. QuietInv'
  <2> SUFFICES ASSUME phase' = "post", NEW m \in quiet'
               PROVE  /\ m <= nLocations' /\ ~InPool(m)'
                      /\ \A u \in Threads : Using(u)' /\ at'[u] = m =>
                           pc'[u] \in {"run", "cleanup", "finalizing"}
                      /\ IF Ended(m)' THEN record'[m] = "closed"
                         ELSE /\ record'[m] = "open" /\ (m # MainLocation => Announced(m)')
                              /\ fin' = "lateend" /\ m = cursor' => stack'[m] = 0
    BY DEF QuietInv
  <2>1. phase = "post" /\ m \in quiet /\ m # l /\ m \in Locations
    BY <1>1, <1>3, <1>5 DEF TypeOK
  <2>2. (Ended(m)' <=> Ended(m)) /\ (Announced(m)' <=> Announced(m))
    BY <1>1 DEF Ended, Announced
  <2>3. /\ m <= nLocations /\ ~InPool(m)
        /\ \A u \in Threads : Using(u) /\ at[u] = m => pc[u] \in {"run", "cleanup", "finalizing"}
        /\ IF Ended(m) THEN record[m] = "closed"
           ELSE /\ record[m] = "open" /\ (m # MainLocation => Announced(m))
                /\ fin = "lateend" /\ m = cursor => stack[m] = 0
    BY <2>1 DEF CreateWaitInv, QuietInv
  <2>4. ~InPool(m)'
    BY <1>6, <2>1, <2>3
  <2>5. QED
    BY <1>1, <1>8, <2>2, <2>3, <2>4
<1>16. ActiveCounted'
  <2>1. Moving' = Moving
    BY <1>1, <1>7 DEF Moving, Counted, Ending
  <2>2. Begun \subseteq Begun' /\ Data' = Data
    BY <1>1, <1>7, SetFacts DEF Begun, Data
  <2>3. QED
    BY <1>1, <2>1, <2>2, ActiveKept DEF CreateWaitInv
<1>17. QED
  BY <1>1, <1>9, <1>10, <1>11, <1>12, <1>13, <1>14, <1>15, <1>16 DEF CreateWaitInv

(* A thread calls exit(). *)
LEMMA FinalizeStep ==
    ASSUME CreateWaitInv, NEW t \in Threads, Finalize(t)
    PROVE  CreateWaitInv'
<1>1. /\ fin = "none" /\ pc[t] = "run" /\ at[t] # None
      /\ finalizer' = t /\ fin' = "barrier" /\ pc' = [pc EXCEPT ![t] = "finalizing"]
      /\ activeLocations' = activeLocations /\ nLocations' = nLocations /\ at' = at
      /\ data' = data /\ wrapped' = wrapped /\ stack' = stack /\ record' = record
      /\ pool' = pool /\ nest' = nest /\ held' = held /\ how' = how /\ proc' = proc
      /\ phase' = phase /\ cursor' = cursor
      /\ late' = late /\ quiet' = quiet /\ isFinalized' = isFinalized
  BY DEF Finalize, Goto, listVars, eventVars
<1>2. TypeOK /\ ThreadOK(t) /\ FinalizerOK /\ phase = "within" /\ ~late
  BY <1>1 DEF CreateWaitInv, FinalizerOK, LateSteps
<1>3. TypeOK'
  BY <1>1, <1>2 DEF TypeOK, Pcs, Fins
<1>4. /\ pc'[t] = "finalizing" /\ \A u \in Threads \ {t} : pc'[u] = pc[u]
      /\ \A u \in Threads : /\ Using(u)' <=> Using(u)
                            /\ OwnRegion(u)' = OwnRegion(u)
                            /\ pc'[u] \in Open <=> pc[u] \in Open
                            /\ pc'[u] \in Counted <=> pc[u] \in Counted
  BY <1>1, <1>2 DEF TypeOK, Using, OwnRegion, Open, Counted, Ending
<1>5. \A m : (InPool(m)' <=> InPool(m)) /\ (Announced(m)' <=> Announced(m))
  BY <1>1 DEF InPool, Announced
<1>6. \A u \in Threads : ThreadOK(u)'
  BY <1>1, <1>2, <1>4 DEF CreateWaitInv, ThreadOK, Ending
<1>7. FinalizerOK'
  BY <1>1, <1>2, <1>4 DEF FinalizerOK, LateSteps
<1>8. LocationsOwned'
  BY <1>1, <1>4, PlacesKept DEF CreateWaitInv, Places
<1>9. LocationsAnnounced'
  <2>1. \A u \in Others : u \in Threads
    BY SetFacts
  <2>2. LocationsAnnounced
    BY DEF CreateWaitInv
  <2>3. QED
    BY <1>1, <1>2, <1>4, <1>5, <2>1, <2>2 DEF LocationsAnnounced
<1>10. StacksBounded' /\ WithinInv'
  <2>1. StacksBounded /\ WithinInv
    BY DEF CreateWaitInv
  <2>2. \A u \in Threads : pc'[u] = pc[u] \/ (pc[u] = "run" /\ pc'[u] = "finalizing")
    BY <1>1, <1>4
  <2>3. StacksBounded'
    BY <1>1, <1>4, <1>5, <2>1, <2>2 DEF StacksBounded
  <2>4. WithinInv'
    BY <1>1, <1>4, <1>5, <2>1, <2>2 DEF WithinInv
  <2>5. QED
    BY <2>3, <2>4
<1>11. QuietInv'
  BY <1>1, <1>2 DEF QuietInv
<1>12. ActiveCounted'
  <2>1. Moving' = Moving /\ Data' = Data
    BY <1>1, <1>4 DEF Moving, Data
  <2>2. Begun \subseteq Begun'
    BY <1>1, <1>4, SetFacts DEF Begun
  <2>3. QED
    BY <1>1, <2>1, <2>2, ActiveKept DEF CreateWaitInv
<1>13. QED
  BY <1>1, <1>3, <1>6, <1>7, <1>8, <1>9, <1>10, <1>11, <1>12 DEF CreateWaitInv

-----------------------------------------------------------------------------
(* Steps of scorep_finalize *)

(* The threads and their locations rest. *)
ThreadsRest ==
    /\ pc' = pc /\ at' = at /\ nest' = nest /\ how' = how /\ held' = held
    /\ pool' = pool /\ nLocations' = nLocations /\ wrapped' = wrapped

(* A location of quiet is complete or goes on to be. *)
QuietOK(l) ==
    IF Ended(l) THEN record[l] = "closed"
    ELSE /\ record[l] = "open" /\ (l # MainLocation => Announced(l))
         /\ fin = "lateend" /\ l = cursor => stack[l] = 0

LEMMA QuietKept ==
    ASSUME CreateWaitInv, ThreadsRest, phase = "post", quiet' = quiet,
           \A l \in quiet : QuietOK(l) => QuietOK(l)'
    PROVE  QuietInv'
<1>1. \A l \in quiet : /\ l <= nLocations /\ ~InPool(l) /\ QuietOK(l)
                       /\ \A t \in Threads : Using(t) /\ at[t] = l =>
                            pc[t] \in {"run", "cleanup", "finalizing"}
  BY DEF CreateWaitInv, QuietInv, QuietOK
<1>2. \A l \in quiet : /\ (l <= nLocations)' /\ ~InPool(l)' /\ QuietOK(l)'
                       /\ \A t \in Threads : Using(t)' /\ at'[t] = l =>
                            pc'[t] \in {"run", "cleanup", "finalizing"}
  BY <1>1 DEF ThreadsRest, InPool, Using
<1>3. QED
  BY <1>2 DEF QuietInv, QuietOK

LEMMA FinalizerStep ==
    ASSUME CreateWaitInv, ThreadsRest, TypeOK', phase' = "post", FinalizerOK',
           \A l \in Locations : stack'[l] \in {stack[l], 0},
           (late => ~data[cursor])', \A l \in Locations : Announced(l)' => Announced(l),
           QuietInv', ActiveCounted'
    PROVE  CreateWaitInv'
<1>1. /\ \A t \in Threads : ThreadOK(t)'
      /\ \A t \in Threads : (Using(t)' <=> Using(t)) /\ OwnRegion(t)' = OwnRegion(t)
      /\ \A l : InPool(l)' <=> InPool(l)
      /\ LocationsOwned' /\ wrapped'[MainLocation] = None
  BY DEF CreateWaitInv, ThreadsRest, ThreadOK, Using, OwnRegion, InPool, LocationsOwned
<1>2. LocationsAnnounced'
  BY <1>1 DEF CreateWaitInv, LocationsAnnounced, ThreadsRest
<1>3. StacksBounded'
  <2>1. StacksBounded /\ TypeOK
    BY DEF CreateWaitInv
  <2>2. \A l \in Locations : stack[l] \in Nat /\ stack'[l] \in Nat /\ stack'[l] <= stack[l]
    <3>1. \A l \in Locations : stack[l] \in Nat
      BY <2>1, CreateWaitAssumption DEF TypeOK
    <3>2. QED
      BY <3>1
  <2>3. ASSUME NEW t \in Threads, Using(t)'
        PROVE  stack'[at'[t]] <= IF pc'[t] \in {"end", "push"} THEN 0
                                 ELSE nest'[t] + OwnRegion(t)'
    <3>1. at[t] \in Locations /\ nest[t] \in Nat /\ OwnRegion(t) \in {0, 1}
      BY <1>1, <2>1, <2>3, CreateWaitAssumption DEF TypeOK, Using, OwnRegion
    <3>2. stack[at[t]] <= IF pc[t] \in {"end", "push"} THEN 0 ELSE nest[t] + OwnRegion(t)
      BY <1>1, <2>1, <2>3 DEF StacksBounded
    <3>3. stack'[at[t]] <= IF pc[t] \in {"end", "push"} THEN 0 ELSE nest[t] + OwnRegion(t)
      BY <2>2, <3>1, <3>2
    <3>4. QED
      BY <1>1, <3>3 DEF ThreadsRest
  <2>4. \A l \in Locations : l > nLocations' \/ InPool(l)' => stack'[l] = 0
    BY <1>1, <2>1 DEF StacksBounded, ThreadsRest
  <2>5. QED
    BY <2>3, <2>4 DEF StacksBounded
<1>4. WithinInv'
  BY DEF WithinInv
<1>5. QED
  BY <1>1, <1>2, <1>3, <1>4 DEF CreateWaitInv

LEMMA BarrierStep ==
    ASSUME CreateWaitInv, Barrier
    PROVE  CreateWaitInv'
<1>1. /\ fin = "barrier" /\ phase' = "post" /\ fin' = "own"
      /\ quiet' = {at[t] : t \in {u \in Threads : pc[u] \in {"run", "finalizing"}}} \ {None}
      /\ activeLocations' = activeLocations /\ data' = data /\ stack' = stack
      /\ record' = record /\ isFinalized' = isFinalized /\ finalizer' = finalizer
      /\ cursor' = cursor /\ late' = late /\ proc' = proc /\ ThreadsRest
  BY DEF Barrier, listVars, eventVars, threadVars, ThreadsRest
<1>2. TypeOK /\ FinalizerOK /\ LocationsOwned /\ LocationsAnnounced /\ WithinInv /\ phase = "within"
  BY <1>1 DEF CreateWaitInv, FinalizerOK
<1>3. TypeOK'
  BY <1>1, <1>2 DEF TypeOK, Fins, ThreadsRest
<1>4. FinalizerOK'
  BY <1>1, <1>2 DEF FinalizerOK, ThreadsRest, LateSteps
<1>5. \A l : Announced(l)' <=> Announced(l)
  BY <1>1 DEF Announced
<1>6. QuietInv'
  <2>1. ASSUME NEW l \in quiet'
        PROVE  /\ l <= nLocations' /\ ~InPool(l)' /\ QuietOK(l)'
               /\ \A t \in Threads : Using(t)' /\ at'[t] = l =>
                    pc'[t] \in {"run", "cleanup", "finalizing"}
    <3>1. PICK t \in Threads : pc[t] \in {"run", "finalizing"} /\ at[t] = l /\ l # None
      BY <1>1
    <3>2. Using(t) /\ l \in Locations
      BY <1>2, <3>1 DEF Using, TypeOK
    <3>3. /\ l <= nLocations /\ ~InPool(l) /\ record[l] = "open"
          /\ \A u \in Threads : Using(u) /\ at[u] = l => u = t
      BY <1>2, <3>1, <3>2 DEF LocationsOwned, WithinInv
    <3>4. l # MainLocation => Announced(l)
      <4>1. l # MainLocation => t \in Others
        BY <3>1, SetFacts DEF CreateWaitInv, ThreadOK
      <4>2. QED
        BY <1>2, <3>1, <3>2, <4>1 DEF LocationsAnnounced, Announced, Open
    <3>5. QuietOK(l)'
      <4>1. ~Ended(l)'
        BY <1>1 DEF Ended, LateSteps
      <4>2. QED
        BY <1>1, <1>5, <3>3, <3>4, <4>1 DEF QuietOK
    <3>6. ~InPool(l)' /\ l <= nLocations'
      BY <1>1, <3>3 DEF InPool, ThreadsRest
    <3>7. \A u \in Threads : Using(u)' /\ at'[u] = l => pc'[u] \in {"run", "finalizing"}
      BY <1>1, <3>1, <3>3 DEF Using, ThreadsRest
    <3>8. QED
      BY <3>5, <3>6, <3>7
  <2>2. QED
    BY <2>1 DEF QuietInv, QuietOK
<1>7. ActiveCounted'
  <2>1. Moving' = Moving /\ Data' = Data /\ Begun' = Begun
    BY <1>1 DEF Moving, Data, Begun, ThreadsRest
  <2>2. QED
    BY <1>1, <2>1, ActiveKept DEF CreateWaitInv
<1>8. (late => ~data[cursor])'
  BY <1>1, <1>2 DEF LocationsAnnounced
<1>9. QED
  BY <1>1, <1>3, <1>4, <1>5, <1>6, <1>7, <1>8, FinalizerStep

(* What is not counted changes. *)
LEMMA CountRests ==
    ASSUME CreateWaitInv, ThreadsRest, activeLocations' = activeLocations, data' = data,
           late' = late
    PROVE  ActiveCounted'
<1>1. Moving' = Moving /\ Data' = Data /\ Begun' = Begun
  BY DEF Moving, Data, Begun, ThreadsRest
<1>2. QED
  BY <1>1, ActiveKept DEF CreateWaitInv

LEMMA ExitOwnRegionsStep ==
    ASSUME CreateWaitInv, ExitOwnRegions
    PROVE  CreateWaitInv'
<1>1. /\ fin = "own" /\ fin' = "visit" /\ cursor' = 1
      /\ stack' = [stack EXCEPT ![at[finalizer]] = 0]
      /\ \/ record' = record
         \/ record' = [record EXCEPT ![at[finalizer]] =
                         IF record[at[finalizer]] = "open" THEN "open" ELSE "broken"]
      /\ activeLocations' = activeLocations /\ data' = data
      /\ isFinalized' = isFinalized /\ finalizer' = finalizer /\ phase' = phase
      /\ quiet' = quiet /\ late' = late /\ proc' = proc /\ ThreadsRest
  BY DEF ExitOwnRegions, ExitAllRegions, Put, listVars, threadVars, ThreadsRest
<1>2. /\ TypeOK /\ FinalizerOK /\ LocationsAnnounced
      /\ phase = "post" /\ ~late /\ nLocations \in Nat /\ nLocations >= 1
  BY <1>1, SetFacts DEF CreateWaitInv, FinalizerOK, TypeOK, LateSteps
<1>3. TypeOK'
  <2>1. stack' \in [Locations -> 0..MaxNest + 1]
    <3>1. stack \in [Locations -> 0..MaxNest + 1] /\ 0 \in 0..MaxNest + 1
      BY <1>2, CreateWaitAssumption DEF TypeOK
    <3>2. QED
      BY <1>1, <3>1
  <2>2. record' \in [Locations -> {"closed", "open", "broken"}]
    BY <1>1, <1>2 DEF TypeOK
  <2>3. cursor' \in 0..Cardinality(Locations) + 1
    BY <1>1, SetFacts
  <2>4. QED
    BY <1>1, <1>2, <2>1, <2>2, <2>3 DEF TypeOK, Fins, ThreadsRest
<1>4. FinalizerOK'
  BY <1>1, <1>2 DEF FinalizerOK, ThreadsRest, LateSteps
<1>5. \A l : Announced(l)' <=> Announced(l)
  BY <1>1, <1>2 DEF Announced
<1>6. QuietInv'
  <2>1. ASSUME NEW l \in quiet, QuietOK(l)
        PROVE  QuietOK(l)'
    <3>1. l \in Locations /\ l \in Nat /\ l >= 1
      BY <1>2, SetFacts DEF TypeOK
    <3>2. ~Ended(l) /\ ~Ended(l)'
      BY <1>1, <3>1 DEF Ended, LateSteps
    <3>3. record[l] = "open" => record'[l] = "open"
      BY <1>1, <1>2, <3>1 DEF TypeOK
    <3>4. QED
      BY <1>1, <1>5, <2>1, <3>2, <3>3 DEF QuietOK
  <2>2. QED
    BY <1>1, <1>2, <2>1, QuietKept
<1>7. ActiveCounted' /\ (late => ~data[cursor])'
  BY <1>1, <1>2, CountRests
<1>8. \A l \in Locations : stack'[l] \in {stack[l], 0}
  BY <1>1, <1>2 DEF TypeOK
<1>9. QED
  BY <1>1, <1>2, <1>3, <1>4, <1>5, <1>6, <1>7, <1>8, FinalizerStep

LEMMA LateExitRegionsStep ==
    ASSUME CreateWaitInv, LateExitRegions
    PROVE  CreateWaitInv'
<1>1. /\ fin = "lateregions" /\ fin' = "lateend" /\ cursor' = cursor
      /\ stack' = [stack EXCEPT ![cursor] = 0]
      /\ \/ record' = record
         \/ record' = [record EXCEPT ![cursor] =
                         IF record[cursor] = "open" THEN "open" ELSE "broken"]
      /\ activeLocations' = activeLocations /\ data' = data
      /\ isFinalized' = isFinalized /\ finalizer' = finalizer /\ phase' = phase
      /\ quiet' = quiet /\ late' = late /\ proc' = proc /\ ThreadsRest
  BY DEF LateExitRegions, ExitAllRegions, Put, listVars, threadVars, ThreadsRest
<1>2. /\ TypeOK /\ FinalizerOK /\ LocationsAnnounced
      /\ phase = "post" /\ cursor \in 1..nLocations /\ cursor \in Locations
  <2>1. TypeOK /\ FinalizerOK /\ LocationsAnnounced /\ phase = "post" /\ cursor \in 1..nLocations
    BY <1>1 DEF CreateWaitInv, FinalizerOK, LateSteps, TypeOK
  <2>2. cursor \in Locations
    BY <2>1, SetFacts DEF TypeOK
  <2>3. QED
    BY <2>1, <2>2
<1>3. TypeOK'
  <2>1. stack' \in [Locations -> 0..MaxNest + 1]
    <3>1. stack \in [Locations -> 0..MaxNest + 1] /\ 0 \in 0..MaxNest + 1
      BY <1>2, CreateWaitAssumption DEF TypeOK
    <3>2. QED
      BY <1>1, <3>1
  <2>2. record' \in [Locations -> {"closed", "open", "broken"}]
    BY <1>1, <1>2 DEF TypeOK
  <2>3. QED
    BY <1>1, <1>2, <2>1, <2>2 DEF TypeOK, Fins, ThreadsRest
<1>4. FinalizerOK'
  BY <1>1, <1>2 DEF FinalizerOK, ThreadsRest, LateSteps
<1>5. \A l : Announced(l)' <=> Announced(l)
  BY <1>1 DEF Announced
<1>6. QuietInv'
  <2>1. ASSUME NEW l \in quiet, QuietOK(l)
        PROVE  QuietOK(l)'
    <3>1. l \in Locations /\ l \in Nat /\ cursor \in Nat
      BY <1>2, SetFacts DEF TypeOK
    <3>2. (Ended(l)' <=> Ended(l)) /\ (Ended(l) => l # cursor)
      BY <1>1, <3>1 DEF Ended, LateSteps
    <3>3. /\ l # cursor => record'[l] = record[l]
          /\ record[l] = "open" => record'[l] = "open"
          /\ l = cursor => stack'[l] = 0
      BY <1>1, <1>2, <3>1 DEF TypeOK
    <3>4. QED
      BY <1>1, <1>5, <2>1, <3>2, <3>3 DEF QuietOK
  <2>2. QED
    BY <1>1, <1>2, <2>1, QuietKept
<1>7. ActiveCounted' /\ (late => ~data[cursor])'
  BY <1>1, <1>2, CountRests DEF LocationsAnnounced
<1>8. \A l \in Locations : stack'[l] \in {stack[l], 0}
  BY <1>1, <1>2 DEF TypeOK
<1>9. QED
  BY <1>1, <1>2, <1>3, <1>4, <1>5, <1>6, <1>7, <1>8, FinalizerStep

LEMMA LateEndStep ==
    ASSUME CreateWaitInv, LateEnd
    PROVE  CreateWaitInv'
<1>1. /\ fin = "lateend" /\ fin' = "lateterminate" /\ cursor' = cursor
      /\ stack' = stack
      /\ record' = [record EXCEPT ![cursor] =
                      IF record[cursor] = "open" /\ stack[cursor] = 0 THEN "closed"
                      ELSE "broken"]
      /\ activeLocations' = activeLocations /\ data' = data
      /\ isFinalized' = isFinalized /\ finalizer' = finalizer /\ phase' = phase
      /\ quiet' = quiet /\ late' = late /\ proc' = proc /\ ThreadsRest
  BY DEF LateEnd, EndEvent, Put, listVars, threadVars, ThreadsRest
<1>2. /\ TypeOK /\ FinalizerOK /\ LocationsAnnounced
      /\ phase = "post" /\ cursor \in 1..nLocations /\ cursor \in Locations /\ late
  <2>1. /\ TypeOK /\ FinalizerOK /\ LocationsAnnounced /\ phase = "post"
        /\ cursor \in 1..nLocations /\ late
    BY <1>1 DEF CreateWaitInv, FinalizerOK, LateSteps, TypeOK
  <2>2. cursor \in Locations
    BY <2>1, SetFacts DEF TypeOK
  <2>3. QED
    BY <2>1, <2>2
<1>3. TypeOK'
  BY <1>1, <1>2 DEF TypeOK, Fins, ThreadsRest
<1>4. FinalizerOK'
  BY <1>1, <1>2 DEF FinalizerOK, ThreadsRest, LateSteps
<1>5. \A l : Announced(l)' <=> Announced(l)
  BY <1>1 DEF Announced
<1>6. QuietInv'
  <2>1. ASSUME NEW l \in quiet, QuietOK(l)
        PROVE  QuietOK(l)'
    <3>1. l \in Locations /\ l \in Nat /\ cursor \in Nat
      BY <1>2, SetFacts DEF TypeOK
    <3>2. CASE l = cursor
      <4>1. cursor # MainLocation
        BY <1>2, SetFacts DEF LocationsAnnounced, Announced
      <4>2. ~Ended(l) /\ Ended(l)'
        BY <1>1, <3>1, <3>2, <4>1 DEF Ended, LateSteps
      <4>3. record'[l] = "closed"
        BY <1>1, <1>2, <2>1, <3>2, <4>2 DEF QuietOK, TypeOK
      <4>4. QED
        BY <4>2, <4>3 DEF QuietOK
    <3>3. CASE l # cursor
      <4>1. Ended(l)' <=> Ended(l)
        BY <1>1, <3>3 DEF Ended, LateSteps
      <4>2. record'[l] = record[l]
        BY <1>1, <1>2, <3>1, <3>3 DEF TypeOK
      <4>3. QED
        BY <1>1, <1>5, <2>1, <4>1, <4>2 DEF QuietOK
    <3>4. QED
      BY <3>2, <3>3
  <2>2. QED
    BY <1>1, <1>2, <2>1, QuietKept
<1>7. ActiveCounted' /\ (late => ~data[cursor])'
  BY <1>1, <1>2, CountRests DEF LocationsAnnounced
<1>8. QED
  BY <1>1, <1>2, <1>3, <1>4, <1>5, <1>6, <1>7, FinalizerStep

(* The walk over the locations goes on, or ends. *)
LEMMA AdvanceFacts ==
    ASSUME TypeOK, ThreadsRest, cursor \in 1..nLocations, Advance
    PROVE  /\ cursor' = cursor + 1 /\ cursor' \in 0..Cardinality(Locations) + 1
           /\ cursor \in Locations
           /\ fin' \in {"visit", "epoch"} /\ (fin' = "visit" => cursor' \in 1..nLocations')
           /\ fin' = "epoch" => cursor = nLocations
<1>1. nLocations \in Nat /\ nLocations <= Cardinality(Locations) /\ Cardinality(Locations) \in Nat
  BY SetFacts DEF TypeOK
<1>2. cursor \in Locations
  BY <1>1, SetFacts
<1>3. QED
  BY <1>1, <1>2 DEF Advance, ThreadsRest

LEMMA VisitStep ==
    ASSUME CreateWaitInv, Visit
    PROVE  CreateWaitInv'
<1>1. /\ fin = "visit" /\ data' = [data EXCEPT ![cursor] = FALSE] /\ late' = data[cursor]
      /\ IF data[cursor] THEN fin' = "lateregions" /\ cursor' = cursor ELSE Advance
      /\ stack' = stack /\ record' = record
      /\ activeLocations' = activeLocations
      /\ isFinalized' = isFinalized /\ finalizer' = finalizer /\ phase' = phase
      /\ quiet' = quiet /\ proc' = proc /\ ThreadsRest
  BY DEF Visit, Take, eventVars, threadVars, ThreadsRest
<1>2. /\ TypeOK /\ FinalizerOK /\ LocationsAnnounced /\ ActiveCounted
      /\ phase = "post" /\ cursor \in 1..nLocations /\ cursor \in Locations /\ ~late
  <2>1. /\ TypeOK /\ FinalizerOK /\ LocationsAnnounced /\ phase = "post" /\ ActiveCounted
        /\ cursor \in 1..nLocations /\ ~late
    BY <1>1 DEF CreateWaitInv, FinalizerOK, LateSteps, TypeOK
  <2>2. cursor \in Locations
    BY <2>1, SetFacts DEF TypeOK
  <2>3. QED
    BY <2>1, <2>2
<1>3. \A l \in Locations : data'[l] = IF l = cursor THEN FALSE ELSE data[l]
  BY <1>1, <1>2 DEF TypeOK
<1>4. CASE data[cursor]
  <2>1. late' /\ fin' = "lateregions" /\ cursor' = cursor
    BY <1>1, <1>4
  <2>2. TypeOK'
    BY <1>1, <1>2, <2>1 DEF TypeOK, Fins, ThreadsRest
  <2>3. FinalizerOK'
    BY <1>1, <1>2, <2>1 DEF FinalizerOK, ThreadsRest, LateSteps
  <2>4. \A l \in Locations : Announced(l)' <=> Announced(l)
    BY <1>2, <1>3, <1>4, <2>1 DEF Announced
  <2>5. QuietInv'
    <3>1. ASSUME NEW l \in quiet, QuietOK(l)
          PROVE  QuietOK(l)'
      <4>1. l \in Locations /\ (Ended(l)' <=> Ended(l))
        BY <1>1, <1>2, <2>1 DEF Ended, LateSteps, TypeOK
      <4>2. QED
        BY <1>1, <2>1, <2>4, <3>1, <4>1 DEF QuietOK
    <3>2. QED
      BY <1>1, <1>2, <3>1, QuietKept
  <2>6. ActiveCounted'
    <3>1. Moving' = Moving /\ Begun' = Begun
      BY <1>1 DEF Moving, Begun, ThreadsRest
    <3>2. Data' = Data \ {cursor} /\ cursor \in Data
      BY <1>2, <1>3, <1>4 DEF Data
    <3>3. Cardinality(Data') = Cardinality(Data) - 1
      BY <3>2, CountedFinite, CountDown
    <3>4. /\ activeLocations' = Cardinality(Moving') + Cardinality(Data') + (IF late' THEN 1 ELSE 0)
          /\ activeLocations' <= Cardinality(Begun')
      BY <1>1, <1>2, <2>1, <3>1, <3>3, CountedFinite, ActiveCountedDef
    <3>5. QED
      BY <3>4, ActiveCountedNext
  <2>7. (late => ~data[cursor])'
    BY <1>2, <1>3, <2>1
  <2>8. QED
    BY <1>1, <1>2, <2>2, <2>3, <2>4, <2>5, <2>6, <2>7, FinalizerStep
<1>5. CASE ~data[cursor]
  <2>1. ~late' /\ Advance /\ data' = data
    <3>1. ~late' /\ Advance
      BY <1>1, <1>2, <1>5 DEF TypeOK
    <3>2. data' = data
      BY <1>1, <1>2, <1>5 DEF TypeOK
    <3>3. QED
      BY <3>1, <3>2
  <2>2. /\ cursor' = cursor + 1 /\ cursor' \in 0..Cardinality(Locations) + 1
        /\ fin' \in {"visit", "epoch"} /\ (fin' = "visit" => cursor' \in 1..nLocations')
        /\ fin' = "epoch" => cursor = nLocations
    BY <1>1, <1>2, <2>1, AdvanceFacts
  <2>3. TypeOK'
    <3>1. late' \in BOOLEAN /\ fin' \in Fins
      BY <1>1, <1>2, <2>2 DEF TypeOK, Fins
    <3>2. QED
      BY <1>1, <1>2, <2>1, <2>2, <3>1 DEF TypeOK, ThreadsRest
  <2>4. FinalizerOK'
    BY <1>1, <1>2, <2>1, <2>2 DEF FinalizerOK, ThreadsRest, LateSteps
  <2>5. \A l \in Locations : Announced(l)' <=> Announced(l)
    BY <1>2, <2>1 DEF Announced
  <2>6. QuietInv'
    <3>1. ASSUME NEW l \in quiet, QuietOK(l)
          PROVE  QuietOK(l)'
      <4>1. l \in Locations /\ l \in Nat /\ cursor \in Nat /\ l <= nLocations
        BY <1>2, SetFacts DEF TypeOK, CreateWaitInv, QuietInv
      <4>2. Ended(l) => l # cursor
        BY <1>1, <4>1 DEF Ended, LateSteps
      <4>3. l = cursor => l = MainLocation
        <5>1. l = cursor => ~Announced(l)
          BY <1>2, <1>5 DEF Announced
        <5>2. QED
          BY <3>1, <4>2, <5>1 DEF QuietOK
      <4>4. Ended(l)' <=> Ended(l)
        <5>1. CASE fin' = "visit"
          <6>1. Ended(l) <=> l # MainLocation /\ l < cursor
            BY <1>1 DEF Ended, LateSteps
          <6>2. Ended(l)' <=> l # MainLocation /\ l < cursor + 1
            BY <2>2, <5>1 DEF Ended, LateSteps
          <6>3. QED
            BY <4>1, <4>3, <6>1, <6>2
        <5>2. CASE fin' = "epoch"
          <6>1. Ended(l) <=> l # MainLocation /\ l < cursor
            BY <1>1 DEF Ended, LateSteps
          <6>2. Ended(l)' <=> l # MainLocation
            BY <5>2 DEF Ended, LateSteps
          <6>3. QED
            BY <2>2, <4>1, <4>3, <5>2, <6>1, <6>2
        <5>3. QED
          BY <2>2, <5>1, <5>2
      <4>5. QED
        BY <1>1, <2>2, <2>5, <3>1, <4>1, <4>4 DEF QuietOK
    <3>2. QED
      BY <1>1, <1>2, <3>1, QuietKept
  <2>7. ActiveCounted'
    <3>1. Moving' = Moving /\ Begun' = Begun /\ Data' = Data
      BY <1>1, <2>1 DEF Moving, Begun, Data, ThreadsRest
    <3>2. /\ activeLocations' = Cardinality(Moving') + Cardinality(Data') + (IF late' THEN 1 ELSE 0)
          /\ activeLocations' <= Cardinality(Begun')
      BY <1>1, <1>2, <2>1, <3>1, ActiveCountedDef
    <3>3. QED
      BY <3>2, ActiveCountedNext
  <2>8. (late => ~data[cursor])'
    BY <2>1
  <2>9. QED
    BY <1>1, <1>2, <2>3, <2>4, <2>5, <2>6, <2>7, <2>8, FinalizerStep
<1>6. QED
  BY <1>4, <1>5

LEMMA LateTerminateStep ==
    ASSUME CreateWaitInv, LateTerminate
    PROVE  CreateWaitInv'
<1>1. /\ fin = "lateterminate" /\ ~late' /\ late' = FALSE /\ Advance
      /\ activeLocations' = activeLocations - 1
      /\ data' = data /\ stack' = stack /\ record' = record
      /\ isFinalized' = isFinalized /\ finalizer' = finalizer /\ phase' = phase
      /\ quiet' = quiet /\ proc' = proc /\ ThreadsRest
  BY DEF LateTerminate, TerminateThread, listVars, eventVars, threadVars, ThreadsRest
<1>2. /\ TypeOK /\ FinalizerOK /\ LocationsAnnounced /\ ActiveCounted /\ phase = "post"
      /\ cursor \in 1..nLocations /\ late
  BY <1>1 DEF CreateWaitInv, FinalizerOK, LateSteps, TypeOK
<1>3. /\ cursor' = cursor + 1 /\ cursor' \in 0..Cardinality(Locations) + 1
      /\ fin' \in {"visit", "epoch"} /\ (fin' = "visit" => cursor' \in 1..nLocations')
      /\ fin' = "epoch" => cursor = nLocations
  BY <1>1, <1>2, AdvanceFacts
<1>4. ActiveCounted' /\ activeLocations' \in 0..Cardinality(Others)
  <2>1. Moving' = Moving /\ Begun' = Begun /\ Data' = Data
    BY <1>1 DEF Moving, Begun, Data, ThreadsRest
  <2>2. /\ activeLocations' = Cardinality(Moving') + Cardinality(Data') + (IF late' THEN 1 ELSE 0)
        /\ activeLocations' <= Cardinality(Begun')
    BY <1>1, <1>2, <2>1, CountedFinite, ActiveCountedDef
  <2>3. QED
    BY <2>2, ActiveCountedNext
<1>5. TypeOK'
  <2>1. fin' \in Fins
    BY <1>3 DEF Fins
  <2>2. QED
    BY <1>1, <1>2, <1>3, <1>4, <2>1 DEF TypeOK, ThreadsRest
<1>6. FinalizerOK'
  BY <1>1, <1>2, <1>3 DEF FinalizerOK, ThreadsRest, LateSteps
<1>7. \A l \in Locations : (Announced(l)' => Announced(l)) /\ (Announced(l) => Announced(l)' \/ l = cursor)
  BY <1>1 DEF Announced
<1>8. QuietInv'
  <2>1. ASSUME NEW l \in quiet, QuietOK(l)
        PROVE  QuietOK(l)'
    <3>1. l \in Locations /\ l \in Nat /\ cursor \in Nat /\ l <= nLocations
      BY <1>2, SetFacts DEF TypeOK, CreateWaitInv, QuietInv
    <3>2. Ended(l) <=> l # MainLocation /\ (l < cursor \/ l = cursor)
      BY <1>1 DEF Ended, LateSteps
    <3>3. Ended(l)' <=> Ended(l)
      <4>1. CASE fin' = "visit"
        <5>1. Ended(l)' <=> l # MainLocation /\ l < cursor + 1
          BY <1>3, <4>1 DEF Ended, LateSteps
        <5>2. QED
          BY <3>1, <3>2, <5>1
      <4>2. CASE fin' = "epoch"
        <5>1. Ended(l)' <=> l # MainLocation
          BY <4>2 DEF Ended, LateSteps
        <5>2. QED
          BY <1>3, <3>1, <3>2, <4>2, <5>1
      <4>3. QED
        BY <1>3, <4>1, <4>2
    <3>4. QED
      BY <1>1, <1>3, <1>7, <2>1, <3>1, <3>2, <3>3 DEF QuietOK
  <2>2. QED
    BY <1>1, <1>2, <2>1, QuietKept
<1>9. (late => ~data[cursor])'
  BY <1>1
<1>10. QED
  BY <1>1, <1>2, <1>4, <1>5, <1>6, <1>7, <1>8, <1>9, FinalizerStep

LEMMA EndEpochStep ==
    ASSUME CreateWaitInv, EndEpoch
    PROVE  CreateWaitInv'
<1>1. /\ fin = "epoch" /\ fin' = "locations" /\ cursor' = cursor
      /\ stack' = [stack EXCEPT ![MainLocation] = 0]
      /\ record' = [record EXCEPT ![MainLocation] =
                      IF record[MainLocation] = "open" THEN "closed" ELSE "broken"]
      /\ activeLocations' = activeLocations /\ data' = data
      /\ isFinalized' = isFinalized /\ finalizer' = finalizer /\ phase' = phase
      /\ quiet' = quiet /\ late' = late /\ proc' = proc /\ ThreadsRest
  BY DEF EndEpoch, Put, listVars, threadVars, ThreadsRest
<1>2. /\ TypeOK /\ FinalizerOK /\ LocationsAnnounced /\ phase = "post"
      /\ MainLocation \in Locations
  BY <1>1, SetFacts DEF CreateWaitInv, FinalizerOK, TypeOK, LateSteps
<1>3. TypeOK'
  <2>1. stack' \in [Locations -> 0..MaxNest + 1]
    <3>1. stack \in [Locations -> 0..MaxNest + 1] /\ 0 \in 0..MaxNest + 1
      BY <1>2, CreateWaitAssumption DEF TypeOK
    <3>2. QED
      BY <1>1, <3>1
  <2>2. record' \in [Locations -> {"closed", "open", "broken"}]
    BY <1>1, <1>2 DEF TypeOK
  <2>3. QED
    BY <1>1, <1>2, <2>1, <2>2 DEF TypeOK, Fins, ThreadsRest
<1>4. FinalizerOK'
  BY <1>1, <1>2 DEF FinalizerOK, ThreadsRest, LateSteps
<1>5. \A l : Announced(l)' <=> Announced(l)
  BY <1>1 DEF Announced
<1>6. QuietInv'
  <2>1. ASSUME NEW l \in quiet, QuietOK(l)
        PROVE  QuietOK(l)'
    <3>1. l \in Locations /\ Ended(l)' /\ (Ended(l) <=> l # MainLocation)
      BY <1>1, <1>2 DEF Ended, LateSteps, TypeOK
    <3>2. record[l] = IF l = MainLocation THEN "open" ELSE "closed"
      BY <2>1, <3>1 DEF QuietOK
    <3>3. record'[l] = "closed"
      BY <1>1, <1>2, <3>1, <3>2 DEF TypeOK
    <3>4. QED
      BY <3>1, <3>3 DEF QuietOK
  <2>2. QED
    BY <1>1, <1>2, <2>1, QuietKept
<1>7. ActiveCounted' /\ (late => ~data[cursor])'
  BY <1>1, <1>2, CountRests DEF LocationsAnnounced
<1>8. \A l \in Locations : stack'[l] \in {stack[l], 0}
  BY <1>1, <1>2 DEF TypeOK
<1>9. QED
  BY <1>1, <1>2, <1>3, <1>4, <1>5, <1>6, <1>7, <1>8, FinalizerStep

(* The subsystems are finalized; nothing is written any more. *)
LEMMA FinalizeSubsystemsStep ==
    ASSUME CreateWaitInv, FinalizeLocations \/ FinalizeSubsystems \/ LocationFinalize
    PROVE  CreateWaitInv'
<1>1. /\ fin \in {"locations", "subsystems", "list"} /\ fin' \in {"locations", "subsystems", "list"}
      /\ cursor' = cursor /\ stack' = stack /\ record' = record
      /\ activeLocations' = activeLocations /\ data' = data
      /\ isFinalized' \in {isFinalized, TRUE} /\ proc' \in {proc, "aborted", "exited"}
      /\ finalizer' = finalizer /\ phase' = phase
      /\ quiet' = quiet /\ late' = late /\ ThreadsRest
  BY DEF FinalizeLocations, FinalizeSubsystems, LocationFinalize, Abort, listVars, eventVars,
         threadVars, finVars, ThreadsRest
<1>2. TypeOK /\ FinalizerOK /\ LocationsAnnounced /\ phase = "post"
  BY <1>1 DEF CreateWaitInv, FinalizerOK, TypeOK
<1>3. TypeOK'
  BY <1>1, <1>2 DEF TypeOK, Fins, ThreadsRest
<1>4. FinalizerOK'
  BY <1>1, <1>2 DEF FinalizerOK, ThreadsRest, LateSteps
<1>5. \A l : Announced(l)' <=> Announced(l)
  BY <1>1 DEF Announced
<1>6. QuietInv'
  <2>1. ASSUME NEW l \in quiet, QuietOK(l)
        PROVE  QuietOK(l)'
    <3>1. Ended(l)' /\ Ended(l)
      BY <1>1 DEF Ended
    <3>2. QED
      BY <1>1, <2>1, <3>1 DEF QuietOK
  <2>2. QED
    BY <1>1, <1>2, <2>1, QuietKept
<1>7. ActiveCounted' /\ (late => ~data[cursor])'
  BY <1>1, <1>2, CountRests DEF LocationsAnnounced
<1>8. QED
  BY <1>1, <1>2, <1>3, <1>4, <1>5, <1>6, <1>7, FinalizerStep

-----------------------------------------------------------------------------
(* The invariant holds initially, and every step keeps it. *)

LEMMA InitHolds ==
    ASSUME Init
    PROVE  CreateWaitInv
<1>1. /\ \A t \in Threads : pc[t] = IF t \in Created THEN "none" ELSE "run"
      /\ \A t \in Threads : at[t] = IF t = Main THEN MainLocation ELSE None
      /\ \A t \in Threads : nest[t] = 0 /\ how[t] = "cancelled" /\ ~held[t]
      /\ \A l \in Locations : ~data[l] /\ stack[l] = 0 /\ wrapped[l] = None
      /\ \A l \in Locations : record[l] = IF l = MainLocation THEN "open" ELSE "closed"
      /\ \A k \in ReuseKeys : pool[k] = <<>>
      /\ Main \notin Created /\ MainLocation \in Locations /\ MainLocation = 1
      /\ MainLocation # None
  BY SetFacts DEF Init, Others
<1>2. TypeOK
  <2>1. MaxNest \in Nat /\ Cardinality(Others) \in Nat /\ Cardinality(Locations) \in Nat
    BY SetFacts, CreateWaitAssumption
  <2>2. pool \in [ReuseKeys -> Seq(Locations)]
    BY DEF Init
  <2>3. /\ stack \in [Locations -> 0..MaxNest + 1] /\ nest \in [Threads -> 0..MaxNest]
        /\ activeLocations \in 0..Cardinality(Others)
        /\ cursor \in 0..Cardinality(Locations) + 1
    BY <2>1 DEF Init
  <2>4. /\ data \in [Locations -> BOOLEAN] /\ held \in [Threads -> BOOLEAN]
        /\ wrapped \in [Locations -> Created \cup {None}]
        /\ record \in [Locations -> {"closed", "open", "broken"}]
    BY DEF Init
  <2>5. /\ pc \in [Threads -> Pcs] /\ at \in [Threads -> Locations \cup {None}]
        /\ how \in [Threads -> {"cancelled", "returned", "exited"}]
    BY SetFacts DEF Init, Pcs
  <2>6. QED
    BY <1>1, <2>2, <2>3, <2>4, <2>5 DEF Init, TypeOK, Fins
<1>3. \A t \in Threads : ThreadOK(t)
  <2>1. \A t \in Threads : t = Main \/ t \in Created \/ t \in Foreign
    BY DEF Threads, Others
  <2>2. QED
    BY <1>1, <2>1 DEF ThreadOK, Ending
<1>4. FinalizerOK
  BY DEF Init, FinalizerOK, LateSteps
<1>5. \A l : ~InPool(l)
  BY <1>1 DEF InPool
<1>6. \A t \in Threads : Using(t) => t = Main /\ at[t] = MainLocation
  BY <1>1 DEF Using
<1>7. LocationsOwned
  <2>1. {t \in Others : at[t] # None} = {}
    BY <1>1, SetFacts
  <2>2. nLocations <= 1 + Cardinality({t \in Others : at[t] # None})
    <3>1. Cardinality({t \in Others : at[t] # None}) = 0
      BY <2>1, FS_EmptySet
    <3>2. nLocations = 1
      BY DEF Init
    <3>3. QED
      BY <3>1, <3>2
  <2>3. \A t \in Threads : at[t] # None => /\ at[t] <= nLocations
                                           /\ at[t] = MainLocation => t = Main
    BY <1>1 DEF Init
  <2>4. \A k \in ReuseKeys : 1..Len(pool[k]) = {}
    BY <1>1
  <2>5. QED
    BY <1>5, <1>6, <2>2, <2>3, <2>4 DEF LocationsOwned
<1>8. LocationsAnnounced
  <2>1. \A l \in Locations : ~Announced(l)
    BY <1>1 DEF Init, Announced
  <2>2. \A t \in Others : ~Using(t)
    BY <1>6, SetFacts
  <2>3. QED
    BY <2>1, <2>2 DEF Init, LocationsAnnounced
<1>9. StacksBounded /\ WithinInv
  <2>1. \A t \in Threads : Using(t) => /\ pc[t] = "run" /\ stack[at[t]] = 0 /\ nest[t] = 0
                                       /\ record[at[t]] = "open" /\ OwnRegion(t) = 0
    BY <1>1, <1>6 DEF OwnRegion
  <2>2. \A l \in Locations : (l > nLocations \/ InPool(l) => l # MainLocation) /\ record[l] # "broken"
    BY <1>1, <1>5 DEF Init
  <2>3. QED
    BY <1>1, <2>1, <2>2 DEF StacksBounded, WithinInv
<1>10. QuietInv
  BY DEF Init, QuietInv
<1>11. ActiveCounted
  <2>1. Moving = {} /\ Data = {}
    BY <1>1 DEF Moving, Data, Counted, Ending
  <2>2. Cardinality(Moving) = 0 /\ Cardinality(Data) = 0
    BY <2>1, FS_EmptySet
  <2>3. QED
    BY <2>2, CountedFinite, ActiveCountedDef DEF Init
<1>12. QED
  BY <1>1, <1>2, <1>3, <1>4, <1>7, <1>8, <1>9, <1>10, <1>11 DEF CreateWaitInv

LEMMA ThreadStep ==
    ASSUME CreateWaitInv, NEW t \in Threads, Thread(t)
    PROVE  CreateWaitInv'
<1>1. CASE OnBegin(t) \/ OnOrphanBegin(t)
  BY <1>1, TakeLocationStep
<1>2. CASE Count(t) \/ Publish(t) \/ Begin(t) \/ OrphanBegin(t)
  BY <1>2, CountStep, PublishStep, BeginStep
<1>3. CASE \/ CheckPhase(t) \/ ExitTakenForMain(t) \/ Return(t) \/ Leave(t)
           \/ CleanupCheck(t) \/ OrphanDtor(t)
  BY <1>3, MoveStep
<1>4. CASE Enter(t) \/ Exit(t) \/ \E u \in Created : Create(t, u)
  BY <1>4, EnterStep, ExitStep, CreateStep
<1>5. CASE PthreadExit(t) \/ TryTerminate(t) \/ ExitRegions(t) \/ OrphanExitRegions(t)
  BY <1>5, PthreadExitStep, TryTerminateStep, ExitRegionsStep
<1>6. CASE End(t) \/ OrphanEnd(t) \/ Push(t) \/ Terminate(t) \/ Recycle(t)
  BY <1>6, EndStep, PushStep, TerminateStep, RecycleStep
<1>7. QED
  BY <1>1, <1>2, <1>3, <1>4, <1>5, <1>6 DEF Thread

LEMMA StepKeeps ==
    ASSUME CreateWaitInv, [Next]_vars
    PROVE  CreateWaitInv'
<1>1. CASE Finalizer
  BY <1>1, BarrierStep, ExitOwnRegionsStep, VisitStep, LateExitRegionsStep, LateEndStep,
     LateTerminateStep, EndEpochStep, FinalizeSubsystemsStep DEF Finalizer
<1>2. CASE \E t \in Threads : Thread(t) \/ Finalize(t)
  BY <1>2, ThreadStep, FinalizeStep
<1>3. CASE UNCHANGED vars
  <2>1. /\ phase' = phase /\ nLocations' = nLocations /\ activeLocations' = activeLocations
        /\ data' = data /\ pool' = pool /\ wrapped' = wrapped /\ stack' = stack
        /\ record' = record /\ pc' = pc /\ at' = at /\ nest' = nest /\ how' = how
        /\ held' = held /\ fin' = fin /\ finalizer' = finalizer /\ cursor' = cursor
        /\ late' = late /\ quiet' = quiet /\ isFinalized' = isFinalized /\ proc' = proc
    BY <1>3 DEF vars
  <2>2. TypeOK'
    BY <2>1 DEF CreateWaitInv, TypeOK
  <2>3. QED
    BY <2>1, <2>2, Unchanged
<1>4. QED
  BY <1>1, <1>2, <1>3 DEF Next

(* However many threads there are, which of them are orphans or detached,
   which share a reuse pool, how they end, and whoever calls exit() among
   them: the invariant of create/wait threads always holds. *)
THEOREM Invariance == Spec => []CreateWaitInv
<1>1. Init => CreateWaitInv
  BY InitHolds
<1>2. CreateWaitInv /\ [Next]_vars => CreateWaitInv'
  BY StepKeeps
<1>3. QED
  BY <1>1, <1>2, PTL DEF Spec

-----------------------------------------------------------------------------
(* What it says about the program *)

(* active_locations never wraps and never exceeds the threads there are, the
   location list never exceeds what they need, and a task stack never holds
   more than its thread's regions and pthread_exit's own. *)
THEOREM TypeCorrect == Spec => []TypeOK
<1>1. CreateWaitInv => TypeOK
  BY DEF CreateWaitInv
<1>2. QED
  BY <1>1, Invariance, PTL

(* A tpd that Push gives to a reuse pool is no longer the thread's, and
   TakeLocation takes it out of the pool: no two threads, and no thread and
   a pool, ever have the same location. *)
THEOREM Exclusive == Spec => []LocationExclusive
<1>1. ASSUME CreateWaitInv
      PROVE  LocationExclusive
  <2> DEFINE Pooled(l) == {s \in ReuseKeys \X Locations :
                             s[2] <= Len(pool[s[1]]) /\ pool[s[1]][s[2]] = l}
  <2>1. ASSUME NEW l \in Locations
        PROVE  Cardinality(Users(l)) + Cardinality(Pooled(l)) <= 1
    <3>1. LocationsOwned /\ TypeOK /\ l # None
      BY <1>1, SetFacts DEF CreateWaitInv
    <3>2. \A t \in Users(l) : t \in Threads /\ Using(t) /\ at[t] = l
      BY <3>1 DEF Users, Using
    <3>3. \A t, u \in Users(l) : t = u
      BY <3>1, <3>2 DEF LocationsOwned
    <3>4. ASSUME NEW s \in Pooled(l)
          PROVE  /\ s[1] \in ReuseKeys /\ s[2] \in 1..Len(pool[s[1]])
                 /\ pool[s[1]][s[2]] = l /\ s = <<s[1], s[2]>>
      <4>1. s \in ReuseKeys \X Locations /\ s[2] <= Len(pool[s[1]]) /\ pool[s[1]][s[2]] = l
        OBVIOUS
      <4>2. s[1] \in ReuseKeys /\ s[2] \in Locations /\ s = <<s[1], s[2]>>
        BY <4>1
      <4>3. pool[s[1]] \in Seq(Locations)
        BY <3>1, <4>2 DEF TypeOK
      <4>4. Len(pool[s[1]]) \in Nat /\ s[2] \in Nat /\ s[2] >= 1
        BY <4>2, <4>3, SetFacts
      <4>5. QED
        BY <4>1, <4>2, <4>4
    <3>5. \A r, s \in Pooled(l) : r = s
      <4>1. ASSUME NEW r \in Pooled(l), NEW s \in Pooled(l)
            PROVE  r = s
        <5>1. r[1] = s[1] /\ r[2] = s[2]
          BY <3>1, <3>4 DEF LocationsOwned
        <5>2. QED
          BY <3>4, <5>1
      <4>2. QED
        BY <4>1
    <3>6. Users(l) = {} \/ Pooled(l) = {}
      <4>1. ASSUME NEW t \in Users(l), NEW s \in Pooled(l)
            PROVE  FALSE
        <5>1. InPool(l)
          BY <3>4 DEF InPool
        <5>2. QED
          BY <3>1, <3>2, <5>1 DEF LocationsOwned
      <4>2. QED
        BY <4>1
    <3> HIDE DEF Pooled
    <3>7. /\ Cardinality(Users(l)) = IF Users(l) = {} THEN 0 ELSE 1
          /\ Cardinality(Pooled(l)) = IF Pooled(l) = {} THEN 0 ELSE 1
      BY <3>3, <3>5, AtMostOne
    <3>8. QED
      BY <3>6, <3>7
  <2>2. QED
    BY <2>1 DEF LocationExclusive
<1>2. CreateWaitInv => LocationExclusive
  BY <1>1
<1>3. QED
  BY <1>2, Invariance, PTL

(* "Ensure that only one caller gets the OK to terminate the thread":
   TryTerminate of the thread and end_latecomer of scorep_finalize never
   both end a location. *)
THEOREM EndedOnce == Spec => []TerminatedOnce
<1>1. ASSUME CreateWaitInv
      PROVE  TerminatedOnce
  <2>1. ASSUME NEW l \in Locations
        PROVE  Cardinality({t \in Threads : held[t] /\ at[t] = l /\ pc[t] # "terminate"})
               + (IF data[l] THEN 1 ELSE 0) + (IF late /\ cursor = l THEN 1 ELSE 0) <= 1
    <3> DEFINE S == {t \in Threads : held[t] /\ at[t] = l /\ pc[t] # "terminate"}
    <3>1. LocationsOwned /\ LocationsAnnounced /\ l # None
      BY <1>1, SetFacts DEF CreateWaitInv
    <3>2. \A t \in S : t \in Threads /\ Using(t) /\ at[t] = l /\ pc[t] \notin Open
      BY <1>1, <3>1 DEF CreateWaitInv, ThreadOK, Ending, Open, Using
    <3>3. \A t, u \in S : t = u
      BY <3>1, <3>2 DEF LocationsOwned
    <3>4. S # {} => ~data[l] /\ ~(late /\ cursor = l)
      BY <3>1, <3>2 DEF LocationsAnnounced, Announced
    <3>5. ~(data[l] /\ late /\ cursor = l)
      BY <3>1 DEF LocationsAnnounced
    <3> HIDE DEF S
    <3>6. Cardinality(S) = IF S = {} THEN 0 ELSE 1
      BY <3>3, AtMostOne
    <3>7. Cardinality(S) + (IF data[l] THEN 1 ELSE 0) + (IF late /\ cursor = l THEN 1 ELSE 0) <= 1
      BY <3>4, <3>5, <3>6
    <3>8. QED
      BY <3>7 DEF S
  <2>2. QED
    BY <2>1 DEF TerminatedOnce
<1>2. CreateWaitInv => TerminatedOnce
  BY <1>1
<1>3. QED
  BY <1>2, Invariance, PTL

(* As long as nobody finalizes, no thread, orphan or late comer writes an
   event outside of BEGIN and END, or an END with regions open. *)
THEOREM WellFormed == Spec => []WithinWellFormed
<1>1. CreateWaitInv => WithinWellFormed
  BY DEF CreateWaitInv, WithinInv, WithinWellFormed
<1>2. QED
  BY <1>1, Invariance, PTL

(* When scorep_finalize comes to finalize the locations, it has written the
   END, once and with all regions exited, of every location that nobody was
   writing to when it set the phase. *)
THEOREM QuietEnded == Spec => []QuietComplete
<1>1. CreateWaitInv => QuietComplete
  BY DEF CreateWaitInv, FinalizerOK, QuietInv, Ended, QuietComplete, TypeOK
<1>2. QED
  BY <1>1, Invariance, PTL
=============================================================================

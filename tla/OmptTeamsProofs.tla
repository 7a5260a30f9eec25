-------------------------- MODULE OmptTeamsProofs ---------------------------
(***************************************************************************)
(* Parallel regions in the OMPT adapter, for any number of worker threads, *)
(* regions and team sizes, and however late the runtime reports the end of *)
(* a worker's barrier: each implicit task is ended exactly once, by itself *)
(* or by the thread that needs its location, no object is released while   *)
(* somebody uses it, and nothing is left when all threads are out.         *)
(***************************************************************************)
EXTENDS OmptTeams, FiniteSetTheorems, SequenceTheorems, TLAPS

-----------------------------------------------------------------------------
LEMMA Facts ==
    /\ Primary \in Threads /\ Primary \notin Workers /\ Threads = {Primary} \cup Workers
    /\ None \notin Threads /\ None \notin Callers /\ InitialTask \notin Threads /\ InitialTask # None
    /\ Cardinality(Workers) \in Nat /\ Cardinality(Threads) = Cardinality(Workers) + 1
    /\ Indices = 0..Cardinality(Workers) /\ 0 \in Indices
    /\ Regions \in Nat /\ Parallels = 1..Regions
<1>1. IsFiniteSet(Workers) /\ Primary \notin Workers
  BY OmptTeamsAssumption
<1>2. Cardinality(Workers) \in Nat
  BY <1>1, FS_CardinalityType
<1>3. Threads = Workers \cup {Primary}
  BY DEF Threads
<1>4. Cardinality(Threads) = Cardinality(Workers) + 1
  BY <1>1, <1>3, FS_AddElement
<1>5. QED
  BY <1>1, <1>2, <1>3, <1>4, OmptTeamsAssumption DEF Indices, Parallels

-----------------------------------------------------------------------------
(* Steps that leave the team alone *)

(* The thread has no part in the step. *)
Same(u) ==
    /\ pc'[u] = pc[u] /\ index'[u] = index[u] /\ taskData'[u] = taskData[u]
    /\ taskFree'[u] = taskFree[u] /\ object'[u] = object[u] /\ caller'[u] = caller[u]
    /\ stamp'[u] = stamp[u]

OnlyMoves(t) == \A u \in Threads \ {t} : Same(u)

(* Regions, teams and objects stay as they are. *)
TeamSame ==
    /\ region' = region /\ size' = size /\ taken' = taken /\ arrived' = arrived
    /\ parallelData' = parallelData /\ parallelFree' = parallelFree
    /\ \A o \in Parallels : parallel'[o].no = parallel[o].no /\ parallel'[o].ref = parallel[o].ref
    /\ \A u \in Threads : Executes(u) => task'[u].parallel = task[u].parallel

(* A thread moves, but neither into the team nor out of it. *)
StaysInTeam(t) ==
    /\ taskData'[t] = taskData[t]
    /\ Joining(t)' <=> Joining(t)
    /\ Joining(t) \/ Executes(t) => index'[t] = index[t]
    /\ pc'[t] \in {"running", "forked", "barrier"} => pc'[t] = pc[t]
    /\ arrived < size /\ size > 1 /\ Executes(t) /\ task[t].parallel = parallelData => pc'[t] = pc[t]
    /\ t = Primary =>
         /\ pc'[t] \in Entering \cup {"forked"} <=> pc[t] \in Entering \cup {"forked"}
         /\ pc'[t] \in Barrier => pc[t] \in Barrier
         /\ pc'[t] = "forked" <=> pc[t] = "forked"
         /\ pc'[t] \in {"serial", "finalizing", "done"} <=> pc[t] \in {"serial", "finalizing", "done"}

(* Who is a member stays one. *)
LEMMA SameMembers ==
    ASSUME OmptTeamsInv, NEW t \in Threads, OnlyMoves(t), TeamSame, StaysInTeam(t)
    PROVE  /\ \A u \in Threads : /\ Executes(u)' <=> Executes(u)
                                 /\ Joining(u)' <=> Joining(u)
                                 /\ Member(u)' <=> Member(u)
                                 /\ Executes(u) \/ Joining(u) => index'[u] = index[u]
           /\ \A o \in Parallels : MemberIndices(o)' = MemberIndices(o)
<1> USE Facts
<1>1. ASSUME NEW u \in Threads
      PROVE  /\ Executes(u)' <=> Executes(u)
             /\ Joining(u)' <=> Joining(u)
             /\ Executes(u) \/ Joining(u) => index'[u] = index[u]
  <2>1. CASE u = t
    BY <2>1 DEF StaysInTeam, Executes
  <2>2. CASE u # t
    BY <2>2 DEF OnlyMoves, Same, Executes, Joining, WritesOverdue
  <2>3. QED
    BY <2>1, <2>2
<1>2. \A u \in Threads : Executes(u) => task'[u].parallel = task[u].parallel
  BY DEF TeamSame
<1>3. parallelData' = parallelData
  BY DEF TeamSame
<1>4. \A u \in Threads : Member(u)' <=> Member(u)
  BY <1>1, <1>2, <1>3 DEF Member
<1>5. ASSUME NEW o \in Parallels  PROVE  MemberIndices(o)' = MemberIndices(o)
  BY <1>1, <1>2 DEF MemberIndices
<1>6. QED
  BY <1>1, <1>4, <1>5

LEMMA TeamFrame ==
    ASSUME OmptTeamsInv, NEW t \in Threads, OnlyMoves(t), TeamSame, StaysInTeam(t)
    PROVE  MembersOK' /\ BarrierOK' /\ ReferencesOK'
<1> USE Facts
<1>1. /\ \A u \in Threads : /\ Executes(u)' <=> Executes(u)
                            /\ Joining(u)' <=> Joining(u)
                            /\ Member(u)' <=> Member(u)
                            /\ Executes(u) \/ Joining(u) => index'[u] = index[u]
      /\ \A o \in Parallels : MemberIndices(o)' = MemberIndices(o)
  BY SameMembers
<1>2. /\ region' = region /\ size' = size /\ taken' = taken /\ arrived' = arrived
      /\ parallelData' = parallelData /\ parallelFree' = parallelFree
      /\ \A o \in Parallels : parallel'[o].no = parallel[o].no /\ parallel'[o].ref = parallel[o].ref
      /\ \A u \in Threads : Executes(u) => task'[u].parallel = task[u].parallel
  BY DEF TeamSame
<1>3. \A u \in Threads : Member(u) => Executes(u) \/ Joining(u)
  BY DEF Member
<1>4. MembersOK'
  <2>1. MembersOK
    BY DEF OmptTeamsInv
  <2>2. QED
    BY <1>1, <1>2, <1>3, <2>1 DEF MembersOK
<1>5. /\ \A u \in Threads : pc'[u] \in {"running", "forked", "barrier"} => pc'[u] = pc[u]
      /\ arrived < size /\ size > 1 =>
           \A u \in Threads : Executes(u) /\ task[u].parallel = parallelData => pc'[u] = pc[u]
      /\ pc'[Primary] \in Entering \cup {"forked"} <=> pc[Primary] \in Entering \cup {"forked"}
      /\ pc'[Primary] = "forked" <=> pc[Primary] = "forked"
      /\ pc'[Primary] \in {"serial", "finalizing", "done"} <=> pc[Primary] \in {"serial", "finalizing", "done"}
      /\ pc'[Primary] \in Barrier => pc[Primary] \in Barrier
  BY DEF OnlyMoves, Same, StaysInTeam
<1>6. \A u \in Threads : pc[u] \in {"running", "barrier"} => Executes(u)
  BY DEF OmptTeamsInv, ThreadsOK, ControlOK, AtEnd
<1>7. Executes(Primary) => task[Primary].parallel = parallelData
  BY DEF OmptTeamsInv, TasksOK
<1>8. BarrierOK'
  <2>1. BarrierOK
    BY DEF OmptTeamsInv
  <2>2. CASE arrived < size /\ size > 1
    <3>1. ASSUME NEW u \in Threads
          PROVE  pc'[u] = "barrier" /\ task'[u].parallel = parallelData'
                   <=> pc[u] = "barrier" /\ task[u].parallel = parallelData
      BY <1>1, <1>2, <1>5, <1>6, <2>2
    <3>2. AtBarrier' = AtBarrier
      BY <3>1 DEF AtBarrier
    <3>3. \A u \in AtBarrier : Executes(u) /\ u \in Threads
      BY <1>6 DEF AtBarrier
    <3>4. {index'[u] : u \in AtBarrier'} = {index[u] : u \in AtBarrier}
      BY <1>1, <3>2, <3>3
    <3>5. arrived = Cardinality({index[u] : u \in AtBarrier})
      BY <2>1, <2>2 DEF BarrierOK
    <3>6. pc'[Primary] \in Entering \cup {"forked", "running", "barrier"}
      BY <1>5, <1>6, <1>7, <2>1, <2>2 DEF BarrierOK
    <3>7. ASSUME NEW u \in Threads, Executes(u)', task'[u].parallel = parallelData'
          PROVE  pc'[u] \in {"running", "barrier"}
      BY <1>1, <1>2, <1>5, <2>1, <2>2, <3>7 DEF BarrierOK
    <3>8. arrived' # size' /\ size' # 1
      BY <1>2, <2>2, SMTT(30) DEF OmptTeamsInv, TypesOK, TypeOK
    <3>9. QED
      BY <1>2, <1>5, <3>4, <3>5, <3>6, <3>7, <3>8 DEF BarrierOK
  <2>3. CASE ~(arrived < size /\ size > 1)
    <3>1. arrived = size => taken = 1..size - 1 /\ \A u \in Threads : ~Joining(u) /\ pc[u] \notin {"running", "forked"}
      BY <2>1 DEF BarrierOK
    <3>2. size = 1 => arrived = 0 /\ pc'[Primary] \notin Barrier
      BY <1>5, <2>1 DEF BarrierOK
    <3>3. arrived' = size' => taken' = 1..size' - 1 /\ \A u \in Threads : ~Joining(u)' /\ pc'[u] \notin {"running", "forked"}
      BY <1>1, <1>2, <1>5, <3>1
    <3>4. QED
      BY <1>2, <2>3, <3>2, <3>3 DEF BarrierOK
  <2>4. QED
    BY <2>2, <2>3
<1>9. ReferencesOK'
  <2>1. ReferencesOK
    BY DEF OmptTeamsInv
  <2>2. Assembled' <=> Assembled
    BY <1>2, <1>5 DEF Assembled
  <2>3. InRegion' <=> InRegion
    BY <1>5 DEF InRegion
  <2>4. ASSUME NEW o \in Parallels  PROVE  References(o)' = References(o)
    BY <1>1, <1>2, <1>5, <2>2, <2>3 DEF References
  <2>5. {o \in Parallels : parallel'[o].no # 0} = {o \in Parallels : parallel[o].no # 0}
    BY <1>2
  <2>6. QED
    BY <1>2, <2>1, <2>3, <2>4, <2>5 DEF ReferencesOK
<1>10. QED
  BY <1>4, <1>8, <1>9

-----------------------------------------------------------------------------
(* Steps that change a thread's control only *)

AllSame ==
    /\ TeamSame
    /\ task' = task /\ parallel' = parallel /\ stored' = stored /\ isOmpt' = isOmpt
    /\ preserveOrder' = preserveOrder /\ events' = events /\ finalizing' = finalizing

(* A thread moves, but what others may rely on stays. *)
StaysAtLocation(t) ==
    /\ Open(t)' <=> Open(t)
    /\ Keeps(t) => Keeps(t)'
    /\ t \in Workers => (Keeps(t)' => Keeps(t))
    /\ WritesOverdue(t)' <=> WritesOverdue(t)
    /\ WritesOverdue(t) => object'[t] = object[t]
    /\ pc[t] \in AtEnd \cup {"release"} => pc'[t] \in AtEnd \cup {"release"}
    /\ t \in Workers /\ stored[index[t]] = t => (pc[t] \in AtEnd \cup {"running"} => pc'[t] \in AtEnd \cup {"running"})
    /\ pc'[t] = "task_begin" => \A x \in Threads : Open(x) => index[x] # index[t]
    /\ pc'[t] = "wait_order" => stored[index[t]] = None
    /\ SyncsAt(t)'
    /\ t = Primary =>
         /\ StoredOfPrimary' = StoredOfPrimary
         /\ PastEnd' <=> PastEnd
         /\ pc'[t] \in {"release", "parallel_end"} => pc[t] \in {"release", "parallel_end"}
         /\ pc'[t] \in {"barrier_exit", "task_exit"} => stamp'[t] # 0

(* What is true of thread t again is true of all. *)
LEMMA ThreadsFrame ==
    ASSUME OmptTeamsInv, NEW t \in Threads, OnlyMoves(t), finalizing' = finalizing,
           ControlOK(t)', CallerOK(t)',
           t = Primary => (pc'[t] \in {"finalizing", "done"} <=> pc[t] \in {"finalizing", "done"})
    PROVE  ThreadsOK'
<1> USE Facts
<1>1. \A u \in Threads : ControlOK(u) /\ CallerOK(u)
  BY DEF OmptTeamsInv, ThreadsOK
<1>2. finalizing <=> pc[Primary] \in {"finalizing", "done"}
  BY DEF OmptTeamsInv, ThreadsOK
<1>3. ASSUME NEW u \in Threads, u # t  PROVE  ControlOK(u)' /\ CallerOK(u)'
  <2>1. Same(u)
    BY <1>3 DEF OnlyMoves
  <2>2. ControlOK(u)'
    BY <1>1, <2>1 DEF Same, ControlOK, Executes
  <2>3. CallerOK(u)'
    BY <1>1, <2>1 DEF Same, CallerOK, HandlesOwn, Executes
  <2>4. QED
    BY <2>2, <2>3
<1>4. finalizing' <=> pc'[Primary] \in {"finalizing", "done"}
  <2>1. CASE t = Primary
    BY <1>2, <2>1
  <2>2. CASE t # Primary
    BY <1>2, <2>2 DEF OnlyMoves, Same
  <2>3. QED
    BY <2>1, <2>2
<1>5. QED
  BY <1>3, <1>4 DEF ThreadsOK

LEMMA QuietFrame ==
    ASSUME OmptTeamsInv, NEW t \in Threads, OnlyMoves(t), TeamSame, task' = task,
           parallel' = parallel, stored' = stored, isOmpt' = isOmpt,
           preserveOrder' = preserveOrder, events' = events, StaysInTeam(t), StaysAtLocation(t)
    PROVE  /\ OverdueOK' /\ TasksOK' /\ MembersOK' /\ BarrierOK' /\ ReferencesOK' /\ StoredOK'
           /\ OpenOK' /\ OrderOK' /\ SyncsOK' /\ EventsOK' /\ EndKnownOK'
<1> USE Facts
<1>1. /\ task' = task /\ parallel' = parallel /\ stored' = stored /\ isOmpt' = isOmpt
      /\ preserveOrder' = preserveOrder /\ events' = events
      /\ TeamSame /\ region' = region /\ parallelData' = parallelData /\ size' = size
  BY DEF TeamSame
<1>2. MembersOK' /\ BarrierOK' /\ ReferencesOK'
  BY <1>1, TeamFrame
<1>3. \A u \in Threads : /\ Executes(u)' <=> Executes(u)
                         /\ Joining(u)' <=> Joining(u)
                         /\ Executes(u) \/ Joining(u) => index'[u] = index[u]
  BY <1>1, SameMembers
<1>5. \A u \in Threads :
        /\ Open(u)' <=> Open(u)
        /\ Keeps(u) => Keeps(u)'
        /\ u \in Workers => (Keeps(u)' => Keeps(u))
        /\ WritesOverdue(u)' <=> WritesOverdue(u)
        /\ WritesOverdue(u) => object'[u] = object[u]
        /\ pc[u] \in AtEnd \cup {"release"} => pc'[u] \in AtEnd \cup {"release"}
        /\ u \in Workers /\ stored[index[u]] = u => (pc[u] \in AtEnd \cup {"running"} => pc'[u] \in AtEnd \cup {"running"})
        /\ pc'[u] = "running" => pc[u] = "running"
  <2> SUFFICES ASSUME NEW u \in Threads, u # t
               PROVE  /\ Open(u)' <=> Open(u)
                      /\ Keeps(u)' <=> Keeps(u)
                      /\ WritesOverdue(u)' <=> WritesOverdue(u)
                      /\ object'[u] = object[u] /\ pc'[u] = pc[u]
    BY DEF StaysAtLocation, StaysInTeam
  <2>1. Same(u)
    BY DEF OnlyMoves
  <2>2. QED
    BY <1>1, <2>1 DEF Same, Open, Keeps, HandlesOwn, Executes, WritesOverdue
<1>6. /\ StoredOfPrimary' = StoredOfPrimary
      /\ PastEnd' <=> PastEnd
      /\ pc'[Primary] \in {"release", "parallel_end"} => pc[Primary] \in {"release", "parallel_end"}
      /\ pc'[Primary] \in {"barrier_exit", "task_exit"} => stamp'[Primary] # 0
      /\ pc'[Primary] \in Entering \cup {"forked"} <=> pc[Primary] \in Entering \cup {"forked"}
      /\ pc'[Primary] \in {"serial", "finalizing", "done"} <=> pc[Primary] \in {"serial", "finalizing", "done"}
  <2>1. CASE t = Primary
    BY <2>1 DEF StaysAtLocation, StaysInTeam
  <2>2. CASE t # Primary
    <3>1. pc'[Primary] = pc[Primary] /\ stamp'[Primary] = stamp[Primary]
      BY <2>2 DEF OnlyMoves, Same
    <3>2. QED
      BY <1>1, <3>1 DEF StoredOfPrimary, PastEnd, OmptTeamsInv, EndKnownOK
  <2>3. QED
    BY <2>1, <2>2
<1>7. \A u \in Threads : WritesOverdue(u) => Joining(u)
  BY DEF Joining
<1>8. OverdueOK'
  <2>1. OverdueOK
    BY DEF OmptTeamsInv
  <2>2. \A x \in Workers : x \in Threads
    OBVIOUS
  <2>3. QED
    BY <1>1, <1>3, <1>5, <1>7, <2>1, <2>2 DEF OverdueOK, OverdueAt
<1>9. TasksOK'
  <2>1. TasksOK
    BY DEF OmptTeamsInv
  <2>2. QED
    BY <1>1, <1>3, <1>5, <2>1 DEF TasksOK
<1>10. StoredOK'
  <2>1. StoredOK
    BY DEF OmptTeamsInv
  <2>2. \A x \in Threads : pc[x] = "running" => Executes(x)
    BY DEF OmptTeamsInv, ThreadsOK, ControlOK
  <2>3. QED
    BY <1>1, <1>3, <1>5, <1>6, <2>1, <2>2 DEF StoredOK, StoredAt
<1>11. \A x \in Threads : Open(x) \/ Keeps(x) => Executes(x)
  BY DEF Open, Keeps, HandlesOwn
<1>12. OpenOK'
  <2>1. OpenOK
    BY DEF OmptTeamsInv
  <2>2. ASSUME NEW x \in Threads, NEW y \in Threads, Open(x)', Open(y)', index'[x] = index'[y]
        PROVE  x = y
    BY <1>3, <1>5, <1>11, <2>1, <2>2 DEF OpenOK
  <2>3. ASSUME NEW u \in Threads, pc'[u] = "task_begin"
        PROVE  \A x \in Threads : Open(x)' => index'[x] # index'[u]
    <3>1. Joining(u)' /\ index'[u] = index[u]
      BY <1>3, <2>3 DEF Joining, Entering
    <3>2. \A x \in Threads : Open(x) => index[x] # index[u]
      <4>1. CASE u = t
        BY <2>3, <4>1 DEF StaysAtLocation
      <4>2. CASE u # t
        BY <2>1, <2>3, <4>2 DEF OpenOK, OnlyMoves, Same
      <4>3. QED
        BY <4>1, <4>2
    <3>3. QED
      BY <1>3, <1>5, <1>11, <3>1, <3>2
  <2>4. ASSUME NEW u \in Threads, pc'[u] = "wait_order"  PROVE  stored'[index'[u]] = None
    <3>1. Joining(u)' /\ index'[u] = index[u]
      BY <1>3, <2>4 DEF Joining, Entering
    <3>2. CASE u = t
      BY <1>1, <2>4, <3>1, <3>2 DEF StaysAtLocation
    <3>3. CASE u # t
      BY <1>1, <2>1, <2>4, <3>1, <3>3 DEF OpenOK, OnlyMoves, Same
    <3>4. QED
      BY <3>2, <3>3
  <2>5. QED
    BY <2>2, <2>3, <2>4 DEF OpenOK
<1>13. OrderOK'
  <2>1. OrderOK
    BY DEF OmptTeamsInv
  <2>2. QED
    BY <1>1, <1>3, <1>5, <1>11, <2>1 DEF OrderOK
<1>14. SyncsOK'
  <2>1. SyncsOK
    BY DEF OmptTeamsInv
  <2>2. ASSUME NEW x \in Threads, x # t  PROVE  SyncsAt(x)'
    <3>1. Same(x) /\ SyncsAt(x)
      BY <2>1, <2>2 DEF OnlyMoves, SyncsOK
    <3>2. QED
      BY <1>1, <1>3, <3>1 DEF Same, SyncsAt
  <2>3. QED
    BY <2>2 DEF SyncsOK, StaysAtLocation
<1>15. EventsOK'
  <2>1. EventsOK
    BY DEF OmptTeamsInv
  <2>2. ASSUME NEW x \in Threads, Open(x)'  PROVE  Written(x)'
    <3>1. Written(x) /\ index'[x] = index[x]
      BY <1>3, <1>5, <1>11, <2>1, <2>2 DEF EventsOK
    <3>2. QED
      BY <1>1, <1>5, <3>1 DEF Written
  <2>3. ASSUME NEW l \in Indices \ {0}, \A x \in Threads : Open(x)' => index'[x] # l
        PROVE  events'[l].kind \in {"none", "end"}
    BY <1>1, <1>3, <1>5, <1>11, <2>1, <2>3 DEF EventsOK
  <2>4. QED
    BY <1>1, <1>6, <2>1, <2>2, <2>3 DEF EventsOK
<1>16. EndKnownOK'
  <2>1. EndKnownOK
    BY DEF OmptTeamsInv
  <2>2. QED
    BY <1>1, <1>3, <1>6, <2>1 DEF EndKnownOK, TaskEndKnown
<1>17. QED
  BY <1>2, <1>8, <1>9, <1>10, <1>12, <1>13, <1>14, <1>15, <1>16

LEMMA QuietStep ==
    ASSUME OmptTeamsInv, NEW t \in Threads, OnlyMoves(t), AllSame, StaysInTeam(t),
           StaysAtLocation(t), TypesOK', ControlOK(t)', CallerOK(t)',
           t = Primary => (pc'[t] \in {"finalizing", "done"} <=> pc[t] \in {"finalizing", "done"}),
           bug' \in TimestampBugs \cup {None}
    PROVE  OmptTeamsInv'
<1>1. /\ TeamSame /\ task' = task /\ parallel' = parallel /\ stored' = stored
      /\ isOmpt' = isOmpt /\ preserveOrder' = preserveOrder /\ events' = events
      /\ finalizing' = finalizing
  BY DEF AllSame
<1>2. /\ OverdueOK' /\ TasksOK' /\ MembersOK' /\ BarrierOK' /\ ReferencesOK' /\ StoredOK'
      /\ OpenOK' /\ OrderOK' /\ SyncsOK' /\ EventsOK' /\ EndKnownOK'
  BY <1>1, QuietFrame
<1>3. ThreadsOK'
  BY <1>1, ThreadsFrame
<1>4. QED
  BY <1>2, <1>3 DEF OmptTeamsInv

(* What the invariant says about a thread, as the steps need it *)
LEMMA ThreadFacts ==
    ASSUME OmptTeamsInv, NEW t \in Threads
    PROVE  /\ TypesOK /\ TypeOK /\ ControlOK(t) /\ CallerOK(t) /\ SyncsAt(t)
           /\ index[t] \in Indices /\ pc[t] \in Points /\ stamp[t] \in Nat
           /\ bug \in TimestampBugs \cup {None}
           /\ size \in Nat /\ size >= 1 /\ size <= 1 + Cardinality(Workers)
           /\ size - 1 \in Indices
<1> USE Facts
<1>1. TypeOK /\ TypesOK
  BY DEF OmptTeamsInv, TypesOK
<1>2. size \in Sizes \cup {1}
  BY <1>1 DEF TypeOK
<1>3. Sizes \subseteq 1..1 + Cardinality(Workers)
  BY OmptTeamsAssumption
<1>4. size \in Nat /\ size >= 1 /\ size <= 1 + Cardinality(Workers)
  BY <1>2, <1>3
<1>5. size - 1 \in Indices
  BY <1>4
<1>6. ControlOK(t) /\ CallerOK(t) /\ SyncsAt(t) /\ bug \in TimestampBugs \cup {None}
  BY DEF OmptTeamsInv, ThreadsOK, SyncsOK
<1>7. index[t] \in Indices /\ pc[t] \in Points /\ stamp[t] \in Nat
  BY <1>1 DEF TypesOK, TypeOK
<1>8. QED
  BY <1>1, <1>4, <1>5, <1>6, <1>7

LEMMA TeamBeginClockStep ==
    ASSUME OmptTeamsInv, NEW t \in Threads, TeamBeginClock(t)
    PROVE  OmptTeamsInv'
<1> USE Facts, ThreadFacts
<1>1. /\ pc[t] = "team_begin" /\ pc' = [pc EXCEPT ![t] = "team_check"]
      /\ stamp' = [stamp EXCEPT ![t] = clock + Tick] /\ clock' = clock + Tick
      /\ UNCHANGED <<runtimeVars, poolVars, locationVars, lastTimestamp, events, index,
                     object, caller, endVars, bug>>
  BY DEF TeamBeginClock, Goto, Now
<1>2. TypesOK'
  <2>1. clock + Tick \in Nat \ {0}
    BY OmptTeamsAssumption DEF TypesOK
  <2>2. QED
    BY <1>1, <2>1 DEF TypesOK, TypeOK, Points, Entering, runtimeVars, poolVars, locationVars, endVars
<1>3. pc'[t] = "team_check" /\ OnlyMoves(t) /\ AllSame
  BY <1>1 DEF TypesOK, OnlyMoves, Same, AllSame, TeamSame, runtimeVars, poolVars, locationVars, endVars
<1>4. /\ taskData' = taskData /\ index' = index /\ caller' = caller /\ object' = object
      /\ taskFree' = taskFree /\ finalizing' = finalizing /\ size' = size
  BY <1>1 DEF runtimeVars, poolVars, endVars
<1>5. ~Executes(t)
  BY <1>1 DEF ControlOK, Entering
<1>6. ControlOK(t)' /\ CallerOK(t)'
  BY <1>1, <1>3, <1>4, <1>5 DEF ControlOK, CallerOK, Executes, HandlesOwn, Entering, Writing, AtEnd, OfPrimary
<1>7. StaysInTeam(t)
  BY <1>1, <1>3, <1>4, <1>5 DEF StaysInTeam, Joining, Entering, Barrier, AtEnd
<1>8. StaysAtLocation(t)
  BY <1>1, <1>3, <1>4, <1>5 DEF StaysAtLocation, Open, Keeps, HandlesOwn, Executes, WritesOverdue, AtEnd, SyncsAt, StoredOfPrimary, PastEnd
<1>9. QED
  BY <1>1, <1>2, <1>3, <1>6, <1>7, <1>8, QuietStep

LEMMA TeamBeginCheckStep ==
    ASSUME OmptTeamsInv, NEW t \in Threads, TeamBeginCheck(t)
    PROVE  OmptTeamsInv'
<1> USE Facts, ThreadFacts
<1>1. /\ pc[t] = "team_check" /\ pc' = [pc EXCEPT ![t] = "overdue"]
      /\ stamp' = [stamp EXCEPT ![t] = 0] /\ team' = [team EXCEPT ![index[t]] = size]
      /\ UNCHANGED <<runtimeVars, poolVars, stored, isOmpt, preserveOrder, eventVars,
                   index, object, caller, endVars>>
      /\ bug' \in TimestampBugs \cup {None}
  BY DEF TeamBeginCheck, Goto, BugOn, TimestampBugs
<1>2. TypesOK'
  <2> QED
    BY <1>1 DEF TypesOK, TypeOK, Points, Entering, runtimeVars, poolVars, eventVars, endVars
<1>3. pc'[t] = "overdue" /\ OnlyMoves(t) /\ AllSame
  BY <1>1 DEF TypesOK, OnlyMoves, Same, AllSame, TeamSame, runtimeVars, poolVars, eventVars, endVars
<1>4. /\ taskData' = taskData /\ index' = index /\ caller' = caller /\ object' = object
      /\ taskFree' = taskFree /\ finalizing' = finalizing /\ size' = size
  BY <1>1 DEF runtimeVars, poolVars, endVars
<1>5. ~Executes(t)
  BY <1>1 DEF ControlOK, Entering
<1>6. ControlOK(t)' /\ CallerOK(t)'
  BY <1>1, <1>3, <1>4, <1>5 DEF ControlOK, CallerOK, Executes, HandlesOwn, Entering, Writing, AtEnd, OfPrimary
<1>7. StaysInTeam(t)
  BY <1>1, <1>3, <1>4, <1>5 DEF StaysInTeam, Joining, Entering, Barrier, AtEnd
<1>8. StaysAtLocation(t)
  BY <1>1, <1>3, <1>4, <1>5 DEF StaysAtLocation, Open, Keeps, HandlesOwn, Executes, WritesOverdue, AtEnd, SyncsAt, StoredOfPrimary, PastEnd
<1>9. QED
  BY <1>1, <1>2, <1>3, <1>6, <1>7, <1>8, QuietStep

TaskType == [parallel : Parallels \cup {None}, index : Indices, overdue : BOOLEAN, syncs : 0..1]

(* A task object is marked, or the mark is taken away. *)
LEMMA MarkChange ==
    ASSUME TypeOK, NEW x \in Threads, NEW b \in BOOLEAN, task' = [task EXCEPT ![x].overdue = b]
    PROVE  /\ task' \in [Threads -> TaskType]
           /\ \A u \in Threads : u # x => task'[u] = task[u]
           /\ task'[x].overdue = b
           /\ \A u \in Threads :
                task'[u].parallel = task[u].parallel /\ task'[u].syncs = task[u].syncs
                /\ task'[u].index = task[u].index
<1>1. task \in [Threads -> TaskType] /\ task[x] \in TaskType
  BY DEF TypeOK, TaskType
<1>2. /\ [task[x] EXCEPT !.overdue = b] \in TaskType
      /\ task' = [task EXCEPT ![x] = [task[x] EXCEPT !.overdue = b]]
  BY <1>1 DEF TaskType
<1>3. task'[x] = [task[x] EXCEPT !.overdue = b] /\ \A u \in Threads : u # x => task'[u] = task[u]
  BY <1>1, <1>2
<1>4. task' \in [Threads -> TaskType]
  BY <1>1, <1>2
<1>5. /\ task'[x].parallel = task[x].parallel /\ task'[x].syncs = task[x].syncs
      /\ task'[x].index = task[x].index
  BY <1>1, <1>3 DEF TaskType
<1>6. task'[x].overdue = b
  BY <1>1, <1>3 DEF TaskType
<1>7. QED
  BY <1>3, <1>4, <1>5, <1>6

(* A barrier is begun or ended. *)
LEMMA SyncsChange ==
    ASSUME TypeOK, NEW x \in Threads, NEW n \in 0..1, task' = [task EXCEPT ![x].syncs = n]
    PROVE  /\ task' \in [Threads -> TaskType]
           /\ \A u \in Threads : u # x => task'[u] = task[u]
           /\ task'[x].syncs = n
           /\ \A u \in Threads :
                task'[u].parallel = task[u].parallel /\ (task'[u].overdue <=> task[u].overdue)
                /\ task'[u].index = task[u].index
<1>1. task \in [Threads -> TaskType] /\ task[x] \in TaskType
  BY DEF TypeOK, TaskType
<1>2. /\ [task[x] EXCEPT !.syncs = n] \in TaskType
      /\ task' = [task EXCEPT ![x] = [task[x] EXCEPT !.syncs = n]]
  BY <1>1 DEF TaskType
<1>3. task'[x] = [task[x] EXCEPT !.syncs = n] /\ \A u \in Threads : u # x => task'[u] = task[u]
  BY <1>1, <1>2
<1>4. task' \in [Threads -> TaskType]
  BY <1>1, <1>2
<1>5. /\ task'[x].parallel = task[x].parallel /\ task'[x].overdue = task[x].overdue
      /\ task'[x].index = task[x].index
  BY <1>1, <1>3 DEF TaskType
<1>6. task'[x].syncs = n
  BY <1>1, <1>3 DEF TaskType
<1>7. QED
  BY <1>3, <1>4, <1>5, <1>6

(* Who begins is the only member of the team with its index; the primary has
   not yet left its barrier. *)
LEMMA JoiningFacts ==
    ASSUME OmptTeamsInv, NEW t \in Threads, Joining(t) \/ pc[t] = "running"
    PROVE  /\ Member(t) /\ region > 0 /\ parallelData \in Parallels
           /\ parallel[parallelData].no = region
           /\ index[t] \in 0..size - 1 /\ (size = 1 => t = Primary) /\ arrived # size
           /\ pc[Primary] \in Entering \cup {"forked", "running", "barrier"}
           /\ ~finalizing
           /\ \A u \in Threads : Member(u) /\ index[u] = index[t] => u = t
<1> USE Facts, ThreadFacts
<1>1. Member(t)
  BY DEF Member, OmptTeamsInv, TasksOK, ControlOK
<1>2. region > 0 /\ parallelData \in Parallels /\ parallel[parallelData].no = region
  <2>1. region \in Nat
    BY DEF TypeOK
  <2>2. region # 0
    BY <1>1 DEF OmptTeamsInv, MembersOK
  <2>3. QED
    BY <2>1, <2>2 DEF OmptTeamsInv, TasksOK
<1>3. \A u \in Threads : Member(u) /\ index[u] = index[t] => u = t
  BY <1>1 DEF OmptTeamsInv, MembersOK
<1>4. index[t] \in 0..size - 1 /\ (size = 1 => t = Primary)
  <2>1. CASE t = Primary
    BY <2>1 DEF ControlOK
  <2>2. CASE t # Primary
    <3>1. index[t] \in taken /\ taken \subseteq 1..size - 1
      BY <1>1, <2>2 DEF OmptTeamsInv, MembersOK
    <3>2. QED
      BY <3>1
  <2>3. QED
    BY <2>1, <2>2
<1>5. arrived # size
  BY DEF OmptTeamsInv, BarrierOK
<1>6. pc[Primary] \in Entering \cup {"forked", "running", "barrier"}
  <2>1. CASE size = 1
    <3>1. pc[Primary] = "running" \/ pc[Primary] \in Entering
      BY <1>4, <2>1 DEF Joining, WritesOverdue, CallerOK
    <3>2. QED
      BY <3>1
  <2>2. CASE size # 1
    BY <1>5, <2>2 DEF OmptTeamsInv, BarrierOK, TypeOK
  <2>3. QED
    BY <2>1, <2>2
<1>7. ~finalizing
  BY <1>6 DEF OmptTeamsInv, ThreadsOK, Entering
<1>8. QED
  BY <1>1, <1>2, <1>3, <1>4, <1>5, <1>6, <1>7

(* The task whose end a thread writes *)
LEMMA ObjectFacts ==
    ASSUME OmptTeamsInv, NEW t \in Threads, pc[t] \in Writing \cup {"decide"}
    PROVE  /\ object[t] \in Threads /\ Executes(object[t]) /\ index[object[t]] = index[t]
           /\ task[object[t]].index = index[t]
           /\ task[object[t]].parallel \in Parallels
           /\ parallel[task[object[t]].parallel].no \in 1..region
           /\ Open(object[t])
           /\ isOmpt[index[t]]
           /\ caller[t] # "overdue" => object[t] = t
           /\ caller[t] = "overdue" => WritesOverdue(t) /\ object[t] \in Workers /\ t \in Workers
<1> USE Facts, ThreadFacts
<1>1. CASE caller[t] = "overdue"
  <2>1. WritesOverdue(t)
    BY <1>1 DEF WritesOverdue, CallerOK, Writing
  <2>2. object[t] \in Workers /\ Executes(object[t]) /\ index[object[t]] = index[t] /\ task[object[t]].overdue
    BY <2>1 DEF OmptTeamsInv, OverdueOK, OverdueAt
  <2>3. t \in Workers
    BY <1>1 DEF CallerOK
  <2>4. QED
    BY <1>1, <2>1, <2>2, <2>3 DEF OmptTeamsInv, TasksOK, Open
<1>2. CASE caller[t] # "overdue"
  <2>1. Executes(t) /\ object[t] = t
    <3>1. Executes(t)
      BY <1>2 DEF ControlOK
    <3>2. pc[t] = "decide" \/ (HandlesOwn(t) /\ pc[t] # "barrier_done")
      BY <3>1 DEF HandlesOwn, Writing
    <3>3. QED
      BY <3>1, <3>2 DEF CallerOK
  <2>2. Open(t)
    BY <2>1 DEF Open, HandlesOwn
  <2>3. QED
    BY <1>2, <2>1, <2>2 DEF OmptTeamsInv, TasksOK
<1>3. QED
  BY <1>1, <1>2

LEMMA WaitOrderStep ==
    ASSUME OmptTeamsInv, NEW t \in Threads, WaitOrder(t)
    PROVE  OmptTeamsInv'
<1> USE Facts, ThreadFacts
<1>1. /\ pc[t] = "wait_order" /\ pc' = [pc EXCEPT ![t] = "task_begin"]
      /\ ~preserveOrder[index[t]]
      /\ UNCHANGED <<runtimeVars, poolVars, locationVars, eventVars, index, object,
                     caller, stamp, endVars, bug>>
  BY DEF WaitOrder, Goto, OrderPreserved
<1>2. TypesOK'
  BY <1>1 DEF TypesOK, TypeOK, Points, Entering, runtimeVars, poolVars, locationVars, eventVars, endVars
<1>3. pc'[t] = "task_begin" /\ OnlyMoves(t) /\ AllSame
  BY <1>1 DEF TypesOK, OnlyMoves, Same, AllSame, TeamSame, runtimeVars, poolVars, locationVars, eventVars, endVars
<1>4. /\ taskData' = taskData /\ index' = index /\ caller' = caller /\ object' = object
      /\ taskFree' = taskFree /\ finalizing' = finalizing /\ size' = size
  BY <1>1 DEF runtimeVars, poolVars, endVars
<1>5. ~Executes(t) /\ Joining(t)
  BY <1>1 DEF ControlOK, Entering, Joining
<1>6. ControlOK(t)' /\ CallerOK(t)'
  BY <1>1, <1>3, <1>4, <1>5 DEF ControlOK, CallerOK, Executes, HandlesOwn, Entering, Writing, AtEnd, OfPrimary
<1>7. StaysInTeam(t)
  BY <1>1, <1>3, <1>4, <1>5 DEF StaysInTeam, Joining, Entering, Barrier, AtEnd
<1>8. ASSUME NEW x \in Threads, Open(x), index[x] = index[t]  PROVE  FALSE
  <2>1. Executes(x)
    BY <1>8 DEF Open
  <2>2. CASE pc[x] = "running"
    <3>1. Member(x)
      BY <2>2, JoiningFacts
    <3>2. QED
      BY <1>1, <1>5, <1>8, <2>2, <3>1, JoiningFacts
  <2>3. CASE pc[x] \in AtEnd /\ stored[index[x]] = x
    BY <1>1, <1>8, <2>3 DEF OmptTeamsInv, OpenOK
  <2>4. CASE task[x].overdue
    <3>1. PICK u \in Threads : WritesOverdue(u) /\ object[u] = x
      BY <2>4 DEF OmptTeamsInv, OverdueOK, OverdueAt
    <3>2. index[u] = index[t] /\ Joining(u)
      BY <1>8, <3>1 DEF OmptTeamsInv, OverdueOK, OverdueAt, Joining
    <3>3. u = t
      BY <1>5, <3>2, JoiningFacts
    <3>4. QED
      BY <1>1, <3>1, <3>3 DEF WritesOverdue
  <2>5. CASE HandlesOwn(x)
    <3>1. ~finalizing
      BY <1>5, JoiningFacts
    <3>2. caller[x] # "finalize_tool"
      BY <3>1, ThreadFacts DEF CallerOK
    <3>3. Keeps(x)
      BY <2>5, <3>2 DEF Keeps
    <3>4. x = Primary
      BY <1>1, <1>8, <3>3 DEF OmptTeamsInv, OrderOK
    <3>5. t = Primary
      BY <1>1, <1>8, <3>4, ThreadFacts DEF ControlOK
    <3>6. QED
      BY <1>5, <2>1, <3>4, <3>5
  <2>6. QED
    BY <1>8, <2>2, <2>3, <2>4, <2>5 DEF Open
<1>9. StaysAtLocation(t)
  BY <1>1, <1>3, <1>4, <1>5, <1>8 DEF StaysAtLocation, Open, Keeps, HandlesOwn, Executes, WritesOverdue, AtEnd, SyncsAt, StoredOfPrimary, PastEnd
<1>10. QED
  BY <1>1, <1>2, <1>3, <1>6, <1>7, <1>9, QuietStep

(* Nobody is stored, and the thread has to wait at most for preserve_order. *)
LEMMA NothingOverdueStep ==
    ASSUME OmptTeamsInv, NEW t \in Threads, TriggerOverdue(t),
           isOmpt[index[t]] => stored[index[t]] = None
    PROVE  OmptTeamsInv'
<1> USE Facts, ThreadFacts
<1> DEFINE l == IF isOmpt[index[t]] THEN "wait_order" ELSE "task_begin"
<1>1. /\ pc[t] = "overdue" /\ pc' = [pc EXCEPT ![t] = l]
      /\ UNCHANGED <<task, stored, object, caller>>
      /\ UNCHANGED <<runtimeVars, parallel, parallelFree, taskFree, isOmpt,
                     preserveOrder, team, eventVars, index, stamp, endVars, bug>>
  BY DEF TriggerOverdue, Goto
<1>2. l \in {"wait_order", "task_begin"} /\ (l = "task_begin" => ~isOmpt[index[t]])
  OBVIOUS
<1>3. isOmpt[index[t]] => stored[index[t]] = None
  OBVIOUS
<1>4. l = "wait_order" => isOmpt[index[t]]
  OBVIOUS
<1> HIDE DEF l
<1>5. TypesOK'
  BY <1>1, <1>2 DEF TypesOK, TypeOK, Points, Entering, runtimeVars, eventVars, endVars
<1>6. pc'[t] = l /\ OnlyMoves(t) /\ AllSame
  BY <1>1 DEF TypesOK, OnlyMoves, Same, AllSame, TeamSame, runtimeVars, eventVars, endVars
<1>7. /\ taskData' = taskData /\ index' = index /\ caller' = caller /\ object' = object
      /\ taskFree' = taskFree /\ finalizing' = finalizing /\ size' = size /\ stored' = stored
  BY <1>1 DEF runtimeVars, endVars
<1>8. ~Executes(t)
  BY <1>1 DEF ControlOK, Entering
<1>9. ControlOK(t)' /\ CallerOK(t)'
  BY <1>1, <1>2, <1>6, <1>7, <1>8 DEF ControlOK, CallerOK, Executes, HandlesOwn, Entering, Writing, AtEnd, OfPrimary
<1>10. StaysInTeam(t)
  BY <1>1, <1>2, <1>6, <1>7, <1>8 DEF StaysInTeam, Joining, Entering, Barrier, AtEnd
<1>11. l = "task_begin" => \A x \in Threads : Open(x) => index[x] # index[t]
  BY <1>2 DEF OmptTeamsInv, TasksOK, Open
<1>12. StaysAtLocation(t)
  BY <1>1, <1>2, <1>3, <1>4, <1>6, <1>7, <1>8, <1>11 DEF StaysAtLocation, Open, Keeps, HandlesOwn, Executes, WritesOverdue, AtEnd, SyncsAt, StoredOfPrimary, PastEnd
<1>13. QED
  BY <1>1, <1>5, <1>2, <1>6, <1>9, <1>10, <1>12, QuietStep

LEMMA SyncRegionEndStep ==
    ASSUME OmptTeamsInv, NEW t \in Threads, SyncRegionEnd(t)
    PROVE  OmptTeamsInv'
<1> USE Facts, ThreadFacts
<1> DEFINE l == IF finalizing THEN "lock_finalize" ELSE "lock_order"
           c == IF finalizing THEN "finalize_tool" ELSE "sync_region"
<1>1. Executes(t) /\ taskData[t] = t
  BY DEF SyncRegionEnd, ControlOK, AtEnd, Executes
<1>2. /\ pc[t] = "barrier" /\ pc' = [pc EXCEPT ![t] = l]
      /\ parallel[task[t].parallel].no < region \/ arrived = size
      /\ object' = [object EXCEPT ![t] = t] /\ caller' = [caller EXCEPT ![t] = c]
      /\ UNCHANGED <<runtimeVars, poolVars, locationVars, eventVars, index, stamp,
                     endVars, bug>>
  BY <1>1 DEF SyncRegionEnd, Goto
<1>3. /\ finalizing => l = "lock_finalize" /\ c = "finalize_tool"
      /\ ~finalizing => l = "lock_order" /\ c = "sync_region"
  OBVIOUS
<1>4. finalizing => t # Primary
  BY <1>2 DEF OmptTeamsInv, ThreadsOK
<1> HIDE DEF l, c
<1>5. TypesOK'
  BY <1>2, <1>3 DEF TypesOK, TypeOK, Points, AtEnd, Callers, Ids, runtimeVars, poolVars, locationVars, eventVars, endVars
<1>6. pc'[t] = l /\ OnlyMoves(t) /\ AllSame /\ caller'[t] = c /\ object'[t] = t
  BY <1>2 DEF TypesOK, TypeOK, OnlyMoves, Same, AllSame, TeamSame, runtimeVars, poolVars, locationVars, eventVars, endVars
<1>7. /\ taskData' = taskData /\ index' = index /\ stored' = stored /\ task' = task
      /\ taskFree' = taskFree /\ finalizing' = finalizing /\ size' = size
  BY <1>2 DEF runtimeVars, poolVars, locationVars, endVars
<1>8. ControlOK(t)' /\ CallerOK(t)'
  BY <1>1, <1>2, <1>3, <1>4, <1>6, <1>7 DEF ControlOK, CallerOK, Executes, HandlesOwn, Entering, Writing, AtEnd, OfPrimary
<1>9. arrived < size /\ task[t].parallel = parallelData => FALSE
  <2>1. parallel[task[t].parallel].no \in 1..region /\ region \in Nat
    BY <1>1 DEF OmptTeamsInv, TasksOK, TypeOK
  <2>2. arrived # size /\ task[t].parallel = parallelData => parallel[task[t].parallel].no = region
    BY <2>1 DEF OmptTeamsInv, TasksOK
  <2>3. arrived < size => arrived # size
    BY DEF TypeOK
  <2>4. QED
    BY <1>2, <2>1, <2>2, <2>3
<1>10. StaysInTeam(t)
  BY <1>2, <1>3, <1>6, <1>7, <1>9 DEF StaysInTeam, Joining, WritesOverdue, Entering, Barrier, AtEnd
<1>11. StaysAtLocation(t)
  BY <1>1, <1>2, <1>3, <1>6, <1>7 DEF StaysAtLocation, Open, Keeps, HandlesOwn, Executes, WritesOverdue, Writing, AtEnd, SyncsAt, StoredOfPrimary, PastEnd
<1>12. QED
  BY <1>2, <1>3, <1>5, <1>6, <1>8, <1>10, <1>11, QuietStep

(* A read of the clock or of the primary's time, on the way to the next point *)
LEMMA ReadsTime ==
    ASSUME OmptTeamsInv, NEW t \in Threads, NEW o \in Parallels, NEW next \in Points,
           NEW time \in Nat,
           pc' = [pc EXCEPT ![t] = next],
           \/ stamp' = [stamp EXCEPT ![t] = Now] /\ clock' = Now
           \/ stamp' = [stamp EXCEPT ![t] = time] /\ UNCHANGED clock,
           UNCHANGED <<runtimeVars, poolVars, locationVars, lastTimestamp, events, index,
                       object, caller, endVars, bug>>
    PROVE  TypesOK'
<1> USE Facts, ThreadFacts
<1>1. Now \in Nat \ {0}
  BY OmptTeamsAssumption, SMTT(30) DEF Now, TypesOK
<1>2. stamp' \in [Threads -> Nat] /\ clock' \in Nat \ {0}
  BY <1>1, ZenonT(40) DEF TypesOK
<1>3. pc' \in [Threads -> Points]
  BY DEF TypesOK
<1>4. QED
  BY <1>2, <1>3 DEF TypesOK, TypeOK, runtimeVars, poolVars, locationVars, endVars

LEMMA BarrierEndStep ==
    ASSUME OmptTeamsInv, NEW t \in Threads, BarrierEnd(t)
    PROVE  OmptTeamsInv'
<1> USE Facts, ThreadFacts
<1> DEFINE o == task[object[t]].parallel
<1>1. /\ pc[t] = "barrier_end" /\ pc' = [pc EXCEPT ![t] = "barrier_exit"]
      /\ UNCHANGED <<runtimeVars, poolVars, locationVars, lastTimestamp, events, index,
                     object, caller, endVars, bug>>
  BY DEF BarrierEnd, Goto
<1>2. /\ o \in Parallels /\ task[object[t]].index = index[t]
      /\ caller[t] = "overdue" => WritesOverdue(t)
      /\ caller[t] # "overdue" => object[t] = t /\ Executes(t)
  BY <1>1, ObjectFacts DEF Writing
<1>3. IF index[t] = 0 THEN stamp' = [stamp EXCEPT ![t] = Now] /\ clock' = Now
      ELSE stamp' = [stamp EXCEPT ![t] = parallel[o].barrierEnd] /\ UNCHANGED clock
  BY <1>2 DEF BarrierEnd
<1> HIDE DEF o
<1>4. parallel[o].barrierEnd \in Nat
  BY <1>2 DEF TypeOK
<1>5. TypesOK'
  BY <1>1, <1>2, <1>3, <1>4, ReadsTime DEF Points, Writing
<1>6. pc'[t] = "barrier_exit" /\ OnlyMoves(t) /\ AllSame
  BY <1>1, <1>3 DEF TypesOK, TypeOK, OnlyMoves, Same, AllSame, TeamSame, runtimeVars, poolVars, locationVars, endVars
<1>7. /\ taskData' = taskData /\ index' = index /\ stored' = stored /\ task' = task
      /\ caller' = caller /\ object' = object
      /\ taskFree' = taskFree /\ finalizing' = finalizing /\ size' = size
  BY <1>1 DEF runtimeVars, poolVars, locationVars, endVars
<1>8. t = Primary => stamp'[t] # 0
  <2>1. Now # 0
    BY OmptTeamsAssumption DEF Now, TypesOK
  <2>2. QED
    BY <1>3, <2>1 DEF ControlOK, TypesOK
<1>9. ControlOK(t)' /\ CallerOK(t)'
  BY <1>1, <1>2, <1>6, <1>7 DEF ControlOK, CallerOK, Executes, HandlesOwn, Entering, Writing, AtEnd, OfPrimary
<1>10. StaysInTeam(t)
  <2>1. Executes(t) /\ task[t].parallel = parallelData /\ arrived < size /\ size > 1 => FALSE
    BY <1>1 DEF OmptTeamsInv, BarrierOK
  <2>2. QED
    BY <1>1, <1>6, <1>7, <2>1 DEF StaysInTeam, Joining, WritesOverdue, Entering, Barrier, AtEnd
<1>11. StaysAtLocation(t)
  BY <1>1, <1>2, <1>6, <1>7, <1>8 DEF StaysAtLocation, Open, Keeps, HandlesOwn, Executes, WritesOverdue, Writing, AtEnd, SyncsAt, StoredOfPrimary, PastEnd
<1>12. QED
  BY <1>1, <1>5, <1>6, <1>9, <1>10, <1>11, QuietStep

LEMMA TaskEndStep ==
    ASSUME OmptTeamsInv, NEW t \in Threads, TaskEnd(t)
    PROVE  OmptTeamsInv'
<1> USE Facts, ThreadFacts
<1> DEFINE o == task[object[t]].parallel
<1>1. /\ pc[t] = "task_end" /\ pc' = [pc EXCEPT ![t] = "task_exit"]
      /\ UNCHANGED <<runtimeVars, poolVars, locationVars, lastTimestamp, events, index,
                     object, caller, endVars, bug>>
  BY DEF TaskEnd, Goto
<1>2. /\ o \in Parallels /\ task[object[t]].index = index[t]
      /\ caller[t] = "overdue" => WritesOverdue(t)
      /\ caller[t] # "overdue" => object[t] = t /\ Executes(t)
  BY <1>1, ObjectFacts DEF Writing
<1>3. IF index[t] = 0 THEN stamp' = [stamp EXCEPT ![t] = Now] /\ clock' = Now
      ELSE stamp' = [stamp EXCEPT ![t] = parallel[o].taskEnd] /\ UNCHANGED clock
  BY <1>2 DEF TaskEnd
<1> HIDE DEF o
<1>4. parallel[o].taskEnd \in Nat
  BY <1>2 DEF TypeOK
<1>5. TypesOK'
  BY <1>1, <1>2, <1>3, <1>4, ReadsTime DEF Points, Writing
<1>6. pc'[t] = "task_exit" /\ OnlyMoves(t) /\ AllSame
  BY <1>1, <1>3 DEF TypesOK, TypeOK, OnlyMoves, Same, AllSame, TeamSame, runtimeVars, poolVars, locationVars, endVars
<1>7. /\ taskData' = taskData /\ index' = index /\ stored' = stored /\ task' = task
      /\ caller' = caller /\ object' = object
      /\ taskFree' = taskFree /\ finalizing' = finalizing /\ size' = size
  BY <1>1 DEF runtimeVars, poolVars, locationVars, endVars
<1>8. t = Primary => stamp'[t] # 0
  <2>1. Now # 0
    BY OmptTeamsAssumption DEF Now, TypesOK
  <2>2. QED
    BY <1>3, <2>1 DEF ControlOK, TypesOK
<1>9. ControlOK(t)' /\ CallerOK(t)'
  BY <1>1, <1>2, <1>6, <1>7 DEF ControlOK, CallerOK, Executes, HandlesOwn, Entering, Writing, AtEnd, OfPrimary
<1>10. StaysInTeam(t)
  <2>1. Executes(t) /\ task[t].parallel = parallelData /\ arrived < size /\ size > 1 => FALSE
    BY <1>1 DEF OmptTeamsInv, BarrierOK
  <2>2. QED
    BY <1>1, <1>6, <1>7, <2>1 DEF StaysInTeam, Joining, WritesOverdue, Entering, Barrier, AtEnd
<1>11. StaysAtLocation(t)
  BY <1>1, <1>2, <1>6, <1>7, <1>8 DEF StaysAtLocation, Open, Keeps, HandlesOwn, Executes, WritesOverdue, Writing, AtEnd, SyncsAt, StoredOfPrimary, PastEnd
<1>12. QED
  BY <1>1, <1>5, <1>6, <1>9, <1>10, <1>11, QuietStep

(* The thread comes too late: another one has taken its task. *)
LEMMA TakenStep ==
    ASSUME OmptTeamsInv, NEW t \in Threads, ~StoredHere(t),
           BarrierImplicitParallelEnd(t) \/ FinalizeToolEnd(t)
    PROVE  OmptTeamsInv'
<1> USE Facts, ThreadFacts
<1>1. /\ pc[t] \in {"lock_order", "lock_finalize"} /\ pc' = [pc EXCEPT ![t] = "release"]
      /\ UNCHANGED <<runtimeVars, poolVars, locationVars, eventVars, index, object,
                     caller, stamp, finalizing, bug>>
      /\ finalizeTool' \in BOOLEAN
  BY DEF BarrierImplicitParallelEnd, FinalizeToolEnd, Goto, TypeOK, locationVars, endVars
<1>2. Executes(t) /\ object[t] = t /\ stored[index[t]] # t
  BY <1>1 DEF StoredHere, ControlOK, CallerOK, AtEnd
<1>3. TypesOK'
  BY <1>1 DEF TypesOK, TypeOK, Points, runtimeVars, poolVars, locationVars, eventVars
<1>4. pc'[t] = "release" /\ OnlyMoves(t) /\ AllSame
  BY <1>1 DEF TypesOK, TypeOK, OnlyMoves, Same, AllSame, TeamSame, runtimeVars, poolVars, locationVars, eventVars
<1>5. /\ taskData' = taskData /\ index' = index /\ stored' = stored /\ task' = task
      /\ caller' = caller /\ object' = object
      /\ taskFree' = taskFree /\ finalizing' = finalizing /\ size' = size
  BY <1>1 DEF runtimeVars, poolVars, locationVars
<1>6. t # Primary
  BY <1>1, <1>2 DEF OmptTeamsInv, StoredOK, StoredAt, StoredOfPrimary, AtEnd, ControlOK
<1>7. ControlOK(t)' /\ CallerOK(t)'
  BY <1>1, <1>2, <1>4, <1>5, <1>6 DEF ControlOK, CallerOK, Executes, HandlesOwn, Entering, Writing, AtEnd, OfPrimary
<1>8. StaysInTeam(t)
  <2>1. task[t].parallel = parallelData /\ arrived < size /\ size > 1 => FALSE
    BY <1>1, <1>2 DEF OmptTeamsInv, BarrierOK
  <2>2. QED
    BY <1>1, <1>4, <1>5, <1>6, <2>1 DEF StaysInTeam, Joining, WritesOverdue, Entering
<1>9. StaysAtLocation(t)
  BY <1>1, <1>2, <1>4, <1>5, <1>6 DEF StaysAtLocation, Open, Keeps, HandlesOwn, Executes, WritesOverdue, Writing, AtEnd, SyncsAt
<1>10. QED
  BY <1>1, <1>3, <1>4, <1>6, <1>7, <1>8, <1>9, QuietStep

(* The primary knows the end of its region only when it has written it. *)
LEMMA EndFacts ==
    ASSUME OmptTeamsInv, NEW t \in Threads, Executes(t)
    PROVE  /\ finalizing => TaskEndKnown(task[t].parallel)
           /\ t = Primary /\ ~PastEnd => ~TaskEndKnown(task[t].parallel)
  BY Facts DEF OmptTeamsInv, EndKnownOK, PastEnd, ThreadsOK, TasksOK

LEMMA DecideStep ==
    ASSUME OmptTeamsInv, NEW t \in Threads, Decide(t)
    PROVE  OmptTeamsInv'
<1> USE Facts, ThreadFacts
<1> DEFINE o == task[object[t]].parallel
<1>1. pc[t] = "decide" /\ Executes(t) /\ object[t] = t
  BY DEF Decide, ControlOK, CallerOK
<1>2. /\ UNCHANGED <<runtimeVars, poolVars, locationVars, eventVars, endVars>>
      /\ bug' = IF caller[t] = "finalize_tool" /\ ~TaskEndKnown(o)
                THEN "finalize_tool: no time" ELSE bug
  BY DEF Decide, BugOn
<1>3. /\ finalizing => TaskEndKnown(o)
      /\ t = Primary => ~TaskEndKnown(o)
  BY <1>1, EndFacts DEF PastEnd
<1>4. /\ caller[t] \in {"sync_region", "finalize_tool"}
      /\ caller[t] = "finalize_tool" => finalizing
      /\ caller[t] = "finalize_tool" => TaskEndKnown(o)
  BY <1>1, <1>3 DEF CallerOK
<1>5. /\ taskData' = taskData /\ stored' = stored /\ task' = task
      /\ taskFree' = taskFree /\ finalizing' = finalizing /\ size' = size
  BY <1>2 DEF runtimeVars, poolVars, locationVars, endVars
<1>6. task[t].parallel = parallelData /\ arrived < size /\ size > 1 => FALSE
  BY <1>1 DEF OmptTeamsInv, BarrierOK
<1>7. CASE TaskEndKnown(o)
  <2>1. pc' = [pc EXCEPT ![t] = "task_end"] /\ UNCHANGED <<index, object, caller, stamp>>
    BY <1>7 DEF Decide, Goto
  <2>2. TypesOK'
    BY <1>2, <1>7, <2>1 DEF TypesOK, TypeOK, Points, Writing, runtimeVars, poolVars, locationVars, eventVars, endVars
  <2>3. pc'[t] = "task_end" /\ OnlyMoves(t) /\ AllSame /\ t # Primary
    BY <1>2, <1>3, <1>7, <2>1 DEF TypesOK, TypeOK, OnlyMoves, Same, AllSame, TeamSame, runtimeVars, poolVars, locationVars, eventVars, endVars
  <2>4. ControlOK(t)' /\ CallerOK(t)'
    BY <1>1, <1>4, <1>5, <2>1, <2>3 DEF ControlOK, CallerOK, Executes, HandlesOwn, Entering, Writing, AtEnd, OfPrimary
  <2>5. StaysInTeam(t)
    BY <1>1, <1>4, <1>5, <1>6, <2>1, <2>3 DEF StaysInTeam, Joining, WritesOverdue, Entering
  <2>6. StaysAtLocation(t)
    BY <1>1, <1>4, <1>5, <2>1, <2>3 DEF StaysAtLocation, Open, Keeps, HandlesOwn, Executes, WritesOverdue, Writing, AtEnd, SyncsAt
  <2>7. bug' \in TimestampBugs \cup {None}
    BY <1>2, <1>7
  <2>8. QED
    BY <2>2, <2>3, <2>4, <2>5, <2>6, <2>7, QuietStep
<1>8. CASE ~TaskEndKnown(o)
  <2>1. /\ pc' = [pc EXCEPT ![t] = "barrier_done"] /\ index' = index
        /\ object' = [object EXCEPT ![t] = None] /\ caller' = [caller EXCEPT ![t] = None]
        /\ stamp' = [stamp EXCEPT ![t] = 0]
    BY <1>8 DEF Decide, Goto, Return
  <2>2. TypesOK'
    BY <1>2, <1>4, <1>8, <2>1 DEF TypesOK, TypeOK, Points, Ids, runtimeVars, poolVars, locationVars, eventVars, endVars
  <2>3. pc'[t] = "barrier_done" /\ caller'[t] = None /\ OnlyMoves(t) /\ AllSame
    BY <1>2, <2>1 DEF TypesOK, TypeOK, OnlyMoves, Same, AllSame, TeamSame, runtimeVars, poolVars, locationVars, eventVars, endVars
  <2>4. caller[t] = "sync_region"
    BY <1>4, <1>8
  <2>5. None \notin {"finalize_tool", "overdue"}
    BY DEF Callers
  <2>6. ControlOK(t)'
    BY <1>1, <1>5, <2>1, <2>3 DEF ControlOK, Executes, Entering, Writing, AtEnd, OfPrimary
  <2>7. CallerOK(t)'
    BY <1>1, <1>5, <2>1, <2>3, <2>5 DEF CallerOK, HandlesOwn, Writing
  <2>8. StaysInTeam(t)
    BY <1>1, <1>5, <1>6, <2>1, <2>3 DEF StaysInTeam, Joining, WritesOverdue, Entering, Barrier
  <2>9. SyncsAt(t)'
    BY <1>1, <1>5, <2>3 DEF SyncsAt, AtEnd
  <2>10. StaysAtLocation(t)
    BY <1>1, <1>5, <2>1, <2>3, <2>4, <2>9 DEF StaysAtLocation, Open, Keeps, HandlesOwn, Executes, WritesOverdue, Writing, AtEnd, StoredOfPrimary, PastEnd
  <2>11. bug' \in TimestampBugs \cup {None}
    BY <1>2, <1>4, <1>8
  <2>12. QED
    BY <1>1, <2>2, <2>3, <2>6, <2>7, <2>8, <2>10, <2>11, QuietStep
<1>9. QED
  BY <1>7, <1>8

LEMMA ImplicitTaskEndStep ==
    ASSUME OmptTeamsInv, NEW t \in Threads, ImplicitTaskEnd(t)
    PROVE  OmptTeamsInv'
<1> USE Facts, ThreadFacts
<1>1. /\ UNCHANGED <<runtimeVars, poolVars, locationVars, eventVars, endVars, bug>>
      /\ pc[t] = "barrier_done" \/ (pc[t] = "running" /\ size = 1)
  BY DEF ImplicitTaskEnd
<1>2. pc[t] = "running" => t = Primary /\ Executes(t)
  BY <1>1, JoiningFacts DEF ControlOK
<1>3. /\ taskData' = taskData /\ stored' = stored /\ task' = task
      /\ taskFree' = taskFree /\ finalizing' = finalizing /\ size' = size
  BY <1>1 DEF runtimeVars, poolVars, locationVars, endVars
<1>4. task[t].parallel = parallelData /\ arrived < size /\ size > 1 /\ Executes(t) => FALSE
  BY <1>1 DEF OmptTeamsInv, BarrierOK
<1>5. t = Primary /\ pc[t] = "barrier_done" => size # 1
  BY DEF OmptTeamsInv, BarrierOK, Barrier
<1>6. CASE Executes(t)
  <2>1. taskData[t] = t
    BY <1>6 DEF ControlOK, Executes
  <2>2. /\ pc' = [pc EXCEPT ![t] = "task_end"] /\ object' = [object EXCEPT ![t] = t]
        /\ caller' = [caller EXCEPT ![t] = "implicit_task"] /\ UNCHANGED <<index, stamp>>
    BY <2>1 DEF ImplicitTaskEnd, Goto
  <2>3. TypesOK'
    BY <1>1, <2>2 DEF TypesOK, TypeOK, Points, Callers, Writing, Ids, runtimeVars, poolVars, locationVars, eventVars, endVars
  <2>4. pc'[t] = "task_end" /\ caller'[t] = "implicit_task" /\ object'[t] = t /\ OnlyMoves(t) /\ AllSame
    BY <1>1, <2>2 DEF TypesOK, TypeOK, OnlyMoves, Same, AllSame, TeamSame, runtimeVars, poolVars, locationVars, eventVars, endVars
  <2>5. ControlOK(t)'
    BY <1>3, <1>6, <2>2, <2>4 DEF ControlOK, Executes, Entering, Writing, AtEnd, OfPrimary
  <2>6. CallerOK(t)'
    BY <1>3, <2>2, <2>4 DEF CallerOK, HandlesOwn
  <2>7. StaysInTeam(t)
    BY <1>1, <1>3, <1>4, <1>6, <2>2, <2>4 DEF StaysInTeam, Joining, WritesOverdue, Entering, Barrier, AtEnd
  <2>8. SyncsAt(t)'
    BY <1>1, <1>3, <1>6, <2>4 DEF SyncsAt, AtEnd
  <2>9. t = Primary => StoredOfPrimary' = StoredOfPrimary
    BY <1>1, <1>3, <1>5, <2>4 DEF StoredOfPrimary, AtEnd
  <2>10. Open(t)' /\ Open(t) /\ Keeps(t)' /\ (t # Primary => Keeps(t))
    BY <1>1, <1>2, <1>3, <1>6, <2>4 DEF Open, Keeps, HandlesOwn, Executes, Writing
  <2>11. ~WritesOverdue(t)' /\ ~WritesOverdue(t)
    BY <1>1, <2>4 DEF WritesOverdue
  <2>12. StaysAtLocation(t)
    BY <1>1, <1>2, <2>4, <2>8, <2>9, <2>10, <2>11 DEF StaysAtLocation, PastEnd, AtEnd
  <2>13. QED
    BY <1>1, <2>3, <2>4, <2>5, <2>6, <2>7, <2>12, QuietStep
<1>7. CASE ~Executes(t)
  <2>1. t # Primary /\ pc[t] = "barrier_done" /\ taskData[t] = None
    BY <1>1, <1>2, <1>7 DEF ControlOK, Executes
  <2>2. /\ pc' = [pc EXCEPT ![t] = "idle"] /\ index' = [index EXCEPT ![t] = 0]
        /\ object' = [object EXCEPT ![t] = None] /\ caller' = [caller EXCEPT ![t] = None]
        /\ stamp' = [stamp EXCEPT ![t] = 0]
    BY <2>1 DEF ImplicitTaskEnd, Goto, Return
  <2>3. TypesOK'
    BY <1>1, <2>2 DEF TypesOK, TypeOK, Points, Ids, runtimeVars, poolVars, locationVars, eventVars, endVars
  <2>4. pc'[t] = "idle" /\ caller'[t] = None /\ index'[t] = 0 /\ OnlyMoves(t) /\ AllSame
    BY <1>1, <2>2 DEF TypesOK, TypeOK, OnlyMoves, Same, AllSame, TeamSame, runtimeVars, poolVars, locationVars, eventVars, endVars
  <2>5. None \notin {"finalize_tool", "overdue"}
    BY DEF Callers
  <2>6. ControlOK(t)'
    BY <1>3, <2>1, <2>2, <2>4 DEF ControlOK, Executes, Entering, Writing, AtEnd, OfPrimary
  <2>7. CallerOK(t)'
    BY <1>3, <2>1, <2>4, <2>5 DEF CallerOK, HandlesOwn, Executes
  <2>8. StaysInTeam(t)
    BY <1>3, <1>7, <2>1, <2>4 DEF StaysInTeam, Joining, WritesOverdue, Entering
  <2>9. ~Executes(t)' /\ ~WritesOverdue(t)' /\ ~WritesOverdue(t)
    BY <1>3, <1>7, <2>1, <2>4 DEF Executes, WritesOverdue
  <2>10. StaysAtLocation(t)
    BY <1>7, <2>1, <2>4, <2>9 DEF StaysAtLocation, Open, Keeps, HandlesOwn, SyncsAt, AtEnd
  <2>11. QED
    BY <1>1, <2>1, <2>3, <2>4, <2>6, <2>7, <2>8, <2>10, QuietStep
<1>8. QED
  BY <1>6, <1>7

-----------------------------------------------------------------------------
(* Steps at a location *)

(* The events of a location follow its task that has not ended. *)
LEMMA EventsFrame ==
    ASSUME OmptTeamsInv, events' = events, region' = region,
           \A u \in Threads :
             /\ Open(u)' <=> Open(u)
             /\ Open(u) => /\ index'[u] = index[u] /\ (pc'[u] = "running" => pc[u] = "running")
                           /\ task'[u].parallel = task[u].parallel /\ task'[u].syncs = task[u].syncs,
           \A o \in Parallels : parallel'[o].no = parallel[o].no
                                /\ parallel'[o].recorded = parallel[o].recorded,
           \/ pc'[Primary] = pc[Primary]
           \/ pc'[Primary] \notin Entering \cup {"serial", "finalizing", "done", "forked",
                                                "release", "parallel_end"}
    PROVE  EventsOK'
<1> USE Facts
<1>1. EventsOK
  BY DEF OmptTeamsInv
<1>2. ASSUME NEW x \in Threads, Open(x)'  PROVE  Written(x)'
  <2>1. task[x].parallel \in Parallels
    BY <1>2 DEF OmptTeamsInv, TasksOK, Open
  <2>2. Written(x)
    BY <1>1, <1>2 DEF EventsOK
  <2>3. QED
    BY <1>2, <2>1, <2>2 DEF Written
<1>3. ASSUME NEW l \in Indices \ {0}, \A x \in Threads : Open(x)' => index'[x] # l
      PROVE  events'[l].kind \in {"none", "end"}
  BY <1>1, <1>3 DEF EventsOK
<1>4. QED
  BY <1>1, <1>2, <1>3 DEF EventsOK

(* Tasks keep their places. *)
LEMMA TasksFrame ==
    ASSUME OmptTeamsInv, region' = region, parallelData' = parallelData,
           \A o \in Parallels : parallel'[o].no = parallel[o].no,
           \A u \in Threads : Executes(u)' => Executes(u),
           \A u \in Threads : Executes(u)' =>
             /\ index'[u] = index[u] /\ (pc'[u] = "running" => pc[u] = "running")
             /\ task'[u].parallel = task[u].parallel /\ task'[u].index = task[u].index,
           \A l \in Indices : isOmpt[l] => isOmpt'[l]
    PROVE  TasksOK'
<1>1. TasksOK
  BY DEF OmptTeamsInv
<1>2. region' > 0 => parallelData' \in Parallels /\ parallel'[parallelData'].no = region'
  BY <1>1 DEF TasksOK
<1>3. ASSUME NEW x \in Threads, Executes(x)'
      PROVE  /\ task'[x].index = index'[x] /\ isOmpt'[index'[x]]
             /\ task'[x].parallel \in Parallels /\ parallel'[task'[x].parallel].no \in 1..region'
             /\ pc'[x] = "running" \/ x = Primary => task'[x].parallel = parallelData'
  <2>1. /\ task[x].index = index[x] /\ isOmpt[index[x]]
        /\ task[x].parallel \in Parallels /\ parallel[task[x].parallel].no \in 1..region
        /\ pc[x] = "running" \/ x = Primary => task[x].parallel = parallelData
    BY <1>1, <1>3 DEF TasksOK
  <2>2. index[x] \in Indices
    BY ThreadFacts
  <2>3. QED
    BY <1>3, <2>1, <2>2
<1>4. QED
  BY <1>2, <1>3 DEF TasksOK

(* The thread that begins ends the task that is stored for its location. *)
LEMMA TakesOverdueStep ==
    ASSUME OmptTeamsInv, NEW t \in Threads, TriggerOverdue(t),
           isOmpt[index[t]], stored[index[t]] # None
    PROVE  OmptTeamsInv'
<1> USE Facts, ThreadFacts
<1>a. PICK l \in Indices : l = index[t]
  OBVIOUS
<1>b. PICK x : x = stored[l]
  OBVIOUS
<1>1. /\ pc[t] = "overdue" /\ pc' = [pc EXCEPT ![t] = "barrier_end"]
      /\ task' = [task EXCEPT ![x].overdue = TRUE]
      /\ stored' = [stored EXCEPT ![l] = None]
      /\ object' = [object EXCEPT ![t] = x] /\ caller' = [caller EXCEPT ![t] = "overdue"]
      /\ UNCHANGED <<runtimeVars, parallel, parallelFree, taskFree, isOmpt,
                     preserveOrder, team, eventVars, index, stamp, endVars, bug>>
  BY <1>a, <1>b DEF TriggerOverdue, MarkOverdue, Goto
<1>2. Joining(t) /\ ~Executes(t) /\ ~WritesOverdue(t)
  BY <1>1 DEF Joining, ControlOK, Entering, WritesOverdue
<1>3. t # Primary /\ l # 0 /\ l \in Indices
  <2>1. t = Primary => stored[0] = None /\ l = 0
    BY <1>1, <1>a DEF OmptTeamsInv, StoredOK, StoredAt, StoredOfPrimary, AtEnd, ControlOK
  <2>2. QED
    BY <1>1, <1>a, <2>1 DEF ControlOK
<1>4. x \in Workers /\ x \in Threads /\ Executes(x) /\ index[x] = l /\ ~task[x].overdue
      /\ pc[x] \in AtEnd \cup {"running"} /\ stored[l] = x /\ x # None
  BY <1>2, <1>3, <1>a, <1>b DEF OmptTeamsInv, StoredOK, StoredAt
<1>5. \A u \in Threads : Member(u) /\ index[u] = l => u = t
  BY <1>2, <1>a, JoiningFacts
<1>6. x # t /\ pc[x] \in AtEnd
  <2>1. x # t
    BY <1>2, <1>4
  <2>2. pc[x] = "running" => Member(x)
    BY <1>4, JoiningFacts
  <2>3. QED
    BY <1>4, <1>5, <2>1, <2>2
<1>7. TypesOK'
  <2>1. task' \in [Threads -> TaskType]
    BY <1>1, <1>4, MarkChange
  <2>2. QED
    BY <1>1, <1>3, <1>4, <2>1 DEF TypesOK, TypeOK, TaskType, Points, Writing, Callers, Ids, runtimeVars, eventVars, endVars
<1>8. /\ taskData' = taskData /\ index' = index /\ taskFree' = taskFree /\ parallel' = parallel
      /\ finalizing' = finalizing /\ size' = size /\ events' = events /\ region' = region
      /\ isOmpt' = isOmpt /\ preserveOrder' = preserveOrder /\ parallelData' = parallelData
  BY <1>1 DEF runtimeVars, eventVars, endVars
<1>10. \A u \in Threads :
         /\ task'[u].parallel = task[u].parallel /\ task'[u].syncs = task[u].syncs
         /\ task'[u].index = task[u].index /\ (task'[u].overdue <=> u = x \/ task[u].overdue)
  BY <1>1, <1>4, MarkChange
<1>9. /\ OnlyMoves(t) /\ TeamSame
      /\ pc'[t] = "barrier_end" /\ object'[t] = x /\ caller'[t] = "overdue"
  BY <1>1, <1>10 DEF TypesOK, TypeOK, OnlyMoves, Same, TeamSame, runtimeVars
<1>11. \A k \in Indices : stored'[k] = IF k = l THEN None ELSE stored[k]
  BY <1>1, <1>3 DEF TypeOK
<1>12. ThreadsOK'
  <2>1. ControlOK(t)'
    BY <1>1, <1>2, <1>3, <1>8, <1>9 DEF ControlOK, Executes, Entering, Writing, AtEnd, OfPrimary
  <2>2. CallerOK(t)'
    BY <1>2, <1>3, <1>8, <1>9 DEF CallerOK, HandlesOwn, Executes
  <2>3. QED
    BY <1>3, <1>8, <1>9, <2>1, <2>2, ThreadsFrame
<1>13. WritesOverdue(t)' /\ \A u \in Threads \ {t} : WritesOverdue(u)' <=> WritesOverdue(u)
  BY <1>9 DEF WritesOverdue, OnlyMoves, Same
<1>14. MembersOK' /\ BarrierOK' /\ ReferencesOK'
  <2>1. StaysInTeam(t)
    BY <1>2, <1>3, <1>8, <1>9, <1>13 DEF StaysInTeam, Joining
  <2>2. QED
    BY <1>9, <2>1, TeamFrame
<1>15. \A u \in Threads : Executes(u)' <=> Executes(u)
  BY <1>8 DEF Executes
<1>16. \A u \in Threads : Executes(u) => pc'[u] = pc[u] /\ caller'[u] = caller[u] /\ object'[u] = object[u]
  BY <1>2, <1>9 DEF OnlyMoves, Same
<1>17. \A u \in Threads : WritesOverdue(u) => index[u] # l /\ u # t /\ object'[u] = object[u]
  <2>1. ASSUME NEW u \in Threads, WritesOverdue(u)  PROVE  index[u] # l /\ u # t
    BY <1>2, <1>5, <2>1 DEF Member, Joining
  <2>2. QED
    BY <1>9, <2>1 DEF OnlyMoves, Same
<1>18. OverdueOK'
  <2>1. OverdueOK
    BY DEF OmptTeamsInv
  <2>2. ASSUME NEW u \in Threads  PROVE  OverdueAt(u)'
    <3>1. CASE u = t
      <4>1. stored'[index'[t]] = None /\ index'[x] = index'[t]
        BY <1>3, <1>4, <1>8, <1>11, <1>a
      <4>2. x \in Workers
        BY <1>4
      <4>5. Executes(x)'
        BY <1>4, <1>15
      <4>6. task'[x].overdue
        BY <1>1, <1>4, MarkChange
      <4>7. pc'[x] \in AtEnd \cup {"release"}
        BY <1>4, <1>6, <1>16
      <4>3. QED
        BY <1>9, <3>1, <4>1, <4>2, <4>5, <4>6, <4>7 DEF OverdueAt
    <3>2. CASE u # t /\ WritesOverdue(u)
      <4>0. PICK y : y = object[u]
        OBVIOUS
      <4>1. object'[u] = y /\ index[u] # l /\ index[u] \in Indices
        BY <1>17, <3>2, <4>0, ThreadFacts
      <4>2. /\ y \in Workers /\ Executes(y) /\ task[y].overdue /\ index[y] = index[u]
            /\ pc[y] \in AtEnd \cup {"release"} /\ stored[index[u]] = None
        BY <2>1, <3>2, <4>0 DEF OverdueOK, OverdueAt
      <4>5. y # x
        BY <1>4, <4>2
      <4>6. task'[y] = task[y]
        BY <1>1, <1>4, <4>2, <4>5, MarkChange
      <4>3. /\ y \in Workers /\ Executes(y)' /\ task'[y].overdue /\ index'[y] = index'[u]
            /\ pc'[y] \in AtEnd \cup {"release"} /\ stored'[index'[u]] = None
        BY <1>8, <1>11, <1>15, <1>16, <4>1, <4>2, <4>6
      <4>4. QED
        BY <4>1, <4>3 DEF OverdueAt
    <3>3. CASE u # t /\ ~WritesOverdue(u)
      BY <1>13, <3>3 DEF OverdueAt
    <3>4. QED
      BY <3>1, <3>2, <3>3
  <2>3. ASSUME NEW y \in Threads, task'[y].overdue
        PROVE  Executes(y)' /\ \E u \in Threads : WritesOverdue(u)' /\ object'[u] = y
    <3>1. CASE y = x
      BY <1>4, <1>9, <1>13, <1>15, <3>1
    <3>2. CASE y # x
      <4>1. Executes(y) /\ \E u \in Threads : WritesOverdue(u) /\ object[u] = y
        BY <1>10, <2>1, <2>3, <3>2 DEF OverdueOK, OverdueAt
      <4>2. QED
        BY <1>13, <1>15, <1>17, <4>1
    <3>3. QED
      BY <3>1, <3>2
  <2>4. QED
    BY <2>2, <2>3 DEF OverdueOK, OverdueAt
<1>19. TasksOK'
  BY <1>8, <1>10, <1>15, <1>16, TasksFrame
<1>20. \A u \in Threads : pc[u] = "running" => Executes(u) /\ index[u] # l
  BY <1>1, <1>5, JoiningFacts DEF ControlOK
<1>21. pc'[Primary] = pc[Primary] /\ StoredOfPrimary' = StoredOfPrimary
  BY <1>3, <1>8, <1>9 DEF OnlyMoves, Same, StoredOfPrimary
<1>22. \A u \in Threads : pc'[u] \in {"running", "task_begin", "wait_order"} => pc'[u] = pc[u]
  BY <1>9 DEF OnlyMoves, Same
<1>23. StoredOK'
  <2>1. StoredOK
    BY DEF OmptTeamsInv
  <2>2. ASSUME NEW k \in Indices \ {0}  PROVE  StoredAt(k)'
    <3>1. CASE k # l /\ stored[k] # None
      <4>0. PICK y : y = stored[k]
        OBVIOUS
      <4>1. stored'[k] = y /\ StoredAt(k)
        BY <1>11, <2>1, <3>1, <4>0 DEF StoredOK
      <4>2. /\ y \in Workers /\ Executes(y) /\ index[y] = k
            /\ pc[y] \in AtEnd \cup {"running"} /\ ~task[y].overdue
        BY <3>1, <4>0, <4>1 DEF StoredAt
      <4>3. QED
        BY <1>4, <1>8, <1>10, <1>15, <1>16, <3>1, <4>1, <4>2 DEF StoredAt
    <3>2. CASE k = l \/ stored[k] = None
      BY <1>11, <3>2 DEF StoredAt
    <3>3. QED
      BY <3>1, <3>2
  <2>3. \A u \in Threads : pc'[u] = "running" => stored'[index'[u]] = u
    BY <1>8, <1>11, <1>20, <1>22, <2>1, ThreadFacts DEF StoredOK, StoredAt
  <2>4. stored'[0] = StoredOfPrimary'
    BY <1>3, <1>11, <1>21, <2>1 DEF StoredOK, StoredAt
  <2>5. QED
    BY <2>2, <2>3, <2>4 DEF StoredOK, StoredAt
<1>24. \A u \in Threads : Open(u)' <=> Open(u)
  <2>1. ASSUME NEW u \in Threads, Executes(u)  PROVE  Open(u)' <=> Open(u)
    <3>1. u = x => Open(u)' /\ Open(u)
      BY <1>4, <1>6, <1>10, <1>15 DEF Open
    <3>2. stored'[index'[u]] = u <=> stored[index[u]] = u /\ u # x
      BY <1>4, <1>8, <1>11, <2>1, ThreadFacts
    <3>3. HandlesOwn(u)' <=> HandlesOwn(u)
      BY <1>15, <1>16, <2>1 DEF HandlesOwn
    <3>4. u # x => (Open(u)' <=> Open(u))
      BY <1>10, <1>15, <1>16, <2>1, <3>2, <3>3 DEF Open
    <3>5. QED
      BY <3>1, <3>4
  <2>2. QED
    BY <1>15, <2>1 DEF Open
<1>25. OpenOK'
  BY <1>8, <1>11, <1>22, <1>24, ThreadFacts DEF OmptTeamsInv, OpenOK
<1>26. OrderOK'
  <2>1. \A u \in Threads : Keeps(u)' <=> Keeps(u)
    BY <1>15, <1>16 DEF Keeps, HandlesOwn
  <2>2. QED
    BY <1>8, <2>1 DEF OmptTeamsInv, OrderOK
<1>27. SyncsOK'
  <2>1. SyncsAt(t)'
    <3>1. task[x].syncs = 1
      BY <1>4, <1>6, ThreadFacts DEF SyncsAt
    <3>2. QED
      BY <1>4, <1>9, <1>10, <3>1 DEF SyncsAt, AtEnd
  <2>2. ASSUME NEW u \in Threads, u # t  PROVE  SyncsAt(u)'
    <3>1. SyncsAt(u) /\ Same(u) /\ index[u] \in Indices
      BY <1>9, <2>2, ThreadFacts DEF OnlyMoves
    <3>2. stored'[index'[u]] = u => stored[index[u]] = u
      BY <1>8, <1>11, <3>1
    <3>3. pc[u] \in {"barrier_end", "barrier_exit", "decide", "task_end", "task_exit"} => object[u] \in Threads
      BY <2>2, ObjectFacts DEF Writing
    <3>4. QED
      BY <1>10, <1>15, <3>1, <3>2, <3>3 DEF Same, SyncsAt
  <2>3. QED
    BY <2>1, <2>2 DEF SyncsOK
<1>28. EventsOK'
  BY <1>8, <1>10, <1>21, <1>22, <1>24, EventsFrame
<1>29. EndKnownOK'
  <2>1. stamp' = stamp
    BY <1>1
  <2>2. PastEnd' <=> PastEnd
    BY <1>21 DEF PastEnd
  <2>3. QED
    BY <1>8, <1>10, <1>15, <1>21, <2>1, <2>2 DEF OmptTeamsInv, EndKnownOK, TaskEndKnown
<1>30. bug' = bug
  BY <1>1
<1>31. QED
  BY <1>7, <1>12, <1>14, <1>18, <1>19, <1>23, <1>25, <1>26, <1>27, <1>28, <1>29, <1>30 DEF OmptTeamsInv

(* No two threads write the end of the same task, and no other task of its
   location has not ended. *)
LEMMA WriterFacts ==
    ASSUME OmptTeamsInv, NEW t \in Threads, pc[t] \in Writing \cup {"decide"},
           NEW x, x = object[t]
    PROVE  /\ \A u \in Threads : pc[u] \in Writing \cup {"decide"} /\ object[u] = x => u = t
           /\ \A y \in Threads : Open(y) /\ index[y] = index[t] => y = x
           /\ x # t => /\ pc[x] \in AtEnd \cup {"release"} /\ stored[index[t]] = None
                       /\ task[x].overdue /\ caller[t] = "overdue"
           /\ x = t => ~task[x].overdue /\ caller[t] # "overdue"
           /\ Written(x)
<1> USE Facts, ThreadFacts
<1>1. /\ x \in Threads /\ Executes(x) /\ index[x] = index[t] /\ Open(x)
      /\ caller[t] # "overdue" => x = t
      /\ caller[t] = "overdue" => WritesOverdue(t)
  BY ObjectFacts
<1>2. WritesOverdue(t) => /\ pc[x] \in AtEnd \cup {"release"} /\ stored[index[t]] = None
                          /\ task[x].overdue
  BY DEF OmptTeamsInv, OverdueOK, OverdueAt
<1>3. x = t => caller[t] # "overdue"
  BY <1>1, <1>2 DEF AtEnd, Writing
<1>4. ASSUME NEW u \in Threads, pc[u] \in Writing \cup {"decide"}, object[u] = x  PROVE  u = t
  <2>1. /\ caller[u] # "overdue" => x = u
        /\ caller[u] = "overdue" => WritesOverdue(u)
        /\ index[u] = index[x]
    BY <1>4, ObjectFacts
  <2>2. WritesOverdue(u) => pc[x] \in AtEnd \cup {"release"}
    BY <1>4 DEF OmptTeamsInv, OverdueOK, OverdueAt
  <2>3. CASE WritesOverdue(u) /\ WritesOverdue(t)
    <3>1. Joining(u) /\ Joining(t)
      BY <2>3 DEF Joining
    <3>2. Member(u)
      BY <3>1 DEF Member
    <3>3. QED
      BY <1>1, <2>1, <3>1, <3>2, JoiningFacts
  <2>4. CASE ~WritesOverdue(u)
    BY <1>1, <1>2, <1>4, <2>1, <2>4 DEF AtEnd, Writing
  <2>5. CASE ~WritesOverdue(t)
    BY <1>1, <2>1, <2>2, <2>5 DEF AtEnd, Writing
  <2>6. QED
    BY <2>3, <2>4, <2>5
<1>5. \A y \in Threads : Open(y) /\ index[y] = index[t] => y = x
  BY <1>1 DEF OmptTeamsInv, OpenOK
<1>6. x = t => ~task[x].overdue
  <2>1. ASSUME x = t, task[x].overdue  PROVE  FALSE
    <3>1. PICK u \in Threads : WritesOverdue(u) /\ object[u] = x
      BY <1>1, <2>1 DEF OmptTeamsInv, OverdueOK
    <3>2. u = t
      BY <1>4, <3>1 DEF WritesOverdue, Writing
    <3>3. QED
      BY <1>3, <2>1, <3>1, <3>2 DEF WritesOverdue
  <2>2. QED
    BY <2>1
<1>7. Written(x)
  BY <1>1 DEF OmptTeamsInv, EventsOK
<1>8. QED
  BY <1>1, <1>2, <1>3, <1>4, <1>5, <1>6, <1>7

(* The thread ends its own task, and keeps the location if it may. *)
LEMMA TakesOwnStep ==
    ASSUME OmptTeamsInv, NEW t \in Threads, StoredHere(t),
           BarrierImplicitParallelEnd(t) \/ FinalizeToolEnd(t)
    PROVE  OmptTeamsInv'
<1> USE Facts, ThreadFacts
<1>a. PICK l \in Indices : l = index[t]
  OBVIOUS
<1>1. /\ pc[t] \in {"lock_order", "lock_finalize"} /\ pc' = [pc EXCEPT ![t] = "barrier_end"]
      /\ stored' = [stored EXCEPT ![l] = None]
      /\ preserveOrder' = IF pc[t] = "lock_order" THEN [preserveOrder EXCEPT ![l] = TRUE] ELSE preserveOrder
      /\ UNCHANGED <<runtimeVars, poolVars, isOmpt, team, eventVars, index, object,
                     caller, stamp, finalizing, bug>>
      /\ finalizeTool' \in BOOLEAN
  BY <1>a DEF BarrierImplicitParallelEnd, FinalizeToolEnd, Goto, TypeOK, endVars
<1>2. /\ Executes(t) /\ object[t] = t /\ stored[l] = t
      /\ caller[t] = IF pc[t] = "lock_order" THEN "sync_region" ELSE "finalize_tool"
  BY <1>1, <1>a DEF StoredHere, ControlOK, CallerOK, AtEnd
<1>3. TypesOK'
  BY <1>1 DEF TypesOK, TypeOK, Points, Writing, Ids, runtimeVars, poolVars, eventVars
<1>4. /\ taskData' = taskData /\ index' = index /\ taskFree' = taskFree /\ parallel' = parallel
      /\ finalizing' = finalizing /\ size' = size /\ events' = events /\ region' = region
      /\ isOmpt' = isOmpt /\ parallelData' = parallelData /\ task' = task
      /\ object' = object /\ caller' = caller /\ stamp' = stamp /\ bug' = bug
  BY <1>1 DEF runtimeVars, poolVars, eventVars
<1>5. OnlyMoves(t) /\ TeamSame /\ pc'[t] = "barrier_end"
  BY <1>1, <1>4 DEF TypesOK, TypeOK, OnlyMoves, Same, TeamSame, runtimeVars, poolVars
<1>6. \A k \in Indices : stored'[k] = IF k = l THEN None ELSE stored[k]
  BY <1>1 DEF TypeOK
<1>7. \A u \in Threads : u # t => pc'[u] = pc[u]
  BY <1>5 DEF OnlyMoves, Same
<1>8. ThreadsOK'
  <2>1. ControlOK(t)'
    BY <1>1, <1>2, <1>4, <1>5 DEF ControlOK, Executes, Entering, Writing, AtEnd, OfPrimary
  <2>2. CallerOK(t)'
    BY <1>1, <1>2, <1>4, <1>5 DEF CallerOK, HandlesOwn, Executes
  <2>3. QED
    BY <1>1, <1>4, <1>5, <2>1, <2>2, ThreadsFrame
<1>9. task[t].parallel = parallelData /\ arrived < size /\ size > 1 => FALSE
  BY <1>1, <1>2 DEF OmptTeamsInv, BarrierOK
<1>10. ~Joining(t) /\ ~Joining(t)' /\ ~WritesOverdue(t) /\ ~WritesOverdue(t)'
  BY <1>1, <1>2, <1>4, <1>5 DEF Joining, WritesOverdue, Entering
<1>11. MembersOK' /\ BarrierOK' /\ ReferencesOK'
  <2>1. StaysInTeam(t)
    BY <1>1, <1>4, <1>5, <1>9, <1>10 DEF StaysInTeam, Entering, Barrier, AtEnd
  <2>2. QED
    BY <1>5, <2>1, TeamFrame
<1>12. \A u \in Threads : (Executes(u)' <=> Executes(u)) /\ (WritesOverdue(u)' <=> WritesOverdue(u))
  BY <1>4, <1>7, <1>10 DEF Executes, WritesOverdue
<1>13. ~task[t].overdue
  <2>1. CASE t = Primary
    <3>1. \A u \in Threads : WritesOverdue(u) => object[u] # t
      BY <2>1 DEF OmptTeamsInv, OverdueOK, OverdueAt
    <3>2. QED
      BY <3>1 DEF OmptTeamsInv, OverdueOK
  <2>2. CASE t # Primary
    BY <1>1, <1>2, <1>a, <2>2 DEF OmptTeamsInv, StoredOK, StoredAt, ControlOK
  <2>3. QED
    BY <2>1, <2>2
<1>14. OverdueOK'
  <2>1. OverdueOK
    BY DEF OmptTeamsInv
  <2>2. ASSUME NEW u \in Threads  PROVE  OverdueAt(u)'
    <3>1. CASE WritesOverdue(u)
      <4>1. PICK y : y = object[u]
        OBVIOUS
      <4>2. /\ y \in Workers /\ Executes(y) /\ task[y].overdue /\ index[y] = index[u]
            /\ pc[y] \in AtEnd \cup {"release"} /\ stored[index[u]] = None
        BY <2>1, <3>1, <4>1 DEF OverdueOK, OverdueAt
      <4>3. y # t /\ index[u] \in Indices
        BY <1>13, <4>2
      <4>4. QED
        BY <1>4, <1>6, <1>7, <1>12, <4>1, <4>2, <4>3 DEF OverdueAt
    <3>2. CASE ~WritesOverdue(u)
      BY <1>12, <3>2 DEF OverdueAt
    <3>3. QED
      BY <3>1, <3>2
  <2>3. QED
    BY <1>4, <1>12, <2>1, <2>2 DEF OverdueOK
<1>15. \A u \in Threads : pc'[u] \in {"running", "task_begin", "wait_order"} => pc'[u] = pc[u]
  BY <1>5, <1>7
<1>16. TasksOK'
  BY <1>4, <1>12, <1>15, TasksFrame
<1>17. StoredOK'
  <2>1. StoredOK
    BY DEF OmptTeamsInv
  <2>2. ASSUME NEW k \in Indices \ {0}  PROVE  StoredAt(k)'
    <3>1. CASE k # l /\ stored[k] # None
      <4>0. PICK y : y = stored[k]
        OBVIOUS
      <4>1. stored'[k] = y /\ StoredAt(k)
        BY <1>6, <2>1, <3>1, <4>0 DEF StoredOK
      <4>2. /\ y \in Workers /\ Executes(y) /\ index[y] = k
            /\ pc[y] \in AtEnd \cup {"running"} /\ ~task[y].overdue
        BY <3>1, <4>0, <4>1 DEF StoredAt
      <4>3. y # t
        BY <1>a, <3>1, <4>2
      <4>4. QED
        BY <1>4, <1>7, <1>12, <3>1, <4>1, <4>2, <4>3 DEF StoredAt
    <3>2. CASE k = l \/ stored[k] = None
      BY <1>6, <3>2 DEF StoredAt
    <3>3. QED
      BY <3>1, <3>2
  <2>3. ASSUME NEW u \in Threads, pc'[u] = "running"  PROVE  stored'[index'[u]] = u
    <3>1. pc[u] = "running" /\ u # t /\ stored[index[u]] = u
      BY <1>5, <1>15, <2>1, <2>3 DEF StoredOK
    <3>2. QED
      BY <1>2, <1>4, <1>6, <3>1
  <2>4. stored'[0] = StoredOfPrimary'
    <3>1. CASE t = Primary
      BY <1>5, <1>6, <1>a, <3>1 DEF ControlOK, StoredOfPrimary, AtEnd
    <3>2. CASE t # Primary
      <4>1. l # 0
        BY <1>1, <1>a, <3>2 DEF ControlOK
      <4>2. StoredOfPrimary' = StoredOfPrimary
        BY <1>4, <1>7, <3>2 DEF StoredOfPrimary
      <4>3. QED
        BY <1>6, <2>1, <4>1, <4>2 DEF StoredOK
    <3>3. QED
      BY <3>1, <3>2
  <2>5. QED
    BY <2>2, <2>3, <2>4 DEF StoredOK
<1>18. \A u \in Threads : u # t => (HandlesOwn(u)' <=> HandlesOwn(u)) /\ (Keeps(u)' <=> Keeps(u))
  BY <1>4, <1>7, <1>12 DEF HandlesOwn, Keeps
<1>19. HandlesOwn(t)' /\ Open(t)' /\ Open(t) /\ ~Keeps(t) /\ (Keeps(t)' <=> pc[t] = "lock_order")
  BY <1>1, <1>2, <1>4, <1>5, <1>12, <1>a DEF HandlesOwn, Open, Keeps, Writing, AtEnd
<1>20. \A u \in Threads : Open(u)' <=> Open(u)
  <2>1. ASSUME NEW u \in Threads, u # t  PROVE  Open(u)' <=> Open(u)
    <3>1. stored'[index'[u]] = u /\ Executes(u) <=> stored[index[u]] = u /\ Executes(u)
      BY <1>2, <1>4, <1>6, <2>1 DEF Executes, ControlOK
    <3>2. QED
      BY <1>4, <1>7, <1>12, <1>18, <2>1, <3>1 DEF Open
  <2>2. QED
    BY <1>19, <2>1
<1>21. OpenOK'
  BY <1>4, <1>6, <1>15, <1>20 DEF OmptTeamsInv, OpenOK
<1>22. OrderOK'
  <2>1. OrderOK
    BY DEF OmptTeamsInv
  <2>2. \A k \in Indices : preserveOrder'[k] <=> preserveOrder[k] \/ (k = l /\ pc[t] = "lock_order")
    BY <1>1 DEF TypeOK
  <2>3. QED
    BY <1>4, <1>18, <1>19, <1>a, <2>1, <2>2 DEF OrderOK
<1>23. SyncsOK'
  <2>1. SyncsAt(t)'
    <3>1. task[t].syncs = 1
      BY <1>1, <1>2, <1>a DEF SyncsAt, AtEnd
    <3>2. QED
      BY <1>2, <1>4, <1>5, <3>1 DEF SyncsAt, AtEnd
  <2>2. ASSUME NEW u \in Threads, u # t  PROVE  SyncsAt(u)'
    <3>1. stored'[index'[u]] = u /\ pc[u] \in AtEnd => stored[index[u]] = u
      BY <1>4, <1>6 DEF ControlOK, Executes
    <3>2. QED
      BY <1>4, <1>7, <1>12, <2>2, <3>1, ThreadFacts DEF SyncsAt
  <2>3. QED
    BY <2>1, <2>2 DEF SyncsOK
<1>24. EventsOK'
  <2>1. \/ pc'[Primary] = pc[Primary]
        \/ pc'[Primary] \notin Entering \cup {"serial", "finalizing", "done", "forked",
                                             "release", "parallel_end"}
    BY <1>5, <1>7 DEF Entering
  <2>2. QED
    BY <1>4, <1>15, <1>20, <2>1, EventsFrame
<1>25. EndKnownOK'
  <2>1. (PastEnd' <=> PastEnd) /\ (pc'[Primary] \in {"barrier_exit", "task_exit"} => pc'[Primary] = pc[Primary])
    BY <1>1, <1>5, <1>7 DEF PastEnd
  <2>2. QED
    BY <1>4, <1>12, <2>1 DEF OmptTeamsInv, EndKnownOK, TaskEndKnown
<1>26. QED
  BY <1>3, <1>4, <1>8, <1>11, <1>14, <1>16, <1>17, <1>21, <1>22, <1>23, <1>24, <1>25 DEF OmptTeamsInv

(* An event for the open task of a location *)
LEMMA PutFrame ==
    ASSUME OmptTeamsInv, region' = region, NEW x \in Threads, Open(x), index'[x] = index[x],
           \A k \in Indices : k # index[x] => events'[k] = events[k],
           \A u \in Threads : u # x =>
             /\ Open(u)' <=> Open(u)
             /\ Open(u) => /\ index'[u] = index[u] /\ (pc'[u] = "running" => pc[u] = "running")
                           /\ task'[u].parallel = task[u].parallel /\ task'[u].syncs = task[u].syncs,
           \A o \in Parallels : parallel'[o].no = parallel[o].no
                                /\ parallel'[o].recorded = parallel[o].recorded,
           Open(x)' => Written(x)',
           ~Open(x)' => events'[index[x]].kind \in {"none", "end"},
           \/ pc'[Primary] = pc[Primary] /\ index[x] # 0
           \/ pc'[Primary] \notin Entering \cup {"serial", "finalizing", "done", "forked",
                                                "release", "parallel_end"}
           \/ pc'[Primary] = "release" /\ events'[0].kind = "end" /\ events'[0].no = region
    PROVE  EventsOK'
<1> USE Facts
<1>1. EventsOK
  BY DEF OmptTeamsInv
<1>2. \A u \in Threads : u # x /\ Open(u) => index[u] # index[x] /\ index[u] \in Indices
  BY ThreadFacts DEF OmptTeamsInv, OpenOK
<1>3. ASSUME NEW u \in Threads, u # x, Open(u)'  PROVE  Written(u)'
  <2>1. task[u].parallel \in Parallels
    BY <1>3 DEF OmptTeamsInv, TasksOK, Open
  <2>2. Written(u) /\ events'[index'[u]] = events[index[u]]
    BY <1>1, <1>2, <1>3 DEF EventsOK
  <2>3. QED
    BY <1>3, <2>1, <2>2 DEF Written
<1>4. ASSUME NEW k \in Indices \ {0}, \A u \in Threads : Open(u)' => index'[u] # k
      PROVE  events'[k].kind \in {"none", "end"}
  <2>1. CASE k = index[x]
    BY <1>4, <2>1
  <2>2. CASE k # index[x]
    BY <1>1, <1>4, <2>2 DEF EventsOK
  <2>3. QED
    BY <2>1, <2>2
<1>5. pc'[Primary] = pc[Primary] /\ index[x] # 0 => events'[0] = events[0]
  OBVIOUS
<1>6. \A u \in Threads : Open(u)' => Written(u)'
  BY <1>3
<1>7. QED
  BY <1>1, <1>4, <1>5, <1>6 DEF EventsOK, Entering

-----------------------------------------------------------------------------
(* The barrier fills up: its last member completes the team. *)

LEMMA IndicesOfTeam ==
    ASSUME OmptTeamsInv, region > 0
    PROVE  MemberIndices(parallelData) \subseteq 0..size - 1
<1> USE Facts, ThreadFacts
<1>1. ASSUME NEW u \in Threads, Executes(u), task[u].parallel = parallelData
      PROVE  index[u] \in 0..size - 1
  <2>1. Member(u)
    BY <1>1 DEF Member
  <2>2. u # Primary => index[u] \in taken /\ taken \subseteq 1..size - 1
    BY <2>1 DEF OmptTeamsInv, MembersOK
  <2>3. u = Primary => index[u] = 0
    BY DEF ControlOK
  <2>4. QED
    BY <2>2, <2>3
<1>2. QED
  BY <1>1 DEF MemberIndices

LEMMA BarrierFills ==
    ASSUME OmptTeamsInv, NEW t \in Threads, pc[t] = "running", size > 1,
           pc' = [pc EXCEPT ![t] = "barrier"], arrived' = arrived + 1,
           region' = region, size' = size, taken' = taken, parallelData' = parallelData,
           taskData' = taskData, index' = index, caller' = caller,
           \A u \in Threads : task'[u].parallel = task[u].parallel,
           parallel' = parallel, parallelFree' = parallelFree
    PROVE  MembersOK' /\ BarrierOK' /\ ReferencesOK' /\ arrived' \in 0..size
<1> USE Facts, ThreadFacts
<1> DEFINE S == {index[u] : u \in AtBarrier}
           T == S \cup {index[t]}
<1>1. /\ Member(t) /\ region > 0 /\ parallelData \in Parallels /\ arrived # size
      /\ pc[Primary] \in Entering \cup {"forked", "running", "barrier"}
      /\ \A u \in Threads : Member(u) /\ index[u] = index[t] => u = t
      /\ parallel[parallelData].no = region
  BY JoiningFacts
<1>2. Executes(t) /\ task[t].parallel = parallelData
  BY DEF ControlOK, OmptTeamsInv, TasksOK
<1>3. \A u \in AtBarrier : u \in Threads /\ Executes(u) /\ Member(u) /\ u # t
  BY DEF AtBarrier, ControlOK, AtEnd, Member
<1>4. arrived < size /\ arrived \in Nat
  BY <1>1 DEF TypeOK
<1>5. arrived = Cardinality(S)
  BY <1>4 DEF OmptTeamsInv, BarrierOK
<1>6. S \subseteq 0..size - 1 /\ T \subseteq 0..size - 1
  <2>1. T \subseteq MemberIndices(parallelData)
    BY <1>2, <1>3 DEF MemberIndices, AtBarrier
  <2>2. QED
    BY <1>1, <2>1, IndicesOfTeam
<1>7. index[t] \notin S
  BY <1>1, <1>3
<1>8. IsFiniteSet(0..size - 1) /\ Cardinality(0..size - 1) = size
  BY FS_Interval
<1>9. IsFiniteSet(S) /\ IsFiniteSet(T) /\ Cardinality(T) = arrived + 1
  <2>1. IsFiniteSet(S)
    BY <1>6, <1>8, FS_Subset
  <2> HIDE DEF S
  <2>2. QED
    BY <1>5, <1>7, <2>1, FS_AddElement
<1>10. arrived' \in 0..size /\ (arrived' = size => T = 0..size - 1)
  <2> DEFINE I == 0..size - 1
  <2>1. IsFiniteSet(I) /\ Cardinality(I) = size /\ T \in SUBSET I
    BY <1>6, <1>8
  <2> HIDE DEF T, I
  <2>2. Cardinality(T) <= Cardinality(I) /\ (Cardinality(T) = Cardinality(I) => T = I)
    BY <2>1, FS_Subset
  <2>3. arrived' <= size /\ (arrived' = size => T = I)
    BY <1>9, <2>1, <2>2
  <2>4. QED
    BY <1>4, <2>3 DEF I
<1>11. \A u \in Threads : /\ pc'[u] = IF u = t THEN "barrier" ELSE pc[u]
                          /\ Executes(u)' <=> Executes(u)
                          /\ Joining(u)' <=> Joining(u)
                          /\ Member(u)' <=> Member(u)
  <2>1. \A u \in Threads : pc'[u] = IF u = t THEN "barrier" ELSE pc[u]
    BY DEF TypesOK
  <2>2. \A u \in Threads : (Executes(u)' <=> Executes(u)) /\ (Joining(u)' <=> Joining(u))
    BY <2>1 DEF Executes, Joining, WritesOverdue, Entering
  <2>3. QED
    BY <2>1, <2>2 DEF Member
<1>12. AtBarrier' = AtBarrier \cup {t} /\ {index'[u] : u \in AtBarrier'} = T
  <2>1. AtBarrier' = AtBarrier \cup {t}
    BY <1>2, <1>11 DEF AtBarrier
  <2>2. QED
    BY <2>1
<1>13. MembersOK'
  BY <1>11 DEF OmptTeamsInv, MembersOK, Executes
<1>14. ASSUME T = 0..size - 1
       PROVE  /\ taken = 1..size - 1
              /\ \A u \in Threads : ~Joining(u)' /\ pc'[u] \notin {"running", "forked"}
              /\ MemberIndices(parallelData) = 0..size - 1
              /\ pc[Primary] \in {"running", "barrier"}
  <2>1. ASSUME NEW i \in 0..size - 1
        PROVE  \E u \in Threads : /\ index[u] = i /\ Executes(u) /\ task[u].parallel = parallelData
                                  /\ pc'[u] = "barrier" /\ Member(u)
    BY <1>1, <1>2, <1>3, <1>11, <1>12, <1>14 DEF AtBarrier
  <2>2. MemberIndices(parallelData) = 0..size - 1
    <3>1. \A i \in 0..size - 1 : i \in MemberIndices(parallelData)
      BY <2>1 DEF MemberIndices
    <3>2. QED
      BY <1>1, <3>1, IndicesOfTeam
  <2>3. ASSUME NEW i \in 1..size - 1  PROVE  i \in taken
    <3>1. PICK u \in Threads : index[u] = i /\ Member(u)
      BY <2>1
    <3>2. u # Primary
      BY <3>1 DEF ControlOK
    <3>3. QED
      BY <3>1, <3>2 DEF OmptTeamsInv, MembersOK
  <2>4. taken = 1..size - 1
    BY <2>3 DEF OmptTeamsInv, MembersOK
  <2>5. pc'[Primary] = "barrier"
    <3>1. PICK u \in Threads : index[u] = 0 /\ pc'[u] = "barrier"
      BY <2>1
    <3>2. u = Primary
      BY <1>11, <3>1 DEF ControlOK
    <3>3. QED
      BY <3>1, <3>2
  <2>6. ASSUME NEW u \in Threads, Joining(u)' \/ pc'[u] = "running"  PROVE  FALSE
    <3>1. Joining(u) \/ pc[u] = "running"
      BY <1>11, <2>6
    <3>2. Member(u) /\ index[u] \in 0..size - 1
      BY <3>1, JoiningFacts
    <3>3. PICK w \in Threads : index[w] = index[u] /\ pc'[w] = "barrier" /\ Member(w)
      BY <2>1, <3>2
    <3>4. w = u
      BY <3>1, <3>3, JoiningFacts
    <3>5. QED
      BY <2>6, <3>3, <3>4 DEF Joining, Entering, WritesOverdue
  <2>7. \A u \in Threads : pc'[u] # "forked"
    BY <1>11, <2>5 DEF ControlOK, OfPrimary
  <2>8. pc[Primary] \in {"running", "barrier"}
    BY <1>11, <2>5
  <2>9. QED
    BY <2>2, <2>4, <2>6, <2>7, <2>8
<1>15. BarrierOK'
  <2>1. CASE arrived' = size
    BY <1>10, <1>14, <2>1 DEF BarrierOK
  <2>2. CASE arrived' # size
    <3>1. arrived' = Cardinality({index'[u] : u \in AtBarrier'})
      BY <1>9, <1>12
    <3>2. pc'[Primary] \in Entering \cup {"forked", "running", "barrier"}
      BY <1>1, <1>11
    <3>3. ASSUME NEW u \in Threads, Executes(u)', task'[u].parallel = parallelData'
          PROVE  pc'[u] \in {"running", "barrier"}
      BY <1>4, <1>11, <3>3 DEF OmptTeamsInv, BarrierOK
    <3>4. QED
      BY <2>2, <3>1, <3>2, <3>3 DEF BarrierOK
  <2>3. QED
    BY <2>1, <2>2
<1>16. ReferencesOK'
  <2>1. \A o \in Parallels : MemberIndices(o)' = MemberIndices(o)
    BY <1>11 DEF MemberIndices
  <2>2. /\ pc'[Primary] = "forked" <=> pc[Primary] = "forked"
        /\ pc'[Primary] \in Entering <=> pc[Primary] \in Entering
        /\ InRegion' <=> InRegion
        /\ InRegion
    BY <1>1, <1>11 DEF InRegion, Entering
  <2>3. ASSUME NEW o \in Parallels  PROVE  References(o)' = References(o)
    <3>1. CASE arrived' # size \/ o # parallelData
      <4>1. o = parallelData => (Assembled' <=> Assembled)
        BY <1>4, <3>1 DEF Assembled
      <4>2. QED
        BY <2>1, <2>2, <4>1 DEF References
    <3>2. CASE arrived' = size /\ o = parallelData
      <4>1. Cardinality(MemberIndices(o)) = size /\ pc[Primary] # "forked"
        BY <1>8, <1>10, <1>14, <3>2
      <4>2. ~Assembled /\ Assembled'
        BY <1>1, <3>2 DEF Assembled
      <4>3. References(o) = size + 1
        BY <3>2, <4>1, <4>2 DEF References
      <4>4. References(o)' = size + 1
        BY <2>1, <2>2, <3>2, <4>1, <4>2 DEF References
      <4>5. QED
        BY <4>3, <4>4
    <3>3. QED
      BY <3>1, <3>2
  <2>4. QED
    BY <2>2, <2>3 DEF OmptTeamsInv, ReferencesOK
<1>17. QED
  BY <1>10, <1>13, <1>15, <1>16

(* An event that fits *)
LEMMA PutFits ==
    ASSUME TypesOK, NEW l \in Indices, NEW kind \in Kinds, NEW no \in 0..Regions, NEW tm \in Nat,
           Put(l, kind, no, tm), Follows(events[l], kind, no)
    PROVE  /\ events' \in [Indices -> [kind : Kinds, no : 0..Regions, team : Nat]]
           /\ events'[l].kind = kind /\ events'[l].no = no
           /\ \A k \in Indices : k # l => events'[k] = events[k]
<1>1. events' = [events EXCEPT ![l] = [kind |-> kind, no |-> no, team |-> tm]]
  BY DEF Put
<1>2. [kind |-> kind, no |-> no, team |-> tm] \in [kind : Kinds, no : 0..Regions, team : Nat]
  OBVIOUS
<1>3. events \in [Indices -> [kind : Kinds, no : 0..Regions, team : Nat]]
  BY DEF TypesOK
<1>4. events'[l] = [kind |-> kind, no |-> no, team |-> tm]
  BY <1>1, <1>3
<1>5. QED
  BY <1>1, <1>2, <1>3, <1>4

LEMMA BarrierBeginStep ==
    ASSUME OmptTeamsInv, NEW t \in Threads, BarrierBegin(t)
    PROVE  OmptTeamsInv'
<1> USE Facts, ThreadFacts
<1>a. PICK l \in Indices : l = index[t]
  OBVIOUS
<1>b. PICK o : o = parallelData
  OBVIOUS
<1>1. /\ pc[t] = "running" /\ size > 1 /\ Executes(t) /\ taskData[t] = t
      /\ task[t].parallel = o /\ o \in Parallels /\ parallel[o].no = region
      /\ task[t].syncs = 0 /\ stored[l] = t /\ Member(t) /\ ~task[t].overdue
      /\ pc[Primary] \in Entering \cup {"forked", "running", "barrier"} /\ region > 0
  <2>1. pc[t] = "running" /\ size > 1 /\ Executes(t) /\ taskData[t] = t
    BY DEF BarrierBegin, ControlOK, Executes
  <2>2. /\ o \in Parallels /\ parallel[o].no = region /\ Member(t) /\ region > 0
        /\ pc[Primary] \in Entering \cup {"forked", "running", "barrier"}
    BY <2>1, <1>b, JoiningFacts
  <2>3. task[t].parallel = o /\ task[t].syncs = 0 /\ stored[l] = t
    BY <2>1, <1>a, <1>b DEF OmptTeamsInv, TasksOK, StoredOK, StoredAt, SyncsAt
  <2>4. ~task[t].overdue
    <3>1. \A u \in Threads : WritesOverdue(u) => object[u] # t
      BY <2>1 DEF OmptTeamsInv, OverdueOK, OverdueAt, AtEnd
    <3>2. QED
      BY <3>1 DEF OmptTeamsInv, OverdueOK
  <2>5. QED
    BY <2>1, <2>2, <2>3, <2>4
<1>2. /\ pc' = [pc EXCEPT ![t] = "barrier"] /\ arrived' = arrived + 1
      /\ task' = [task EXCEPT ![t].syncs = 1]
      /\ IF parallel[o].recorded
         THEN Put(l, "barrier_enter", region, team[l]) /\ clock' = Now
         ELSE events' = events /\ clock' = clock
      /\ UNCHANGED <<region, size, taken, parallelData, taskData, parallel, parallelFree,
                     taskFree, locationVars, index, object, caller, stamp, endVars, bug>>
  <2>1. task' = [task EXCEPT ![t].syncs = @ + 1]
    BY <1>1 DEF BarrierBegin
  <2>2. task' = [task EXCEPT ![t].syncs = 1]
    BY <1>1, <2>1
  <2>3. QED
    BY <1>1, <1>a, <1>b, <2>2 DEF BarrierBegin, Goto, eventVars
<1>3. Open(t) /\ Written(t)
  <2>1. Open(t)
    BY <1>1 DEF Open
  <2>2. QED
    BY <2>1 DEF OmptTeamsInv, EventsOK
<1>4. events[l].kind = "begin" /\ events[l].no = region
  BY <1>1, <1>3, <1>a DEF Written
<1>5. /\ events' \in [Indices -> [kind : Kinds, no : 0..Regions, team : Nat]]
      /\ events'[l].kind = (IF parallel[o].recorded THEN "barrier_enter" ELSE "begin")
      /\ events'[l].no = region
      /\ \A k \in Indices : k # l => events'[k] = events[k]
  <2>1. CASE parallel[o].recorded
    <3>1. Follows(events[l], "barrier_enter", region)
      BY <1>4 DEF Follows
    <3>2. "barrier_enter" \in Kinds /\ region \in 0..Regions /\ team[l] \in Nat
      BY DEF Kinds, TypesOK, TypeOK
    <3>3. QED
      BY <1>2, <2>1, <3>1, <3>2, PutFits
  <2>2. CASE ~parallel[o].recorded
    BY <1>2, <1>4, <2>2 DEF TypesOK
  <2>3. QED
    BY <2>1, <2>2
<1>6. /\ task' \in [Threads -> TaskType]
      /\ \A u \in Threads : u # t => task'[u] = task[u]
      /\ task'[t].syncs = 1
      /\ \A u \in Threads :
           task'[u].parallel = task[u].parallel /\ (task'[u].overdue <=> task[u].overdue)
           /\ task'[u].index = task[u].index
  <2>1. TypeOK /\ 1 \in 0..1
    OBVIOUS
  <2>2. QED
    BY <1>2, <2>1, SyncsChange
<1>7. /\ taskData' = taskData /\ index' = index /\ taskFree' = taskFree /\ parallel' = parallel
      /\ finalizing' = finalizing /\ size' = size /\ region' = region /\ stored' = stored
      /\ isOmpt' = isOmpt /\ preserveOrder' = preserveOrder /\ parallelData' = parallelData
      /\ parallelFree' = parallelFree /\ taken' = taken /\ object' = object /\ caller' = caller
      /\ stamp' = stamp /\ bug' = bug /\ team' = team /\ finalizeTool' = finalizeTool
  BY <1>2 DEF locationVars, endVars
<1>8. MembersOK' /\ BarrierOK' /\ ReferencesOK' /\ arrived' \in 0..size
  BY <1>1, <1>2, <1>6, <1>7, BarrierFills
<1>9. pc'[t] = "barrier" /\ \A u \in Threads : u # t => pc'[u] = pc[u]
  BY <1>2 DEF TypesOK
<1>10. OnlyMoves(t)
  BY <1>7, <1>9 DEF OnlyMoves, Same
<1>11. TypesOK'
  <2>1. pc' \in [Threads -> Points]
    BY <1>2 DEF TypesOK, Points, AtEnd
  <2>2. Now \in Nat \ {0}
    BY OmptTeamsAssumption DEF Now, TypesOK
  <2>3. clock' \in Nat \ {0}
    BY <1>2, <2>2 DEF TypesOK
  <2>4. QED
    BY <1>5, <1>6, <1>7, <1>8, <2>1, <2>3 DEF TypesOK, TypeOK, TaskType
<1>12. ThreadsOK'
  <2>1. ControlOK(t)'
    BY <1>1, <1>7, <1>9 DEF ControlOK, Executes, Entering, Writing, AtEnd, OfPrimary
  <2>2. CallerOK(t)'
    BY <1>1, <1>7, <1>9 DEF CallerOK, HandlesOwn, Writing
  <2>3. QED
    BY <1>1, <1>7, <1>9, <1>10, <2>1, <2>2, ThreadsFrame
<1>13. \A u \in Threads : /\ Executes(u)' <=> Executes(u)
                          /\ WritesOverdue(u)' <=> WritesOverdue(u)
                          /\ HandlesOwn(u)' <=> HandlesOwn(u)
                          /\ Keeps(u)' <=> Keeps(u)
                          /\ Open(u)' <=> Open(u)
  <2>1. \A u \in Threads : (Executes(u)' <=> Executes(u)) /\ (WritesOverdue(u)' <=> WritesOverdue(u))
    BY <1>1, <1>7, <1>9 DEF Executes, WritesOverdue
  <2>2. \A u \in Threads : (HandlesOwn(u)' <=> HandlesOwn(u)) /\ (Keeps(u)' <=> Keeps(u))
    BY <1>1, <1>7, <1>9, <2>1 DEF HandlesOwn, Keeps, Writing
  <2>3. ASSUME NEW u \in Threads  PROVE  Open(u)' <=> Open(u)
    <3>1. CASE u = t
      BY <1>1, <1>3, <1>7, <1>9, <1>a, <2>1, <3>1 DEF Open, AtEnd
    <3>2. CASE u # t
      BY <1>6, <1>7, <1>9, <2>1, <2>2, <3>2 DEF Open
    <3>3. QED
      BY <3>1, <3>2
  <2>4. QED
    BY <2>1, <2>2, <2>3
<1>14. OverdueOK'
  <2>1. OverdueOK
    BY DEF OmptTeamsInv
  <2>2. ASSUME NEW u \in Threads  PROVE  OverdueAt(u)'
    <3>1. CASE WritesOverdue(u)
      <4>1. PICK y : y = object[u]
        OBVIOUS
      <4>2. /\ y \in Workers /\ Executes(y) /\ task[y].overdue /\ index[y] = index[u]
            /\ pc[y] \in AtEnd \cup {"release"} /\ stored[index[u]] = None
        BY <2>1, <3>1, <4>1 DEF OverdueOK, OverdueAt
      <4>3. y # t
        BY <1>1, <4>2
      <4>4. QED
        BY <1>6, <1>7, <1>9, <1>13, <4>1, <4>2, <4>3 DEF OverdueAt
    <3>2. CASE ~WritesOverdue(u)
      BY <1>13, <3>2 DEF OverdueAt
    <3>3. QED
      BY <3>1, <3>2
  <2>3. QED
    BY <1>6, <1>7, <1>13, <2>1, <2>2 DEF OverdueOK
<1>15. \A u \in Threads : pc'[u] \in {"running", "task_begin", "wait_order"} => pc'[u] = pc[u] /\ u # t
  BY <1>9
<1>16. TasksOK'
  BY <1>6, <1>7, <1>13, <1>15, TasksFrame
<1>17. StoredOK'
  <2>1. StoredOK
    BY DEF OmptTeamsInv
  <2>2. ASSUME NEW k \in Indices \ {0}  PROVE  StoredAt(k)'
    <3>1. CASE stored[k] # None
      <4>1. PICK y : y = stored[k]
        OBVIOUS
      <4>2. /\ y \in Workers /\ Executes(y) /\ index[y] = k
            /\ pc[y] \in AtEnd \cup {"running"} /\ ~task[y].overdue
        BY <2>1, <3>1, <4>1 DEF StoredOK, StoredAt
      <4>3. pc'[y] \in AtEnd \cup {"running"}
        BY <1>9, <4>2 DEF AtEnd
      <4>4. QED
        BY <1>6, <1>7, <1>13, <3>1, <4>1, <4>2, <4>3 DEF StoredAt
    <3>2. CASE stored[k] = None
      BY <1>7, <3>2 DEF StoredAt
    <3>3. QED
      BY <3>1, <3>2
  <2>3. \A u \in Threads : pc'[u] = "running" => stored'[index'[u]] = u
    BY <1>7, <1>15, <2>1 DEF StoredOK
  <2>4. StoredOfPrimary' = StoredOfPrimary
    BY <1>1, <1>7, <1>9 DEF StoredOfPrimary, AtEnd
  <2>5. QED
    BY <1>7, <2>1, <2>2, <2>3, <2>4 DEF StoredOK
<1>18. OpenOK'
  BY <1>7, <1>13, <1>15 DEF OmptTeamsInv, OpenOK
<1>19. OrderOK'
  BY <1>7, <1>13 DEF OmptTeamsInv, OrderOK
<1>20. SyncsOK'
  <2>1. SyncsAt(t)'
    BY <1>6, <1>9 DEF SyncsAt, AtEnd
  <2>2. ASSUME NEW u \in Threads, u # t  PROVE  SyncsAt(u)'
    <3>1. SyncsAt(u) /\ pc'[u] = pc[u]
      BY <1>9, <2>2
    <3>2. ASSUME pc[u] \in {"barrier_end", "barrier_exit", "decide", "task_end", "task_exit"}
          PROVE  object[u] # t
      <4>1. object[u] = t => WritesOverdue(u)
        BY <2>2, <3>2, ObjectFacts DEF Writing
      <4>2. QED
        BY <1>1, <4>1 DEF OmptTeamsInv, OverdueOK, OverdueAt, AtEnd
    <3>3. pc[u] \in {"barrier_end", "barrier_exit", "decide", "task_end", "task_exit"} => object[u] \in Threads
      BY ObjectFacts DEF Writing
    <3>4. task'[u] = task[u] /\ (Executes(u)' <=> Executes(u))
      BY <1>6, <1>13, <2>2
    <3>5. pc[u] \in {"barrier_end", "barrier_exit", "decide", "task_end", "task_exit"} =>
            task'[object[u]] = task[object[u]]
      BY <1>6, <3>2, <3>3
    <3>6. QED
      BY <1>7, <3>1, <3>4, <3>5 DEF SyncsAt
  <2>3. QED
    BY <2>1, <2>2 DEF SyncsOK
<1>21. EventsOK'
  <2>1. Written(t)'
    <3>1. /\ task'[t].parallel = o /\ task'[t].syncs # 0 /\ index'[t] = l /\ parallel'[o] = parallel[o]
          /\ pc'[t] # "running"
      BY <1>1, <1>6, <1>7, <1>9, <1>a
    <3>2. events'[l].no = parallel'[o].no
      BY <1>1, <1>5, <1>7
    <3>3. events'[l].kind \in {IF parallel'[o].recorded THEN "barrier_enter" ELSE "begin"}
      BY <1>5, <1>7
    <3>4. QED
      BY <3>1, <3>2, <3>3 DEF Written
  <2>2. \/ pc'[Primary] = pc[Primary] /\ l # 0
        \/ pc'[Primary] \notin Entering \cup {"serial", "finalizing", "done", "forked",
                                             "release", "parallel_end"}
    BY <1>1, <1>9, <1>a DEF Entering, ControlOK
  <2>3. QED
    BY <1>3, <1>5, <1>6, <1>7, <1>13, <1>15, <1>a, <2>1, <2>2, PutFrame
<1>22. EndKnownOK'
  <2>1. (PastEnd' <=> PastEnd) /\ (pc'[Primary] \in {"barrier_exit", "task_exit"} => pc'[Primary] = pc[Primary])
    BY <1>1, <1>9 DEF PastEnd
  <2>2. QED
    BY <1>6, <1>7, <1>13, <2>1 DEF OmptTeamsInv, EndKnownOK, TaskEndKnown
<1>23. QED
  BY <1>7, <1>8, <1>11, <1>12, <1>14, <1>16, <1>17, <1>18, <1>19, <1>20, <1>21, <1>22 DEF OmptTeamsInv

ParallelType == [no : 0..Regions, ref : -1..1 + Cardinality(Threads), barrierEnd : Nat,
                 taskEnd : Nat, recorded : BOOLEAN]

(* The primary leaves a time in the object of the region. *)
LEMMA TimeSet ==
    ASSUME TypeOK, NEW o \in Parallels, NEW time \in Nat,
           \/ parallel' = parallel
           \/ parallel' = [parallel EXCEPT ![o].barrierEnd = time]
           \/ parallel' = [parallel EXCEPT ![o].taskEnd = time]
    PROVE  /\ parallel' \in [Parallels -> ParallelType]
           /\ \A p \in Parallels :
                parallel'[p].no = parallel[p].no /\ parallel'[p].ref = parallel[p].ref
                /\ parallel'[p].recorded = parallel[p].recorded
           /\ \A p \in Parallels : p # o => parallel'[p] = parallel[p]
           /\ parallel' = [parallel EXCEPT ![o].barrierEnd = time] =>
                \A p \in Parallels : parallel'[p].taskEnd = parallel[p].taskEnd
           /\ parallel' = [parallel EXCEPT ![o].taskEnd = time] => parallel'[o].taskEnd = time
<1>1. parallel \in [Parallels -> ParallelType] /\ parallel[o] \in ParallelType
  BY DEF TypeOK, ParallelType
<1>2. CASE parallel' = parallel
  <2>1. parallel' = [parallel EXCEPT ![o].taskEnd = time] => parallel'[o].taskEnd = time
    <3>1. [parallel EXCEPT ![o].taskEnd = time][o].taskEnd = time
      BY <1>1 DEF ParallelType
    <3>2. QED
      BY <3>1
  <2>2. QED
    BY <1>1, <1>2, <2>1
<1>3. CASE parallel' = [parallel EXCEPT ![o].barrierEnd = time] /\ parallel' # parallel
  <2>1. /\ parallel' = [parallel EXCEPT ![o] = [parallel[o] EXCEPT !.barrierEnd = time]]
        /\ [parallel[o] EXCEPT !.barrierEnd = time] \in ParallelType
    BY <1>1, <1>3 DEF ParallelType
  <2>2. /\ parallel'[o] = [parallel[o] EXCEPT !.barrierEnd = time]
        /\ \A p \in Parallels : p # o => parallel'[p] = parallel[p]
        /\ parallel' \in [Parallels -> ParallelType]
    BY <1>1, <2>1
  <2>3. /\ parallel'[o].no = parallel[o].no /\ parallel'[o].ref = parallel[o].ref
        /\ parallel'[o].recorded = parallel[o].recorded /\ parallel'[o].taskEnd = parallel[o].taskEnd
    BY <1>1, <2>2 DEF ParallelType
  <2>4. parallel' = [parallel EXCEPT ![o].taskEnd = time] => parallel'[o].taskEnd = time
    <3>1. [parallel EXCEPT ![o].taskEnd = time][o].taskEnd = time
      BY <1>1 DEF ParallelType
    <3>2. QED
      BY <3>1
  <2>5. QED
    BY <2>2, <2>3, <2>4
<1>4. CASE parallel' = [parallel EXCEPT ![o].taskEnd = time] /\ parallel' # parallel
  <2>1. /\ parallel' = [parallel EXCEPT ![o] = [parallel[o] EXCEPT !.taskEnd = time]]
        /\ [parallel[o] EXCEPT !.taskEnd = time] \in ParallelType
    BY <1>1, <1>4 DEF ParallelType
  <2>2. /\ parallel'[o] = [parallel[o] EXCEPT !.taskEnd = time]
        /\ \A p \in Parallels : p # o => parallel'[p] = parallel[p]
        /\ parallel' \in [Parallels -> ParallelType]
    BY <1>1, <2>1
  <2>3. /\ parallel'[o].no = parallel[o].no /\ parallel'[o].ref = parallel[o].ref
        /\ parallel'[o].recorded = parallel[o].recorded /\ parallel'[o].taskEnd = time
    BY <1>1, <2>2 DEF ParallelType
  <2>4. parallel' = [parallel EXCEPT ![o].barrierEnd = time] =>
          \A p \in Parallels : parallel'[p].taskEnd = parallel[p].taskEnd
    <3>1. \A p \in Parallels :
            [parallel EXCEPT ![o].barrierEnd = time][p].taskEnd = parallel[p].taskEnd
      BY <1>1 DEF ParallelType
    <3>2. QED
      BY <3>1
  <2>5. QED
    BY <2>2, <2>3, <2>4
<1>5. QED
  BY <1>2, <1>3, <1>4

LEMMA BarrierExitStep ==
    ASSUME OmptTeamsInv, NEW t \in Threads, BarrierExit(t)
    PROVE  OmptTeamsInv'
<1> USE Facts, ThreadFacts
<1>a. PICK l \in Indices : l = index[t]
  OBVIOUS
<1>b. PICK x : x = object[t]
  OBVIOUS
<1>c. PICK o : o = task[x].parallel
  OBVIOUS
<1>d. PICK next : next = IF caller[t] = "overdue" THEN "task_end" ELSE "decide"
  OBVIOUS
<1>1. /\ pc[t] = "barrier_exit" /\ x \in Threads /\ Executes(x) /\ index[x] = l
      /\ task[x].index = l /\ o \in Parallels /\ parallel[o].no \in 1..region
      /\ Open(x) /\ Written(x) /\ task[x].syncs = 1
      /\ caller[t] # "overdue" => x = t
      /\ caller[t] = "overdue" => WritesOverdue(t) /\ x \in Workers /\ t \in Workers
      /\ next \in {"task_end", "decide"}
  <2>1. pc[t] = "barrier_exit"
    BY DEF BarrierExit
  <2>2. task[x].syncs = 1
    BY <1>b, <2>1 DEF SyncsAt
  <2>3. Written(x)
    BY <1>b, <2>1, WriterFacts DEF Writing
  <2>4. QED
    BY <1>a, <1>b, <1>c, <1>d, <2>1, <2>2, <2>3, ObjectFacts DEF Writing
<1>2. /\ pc' = [pc EXCEPT ![t] = next]
      /\ task' = [task EXCEPT ![x].syncs = 0]
      /\ clock' \in {Now, clock} /\ stamp' = [stamp EXCEPT ![t] = 0]
      /\ parallel' = IF l = 0 THEN [parallel EXCEPT ![o].barrierEnd = stamp[t]] ELSE parallel
      /\ IF parallel[o].recorded
         THEN Put(l, "barrier_exit", parallel[o].no, events[l].team)
         ELSE events' = events
      /\ bug' \in TimestampBugs \cup {None}
      /\ UNCHANGED <<runtimeVars, parallelFree, taskFree, locationVars, index, object,
                     caller, endVars>>
  <2>1. task' = [task EXCEPT ![x].syncs = @ - 1]
    BY <1>b DEF BarrierExit
  <2>2. task' = [task EXCEPT ![x].syncs = 0]
    BY <1>1, <2>1
  <2>3. IF parallel[o].recorded
        THEN /\ Put(l, "barrier_exit", parallel[o].no, events[l].team)
             /\ SetLastTimestamp(l, OwnTime(t, x))
        ELSE UNCHANGED <<events, lastTimestamp, bug>>
    <3>1. task[object[t]].syncs # 0 /\ object[t] = x
      BY <1>1, <1>b
    <3>2. IF parallel[task[object[t]].parallel].recorded
          THEN /\ Put(task[object[t]].index, "barrier_exit", parallel[task[object[t]].parallel].no,
                      events[task[object[t]].index].team)
               /\ SetLastTimestamp(task[object[t]].index, OwnTime(t, object[t]))
          ELSE UNCHANGED <<events, lastTimestamp, bug>>
      BY <3>1, Zenon DEF BarrierExit
    <3>3. IF parallel[task[x].parallel].recorded
          THEN /\ Put(task[x].index, "barrier_exit", parallel[task[x].parallel].no,
                      events[task[x].index].team)
               /\ SetLastTimestamp(task[x].index, OwnTime(t, x))
          ELSE UNCHANGED <<events, lastTimestamp, bug>>
      BY <3>1, <3>2, Zenon
    <3>4. task[x].parallel = o /\ task[x].index = l
      BY <1>1, <1>c
    <3>5. QED
      BY <3>3, <3>4, Zenon
  <2>4. bug' \in TimestampBugs \cup {None}
    BY <2>3 DEF SetLastTimestamp, BugOn, TimestampBugs
  <2>5. QED
    BY <1>1, <1>b, <1>c, <1>d, <2>2, <2>3, <2>4 DEF BarrierExit, Goto
<1>3. /\ \A u \in Threads : pc[u] \in Writing \cup {"decide"} /\ object[u] = x => u = t
      /\ x # t => pc[x] \in AtEnd \cup {"release"} /\ stored[l] = None
      /\ x = t => caller[t] # "overdue"
  BY <1>1, <1>a, <1>b, WriterFacts DEF Writing
<1>4. events[l].kind = (IF parallel[o].recorded THEN "barrier_enter" ELSE "begin")
      /\ events[l].no = parallel[o].no
  BY <1>1, <1>c DEF Written
<1>5. /\ events' \in [Indices -> [kind : Kinds, no : 0..Regions, team : Nat]]
      /\ events'[l].kind \in {"begin", "barrier_exit"}
      /\ events'[l].no = parallel[o].no
      /\ \A k \in Indices : k # l => events'[k] = events[k]
  <2>1. CASE parallel[o].recorded
    <3>1. Follows(events[l], "barrier_exit", parallel[o].no)
      BY <1>4, <2>1 DEF Follows
    <3>2. "barrier_exit" \in Kinds /\ parallel[o].no \in 0..Regions /\ events[l].team \in Nat
      BY <1>1 DEF Kinds, TypesOK, TypeOK
    <3>3. QED
      BY <1>2, <2>1, <3>1, <3>2, PutFits, SMTT(30)
  <2>2. CASE ~parallel[o].recorded
    BY <1>2, <1>4, <2>2 DEF TypesOK
  <2>3. QED
    BY <2>1, <2>2
<1>6. /\ task' \in [Threads -> TaskType]
      /\ \A u \in Threads : u # x => task'[u] = task[u]
      /\ task'[x].syncs = 0
      /\ \A u \in Threads :
           task'[u].parallel = task[u].parallel /\ (task'[u].overdue <=> task[u].overdue)
           /\ task'[u].index = task[u].index
  <2>1. TypeOK /\ 0 \in 0..1
    OBVIOUS
  <2>2. QED
    BY <1>1, <1>2, <2>1, SyncsChange
<1>7. /\ parallel' \in [Parallels -> ParallelType]
      /\ \A p \in Parallels :
           parallel'[p].no = parallel[p].no /\ parallel'[p].ref = parallel[p].ref
           /\ parallel'[p].recorded = parallel[p].recorded
           /\ parallel'[p].taskEnd = parallel[p].taskEnd
  <2>1. TypeOK /\ stamp[t] \in Nat /\ o \in Parallels
    BY <1>1
  <2>2. CASE l = 0
    <3>1. parallel' = [parallel EXCEPT ![o].barrierEnd = stamp[t]]
      BY <1>2, <2>2
    <3>2. QED
      BY <2>1, <3>1, TimeSet
  <2>3. CASE l # 0
    <3>1. parallel' = parallel
      BY <1>2, <2>3
    <3>2. QED
      BY <2>1, <3>1 DEF TypeOK, ParallelType
  <2>4. QED
    BY <2>2, <2>3
<1>8. /\ taskData' = taskData /\ index' = index /\ taskFree' = taskFree
      /\ finalizing' = finalizing /\ size' = size /\ region' = region /\ stored' = stored
      /\ isOmpt' = isOmpt /\ preserveOrder' = preserveOrder /\ parallelData' = parallelData
      /\ parallelFree' = parallelFree /\ taken' = taken /\ object' = object /\ caller' = caller
      /\ team' = team /\ finalizeTool' = finalizeTool /\ arrived' = arrived
  BY <1>2 DEF runtimeVars, locationVars, endVars
<1>9. pc'[t] = next /\ \A u \in Threads : u # t => pc'[u] = pc[u]
  BY <1>2 DEF TypesOK
<1>10. OnlyMoves(t) /\ TeamSame
  <2>1. \A u \in Threads : u # t => stamp'[u] = stamp[u]
    BY <1>2 DEF TypesOK
  <2>2. QED
    BY <1>6, <1>7, <1>8, <1>9, <2>1 DEF OnlyMoves, Same, TeamSame
<1>11. TypesOK'
  <2>1. pc' \in [Threads -> Points]
    BY <1>1, <1>2 DEF TypesOK, Points, Writing
  <2>2. Now \in Nat \ {0}
    BY OmptTeamsAssumption DEF Now, TypesOK
  <2>3. clock' \in Nat \ {0} /\ stamp' \in [Threads -> Nat]
    BY <1>2, <2>2 DEF TypesOK
  <2>4. QED
    BY <1>5, <1>6, <1>7, <1>8, <2>1, <2>3 DEF TypesOK, TypeOK, TaskType, ParallelType
<1>12. ThreadsOK'
  <2>1. Executes(t) => next = "decide" /\ caller[t] # "overdue"
    BY <1>1, <1>d DEF ControlOK, Writing
  <2>2. ~Executes(t) => next = "task_end" /\ caller[t] = "overdue"
    BY <1>1, <1>d DEF ControlOK, Writing
  <2>3. ControlOK(t)'
    BY <1>1, <1>8, <1>9, <2>1, <2>2 DEF ControlOK, Executes, Entering, Writing, AtEnd, OfPrimary
  <2>4. CallerOK(t)'
    BY <1>1, <1>8, <1>9, <1>b, <2>1, <2>2 DEF CallerOK, HandlesOwn, Executes
  <2>5. QED
    BY <1>1, <1>8, <1>9, <1>10, <2>3, <2>4, ThreadsFrame
<1>13. \A u \in Threads : /\ Executes(u)' <=> Executes(u)
                          /\ WritesOverdue(u)' <=> WritesOverdue(u)
                          /\ HandlesOwn(u)' <=> HandlesOwn(u)
                          /\ Keeps(u)' <=> Keeps(u)
                          /\ Open(u)' <=> Open(u)
  <2>1. \A u \in Threads : Executes(u)' <=> Executes(u)
    BY <1>8 DEF Executes
  <2>2. \A u \in Threads : WritesOverdue(u)' <=> WritesOverdue(u)
    BY <1>1, <1>8, <1>9, <1>d DEF WritesOverdue
  <2>3. \A u \in Threads : (HandlesOwn(u)' <=> HandlesOwn(u)) /\ (Keeps(u)' <=> Keeps(u))
    BY <1>1, <1>8, <1>9, <2>1 DEF HandlesOwn, Keeps, Writing
  <2>4. ASSUME NEW u \in Threads  PROVE  Open(u)' <=> Open(u)
    <3>1. CASE u = t
      BY <1>1, <1>6, <1>8, <1>9, <2>1, <2>3, <3>1 DEF Open, AtEnd
    <3>2. CASE u # t
      BY <1>6, <1>8, <1>9, <2>1, <2>3, <3>2 DEF Open
    <3>3. QED
      BY <3>1, <3>2
  <2>5. QED
    BY <2>1, <2>2, <2>3, <2>4
<1>14. MembersOK' /\ BarrierOK' /\ ReferencesOK'
  <2>1. task[t].parallel = parallelData /\ arrived < size /\ size > 1 /\ Executes(t) => FALSE
    BY <1>1 DEF OmptTeamsInv, BarrierOK
  <2>2. Joining(t)' <=> Joining(t)
    BY <1>1, <1>9, <1>13 DEF Joining, Entering
  <2>3. t = Primary => next = "decide"
    BY <1>1, <1>d
  <2>4. StaysInTeam(t)
    BY <1>1, <1>8, <1>9, <2>1, <2>2, <2>3 DEF StaysInTeam, Entering, Barrier
  <2>5. QED
    BY <1>10, <2>4, TeamFrame
<1>15. OverdueOK'
  <2>1. OverdueOK
    BY DEF OmptTeamsInv
  <2>2. ASSUME NEW u \in Threads  PROVE  OverdueAt(u)'
    <3>1. CASE WritesOverdue(u)
      <4>1. PICK y : y = object[u]
        OBVIOUS
      <4>2. /\ y \in Workers /\ Executes(y) /\ task[y].overdue /\ index[y] = index[u]
            /\ pc[y] \in AtEnd \cup {"release"} /\ stored[index[u]] = None
        BY <2>1, <3>1, <4>1 DEF OverdueOK, OverdueAt
      <4>3. y # t
        BY <1>1, <4>2 DEF AtEnd
      <4>4. QED
        BY <1>6, <1>8, <1>9, <1>13, <4>1, <4>2, <4>3 DEF OverdueAt
    <3>2. CASE ~WritesOverdue(u)
      BY <1>13, <3>2 DEF OverdueAt
    <3>3. QED
      BY <3>1, <3>2
  <2>3. QED
    BY <1>6, <1>8, <1>13, <2>1, <2>2 DEF OverdueOK
<1>16. \A u \in Threads : pc'[u] \in {"running", "task_begin", "wait_order"} => pc'[u] = pc[u] /\ u # t
  BY <1>1, <1>9
<1>17. TasksOK'
  BY <1>6, <1>7, <1>8, <1>13, <1>16, TasksFrame
<1>18. StoredOK'
  <2>1. StoredOK
    BY DEF OmptTeamsInv
  <2>2. ASSUME NEW k \in Indices \ {0}  PROVE  StoredAt(k)'
    <3>1. CASE stored[k] # None
      <4>1. PICK y : y = stored[k]
        OBVIOUS
      <4>2. /\ y \in Workers /\ Executes(y) /\ index[y] = k
            /\ pc[y] \in AtEnd \cup {"running"} /\ ~task[y].overdue
        BY <2>1, <3>1, <4>1 DEF StoredOK, StoredAt
      <4>3. pc'[y] \in AtEnd \cup {"running"}
        BY <1>1, <1>9, <4>2 DEF AtEnd
      <4>4. QED
        BY <1>6, <1>8, <1>13, <3>1, <4>1, <4>2, <4>3 DEF StoredAt
    <3>2. CASE stored[k] = None
      BY <1>8, <3>2 DEF StoredAt
    <3>3. QED
      BY <3>1, <3>2
  <2>3. \A u \in Threads : pc'[u] = "running" => stored'[index'[u]] = u
    BY <1>8, <1>16, <2>1 DEF StoredOK
  <2>4. StoredOfPrimary' = StoredOfPrimary
    <3>1. t = Primary => next = "decide"
      BY <1>1, <1>d
    <3>2. QED
      BY <1>1, <1>8, <1>9, <3>1 DEF StoredOfPrimary, AtEnd
  <2>5. QED
    BY <1>8, <2>1, <2>2, <2>3, <2>4 DEF StoredOK
<1>19. OpenOK'
  BY <1>8, <1>13, <1>16 DEF OmptTeamsInv, OpenOK
<1>20. OrderOK'
  BY <1>8, <1>13 DEF OmptTeamsInv, OrderOK
<1>21. SyncsOK'
  <2>1. SyncsAt(t)'
    BY <1>1, <1>6, <1>8, <1>9, <1>b DEF SyncsAt, AtEnd
  <2>2. ASSUME NEW u \in Threads, u # t  PROVE  SyncsAt(u)'
    <3>1. SyncsAt(u) /\ pc'[u] = pc[u]
      BY <1>9, <2>2
    <3>2. pc[u] \in {"barrier_end", "barrier_exit", "decide", "task_end", "task_exit"} =>
            task'[object[u]] = task[object[u]]
      <4>1. pc[u] \in {"barrier_end", "barrier_exit", "decide", "task_end", "task_exit"} =>
              object[u] # x /\ object[u] \in Threads
        BY <1>3, <2>2, ObjectFacts DEF Writing
      <4>2. QED
        BY <1>6, <4>1
    <3>3. Executes(u)' <=> Executes(u)
      BY <1>13
    <3>4. CASE u = x
      BY <1>1, <1>3, <1>8, <2>2, <3>1, <3>2, <3>4 DEF SyncsAt, AtEnd
    <3>5. CASE u # x
      <4>1. task'[u] = task[u]
        BY <1>6, <3>5
      <4>2. QED
        BY <1>8, <3>1, <3>2, <3>3, <4>1 DEF SyncsAt
    <3>6. QED
      BY <3>4, <3>5
  <2>3. QED
    BY <2>1, <2>2 DEF SyncsOK
<1>22. EventsOK'
  <2>1. Written(x)'
    <3>1. /\ task'[x].parallel = o /\ task'[x].syncs = 0 /\ index'[x] = l
          /\ parallel'[o].no = parallel[o].no
      BY <1>1, <1>6, <1>7, <1>8, <1>c
    <3>2. pc'[x] # "running"
      BY <1>1, <1>3, <1>9 DEF AtEnd
    <3>3. QED
      BY <1>5, <3>1, <3>2 DEF Written
  <2>2. \/ pc'[Primary] = pc[Primary] /\ l # 0
        \/ pc'[Primary] \notin Entering \cup {"serial", "finalizing", "done", "forked",
                                             "release", "parallel_end"}
    <3>1. t = Primary => next = "decide"
      BY <1>1, <1>d
    <3>2. QED
      BY <1>1, <1>9, <1>a, <3>1 DEF Entering, ControlOK
  <2>3. QED
    <3>1. /\ Open(x) /\ index'[x] = index[x] /\ (Open(x)' => Written(x)') /\ Open(x)'
          /\ \A u \in Threads : u # x =>
               /\ Open(u)' <=> Open(u)
               /\ Open(u) => /\ index'[u] = index[u] /\ (pc'[u] = "running" => pc[u] = "running")
                             /\ task'[u].parallel = task[u].parallel /\ task'[u].syncs = task[u].syncs
      BY <1>1, <1>6, <1>8, <1>13, <1>16, <2>1
    <3>2. /\ \A k \in Indices : k # index[x] => events'[k] = events[k]
          /\ \A p \in Parallels : parallel'[p].no = parallel[p].no
                                  /\ parallel'[p].recorded = parallel[p].recorded
      BY <1>1, <1>5, <1>7
    <3>3. QED
      BY <1>1, <1>8, <2>2, <3>1, <3>2, PutFrame
<1>23. EndKnownOK'
  <2>1. (PastEnd' <=> PastEnd) /\ (pc'[Primary] \in {"barrier_exit", "task_exit"} => pc'[Primary] = pc[Primary] /\ t # Primary)
    BY <1>1, <1>9 DEF PastEnd
  <2>2. t # Primary => stamp'[Primary] = stamp[Primary]
    BY <1>10 DEF OnlyMoves, Same
  <2>3. EndKnownOK
    BY DEF OmptTeamsInv
  <2>4. parallel'[parallelData].taskEnd = parallel[parallelData].taskEnd
    <3>1. region > 0
      <4>1. \E n : n \in 1..region
        BY <1>1
      <4>2. QED
        BY <4>1 DEF TypeOK
    <3>2. parallelData \in Parallels
      BY <3>1 DEF OmptTeamsInv, TasksOK
    <3>3. QED
      BY <1>7, <3>2
  <2>5. ASSUME NEW u \in Threads, Executes(u)
        PROVE  parallel'[task[u].parallel].taskEnd = parallel[task[u].parallel].taskEnd
    BY <1>7, <2>5 DEF OmptTeamsInv, TasksOK
  <2>6. QED
    BY <1>6, <1>8, <1>13, <2>1, <2>2, <2>3, <2>4, <2>5 DEF EndKnownOK, TaskEndKnown
<1>24. QED
  BY <1>2, <1>11, <1>12, <1>14, <1>15, <1>17, <1>18, <1>19, <1>20, <1>21, <1>22, <1>23 DEF OmptTeamsInv

(* What the end of a task does, whoever writes it *)
ExitsTask(t, x, l, o) ==
    /\ IF caller[t] = "overdue"
       THEN /\ task' = [task EXCEPT ![x].overdue = FALSE]
            /\ pc' = [pc EXCEPT ![t] = "task_begin"]
       ELSE task' = task /\ pc' = [pc EXCEPT ![t] = "release"]
    /\ preserveOrder' = IF caller[t] \in {"sync_region", "implicit_task"}
                        THEN [preserveOrder EXCEPT ![l] = FALSE] ELSE preserveOrder
    /\ parallel' = IF l = 0 THEN [parallel EXCEPT ![o].taskEnd = stamp[t]] ELSE parallel

LEMMA TaskExitFacts ==
    ASSUME OmptTeamsInv, NEW t \in Threads, TaskExit(t),
           NEW x, x = object[t], NEW l, l = index[t], NEW o, o = task[x].parallel
    PROVE  /\ pc[t] = "task_exit" /\ x \in Threads /\ Executes(x) /\ index[x] = l /\ l \in Indices
           /\ task[x].index = l /\ o \in Parallels /\ parallel[o].no \in 1..region
           /\ Open(x)
           /\ \A u \in Threads : pc[u] \in Writing \cup {"decide"} /\ object[u] = x => u = t
           /\ \A y \in Threads : Open(y) /\ index[y] = l => y = x
           /\ ExitsTask(t, x, l, o)
           /\ bug' \in TimestampBugs \cup {None}
           /\ events' \in [Indices -> [kind : Kinds, no : 0..Regions, team : Nat]]
           /\ events'[l].kind = "end" /\ events'[l].no = parallel[o].no
           /\ \A k \in Indices : k # l => events'[k] = events[k]
           /\ clock' \in Nat \ {0}
           /\ parallel' \in [Parallels -> ParallelType]
           /\ \A p \in Parallels :
                parallel'[p].no = parallel[p].no /\ parallel'[p].ref = parallel[p].ref
                /\ parallel'[p].recorded = parallel[p].recorded
           /\ taskData' = taskData /\ index' = index /\ taskFree' = taskFree
           /\ finalizing' = finalizing /\ size' = size /\ region' = region /\ stored' = stored
           /\ isOmpt' = isOmpt /\ parallelData' = parallelData /\ parallelFree' = parallelFree
           /\ taken' = taken /\ object' = object /\ caller' = caller /\ team' = team
           /\ stamp' = stamp /\ finalizeTool' = finalizeTool /\ arrived' = arrived
<1> USE Facts, ThreadFacts
<1>1. pc[t] = "task_exit"
  BY DEF TaskExit
<1>2. /\ x \in Threads /\ Executes(x) /\ index[x] = l /\ l \in Indices
      /\ task[x].index = l /\ o \in Parallels /\ parallel[o].no \in 1..region /\ Open(x)
  BY <1>1, ObjectFacts DEF Writing
<1>3. /\ \A u \in Threads : pc[u] \in Writing \cup {"decide"} /\ object[u] = x => u = t
      /\ \A y \in Threads : Open(y) /\ index[y] = l => y = x
      /\ Written(x)
  BY <1>1, WriterFacts DEF Writing
<1>4. Put(l, "end", parallel[o].no, team[l])
  <2>1. Put(task[object[t]].index, "end", parallel[task[object[t]].parallel].no, team[task[object[t]].index])
    BY Zenon DEF TaskExit
  <2>2. task[object[t]].index = l /\ task[object[t]].parallel = o
    BY <1>2
  <2>3. QED
    BY <2>1, <2>2, Zenon
<1>5. bug' \in TimestampBugs \cup {None}
  <2>1. \/ SetLastTimestamp(task[object[t]].index, OwnTime(t, object[t]))
        \/ UNCHANGED <<lastTimestamp, bug>>
    BY Zenon DEF TaskExit
  <2>2. QED
    BY <2>1 DEF SetLastTimestamp, BugOn, TimestampBugs
<1>6. events[l].kind \in {"begin", "barrier_exit"} /\ events[l].no = parallel[o].no
  <2>1. task[x].syncs = 0
    BY <1>1 DEF SyncsAt
  <2>2. QED
    BY <1>2, <1>3, <2>1 DEF Written
<1>7. /\ events' \in [Indices -> [kind : Kinds, no : 0..Regions, team : Nat]]
      /\ events'[l].kind = "end" /\ events'[l].no = parallel[o].no
      /\ \A k \in Indices : k # l => events'[k] = events[k]
  <2>1. Follows(events[l], "end", parallel[o].no)
    BY <1>6 DEF Follows
  <2>2. "end" \in Kinds /\ parallel[o].no \in 0..Regions /\ team[l] \in Nat
    BY <1>2 DEF Kinds, TypesOK, TypeOK
  <2>3. QED
    BY <1>2, <1>4, <2>1, <2>2, PutFits
<1>8. /\ IF caller[t] = "overdue"
         THEN /\ task' = [task EXCEPT ![x].overdue = FALSE]
              /\ pc' = [pc EXCEPT ![t] = "task_begin"]
         ELSE task' = task /\ pc' = [pc EXCEPT ![t] = "release"]
      /\ preserveOrder' = IF caller[t] \in {"sync_region", "implicit_task"}
                          THEN [preserveOrder EXCEPT ![l] = FALSE] ELSE preserveOrder
      /\ parallel' = IF l = 0 THEN [parallel EXCEPT ![o].taskEnd = stamp[t]] ELSE parallel
      /\ clock' = IF l # 0 /\ stamp[t] = 0 THEN Now ELSE clock
      /\ UNCHANGED <<runtimeVars, parallelFree, taskFree, stored, isOmpt, team, index,
                     object, caller, stamp, endVars>>
  <2>1. /\ IF caller[t] = "overdue"
           THEN OverdueDone(object[t]) /\ Goto(t, "task_begin")
           ELSE Goto(t, "release") /\ UNCHANGED task
        /\ preserveOrder' =
             IF UnlocksOrder(caller[t])
             THEN [preserveOrder EXCEPT ![task[object[t]].index] = FALSE] ELSE preserveOrder
        /\ parallel' = IF task[object[t]].index = 0
                       THEN [parallel EXCEPT ![task[object[t]].parallel].taskEnd = stamp[t]]
                       ELSE parallel
        /\ clock' = IF task[object[t]].index # 0 /\ stamp[t] = 0 THEN Now ELSE clock
        /\ UNCHANGED <<runtimeVars, parallelFree, taskFree, stored, isOmpt, team, index,
                       object, caller, stamp, endVars>>
    BY Zenon DEF TaskExit
  <2>2. task[object[t]].index = l /\ task[object[t]].parallel = o
    BY <1>2
  <2>3. QED
    BY <2>1, <2>2 DEF OverdueDone, Goto, UnlocksOrder
<1>9. clock' \in Nat \ {0}
  <2>1. Now \in Nat \ {0}
    BY OmptTeamsAssumption, SMTT(30) DEF Now, TypesOK
  <2>2. QED
    BY <1>8, <2>1 DEF TypesOK
<1>10. /\ parallel' \in [Parallels -> ParallelType]
       /\ \A p \in Parallels :
            parallel'[p].no = parallel[p].no /\ parallel'[p].ref = parallel[p].ref
            /\ parallel'[p].recorded = parallel[p].recorded
  <2>1. TypeOK /\ stamp[t] \in Nat
    OBVIOUS
  <2>2. \/ parallel' = parallel
        \/ parallel' = [parallel EXCEPT ![o].taskEnd = stamp[t]]
    BY <1>8
  <2>3. QED
    BY <1>2, <2>1, <2>2, TimeSet
<1>11. /\ taskData' = taskData /\ index' = index /\ taskFree' = taskFree
       /\ finalizing' = finalizing /\ size' = size /\ region' = region /\ stored' = stored
       /\ isOmpt' = isOmpt /\ parallelData' = parallelData /\ parallelFree' = parallelFree
       /\ taken' = taken /\ object' = object /\ caller' = caller /\ team' = team
       /\ stamp' = stamp /\ finalizeTool' = finalizeTool /\ arrived' = arrived
  BY <1>8 DEF runtimeVars, endVars
<1>12. ExitsTask(t, x, l, o)
  BY <1>8 DEF ExitsTask
<1>13. QED
  BY <1>1, <1>2, <1>3, <1>5, <1>7, <1>9, <1>10, <1>11, <1>12

(* The overdue task has ended: the thread begins its own. *)
LEMMA TaskExitOverdueStep ==
    ASSUME OmptTeamsInv, NEW t \in Threads, TaskExit(t), caller[t] = "overdue"
    PROVE  OmptTeamsInv'
<1> USE Facts, ThreadFacts
<1>a. PICK l : l = index[t]
  OBVIOUS
<1>b. PICK x : x = object[t]
  OBVIOUS
<1>c. PICK o : o = task[x].parallel
  OBVIOUS
<1>1. /\ pc[t] = "task_exit" /\ x \in Threads /\ Executes(x) /\ index[x] = l /\ l \in Indices
      /\ Open(x) /\ o \in Parallels
      /\ \A u \in Threads : pc[u] \in Writing \cup {"decide"} /\ object[u] = x => u = t
      /\ \A y \in Threads : Open(y) /\ index[y] = l => y = x
      /\ task' = [task EXCEPT ![x].overdue = FALSE] /\ pc' = [pc EXCEPT ![t] = "task_begin"]
      /\ preserveOrder' = preserveOrder
  <2>1. ExitsTask(t, x, l, o)
    BY <1>a, <1>b, <1>c, TaskExitFacts
  <2>2. /\ pc[t] = "task_exit" /\ x \in Threads /\ Executes(x) /\ index[x] = l /\ l \in Indices
        /\ Open(x) /\ o \in Parallels
        /\ \A u \in Threads : pc[u] \in Writing \cup {"decide"} /\ object[u] = x => u = t
        /\ \A y \in Threads : Open(y) /\ index[y] = l => y = x
    BY <1>a, <1>b, <1>c, TaskExitFacts, SMTT(30)
  <2>3. QED
    BY <2>1, <2>2 DEF ExitsTask
<1>2. /\ parallel' = IF l = 0 THEN [parallel EXCEPT ![o].taskEnd = stamp[t]] ELSE parallel
      /\ bug' \in TimestampBugs \cup {None}
      /\ events' \in [Indices -> [kind : Kinds, no : 0..Regions, team : Nat]]
      /\ events'[l].kind = "end"
      /\ \A k \in Indices : k # l => events'[k] = events[k]
      /\ clock' \in Nat \ {0}
  <2>1. /\ ExitsTask(t, x, l, o)
        /\ bug' \in TimestampBugs \cup {None}
    BY <1>a, <1>b, <1>c, TaskExitFacts
  <2>2. /\ events' \in [Indices -> [kind : Kinds, no : 0..Regions, team : Nat]]
        /\ events'[l].kind = "end"
        /\ \A k \in Indices : k # l => events'[k] = events[k]
        /\ clock' \in Nat \ {0}
    BY <1>a, <1>b, <1>c, TaskExitFacts, SMTT(30)
  <2>3. QED
    BY <2>1, <2>2 DEF ExitsTask
<1>3. /\ taskData' = taskData /\ index' = index /\ taskFree' = taskFree
      /\ finalizing' = finalizing /\ size' = size /\ region' = region /\ stored' = stored
      /\ isOmpt' = isOmpt /\ parallelData' = parallelData /\ parallelFree' = parallelFree
      /\ taken' = taken /\ object' = object /\ caller' = caller /\ team' = team
      /\ stamp' = stamp /\ finalizeTool' = finalizeTool /\ arrived' = arrived
  BY <1>a, <1>b, <1>c, TaskExitFacts
<1>4. /\ t \in Workers /\ x \in Workers /\ x # t /\ ~Executes(t) /\ WritesOverdue(t) /\ l # 0
      /\ pc[x] \in AtEnd \cup {"release"} /\ stored[l] = None
  <2>1. WritesOverdue(t) /\ x \in Workers /\ t \in Workers
    BY <1>1, <1>b, ObjectFacts DEF Writing
  <2>2. ~Executes(t)
    BY <1>1 DEF ControlOK, Writing
  <2>3. l # 0
    BY <1>1, <1>a, <2>1 DEF ControlOK
  <2>4. pc[x] \in AtEnd \cup {"release"} /\ stored[l] = None
    BY <1>a, <1>b, <2>1 DEF OmptTeamsInv, OverdueOK, OverdueAt
  <2>5. QED
    BY <1>1, <2>1, <2>2, <2>3, <2>4
<1>5. parallel' = parallel
  BY <1>2, <1>4
<1>6. /\ task' \in [Threads -> TaskType]
      /\ \A u \in Threads : u # x => task'[u] = task[u]
      /\ ~task'[x].overdue
      /\ \A u \in Threads :
           task'[u].parallel = task[u].parallel /\ task'[u].syncs = task[u].syncs
           /\ task'[u].index = task[u].index
  <2>1. TypeOK /\ FALSE \in BOOLEAN
    OBVIOUS
  <2>2. /\ task' \in [Threads -> TaskType]
        /\ \A u \in Threads : u # x => task'[u] = task[u]
        /\ task'[x].overdue = FALSE
        /\ \A u \in Threads :
             task'[u].parallel = task[u].parallel /\ task'[u].syncs = task[u].syncs
             /\ task'[u].index = task[u].index
    BY <1>1, <2>1, MarkChange
  <2>3. QED
    BY <2>2
<1>7. pc'[t] = "task_begin" /\ \A u \in Threads : u # t => pc'[u] = pc[u]
  BY <1>1 DEF TypesOK
<1>8. OnlyMoves(t) /\ TeamSame
  BY <1>3, <1>5, <1>6, <1>7 DEF OnlyMoves, Same, TeamSame
<1>9. TypesOK'
  <2>1. pc' \in [Threads -> Points]
    BY <1>1 DEF TypesOK, Points, Entering
  <2>2. QED
    BY <1>1, <1>2, <1>3, <1>5, <1>6, <2>1 DEF TypesOK, TypeOK, TaskType
<1>10. ThreadsOK'
  <2>1. ControlOK(t)'
    BY <1>1, <1>3, <1>4, <1>7 DEF ControlOK, Executes, Entering, Writing, AtEnd, OfPrimary
  <2>2. CallerOK(t)'
    BY <1>1, <1>3, <1>4, <1>7 DEF CallerOK, HandlesOwn, Executes
  <2>3. QED
    BY <1>3, <1>4, <1>8, <2>1, <2>2, ThreadsFrame
<1>11. \A u \in Threads : /\ Executes(u)' <=> Executes(u)
                          /\ HandlesOwn(u)' <=> HandlesOwn(u)
                          /\ Keeps(u)' <=> Keeps(u)
                          /\ Executes(u) => u # t
  <2>1. \A u \in Threads : (Executes(u)' <=> Executes(u)) /\ (Executes(u) => u # t)
    BY <1>3, <1>4 DEF Executes
  <2>2. \A u \in Threads : HandlesOwn(u)' <=> HandlesOwn(u)
    BY <1>7, <2>1 DEF HandlesOwn
  <2>3. QED
    BY <1>3, <1>7, <2>1, <2>2 DEF Keeps, HandlesOwn
<1>12. ~WritesOverdue(t)' /\ \A u \in Threads : u # t => (WritesOverdue(u)' <=> WritesOverdue(u))
  BY <1>3, <1>7 DEF WritesOverdue
<1>13. Joining(t) /\ Joining(t)'
  BY <1>4, <1>7 DEF Joining, Entering
<1>14. MembersOK' /\ BarrierOK' /\ ReferencesOK'
  <2>1. StaysInTeam(t)
    BY <1>3, <1>4, <1>7, <1>13 DEF StaysInTeam
  <2>2. QED
    BY <1>8, <2>1, TeamFrame
<1>15. \A u \in Threads : u # x => (Open(u)' <=> Open(u))
  BY <1>3, <1>6, <1>7, <1>11 DEF Open
<1>16. ~Open(x)'
  <2>1. ~HandlesOwn(x)' /\ pc'[x] # "running"
    BY <1>4, <1>7 DEF HandlesOwn, Writing, AtEnd
  <2>2. stored'[index'[x]] # x
    BY <1>1, <1>3, <1>4
  <2>3. QED
    BY <1>6, <2>1, <2>2 DEF Open
<1>17. OverdueOK'
  <2>1. OverdueOK
    BY DEF OmptTeamsInv
  <2>2. ASSUME NEW u \in Threads  PROVE  OverdueAt(u)'
    <3>1. CASE u # t /\ WritesOverdue(u)
      <4>1. PICK y : y = object[u]
        OBVIOUS
      <4>2. /\ y \in Workers /\ Executes(y) /\ task[y].overdue /\ index[y] = index[u]
            /\ pc[y] \in AtEnd \cup {"release"} /\ stored[index[u]] = None
        BY <2>1, <3>1, <4>1 DEF OverdueOK, OverdueAt
      <4>3. y # t /\ y # x
        BY <1>1, <1>4, <3>1, <4>1, <4>2 DEF WritesOverdue, Writing
      <4>4. task'[y] = task[y]
        BY <1>6, <4>2, <4>3
      <4>5. QED
        BY <1>3, <1>7, <1>11, <4>1, <4>2, <4>3, <4>4 DEF OverdueAt
    <3>2. CASE u = t \/ ~WritesOverdue(u)
      BY <1>12, <3>2 DEF OverdueAt
    <3>3. QED
      BY <3>1, <3>2
  <2>3. ASSUME NEW y \in Threads, task'[y].overdue
        PROVE  Executes(y)' /\ \E u \in Threads : WritesOverdue(u)' /\ object'[u] = y
    <3>1. y # x /\ task[y].overdue
      BY <1>6, <2>3
    <3>2. Executes(y)
      BY <2>1, <3>1 DEF OverdueOK
    <3>3. PICK u \in Threads : WritesOverdue(u) /\ object[u] = y
      BY <2>1, <3>1 DEF OverdueOK
    <3>4. u # t
      BY <1>b, <3>1, <3>3
    <3>5. QED
      BY <1>3, <1>11, <1>12, <3>2, <3>3, <3>4
  <2>4. QED
    BY <2>2, <2>3 DEF OverdueOK
<1>18. \A u \in Threads : /\ pc'[u] \in {"running", "wait_order"} => pc'[u] = pc[u] /\ u # t
                          /\ pc'[u] = "task_begin" => u = t \/ pc[u] = "task_begin"
  BY <1>7
<1>19. TasksOK'
  BY <1>3, <1>5, <1>6, <1>11, <1>18, TasksFrame
<1>20. pc'[Primary] = pc[Primary]
  BY <1>4, <1>7
<1>21. StoredOK'
  <2>1. StoredOK
    BY DEF OmptTeamsInv
  <2>2. ASSUME NEW k \in Indices \ {0}  PROVE  StoredAt(k)'
    <3>1. CASE stored[k] # None
      <4>1. PICK y : y = stored[k]
        OBVIOUS
      <4>2. /\ y \in Workers /\ Executes(y) /\ index[y] = k
            /\ pc[y] \in AtEnd \cup {"running"} /\ ~task[y].overdue
        BY <2>1, <3>1, <4>1 DEF StoredOK, StoredAt
      <4>3. y # t /\ ~task'[y].overdue
        BY <1>4, <1>6, <4>2
      <4>4. QED
        BY <1>3, <1>7, <1>11, <3>1, <4>1, <4>2, <4>3 DEF StoredAt
    <3>2. CASE stored[k] = None
      BY <1>3, <3>2 DEF StoredAt
    <3>3. QED
      BY <3>1, <3>2
  <2>3. \A u \in Threads : pc'[u] = "running" => stored'[index'[u]] = u
    BY <1>3, <1>18, <2>1 DEF StoredOK
  <2>4. StoredOfPrimary' = StoredOfPrimary
    BY <1>3, <1>20 DEF StoredOfPrimary
  <2>5. QED
    BY <1>3, <2>1, <2>2, <2>3, <2>4 DEF StoredOK
<1>22. OpenOK'
  <2>1. OpenOK
    BY DEF OmptTeamsInv
  <2>2. ASSUME NEW y \in Threads, NEW z \in Threads, Open(y)', Open(z)', index'[y] = index'[z]
        PROVE  y = z
    BY <1>3, <1>15, <1>16, <2>1, <2>2 DEF OpenOK
  <2>3. ASSUME NEW u \in Threads, pc'[u] = "task_begin", NEW y \in Threads, Open(y)'
        PROVE  index'[y] # index'[u]
    <3>1. y # x /\ Open(y)
      BY <1>15, <1>16, <2>3
    <3>2. CASE u = t
      BY <1>1, <1>3, <1>a, <3>1, <3>2
    <3>3. CASE u # t
      BY <1>3, <1>18, <2>1, <2>3, <3>1, <3>3 DEF OpenOK
    <3>4. QED
      BY <3>2, <3>3
  <2>4. \A u \in Threads : pc'[u] = "wait_order" => stored'[index'[u]] = None
    BY <1>3, <1>18, <2>1 DEF OpenOK
  <2>5. QED
    BY <2>2, <2>3, <2>4 DEF OpenOK
<1>23. OrderOK'
  BY <1>1, <1>3, <1>11 DEF OmptTeamsInv, OrderOK
<1>24. SyncsOK'
  <2>1. SyncsAt(t)'
    BY <1>7 DEF SyncsAt, AtEnd
  <2>2. ASSUME NEW u \in Threads, u # t  PROVE  SyncsAt(u)'
    <3>1. SyncsAt(u) /\ pc'[u] = pc[u]
      BY <1>7, <2>2
    <3>2. pc[u] \in {"barrier_end", "barrier_exit", "decide", "task_end", "task_exit"} => object[u] \in Threads
      BY ObjectFacts DEF Writing
    <3>3. Executes(u)' <=> Executes(u)
      BY <1>11
    <3>4. QED
      BY <1>3, <1>6, <3>1, <3>2, <3>3 DEF SyncsAt
  <2>3. QED
    BY <2>1, <2>2 DEF SyncsOK
<1>25. EventsOK'
  <2>1. /\ Open(x) /\ index'[x] = index[x]
        /\ \A u \in Threads : u # x =>
             /\ Open(u)' <=> Open(u)
             /\ Open(u) => /\ index'[u] = index[u] /\ (pc'[u] = "running" => pc[u] = "running")
                           /\ task'[u].parallel = task[u].parallel /\ task'[u].syncs = task[u].syncs
    BY <1>1, <1>3, <1>6, <1>15, <1>18
  <2>2. /\ \A k \in Indices : k # index[x] => events'[k] = events[k]
        /\ events'[index[x]].kind \in {"none", "end"} /\ index[x] # 0
    BY <1>1, <1>2, <1>4
  <2>3. QED
    BY <1>1, <1>3, <1>5, <1>16, <1>20, <2>1, <2>2, PutFrame
<1>26. EndKnownOK'
  <2>1. PastEnd' <=> PastEnd
    BY <1>20 DEF PastEnd
  <2>2. QED
    BY <1>3, <1>5, <1>6, <1>11, <1>20, <2>1 DEF OmptTeamsInv, EndKnownOK, TaskEndKnown
<1>27. QED
  BY <1>2, <1>9, <1>10, <1>14, <1>17, <1>19, <1>21, <1>22, <1>23, <1>24, <1>25, <1>26 DEF OmptTeamsInv

(* The thread has ended its own task, and lets others have the location. *)
LEMMA TaskExitOwnStep ==
    ASSUME OmptTeamsInv, NEW t \in Threads, TaskExit(t), caller[t] # "overdue"
    PROVE  OmptTeamsInv'
<1> USE Facts, ThreadFacts
<1>a. PICK l : l = index[t]
  OBVIOUS
<1>b. PICK o : o = task[t].parallel
  OBVIOUS
<1>1. /\ pc[t] = "task_exit" /\ object[t] = t /\ Executes(t) /\ l \in Indices
      /\ Open(t) /\ o \in Parallels /\ ~task[t].overdue
      /\ \A u \in Threads : pc[u] \in Writing \cup {"decide"} /\ object[u] = t => u = t
      /\ \A y \in Threads : Open(y) /\ index[y] = l => y = t
      /\ caller[t] \in {"sync_region", "finalize_tool", "implicit_task"}
  <2>1. pc[t] = "task_exit"
    BY DEF TaskExit
  <2>2. object[t] = t /\ Executes(t) /\ o \in Parallels /\ Open(t)
    BY <1>b, <2>1, ObjectFacts DEF Writing
  <2>3. /\ \A u \in Threads : pc[u] \in Writing \cup {"decide"} /\ object[u] = t => u = t
        /\ \A y \in Threads : Open(y) /\ index[y] = l => y = t
        /\ ~task[t].overdue
    BY <1>a, <2>1, <2>2, WriterFacts DEF Writing
  <2>4. caller[t] \in {"sync_region", "finalize_tool", "implicit_task"}
    BY <2>1 DEF CallerOK
  <2>5. QED
    BY <1>a, <2>1, <2>2, <2>3, <2>4
<1>2. /\ ExitsTask(t, t, l, o)
      /\ bug' \in TimestampBugs \cup {None}
      /\ events' \in [Indices -> [kind : Kinds, no : 0..Regions, team : Nat]]
      /\ events'[l].kind = "end" /\ events'[l].no = parallel[o].no
      /\ \A k \in Indices : k # l => events'[k] = events[k]
      /\ clock' \in Nat \ {0}
      /\ parallel' \in [Parallels -> ParallelType]
      /\ \A p \in Parallels :
           parallel'[p].no = parallel[p].no /\ parallel'[p].ref = parallel[p].ref
           /\ parallel'[p].recorded = parallel[p].recorded
  <2>0. t = object[t] /\ l = index[t] /\ o = task[t].parallel
    BY <1>1, <1>a, <1>b
  <2>1. ExitsTask(t, t, l, o)
    BY <2>0, TaskExitFacts
  <2>2. /\ events' \in [Indices -> [kind : Kinds, no : 0..Regions, team : Nat]]
        /\ events'[l].kind = "end" /\ events'[l].no = parallel[o].no
        /\ \A k \in Indices : k # l => events'[k] = events[k]
    <3>1. /\ events' \in [Indices -> [kind : Kinds, no : 0..Regions, team : Nat]]
          /\ \A k \in Indices : k # l => events'[k] = events[k]
      BY <2>0, TaskExitFacts
    <3>2. events'[l].kind = "end" /\ events'[l].no = parallel[o].no
      BY <2>0, TaskExitFacts, SMTT(30)
    <3>3. QED
      BY <3>1, <3>2
  <2>3. /\ clock' \in Nat \ {0} /\ bug' \in TimestampBugs \cup {None}
        /\ parallel' \in [Parallels -> ParallelType]
    BY <2>0, TaskExitFacts
  <2>4. \A p \in Parallels :
          parallel'[p].no = parallel[p].no /\ parallel'[p].ref = parallel[p].ref
          /\ parallel'[p].recorded = parallel[p].recorded
    BY <2>0, TaskExitFacts
  <2>5. QED
    BY <2>1, <2>2, <2>3, <2>4
<1>3. /\ taskData' = taskData /\ index' = index /\ taskFree' = taskFree
      /\ finalizing' = finalizing /\ size' = size /\ region' = region /\ stored' = stored
      /\ isOmpt' = isOmpt /\ parallelData' = parallelData /\ parallelFree' = parallelFree
      /\ taken' = taken /\ object' = object /\ caller' = caller /\ team' = team
      /\ stamp' = stamp /\ finalizeTool' = finalizeTool /\ arrived' = arrived
  BY <1>1, <1>a, <1>b, TaskExitFacts
<1>4. /\ task' = task /\ pc' = [pc EXCEPT ![t] = "release"]
      /\ preserveOrder' = IF caller[t] # "finalize_tool"
                          THEN [preserveOrder EXCEPT ![l] = FALSE] ELSE preserveOrder
      /\ parallel' = IF l = 0 THEN [parallel EXCEPT ![o].taskEnd = stamp[t]] ELSE parallel
  BY <1>1, <1>2 DEF ExitsTask
<1>5. pc'[t] = "release" /\ \A u \in Threads : u # t => pc'[u] = pc[u]
  BY <1>4 DEF TypesOK
<1>6. OnlyMoves(t) /\ TeamSame
  BY <1>2, <1>3, <1>4, <1>5 DEF OnlyMoves, Same, TeamSame
<1>7. TypesOK'
  <2>1. pc' \in [Threads -> Points]
    BY <1>4 DEF TypesOK, Points
  <2>2. preserveOrder' \in [Indices -> BOOLEAN]
    BY <1>1, <1>4 DEF TypeOK
  <2>3. QED
    BY <1>2, <1>3, <1>4, <2>1, <2>2 DEF TypesOK, TypeOK, ParallelType
<1>8. ThreadsOK'
  <2>1. ControlOK(t)'
    BY <1>1, <1>3, <1>5 DEF ControlOK, Executes, Entering, Writing, AtEnd, OfPrimary
  <2>2. CallerOK(t)'
    BY <1>1, <1>3, <1>5 DEF CallerOK, HandlesOwn, Executes
  <2>3. QED
    BY <1>1, <1>3, <1>5, <1>6, <2>1, <2>2, ThreadsFrame
<1>9. \A u \in Threads : /\ Executes(u)' <=> Executes(u)
                         /\ WritesOverdue(u)' <=> WritesOverdue(u)
                         /\ u # t => /\ HandlesOwn(u)' <=> HandlesOwn(u)
                                     /\ Keeps(u)' <=> Keeps(u)
                                     /\ Open(u)' <=> Open(u)
  <2>1. \A u \in Threads : Executes(u)' <=> Executes(u)
    BY <1>3 DEF Executes
  <2>2. \A u \in Threads : WritesOverdue(u)' <=> WritesOverdue(u)
    BY <1>1, <1>3, <1>5 DEF WritesOverdue
  <2>3. \A u \in Threads : u # t => (HandlesOwn(u)' <=> HandlesOwn(u)) /\ (Keeps(u)' <=> Keeps(u))
    BY <1>3, <1>5, <2>1 DEF HandlesOwn, Keeps
  <2>4. \A u \in Threads : u # t => (Open(u)' <=> Open(u))
    BY <1>3, <1>4, <1>5, <2>1, <2>3 DEF Open
  <2>5. QED
    BY <2>1, <2>2, <2>3, <2>4
<1>10. ~HandlesOwn(t)' /\ ~Keeps(t)' /\ ~Open(t)'
  <2>1. ~HandlesOwn(t)'
    BY <1>5 DEF HandlesOwn, Writing
  <2>2. QED
    BY <1>1, <1>4, <1>5, <2>1 DEF Keeps, Open, AtEnd
<1>11. HandlesOwn(t) /\ (Keeps(t) <=> caller[t] # "finalize_tool")
  BY <1>1 DEF HandlesOwn, Keeps, Writing
<1>12. ~Joining(t) /\ ~Joining(t)'
  BY <1>1, <1>3, <1>5 DEF Joining, WritesOverdue, Entering
<1>13. MembersOK' /\ BarrierOK' /\ ReferencesOK'
  <2>1. task[t].parallel = parallelData /\ arrived < size /\ size > 1 => FALSE
    BY <1>1 DEF OmptTeamsInv, BarrierOK
  <2>2. StaysInTeam(t)
    BY <1>1, <1>3, <1>5, <1>12, <2>1 DEF StaysInTeam, Entering, Barrier, AtEnd
  <2>3. QED
    BY <1>6, <2>2, TeamFrame
<1>14. OverdueOK'
  <2>1. OverdueOK
    BY DEF OmptTeamsInv
  <2>2. ASSUME NEW u \in Threads  PROVE  OverdueAt(u)'
    <3>1. CASE WritesOverdue(u)
      <4>1. PICK y : y = object[u]
        OBVIOUS
      <4>2. /\ y \in Workers /\ Executes(y) /\ task[y].overdue /\ index[y] = index[u]
            /\ pc[y] \in AtEnd \cup {"release"} /\ stored[index[u]] = None
        BY <2>1, <3>1, <4>1 DEF OverdueOK, OverdueAt
      <4>3. y # t
        BY <1>1, <4>2
      <4>4. QED
        BY <1>3, <1>4, <1>5, <1>9, <4>1, <4>2, <4>3 DEF OverdueAt
    <3>2. CASE ~WritesOverdue(u)
      BY <1>9, <3>2 DEF OverdueAt
    <3>3. QED
      BY <3>1, <3>2
  <2>3. QED
    BY <1>3, <1>4, <1>9, <2>1, <2>2 DEF OverdueOK
<1>15. \A u \in Threads : pc'[u] \in {"running", "task_begin", "wait_order"} => pc'[u] = pc[u] /\ u # t
  BY <1>5
<1>16. TasksOK'
  BY <1>2, <1>3, <1>4, <1>9, <1>15, TasksFrame
<1>17. StoredOK'
  <2>1. StoredOK
    BY DEF OmptTeamsInv
  <2>2. ASSUME NEW k \in Indices \ {0}  PROVE  StoredAt(k)'
    <3>1. CASE stored[k] # None
      <4>1. PICK y : y = stored[k]
        OBVIOUS
      <4>2. /\ y \in Workers /\ Executes(y) /\ index[y] = k
            /\ pc[y] \in AtEnd \cup {"running"} /\ ~task[y].overdue
        BY <2>1, <3>1, <4>1 DEF StoredOK, StoredAt
      <4>3. y # t
        BY <1>1, <4>2 DEF AtEnd
      <4>4. QED
        BY <1>3, <1>4, <1>5, <1>9, <3>1, <4>1, <4>2, <4>3 DEF StoredAt
    <3>2. CASE stored[k] = None
      BY <1>3, <3>2 DEF StoredAt
    <3>3. QED
      BY <3>1, <3>2
  <2>3. \A u \in Threads : pc'[u] = "running" => stored'[index'[u]] = u
    BY <1>3, <1>15, <2>1 DEF StoredOK
  <2>4. StoredOfPrimary' = StoredOfPrimary
    BY <1>1, <1>3, <1>5 DEF StoredOfPrimary, AtEnd
  <2>5. QED
    BY <1>3, <2>1, <2>2, <2>3, <2>4 DEF StoredOK
<1>18. OpenOK'
  <2>1. OpenOK
    BY DEF OmptTeamsInv
  <2>2. \A u \in Threads : Open(u)' => Open(u)
    BY <1>9, <1>10
  <2>3. QED
    BY <1>3, <1>15, <2>1, <2>2 DEF OpenOK
<1>19. OrderOK'
  <2>1. OrderOK
    BY DEF OmptTeamsInv
  <2>2. ASSUME NEW y \in Workers, Keeps(y)'  PROVE  preserveOrder'[index'[y]]
    <3>1. y \in Threads /\ y # t
      BY <1>10, <2>2
    <3>2. Keeps(y)
      BY <1>9, <2>2, <3>1
    <3>3. Open(y)
      BY <3>2 DEF Keeps, HandlesOwn, Open
    <3>4. index[y] # l /\ index[y] \in Indices
      BY <1>1, <3>1, <3>3
    <3>5. preserveOrder[index[y]]
      BY <2>1, <2>2, <3>2 DEF OrderOK
    <3>6. preserveOrder'[index[y]] = preserveOrder[index[y]]
      BY <1>1, <1>4, <3>4 DEF TypeOK
    <3>7. QED
      BY <1>3, <3>5, <3>6
  <2>3. ASSUME NEW k \in Indices, preserveOrder'[k]
        PROVE  \E y \in Threads : Keeps(y)' /\ index'[y] = k
    <3>1. preserveOrder[k] /\ (k = l => ~Keeps(t))
      BY <1>1, <1>4, <1>11, <2>3 DEF TypeOK
    <3>2. PICK y \in Threads : Keeps(y) /\ index[y] = k
      BY <2>1, <3>1 DEF OrderOK
    <3>3. y # t
      BY <1>a, <3>1, <3>2
    <3>4. QED
      BY <1>3, <1>9, <3>2, <3>3
  <2>4. QED
    BY <2>2, <2>3 DEF OrderOK
<1>20. SyncsOK'
  <2>1. SyncsAt(t)'
    BY <1>5 DEF SyncsAt, AtEnd
  <2>2. ASSUME NEW u \in Threads, u # t  PROVE  SyncsAt(u)'
    BY <1>3, <1>4, <1>5, <1>9, <2>2 DEF SyncsAt
  <2>3. QED
    BY <2>1, <2>2 DEF SyncsOK
<1>21. t = Primary => parallelData = o /\ l = 0 /\ parallel[o].no = region
  <2>1. t = Primary => parallelData = o /\ l = 0
    BY <1>1, <1>a, <1>b DEF OmptTeamsInv, TasksOK, ControlOK
  <2>2. region > 0
    <3>1. \E n : n \in 1..region
      BY <1>1 DEF OmptTeamsInv, TasksOK
    <3>2. QED
      BY <3>1 DEF TypeOK
  <2>3. QED
    BY <2>1, <2>2 DEF OmptTeamsInv, TasksOK
<1>22. t # Primary => pc'[Primary] = pc[Primary] /\ l # 0 /\ parallel' = parallel
  BY <1>1, <1>4, <1>5, <1>a DEF ControlOK
<1>23. EventsOK'
  <2>1. /\ index'[t] = index[t]
        /\ \A u \in Threads : u # t =>
             /\ Open(u)' <=> Open(u)
             /\ Open(u) => /\ index'[u] = index[u] /\ (pc'[u] = "running" => pc[u] = "running")
                           /\ task'[u].parallel = task[u].parallel /\ task'[u].syncs = task[u].syncs
    BY <1>3, <1>4, <1>9, <1>15
  <2>2. /\ \A k \in Indices : k # index[t] => events'[k] = events[k]
        /\ events'[index[t]].kind \in {"none", "end"}
    BY <1>2, <1>a
  <2>3. \/ pc'[Primary] = pc[Primary] /\ index[t] # 0
        \/ pc'[Primary] = "release" /\ events'[0].kind = "end" /\ events'[0].no = region
    BY <1>2, <1>5, <1>21, <1>22, <1>a
  <2>4. QED
    BY <1>1, <1>2, <1>3, <1>10, <2>1, <2>2, <2>3, PutFrame
<1>24. EndKnownOK'
  <2>1. EndKnownOK
    BY DEF OmptTeamsInv
  <2>2. CASE t = Primary
    <3>1. parallel'[o].taskEnd = stamp[t] /\ stamp[t] # 0
      <4>1. stamp[t] # 0
        BY <1>1, <2>1, <2>2 DEF EndKnownOK
      <4>2. parallel' = [parallel EXCEPT ![o].taskEnd = stamp[t]]
        BY <1>4, <1>21, <2>2
      <4>3. QED
        BY <1>1, <4>1, <4>2, TimeSet
    <3>2. \A p \in Parallels : p # o => parallel'[p] = parallel[p]
      BY <1>1, <1>4, TimeSet
    <3>3. PastEnd'
      BY <1>5, <2>2 DEF PastEnd
    <3>4. ASSUME NEW u \in Threads, Executes(u)  PROVE  parallel'[task[u].parallel].taskEnd # 0
      <4>1. task[u].parallel \in Parallels
        BY <3>4 DEF OmptTeamsInv, TasksOK
      <4>2. task[u].parallel # o => parallel[task[u].parallel].taskEnd # 0
        BY <1>21, <2>1, <2>2, <3>4 DEF EndKnownOK, TaskEndKnown
      <4>3. QED
        BY <3>1, <3>2, <4>1, <4>2
    <3>5. QED
      BY <1>4, <1>5, <1>9, <2>2, <3>3, <3>4 DEF EndKnownOK, TaskEndKnown
  <2>3. CASE t # Primary
    <3>1. PastEnd' <=> PastEnd
      BY <1>22, <2>3 DEF PastEnd
    <3>2. QED
      BY <1>3, <1>4, <1>9, <1>22, <2>1, <2>3, <3>1 DEF EndKnownOK, TaskEndKnown
  <2>4. QED
    BY <2>2, <2>3
<1>25. QED
  BY <1>2, <1>7, <1>8, <1>13, <1>14, <1>16, <1>17, <1>18, <1>19, <1>20, <1>23, <1>24 DEF OmptTeamsInv

-----------------------------------------------------------------------------
(* A task begins. *)

LEMMA TaskBeginStep ==
    ASSUME OmptTeamsInv, NEW t \in Threads, TaskBegin(t)
    PROVE  OmptTeamsInv'
<1> USE Facts, ThreadFacts
<1>a. PICK l \in Indices : l = index[t]
  OBVIOUS
<1>b. PICK o : o = parallelData
  OBVIOUS
<1>1. pc[t] = "task_begin" /\ Joining(t) /\ ~Executes(t) /\ ~WritesOverdue(t)
  <2>1. pc[t] = "task_begin"
    BY DEF TaskBegin
  <2>2. QED
    BY <2>1 DEF Joining, ControlOK, Entering, WritesOverdue
<1>2. /\ region > 0 /\ o \in Parallels /\ parallel[o].no = region
      /\ l \in 0..size - 1 /\ (size = 1 => t = Primary) /\ arrived # size
      /\ pc[Primary] \in Entering \cup {"forked", "running", "barrier"}
      /\ \A u \in Threads : Member(u) /\ index[u] = l => u = t
  BY <1>1, <1>a, <1>b, JoiningFacts
<1>3. PooledTask(t) = t /\ (t = Primary <=> l = 0)
  BY <1>1, <1>a DEF PooledTask, ControlOK
<1>4. \A y \in Threads : Open(y) => index[y] # l
  BY <1>1, <1>a DEF OmptTeamsInv, OpenOK
<1>5. stored[l] = None
  <2>1. CASE t = Primary
    BY <1>1, <1>3, <2>1 DEF OmptTeamsInv, StoredOK, StoredAt, StoredOfPrimary, AtEnd
  <2>2. CASE t # Primary /\ stored[l] # None
    <3>1. PICK y : y = stored[l]
      OBVIOUS
    <3>2. y \in Threads /\ Executes(y) /\ index[y] = l /\ pc[y] \in AtEnd \cup {"running"} /\ stored[l] = y
      BY <1>3, <2>2, <3>1 DEF OmptTeamsInv, StoredOK, StoredAt
    <3>3. Open(y)
      BY <3>2 DEF Open
    <3>4. QED
      BY <1>4, <3>2, <3>3
  <2>3. QED
    BY <2>1, <2>2
<1>6. PICK r : r = [parallel |-> o, index |-> l, overdue |-> FALSE, syncs |-> 0]
  OBVIOUS
<1>7. /\ Put(l, "begin", parallel[o].no, team[l])
      /\ clock' = Now
      /\ task' = [task EXCEPT ![t] = r]
      /\ taskFree' = [taskFree EXCEPT ![t] = IF @ = <<>> THEN @ ELSE Tail(@)]
      /\ taskData' = [taskData EXCEPT ![t] = t]
      /\ isOmpt' = [isOmpt EXCEPT ![l] = TRUE]
      /\ BugOn(stored[l] # None, "implicit_task: a task is stored")
      /\ stored' = [stored EXCEPT ![l] = t]
      /\ Return(t, "running")
      /\ UNCHANGED <<region, size, taken, arrived, parallelData, parallel, parallelFree,
                     preserveOrder, team, endVars>>
  BY <1>3, <1>6, <1>a, <1>b, Zenon DEF TaskBegin
<1>8. /\ pc' = [pc EXCEPT ![t] = "running"] /\ index' = index
      /\ object' = [object EXCEPT ![t] = None] /\ caller' = [caller EXCEPT ![t] = None]
      /\ stamp' = [stamp EXCEPT ![t] = 0] /\ bug' = bug
  BY <1>5, <1>7 DEF Return, Goto, BugOn
<1>9. /\ region' = region /\ size' = size /\ taken' = taken /\ arrived' = arrived
      /\ parallelData' = parallelData /\ parallel' = parallel /\ parallelFree' = parallelFree
      /\ preserveOrder' = preserveOrder /\ team' = team /\ finalizing' = finalizing
      /\ finalizeTool' = finalizeTool
  BY <1>7 DEF endVars
<1>10. taskFree'[t] = <<>> /\ \A u \in Threads : u # t => taskFree'[u] = taskFree[u]
  <2>1. taskFree[t] \in {<<>>, <<t>>}
    BY DEF ControlOK
  <2>2. Tail(<<t>>) = <<>>
    OBVIOUS
  <2>3. QED
    BY <1>7, <2>1, <2>2 DEF TypeOK
<1>11. /\ events' \in [Indices -> [kind : Kinds, no : 0..Regions, team : Nat]]
       /\ events'[l].kind = "begin" /\ events'[l].no = region
       /\ \A k \in Indices : k # l => events'[k] = events[k]
  <2>1. Follows(events[l], "begin", parallel[o].no)
    <3>1. CASE t = Primary
      <4>1. events[0].kind = "fork" /\ events[0].no = region
        BY <1>1, <3>1 DEF OmptTeamsInv, EventsOK, Entering
      <4>2. QED
        BY <1>2, <1>3, <3>1, <4>1 DEF Follows
    <3>2. CASE t # Primary
      <4>1. events[l].kind \in {"none", "end"}
        BY <1>3, <1>4, <3>2 DEF OmptTeamsInv, EventsOK
      <4>2. QED
        BY <4>1 DEF Follows
    <3>3. QED
      BY <3>1, <3>2
  <2>2. "begin" \in Kinds /\ parallel[o].no \in 0..Regions /\ team[l] \in Nat
    BY <1>2 DEF Kinds, TypesOK, TypeOK
  <2>3. Put(l, "begin", parallel[o].no, team[l])
    BY <1>7, Zenon
  <2>4. QED
    BY <1>2, <2>1, <2>2, <2>3, PutFits
<1>12. /\ task' \in [Threads -> TaskType]
       /\ \A u \in Threads : u # t => task'[u] = task[u]
       /\ task'[t].parallel = o /\ task'[t].index = l /\ ~task'[t].overdue /\ task'[t].syncs = 0
  <2>1. r \in TaskType /\ r.parallel = o /\ r.index = l /\ ~r.overdue /\ r.syncs = 0
    BY <1>2, <1>6 DEF TaskType
  <2>2. task \in [Threads -> TaskType]
    BY DEF TypeOK, TaskType
  <2>3. QED
    BY <1>7, <2>1, <2>2
<1>13. /\ pc'[t] = "running" /\ caller'[t] = None /\ taskData'[t] = t
       /\ \A u \in Threads : u # t => /\ pc'[u] = pc[u] /\ taskData'[u] = taskData[u]
                                      /\ object'[u] = object[u] /\ caller'[u] = caller[u]
                                      /\ stamp'[u] = stamp[u]
  BY <1>7, <1>8 DEF TypesOK, TypeOK
<1>14. \A k \in Indices : /\ stored'[k] = (IF k = l THEN t ELSE stored[k])
                          /\ isOmpt[k] => isOmpt'[k]
                          /\ isOmpt'[l]
  BY <1>7 DEF TypeOK
<1>15. OnlyMoves(t)
  BY <1>8, <1>10, <1>13 DEF OnlyMoves, Same
<1>16. TypesOK'
  <2>1. pc' \in [Threads -> Points] /\ caller' \in [Threads -> Callers \cup {None}]
    BY <1>8 DEF TypesOK, Points
  <2>2. Now \in Nat \ {0}
    BY OmptTeamsAssumption DEF Now, TypesOK
  <2>3. clock' \in Nat \ {0} /\ stamp' \in [Threads -> Nat]
    BY <1>7, <1>8, <2>2 DEF TypesOK
  <2>4. /\ taskData' \in [Threads -> Ids] /\ object' \in [Threads -> Ids]
        /\ stored' \in [Indices -> Ids \cup {InitialTask}] /\ isOmpt' \in [Indices -> BOOLEAN]
    BY <1>7, <1>8 DEF TypeOK, Ids
  <2>5. taskFree' \in [Threads -> Seq(Threads)]
    <3>1. taskFree' = [taskFree EXCEPT ![t] = <<>>]
      <4>1. taskFree \in [Threads -> Seq(Threads)]
        BY DEF TypeOK
      <4>2. QED
        BY <1>7, <1>10, <4>1
    <3>2. <<>> \in Seq(Threads)
      OBVIOUS
    <3>3. QED
      BY <3>1, <3>2 DEF TypeOK
  <2>6. QED
    BY <1>8, <1>9, <1>11, <1>12, <2>1, <2>3, <2>4, <2>5 DEF TypesOK, TypeOK, TaskType
<1>17. \A u \in Threads : /\ Executes(u)' <=> Executes(u) \/ u = t
                          /\ Joining(u)' <=> Joining(u) /\ u # t
                          /\ WritesOverdue(u)' <=> WritesOverdue(u)
                          /\ Member(u)' <=> Member(u)
  <2>1. \A u \in Threads : Executes(u)' <=> Executes(u) \/ u = t
    BY <1>13 DEF Executes
  <2>2. \A u \in Threads : WritesOverdue(u)' <=> WritesOverdue(u)
    BY <1>1, <1>13 DEF WritesOverdue
  <2>3. \A u \in Threads : Joining(u)' <=> Joining(u) /\ u # t
    BY <1>13, <2>2, <1>1 DEF Joining, Entering
  <2>4. \A u \in Threads : Member(u)' <=> Member(u)
    BY <1>1, <1>9, <1>12, <1>b, <2>1, <2>3 DEF Member
  <2>5. QED
    BY <2>1, <2>2, <2>3, <2>4
<1>18. \A u \in Threads : Joining(u) \/ pc[u] = "running" => index[u] # l \/ u = t
  BY <1>2, JoiningFacts
<1>19. ThreadsOK'
  <2>1. ControlOK(t)'
    BY <1>1, <1>8, <1>10, <1>13, <1>17 DEF ControlOK, Entering, Writing, AtEnd, OfPrimary
  <2>2. CallerOK(t)'
    <3>1. None # "finalize_tool" /\ None # "overdue"
      BY DEF Callers
    <3>2. QED
      BY <1>13, <3>1 DEF CallerOK, HandlesOwn, Writing
  <2>3. QED
    BY <1>1, <1>9, <1>13, <1>15, <2>1, <2>2, ThreadsFrame
<1>20. \A u \in Threads : WritesOverdue(u) => u # t /\ index[u] # l
  BY <1>1, <1>18 DEF Joining
<1>21. OverdueOK'
  <2>1. OverdueOK
    BY DEF OmptTeamsInv
  <2>2. ASSUME NEW u \in Threads  PROVE  OverdueAt(u)'
    <3>1. CASE WritesOverdue(u)
      <4>1. PICK y : y = object[u]
        OBVIOUS
      <4>2. /\ y \in Workers /\ Executes(y) /\ task[y].overdue /\ index[y] = index[u]
            /\ pc[y] \in AtEnd \cup {"release"} /\ stored[index[u]] = None
        BY <2>1, <3>1, <4>1 DEF OverdueOK, OverdueAt
      <4>3. y # t /\ u # t /\ index[u] # l /\ index[u] \in Indices
        BY <1>1, <1>20, <3>1, <4>2
      <4>4. QED
        BY <1>8, <1>12, <1>13, <1>14, <1>17, <4>1, <4>2, <4>3 DEF OverdueAt
    <3>2. CASE ~WritesOverdue(u)
      BY <1>17, <3>2 DEF OverdueAt
    <3>3. QED
      BY <3>1, <3>2
  <2>3. ASSUME NEW y \in Threads, task'[y].overdue
        PROVE  Executes(y)' /\ \E u \in Threads : WritesOverdue(u)' /\ object'[u] = y
    <3>1. y # t /\ task[y].overdue
      BY <1>12, <2>3
    <3>2. Executes(y) /\ \E u \in Threads : WritesOverdue(u) /\ object[u] = y
      BY <2>1, <3>1 DEF OverdueOK
    <3>3. QED
      BY <1>13, <1>17, <1>20, <3>2
  <2>4. QED
    BY <2>2, <2>3 DEF OverdueOK
<1>22. TasksOK'
  <2>1. TasksOK /\ region \in Nat
    BY DEF OmptTeamsInv, TypeOK
  <2>2. ASSUME NEW y \in Threads, Executes(y)'
        PROVE  /\ task'[y].index = index'[y] /\ isOmpt'[index'[y]]
               /\ task'[y].parallel \in Parallels /\ parallel'[task'[y].parallel].no \in 1..region'
               /\ pc'[y] = "running" \/ y = Primary => task'[y].parallel = parallelData'
    <3>1. CASE y = t
      <4>1. parallel'[o].no \in 1..region'
        BY <1>2, <1>9, <2>1
      <4>2. QED
        BY <1>2, <1>8, <1>9, <1>12, <1>14, <1>a, <1>b, <3>1, <4>1
    <3>2. CASE y # t
      <4>1. Executes(y) /\ task'[y] = task[y] /\ pc'[y] = pc[y] /\ index[y] \in Indices
        BY <1>12, <1>13, <1>17, <2>2, <3>2
      <4>2. /\ task[y].index = index[y] /\ isOmpt[index[y]]
            /\ task[y].parallel \in Parallels /\ parallel[task[y].parallel].no \in 1..region
            /\ pc[y] = "running" \/ y = Primary => task[y].parallel = parallelData
        BY <2>1, <4>1 DEF TasksOK
      <4>3. QED
        BY <1>8, <1>9, <1>14, <4>1, <4>2
    <3>3. QED
      BY <3>1, <3>2
  <2>3. QED
    BY <1>2, <1>9, <1>b, <2>2 DEF TasksOK
<1>23. MembersOK'
  <2>1. MembersOK
    BY DEF OmptTeamsInv
  <2>2. ASSUME NEW u \in Threads, NEW w \in Threads, Executes(u)', Executes(w)',
               task'[u].parallel = task'[w].parallel, index'[u] = index'[w]
        PROVE  u = w
    <3>1. \A y \in Threads : Executes(y) /\ task[y].parallel = o /\ index[y] = l => y = t
      BY <1>2, <1>b DEF Member
    <3>2. CASE u = t \/ w = t
      BY <1>8, <1>12, <1>17, <1>a, <2>2, <3>1, <3>2
    <3>3. CASE u # t /\ w # t
      BY <1>8, <1>12, <1>17, <2>1, <2>2, <3>3 DEF MembersOK
    <3>4. QED
      BY <3>2, <3>3
  <2>3. /\ taken' \subseteq 1..size' - 1
        /\ \A u \in Workers : Member(u)' => index'[u] \in taken'
        /\ \A u, w \in Threads : Member(u)' /\ Member(w)' /\ index'[u] = index'[w] => u = w
    BY <1>8, <1>9, <1>17, <2>1 DEF MembersOK
  <2>4. region' # 0
    BY <1>2, <1>9
  <2>5. QED
    BY <2>2, <2>3, <2>4 DEF MembersOK
<1>24. BarrierOK'
  <2>1. BarrierOK
    BY DEF OmptTeamsInv
  <2>2. arrived' # size'
    BY <1>2, <1>9
  <2>3. size' = 1 => arrived' = 0 /\ pc'[Primary] \notin Barrier
    BY <1>2, <1>9, <1>13, <2>1 DEF BarrierOK, Barrier, AtEnd
  <2>4. ASSUME arrived' < size', size' > 1
        PROVE  /\ arrived' = Cardinality({index'[u] : u \in AtBarrier'})
               /\ pc'[Primary] \in Entering \cup {"forked", "running", "barrier"}
               /\ \A u \in Threads : Executes(u)' /\ task'[u].parallel = parallelData' =>
                    pc'[u] \in {"running", "barrier"}
    <3>1. AtBarrier' = AtBarrier
      BY <1>1, <1>9, <1>12, <1>13 DEF AtBarrier
    <3>2. arrived = Cardinality({index[u] : u \in AtBarrier})
      BY <1>9, <2>1, <2>4 DEF BarrierOK
    <3>3. pc'[Primary] \in Entering \cup {"forked", "running", "barrier"}
      BY <1>2, <1>13
    <3>4. ASSUME NEW u \in Threads, Executes(u)', task'[u].parallel = parallelData'
          PROVE  pc'[u] \in {"running", "barrier"}
      BY <1>9, <1>12, <1>13, <1>17, <2>1, <2>4, <3>4 DEF BarrierOK
    <3>5. QED
      BY <1>8, <1>9, <3>1, <3>2, <3>3, <3>4
  <2>5. QED
    BY <2>2, <2>3, <2>4 DEF BarrierOK
<1>25. ReferencesOK'
  <2>1. ReferencesOK
    BY DEF OmptTeamsInv
  <2>2. ASSUME NEW p \in Parallels, p # o  PROVE  MemberIndices(p)' = MemberIndices(p)
    BY <1>1, <1>8, <1>12, <1>17, <2>2 DEF MemberIndices
  <2>3. pc[Primary] = "forked" <=> pc'[Primary] = "forked"
    BY <1>1, <1>13
  <2>4. ASSUME size = 1  PROVE  References(o)' = References(o)
    <3>1. t = Primary /\ l = 0
      BY <1>2, <1>3, <2>4
    <3>2. ~Assembled /\ Assembled'
      BY <1>1, <1>9, <1>13, <2>4, <3>1 DEF Assembled, Entering
    <3>3. InRegion'
      BY <1>13, <3>1 DEF InRegion
    <3>4. \A u \in Threads : Executes(u)' /\ task'[u].parallel = o => u = t
      <4>1. ASSUME NEW u \in Threads, Executes(u)', task'[u].parallel = o, u # t  PROVE  FALSE
        <5>1. Member(u)
          BY <1>12, <1>17, <1>b, <4>1 DEF Member
        <5>2. u \in Workers
          BY <3>1, <4>1
        <5>3. index[u] \in taken /\ taken \subseteq 1..0
          BY <2>4, <5>1, <5>2 DEF OmptTeamsInv, MembersOK
        <5>4. QED
          BY <5>3
      <4>2. QED
        BY <4>1
    <3>5. Executes(t)' /\ task'[t].parallel = o /\ index'[t] = 0
      BY <1>8, <1>12, <1>17, <1>a, <3>1
    <3>6. MemberIndices(o)' = {0}
      BY <3>4, <3>5 DEF MemberIndices
    <3>7. Cardinality({0}) = 1
      BY FS_Singleton
    <3>8. References(o) = 2
      BY <1>1, <1>b, <2>4, <3>1, <3>2 DEF References
    <3>9. References(o)' = 2
      BY <1>9, <1>13, <1>b, <3>1, <3>2, <3>3, <3>6, <3>7 DEF References
    <3>10. QED
      BY <3>8, <3>9
  <2>5. ASSUME size # 1  PROVE  References(o)' = References(o)
    <3>1. ~Assembled /\ ~Assembled'
      BY <1>2, <1>9, <2>5 DEF Assembled
    <3>2. QED
      BY <1>9, <1>b, <2>3, <3>1 DEF References
  <2>6. ASSUME NEW p \in Parallels, p # o  PROVE  References(p)' = References(p)
    BY <1>9, <1>b, <2>2, <2>6 DEF References
  <2>7. \A p \in Parallels : References(p)' = References(p)
    BY <2>4, <2>5, <2>6
  <2>8. QED
    BY <1>2, <1>9, <2>1, <2>7 DEF ReferencesOK
<1>26. StoredOK'
  <2>1. StoredOK
    BY DEF OmptTeamsInv
  <2>2. ASSUME NEW k \in Indices \ {0}  PROVE  StoredAt(k)'
    <3>1. CASE k = l
      <4>1. stored'[k] = t /\ t \in Workers /\ index'[t] = k
        BY <1>3, <1>8, <1>14, <1>a, <3>1
      <4>2. QED
        BY <1>12, <1>13, <1>17, <4>1 DEF StoredAt
    <3>2. CASE k # l /\ stored[k] # None
      <4>1. PICK y : y = stored[k]
        OBVIOUS
      <4>2. /\ y \in Workers /\ Executes(y) /\ index[y] = k
            /\ pc[y] \in AtEnd \cup {"running"} /\ ~task[y].overdue
        BY <2>1, <3>2, <4>1 DEF StoredOK, StoredAt
      <4>3. y # t
        BY <1>1, <4>2
      <4>4. QED
        BY <1>8, <1>12, <1>13, <1>14, <1>17, <3>2, <4>1, <4>2, <4>3 DEF StoredAt
    <3>3. CASE k # l /\ stored[k] = None
      BY <1>14, <3>3 DEF StoredAt
    <3>4. QED
      BY <3>1, <3>2, <3>3
  <2>3. ASSUME NEW u \in Threads, pc'[u] = "running"  PROVE  stored'[index'[u]] = u
    BY <1>8, <1>13, <1>14, <1>18, <1>a, <2>1, <2>3 DEF StoredOK
  <2>4. stored'[0] = StoredOfPrimary'
    <3>1. CASE t = Primary
      BY <1>3, <1>13, <1>14, <3>1 DEF StoredOfPrimary
    <3>2. CASE t # Primary
      <4>1. StoredOfPrimary' = StoredOfPrimary
        BY <1>9, <1>13, <3>2 DEF StoredOfPrimary
      <4>2. QED
        BY <1>3, <1>14, <2>1, <3>2, <4>1 DEF StoredOK
    <3>3. QED
      BY <3>1, <3>2
  <2>5. QED
    BY <2>2, <2>3, <2>4 DEF StoredOK
<1>27. \A u \in Threads : u # t => /\ HandlesOwn(u)' <=> HandlesOwn(u)
                                   /\ Keeps(u)' <=> Keeps(u)
                                   /\ Open(u)' <=> Open(u)
  <2>1. ASSUME NEW u \in Threads, u # t  PROVE  HandlesOwn(u)' <=> HandlesOwn(u)
    BY <1>13, <1>17, <2>1 DEF HandlesOwn
  <2>2. ASSUME NEW u \in Threads, u # t  PROVE  Keeps(u)' <=> Keeps(u)
    BY <1>13, <2>1, <2>2 DEF Keeps
  <2>3. ASSUME NEW u \in Threads, u # t  PROVE  Open(u)' <=> Open(u)
    <3>1. stored'[index'[u]] = u <=> stored[index[u]] = u
      BY <1>5, <1>8, <1>14, <2>3
    <3>2. QED
      BY <1>12, <1>13, <1>17, <2>1, <2>3, <3>1 DEF Open
  <2>4. QED
    BY <2>1, <2>2, <2>3
<1>28. Open(t)' /\ ~Keeps(t) /\ ~Keeps(t)'
  BY <1>1, <1>13, <1>17 DEF Open, Keeps, HandlesOwn, Writing
<1>29. OpenOK'
  <2>1. OpenOK
    BY DEF OmptTeamsInv
  <2>2. ASSUME NEW y \in Threads, NEW z \in Threads, Open(y)', Open(z)', index'[y] = index'[z]
        PROVE  y = z
    <3>1. CASE y = t \/ z = t
      BY <1>4, <1>8, <1>27, <1>a, <2>2, <3>1
    <3>2. CASE y # t /\ z # t
      BY <1>8, <1>27, <2>1, <2>2, <3>2 DEF OpenOK
    <3>3. QED
      BY <3>1, <3>2
  <2>3. ASSUME NEW u \in Threads, pc'[u] = "task_begin", NEW y \in Threads, Open(y)'
        PROVE  index'[y] # index'[u]
    <3>1. u # t /\ pc[u] = "task_begin" /\ Joining(u)
      BY <1>13, <2>3 DEF Joining, Entering
    <3>2. CASE y = t
      BY <1>8, <1>18, <1>a, <3>1, <3>2
    <3>3. CASE y # t
      BY <1>8, <1>27, <2>1, <2>3, <3>1, <3>3 DEF OpenOK
    <3>4. QED
      BY <3>2, <3>3
  <2>4. ASSUME NEW u \in Threads, pc'[u] = "wait_order"  PROVE  stored'[index'[u]] = None
    <3>1. u # t /\ pc[u] = "wait_order" /\ Joining(u)
      BY <1>13, <2>4 DEF Joining, Entering
    <3>2. index[u] # l
      BY <1>18, <3>1
    <3>3. QED
      BY <1>8, <1>14, <2>1, <3>1, <3>2 DEF OpenOK
  <2>5. QED
    BY <2>2, <2>3, <2>4 DEF OpenOK
<1>30. OrderOK'
  <2>1. \A u \in Threads : Keeps(u)' <=> Keeps(u)
    BY <1>27, <1>28
  <2>2. QED
    BY <1>8, <1>9, <2>1 DEF OmptTeamsInv, OrderOK
<1>31. SyncsOK'
  <2>1. SyncsAt(t)'
    BY <1>12, <1>13 DEF SyncsAt, AtEnd
  <2>2. ASSUME NEW u \in Threads, u # t  PROVE  SyncsAt(u)'
    <3>1. SyncsAt(u) /\ pc'[u] = pc[u] /\ object'[u] = object[u] /\ task'[u] = task[u]
          /\ (Executes(u)' <=> Executes(u))
      BY <1>12, <1>13, <1>17, <2>2
    <3>2. pc[u] \in {"barrier_end", "barrier_exit", "decide", "task_end", "task_exit"} =>
            task'[object[u]] = task[object[u]]
      <4>1. pc[u] \in {"barrier_end", "barrier_exit", "decide", "task_end", "task_exit"} =>
              object[u] \in Threads /\ object[u] # t
        BY <1>1, ObjectFacts DEF Writing
      <4>2. QED
        BY <1>12, <4>1
    <3>3. stored'[index'[u]] = u => stored[index[u]] = u
      BY <1>8, <1>14, <2>2
    <3>4. QED
      BY <3>1, <3>2, <3>3 DEF SyncsAt
  <2>3. QED
    BY <2>1, <2>2 DEF SyncsOK
<1>32. EventsOK'
  <2>1. EventsOK
    BY DEF OmptTeamsInv
  <2>2. Written(t)'
    BY <1>2, <1>8, <1>9, <1>11, <1>12, <1>a DEF Written
  <2>3. ASSUME NEW u \in Threads, u # t, Open(u)'  PROVE  Written(u)'
    <3>1. Open(u) /\ index[u] # l /\ task'[u] = task[u] /\ pc'[u] = pc[u]
      BY <1>4, <1>12, <1>13, <1>27, <2>3
    <3>2. events'[index'[u]] = events[index[u]]
      BY <1>8, <1>11, <3>1
    <3>3. Written(u)
      BY <2>1, <3>1 DEF EventsOK
    <3>4. QED
      BY <1>9, <3>1, <3>2, <3>3 DEF Written
  <2>4. ASSUME NEW k \in Indices \ {0}, \A u \in Threads : Open(u)' => index'[u] # k
        PROVE  events'[k].kind \in {"none", "end"}
    <3>1. k # l
      BY <1>8, <1>28, <1>a, <2>4
    <3>2. \A u \in Threads : Open(u) => index[u] # k
      <4>1. ~Open(t)
        BY <1>1 DEF Open
      <4>2. QED
        BY <1>8, <1>27, <2>4, <4>1
    <3>3. QED
      BY <1>11, <2>1, <3>1, <3>2 DEF EventsOK
  <2>5. pc'[Primary] = "running" \/ (pc'[Primary] = pc[Primary] /\ events'[0] = events[0])
    BY <1>3, <1>11, <1>13
  <2>6. \A u \in Threads : Open(u)' => Written(u)'
    BY <2>2, <2>3
  <2>7. QED
    BY <1>9, <2>1, <2>4, <2>5, <2>6 DEF EventsOK, Entering
<1>33. EndKnownOK'
  <2>1. ~PastEnd /\ ~PastEnd' /\ (pc'[Primary] \in {"barrier_exit", "task_exit"} => FALSE)
    BY <1>2, <1>13 DEF PastEnd, Entering
  <2>2. EndKnownOK
    BY DEF OmptTeamsInv
  <2>3. QED
    BY <1>9, <1>12, <1>17, <1>b, <2>1, <2>2 DEF EndKnownOK, TaskEndKnown
<1>34. bug' \in TimestampBugs \cup {None}
  BY <1>8
<1>35. QED
  BY <1>16, <1>19, <1>21, <1>22, <1>23, <1>24, <1>25, <1>26, <1>29, <1>30, <1>31, <1>32, <1>33, <1>34 DEF OmptTeamsInv

-----------------------------------------------------------------------------
(* Members join the team. *)

(* Nothing but the team depends on a thread that comes. *)
LEMMA ComesFrame ==
    ASSUME OmptTeamsInv, NEW t \in Threads, OnlyMoves(t), pc[t] \in {"idle", "forked"},
           pc'[t] = "team_begin", index'[t] = 0 <=> t = Primary,
           taskData' = taskData, taskFree' = taskFree, object' = object, caller' = caller,
           stamp' = stamp, task' = task, stored' = stored, isOmpt' = isOmpt,
           preserveOrder' = preserveOrder, events' = events, region' = region, size' = size,
           parallelData' = parallelData, finalizing' = finalizing,
           \A o \in Parallels :
             parallel'[o].no = parallel[o].no /\ parallel'[o].recorded = parallel[o].recorded
             /\ parallel'[o].taskEnd = parallel[o].taskEnd,
           region > 0
    PROVE  /\ ThreadsOK' /\ OverdueOK' /\ TasksOK' /\ StoredOK' /\ OpenOK' /\ OrderOK'
           /\ SyncsOK' /\ EventsOK' /\ EndKnownOK'
           /\ \A u \in Threads : /\ Executes(u)' <=> Executes(u)
                                 /\ Joining(u)' <=> Joining(u) \/ u = t
                                 /\ Executes(u) \/ Joining(u) => u # t
<1> USE Facts, ThreadFacts
<1>1. ~Executes(t) /\ ~Joining(t)
  BY DEF ControlOK, Joining, WritesOverdue, Entering, OfPrimary
<1>2. \A u \in Threads : u # t => pc'[u] = pc[u] /\ index'[u] = index[u]
  BY DEF OnlyMoves, Same
<1>3. \A u \in Threads : /\ Executes(u)' <=> Executes(u)
                         /\ WritesOverdue(u)' <=> WritesOverdue(u)
                         /\ HandlesOwn(u)' <=> HandlesOwn(u)
                         /\ Executes(u) => u # t
                         /\ WritesOverdue(u) => u # t
  <2>1. \A u \in Threads : Executes(u)' <=> Executes(u)
    BY DEF Executes
  <2>2. \A u \in Threads : WritesOverdue(u)' <=> WritesOverdue(u)
    BY <1>2 DEF WritesOverdue
  <2>3. \A u \in Threads : HandlesOwn(u)' <=> HandlesOwn(u)
    BY <1>1, <1>2, <2>1 DEF HandlesOwn
  <2>4. \A u \in Threads : WritesOverdue(u) => u # t
    BY DEF WritesOverdue
  <2>5. QED
    BY <1>1, <2>1, <2>2, <2>3, <2>4
<1>4. \A u \in Threads : /\ Joining(u)' <=> Joining(u) \/ u = t
                         /\ Keeps(u)' <=> Keeps(u)
                         /\ Open(u)' <=> Open(u)
                         /\ Open(u) \/ Keeps(u) => Executes(u)
  <2>1. \A u \in Threads : Joining(u)' <=> Joining(u) \/ u = t
    BY <1>2, <1>3 DEF Joining, Entering
  <2>2. \A u \in Threads : (Open(u) => Executes(u)) /\ (Keeps(u) => Executes(u))
    BY DEF Open, Keeps, HandlesOwn
  <2>3. \A u \in Threads : Executes(u) => (Keeps(u)' <=> Keeps(u))
    BY <1>2, <1>3 DEF Keeps
  <2>4. \A u \in Threads : Executes(u) => (Open(u)' <=> Open(u))
    BY <1>2, <1>3 DEF Open
  <2>5. \A u \in Threads : ~Executes(u) => ~Open(u)' /\ ~Keeps(u)'
    BY <1>3 DEF Open, Keeps, HandlesOwn
  <2>6. QED
    BY <2>1, <2>2, <2>3, <2>4, <2>5
<1>5. ThreadsOK'
  <2>1. ControlOK(t)'
    BY <1>1, <1>3 DEF ControlOK, Entering, Writing, AtEnd, OfPrimary
  <2>2. CallerOK(t)'
    BY <1>1, <1>3 DEF CallerOK, HandlesOwn
  <2>3. t = Primary => (pc'[t] \in {"finalizing", "done"} <=> pc[t] \in {"finalizing", "done"})
    OBVIOUS
  <2>4. QED
    BY <2>1, <2>2, <2>3, ThreadsFrame
<1>6. OverdueOK'
  <2>1. OverdueOK
    BY DEF OmptTeamsInv
  <2>2. ASSUME NEW u \in Threads  PROVE  OverdueAt(u)'
    <3>1. CASE WritesOverdue(u)
      <4>1. PICK y : y = object[u]
        OBVIOUS
      <4>2. /\ y \in Workers /\ Executes(y) /\ task[y].overdue /\ index[y] = index[u]
            /\ pc[y] \in AtEnd \cup {"release"} /\ stored[index[u]] = None
        BY <2>1, <3>1, <4>1 DEF OverdueOK, OverdueAt
      <4>3. QED
        BY <1>2, <1>3, <3>1, <4>1, <4>2 DEF OverdueAt
    <3>2. CASE ~WritesOverdue(u)
      BY <1>3, <3>2 DEF OverdueAt
    <3>3. QED
      BY <3>1, <3>2
  <2>3. QED
    BY <1>3, <2>1, <2>2 DEF OverdueOK
<1>7. TasksOK'
  BY <1>2, <1>3, TasksFrame
<1>8. StoredOfPrimary' = StoredOfPrimary
  BY <1>2 DEF StoredOfPrimary, AtEnd, ControlOK
<1>9. StoredOK'
  <2>1. StoredOK
    BY DEF OmptTeamsInv
  <2>2. ASSUME NEW k \in Indices \ {0}  PROVE  StoredAt(k)'
    <3>1. CASE stored[k] # None
      <4>1. PICK y : y = stored[k]
        OBVIOUS
      <4>2. /\ y \in Workers /\ Executes(y) /\ index[y] = k
            /\ pc[y] \in AtEnd \cup {"running"} /\ ~task[y].overdue
        BY <2>1, <3>1, <4>1 DEF StoredOK, StoredAt
      <4>3. QED
        BY <1>2, <1>3, <3>1, <4>1, <4>2 DEF StoredAt
    <3>2. CASE stored[k] = None
      BY <3>2 DEF StoredAt
    <3>3. QED
      BY <3>1, <3>2
  <2>3. \A u \in Threads : pc'[u] = "running" => stored'[index'[u]] = u
    BY <1>2, <2>1 DEF StoredOK
  <2>4. QED
    BY <1>8, <2>1, <2>2, <2>3 DEF StoredOK
<1>10. OpenOK'
  <2>1. OpenOK
    BY DEF OmptTeamsInv
  <2>2. \A u \in Threads : pc'[u] \in {"task_begin", "wait_order"} => u # t
    OBVIOUS
  <2>3. QED
    BY <1>2, <1>3, <1>4, <2>1, <2>2 DEF OpenOK
<1>11. OrderOK'
  BY <1>2, <1>3, <1>4 DEF OmptTeamsInv, OrderOK
<1>12. SyncsOK'
  <2>1. SyncsAt(t)'
    BY <1>1, <1>3 DEF SyncsAt, AtEnd
  <2>2. ASSUME NEW u \in Threads, u # t  PROVE  SyncsAt(u)'
    <3>1. SyncsAt(u)
      OBVIOUS
    <3>2. QED
      BY <1>2, <1>3, <2>2, <3>1 DEF SyncsAt
  <2>3. QED
    BY <2>1, <2>2 DEF SyncsOK
<1>13. EventsOK'
  <2>1. EventsOK
    BY DEF OmptTeamsInv
  <2>2. ASSUME NEW u \in Threads, Open(u)'  PROVE  Written(u)'
    <3>1. Open(u) /\ u # t /\ task[u].parallel \in Parallels
      BY <1>3, <1>4, <2>2 DEF OmptTeamsInv, TasksOK
    <3>2. Written(u)
      BY <2>1, <3>1 DEF EventsOK
    <3>3. QED
      BY <1>2, <3>1, <3>2 DEF Written
  <2>3. ASSUME NEW k \in Indices \ {0}, \A u \in Threads : Open(u)' => index'[u] # k
        PROVE  events'[k].kind \in {"none", "end"}
    BY <1>2, <1>3, <1>4, <2>1, <2>3 DEF EventsOK
  <2>4. pc'[Primary] = pc[Primary] \/ (pc[Primary] = "forked" /\ pc'[Primary] = "team_begin")
    BY <1>2 DEF ControlOK
  <2>5. QED
    BY <2>1, <2>2, <2>3, <2>4 DEF EventsOK, Entering
<1>14. EndKnownOK'
  <2>1. EndKnownOK
    BY DEF OmptTeamsInv
  <2>2. (PastEnd' <=> PastEnd) /\ (pc'[Primary] \in {"barrier_exit", "task_exit"} => pc'[Primary] = pc[Primary])
    BY <1>2 DEF PastEnd, ControlOK
  <2>3. parallelData \in Parallels /\ \A u \in Threads : Executes(u) => task[u].parallel \in Parallels
    BY DEF OmptTeamsInv, TasksOK
  <2>4. QED
    BY <1>3, <2>1, <2>2, <2>3 DEF EndKnownOK, TaskEndKnown
<1>15. QED
  BY <1>1, <1>3, <1>4, <1>5, <1>6, <1>7, <1>9, <1>10, <1>11, <1>12, <1>13, <1>14

LEMMA RefSet ==
    ASSUME TypeOK, NEW o \in Parallels, NEW n \in -1..1 + Cardinality(Threads),
           parallel' = [parallel EXCEPT ![o].ref = n]
    PROVE  /\ parallel' \in [Parallels -> ParallelType]
           /\ parallel'[o].ref = n
           /\ \A p \in Parallels : /\ parallel'[p].no = parallel[p].no
                                   /\ parallel'[p].recorded = parallel[p].recorded
                                   /\ parallel'[p].taskEnd = parallel[p].taskEnd
                                   /\ parallel'[p].barrierEnd = parallel[p].barrierEnd
                                   /\ p # o => parallel'[p] = parallel[p]
<1>1. parallel \in [Parallels -> ParallelType] /\ parallel[o] \in ParallelType
  BY DEF TypeOK, ParallelType
<1>2. /\ parallel' = [parallel EXCEPT ![o] = [parallel[o] EXCEPT !.ref = n]]
      /\ [parallel[o] EXCEPT !.ref = n] \in ParallelType
  BY <1>1 DEF ParallelType
<1>3. /\ parallel'[o] = [parallel[o] EXCEPT !.ref = n]
      /\ \A p \in Parallels : p # o => parallel'[p] = parallel[p]
      /\ parallel' \in [Parallels -> ParallelType]
  BY <1>1, <1>2
<1>4. /\ parallel'[o].no = parallel[o].no /\ parallel'[o].ref = n
      /\ parallel'[o].recorded = parallel[o].recorded /\ parallel'[o].taskEnd = parallel[o].taskEnd
      /\ parallel'[o].barrierEnd = parallel[o].barrierEnd
  BY <1>1, <1>3 DEF ParallelType
<1>5. QED
  BY <1>3, <1>4

LEMMA WorkerBeginsStep ==
    ASSUME OmptTeamsInv, NEW t \in Workers, ImplicitTaskBegin(t)
    PROVE  OmptTeamsInv'
<1> USE Facts, ThreadFacts
<1>1. t \in Threads /\ t # Primary
  OBVIOUS
<1>2. PICK i \in (1..size - 1) \ taken :
        taken' = taken \cup {i} /\ index' = [index EXCEPT ![t] = i]
  BY <1>1 DEF ImplicitTaskBegin
<1>3. /\ pc[t] = "idle" /\ region > 0 /\ pc' = [pc EXCEPT ![t] = "team_begin"]
      /\ parallel' = parallel /\ region' = region /\ size' = size /\ arrived' = arrived
      /\ parallelData' = parallelData /\ taskData' = taskData /\ parallelFree' = parallelFree
      /\ task' = task /\ taskFree' = taskFree /\ object' = object /\ caller' = caller
      /\ stamp' = stamp /\ bug' = bug
      /\ UNCHANGED <<locationVars, eventVars, endVars>>
  BY <1>1 DEF ImplicitTaskBegin, Goto
<1>4. /\ stored' = stored /\ isOmpt' = isOmpt /\ preserveOrder' = preserveOrder /\ team' = team
      /\ lastTimestamp' = lastTimestamp /\ events' = events /\ clock' = clock
      /\ finalizing' = finalizing /\ finalizeTool' = finalizeTool
  BY <1>3 DEF locationVars, eventVars, endVars
<1>5. i \in Indices \ {0} /\ i \notin taken /\ i \in 1..size - 1 /\ size > 1
  BY <1>1, <1>2
<1>6. TypesOK'
  BY <1>1, <1>2, <1>3, <1>4, <1>5 DEF TypesOK, TypeOK, Points, Entering
<1>7. pc'[t] = "team_begin" /\ index'[t] = i /\ OnlyMoves(t)
  BY <1>1, <1>2, <1>3 DEF TypesOK, TypeOK, OnlyMoves, Same
<1>8. /\ ThreadsOK' /\ OverdueOK' /\ TasksOK' /\ StoredOK' /\ OpenOK' /\ OrderOK'
      /\ SyncsOK' /\ EventsOK' /\ EndKnownOK'
      /\ \A u \in Threads : /\ Executes(u)' <=> Executes(u)
                            /\ Joining(u)' <=> Joining(u) \/ u = t
                            /\ Executes(u) \/ Joining(u) => u # t
  <2>1. index'[t] = 0 <=> t = Primary
    BY <1>1, <1>5, <1>7
  <2>2. pc[t] \in {"idle", "forked"}
    BY <1>3
  <2>3. \A o \in Parallels :
             parallel'[o].no = parallel[o].no /\ parallel'[o].recorded = parallel[o].recorded
             /\ parallel'[o].taskEnd = parallel[o].taskEnd
    BY <1>3
  <2>4. QED
    BY <1>1, <1>3, <1>4, <1>7, <2>1, <2>2, <2>3, ComesFrame
<1>9. \A u \in Threads : u # t => pc'[u] = pc[u] /\ index'[u] = index[u]
  BY <1>7 DEF OnlyMoves, Same
<1>10. \A u \in Threads : /\ Member(u)' <=> Member(u) \/ u = t
                          /\ Member(u) => u # t
  BY <1>3, <1>8 DEF Member
<1>11. MembersOK
  BY DEF OmptTeamsInv
<1>12. MembersOK'
  <2>1. taken' \subseteq 1..size' - 1
    BY <1>2, <1>3, <1>5, <1>11 DEF MembersOK
  <2>2. \A u \in Workers : Member(u)' => index'[u] \in taken'
    BY <1>2, <1>7, <1>9, <1>10, <1>11 DEF MembersOK
  <2>3. \A u \in Threads : Member(u) => index[u] # i
    <3>1. SUFFICES ASSUME NEW u \in Threads, Member(u), index[u] = i  PROVE  FALSE
      OBVIOUS
    <3>2. CASE u = Primary
      BY <1>5, <3>1, <3>2 DEF ControlOK
    <3>3. CASE u \in Workers
      BY <1>5, <1>11, <3>1, <3>3 DEF MembersOK
    <3>4. QED
      BY <3>2, <3>3
  <2>4. ASSUME NEW u \in Threads, NEW v \in Threads, Member(u)', Member(v)', index'[u] = index'[v]
        PROVE  u = v
    BY <1>7, <1>9, <1>10, <1>11, <2>3, <2>4 DEF MembersOK
  <2>5. ASSUME NEW u \in Threads, NEW v \in Threads, Executes(u)', Executes(v)',
               task'[u].parallel = task'[v].parallel, index'[u] = index'[v]
        PROVE  u = v
    BY <1>3, <1>8, <1>9, <1>11, <2>5 DEF MembersOK
  <2>6. QED
    BY <1>3, <2>1, <2>2, <2>4, <2>5 DEF MembersOK
<1>13. BarrierOK'
  <2>1. BarrierOK
    BY DEF OmptTeamsInv
  <2>2. arrived < size /\ arrived # size
    <3>1. arrived # size
      BY <1>5, <2>1 DEF BarrierOK
    <3>2. QED
      BY <3>1 DEF TypeOK
  <2>3. AtBarrier' = AtBarrier
    BY <1>3, <1>7, <1>9 DEF AtBarrier
  <2>4. {index'[u] : u \in AtBarrier'} = {index[u] : u \in AtBarrier}
    BY <1>3, <1>9, <2>3 DEF AtBarrier
  <2>5. /\ arrived = Cardinality({index[u] : u \in AtBarrier})
        /\ pc[Primary] \in Entering \cup {"forked", "running", "barrier"}
        /\ \A u \in Threads : Executes(u) /\ task[u].parallel = parallelData =>
              pc[u] \in {"running", "barrier"}
    BY <1>5, <2>1, <2>2 DEF BarrierOK
  <2>6. pc'[Primary] \in Entering \cup {"forked", "running", "barrier"}
    BY <1>1, <1>9, <2>5
  <2>7. \A u \in Threads : Executes(u)' /\ task'[u].parallel = parallelData' =>
              pc'[u] \in {"running", "barrier"}
    BY <1>3, <1>8, <1>9, <2>5
  <2>8. arrived' # size' /\ size' # 1
    BY <1>3, <1>5, <2>2
  <2>9. arrived' = Cardinality({index'[u] : u \in AtBarrier'})
    BY <1>3, <2>4, <2>5
  <2>10. QED
    BY <2>6, <2>7, <2>8, <2>9 DEF BarrierOK
<1>14. ReferencesOK'
  <2>1. ReferencesOK
    BY DEF OmptTeamsInv
  <2>2. pc'[Primary] = pc[Primary]
    BY <1>1, <1>9
  <2>3. (Assembled' <=> Assembled) /\ (InRegion' <=> InRegion)
    BY <1>3, <2>2 DEF Assembled, InRegion
  <2>4. \A o \in Parallels : MemberIndices(o)' = MemberIndices(o)
    BY <1>3, <1>8, <1>9 DEF MemberIndices
  <2>5. \A o \in Parallels : References(o)' = References(o)
    BY <1>3, <2>2, <2>3, <2>4 DEF References
  <2>6. QED
    BY <1>3, <2>1, <2>3, <2>5 DEF ReferencesOK
<1>15. QED
  BY <1>3, <1>6, <1>8, <1>12, <1>13, <1>14 DEF OmptTeamsInv

LEMMA PrimaryBeginsStep ==
    ASSUME OmptTeamsInv, ImplicitTaskBegin(Primary)
    PROVE  OmptTeamsInv'
<1> USE Facts, ThreadFacts
<1>1. /\ pc[Primary] = "forked" /\ pc' = [pc EXCEPT ![Primary] = "team_begin"]
      /\ parallel' = [parallel EXCEPT ![parallelData].ref = size + 1]
      /\ taken' = taken /\ index' = index /\ region' = region /\ size' = size
      /\ arrived' = arrived
      /\ parallelData' = parallelData /\ taskData' = taskData /\ parallelFree' = parallelFree
      /\ task' = task /\ taskFree' = taskFree /\ object' = object /\ caller' = caller
      /\ stamp' = stamp /\ bug' = bug
      /\ UNCHANGED <<locationVars, eventVars, endVars>>
  BY DEF ImplicitTaskBegin, InitRefCount, Goto
<1>2. /\ stored' = stored /\ isOmpt' = isOmpt /\ preserveOrder' = preserveOrder /\ team' = team
      /\ lastTimestamp' = lastTimestamp /\ events' = events /\ clock' = clock
      /\ finalizing' = finalizing /\ finalizeTool' = finalizeTool
  BY <1>1 DEF locationVars, eventVars, endVars
<1>3. region > 0 /\ parallelData \in Parallels /\ parallel[parallelData].no = region
  <2>1. region > 0
    BY <1>1 DEF OmptTeamsInv, ReferencesOK, InRegion
  <2>2. QED
    BY <2>1 DEF OmptTeamsInv, TasksOK
<1>4. /\ parallel' \in [Parallels -> ParallelType]
      /\ parallel'[parallelData].ref = size + 1
      /\ \A o \in Parallels : /\ parallel'[o].no = parallel[o].no
                              /\ parallel'[o].recorded = parallel[o].recorded
                              /\ parallel'[o].taskEnd = parallel[o].taskEnd
                              /\ o # parallelData => parallel'[o] = parallel[o]
  <2>1. size + 1 \in -1..1 + Cardinality(Threads)
    OBVIOUS
  <2>2. QED
    BY <1>1, <1>3, <2>1, RefSet
<1>5. TypesOK'
  BY <1>1, <1>2, <1>4 DEF TypesOK, TypeOK, Points, Entering, ParallelType
<1>6. pc'[Primary] = "team_begin" /\ OnlyMoves(Primary)
  BY <1>1 DEF TypesOK, OnlyMoves, Same
<1>7. index[Primary] = 0
  BY DEF ControlOK
<1>8. /\ ThreadsOK' /\ OverdueOK' /\ TasksOK' /\ StoredOK' /\ OpenOK' /\ OrderOK'
      /\ SyncsOK' /\ EventsOK' /\ EndKnownOK'
      /\ \A u \in Threads : /\ Executes(u)' <=> Executes(u)
                            /\ Joining(u)' <=> Joining(u) \/ u = Primary
                            /\ Executes(u) \/ Joining(u) => u # Primary
  <2>1. pc[Primary] \in {"idle", "forked"} /\ (index'[Primary] = 0 <=> Primary = Primary)
    BY <1>1, <1>7
  <2>2. \A o \in Parallels :
             parallel'[o].no = parallel[o].no /\ parallel'[o].recorded = parallel[o].recorded
             /\ parallel'[o].taskEnd = parallel[o].taskEnd
    BY <1>4
  <2>3. QED
    BY <1>1, <1>2, <1>3, <1>6, <2>1, <2>2, ComesFrame
<1>9. \A u \in Threads : u # Primary => pc'[u] = pc[u]
  BY <1>6 DEF OnlyMoves, Same
<1>10. \A u \in Threads : /\ Member(u)' <=> Member(u) \/ u = Primary
                          /\ Member(u) => u # Primary
  BY <1>1, <1>8 DEF Member
<1>11. MembersOK
  BY DEF OmptTeamsInv
<1>12. MembersOK'
  <2>1. taken' \subseteq 1..size' - 1
    BY <1>1, <1>11 DEF MembersOK
  <2>2. \A u \in Workers : Member(u)' => index'[u] \in taken'
    BY <1>1, <1>10, <1>11 DEF MembersOK
  <2>3. \A u \in Threads : Member(u) => index[u] # index[Primary]
    <3>1. ASSUME NEW u \in Threads, Member(u)  PROVE  index[u] \in 1..size - 1
      BY <1>10, <1>11, <3>1 DEF MembersOK
    <3>2. QED
      BY <1>7, <3>1
  <2>4. ASSUME NEW u \in Threads, NEW v \in Threads, Member(u)', Member(v)', index'[u] = index'[v]
        PROVE  u = v
    BY <1>1, <1>10, <1>11, <2>3, <2>4 DEF MembersOK
  <2>5. ASSUME NEW u \in Threads, NEW v \in Threads, Executes(u)', Executes(v)',
               task'[u].parallel = task'[v].parallel, index'[u] = index'[v]
        PROVE  u = v
    BY <1>1, <1>8, <1>11, <2>5 DEF MembersOK
  <2>6. QED
    BY <1>1, <1>3, <2>1, <2>2, <2>4, <2>5 DEF MembersOK
<1>13. arrived # size
  BY <1>1 DEF OmptTeamsInv, BarrierOK
<1>14. BarrierOK'
  <2>1. BarrierOK
    BY DEF OmptTeamsInv
  <2>2. AtBarrier' = AtBarrier
    BY <1>1, <1>6, <1>9 DEF AtBarrier
  <2>3. {index'[u] : u \in AtBarrier'} = {index[u] : u \in AtBarrier}
    BY <1>1, <2>2
  <2>4. size > 1 => arrived' = Cardinality({index'[u] : u \in AtBarrier'})
    <3>1. arrived < size
      BY <1>13 DEF TypeOK
    <3>2. QED
      BY <1>1, <2>1, <2>3, <3>1 DEF BarrierOK
  <2>5. pc'[Primary] \in Entering
    BY <1>6 DEF Entering
  <2>6. size > 1 => \A u \in Threads : Executes(u)' /\ task'[u].parallel = parallelData' =>
              pc'[u] \in {"running", "barrier"}
    BY <1>1, <1>8, <1>9, <1>13, <2>1, SMTT(30) DEF BarrierOK, TypeOK
  <2>7. size = 1 => arrived = 0
    BY <2>1 DEF BarrierOK
  <2>8. pc'[Primary] \notin Barrier
    BY <1>6 DEF Barrier, AtEnd
  <2>9. QED
    BY <1>1, <1>13, <2>4, <2>5, <2>6, <2>7, <2>8 DEF BarrierOK
<1>15. ReferencesOK'
  <2>1. ReferencesOK
    BY DEF OmptTeamsInv
  <2>2. ~Assembled' /\ pc'[Primary] # "forked"
    BY <1>1, <1>6, <1>13 DEF Assembled, Entering
  <2>3. \A o \in Parallels : MemberIndices(o)' = MemberIndices(o)
    BY <1>1, <1>8 DEF MemberIndices
  <2>4. \A o \in Parallels : o # parallelData => References(o)' = References(o)
    BY <1>1, <2>3 DEF References
  <2>5. References(parallelData)' = size + 1
    BY <1>1, <2>2 DEF References
  <2>6. parallel[parallelData].ref = -1 /\ parallelData \notin Range(parallelFree)
    BY <1>1, <1>3, <2>1 DEF ReferencesOK, References
  <2>7. ASSUME NEW o \in Parallels
        PROVE  IF parallel'[o].no = 0 THEN o \notin Range(parallelFree)
               ELSE /\ parallel'[o].ref = References(o)'
                    /\ o \in Range(parallelFree) <=> parallel'[o].ref = 0
    <3>1. CASE o = parallelData
      <4>1. parallel'[o].ref = References(o)' /\ parallel'[o].ref # 0
        BY <1>1, <1>4, <2>5, <3>1
      <4>2. QED
        BY <1>3, <1>4, <2>6, <3>1, <4>1
    <3>2. CASE o # parallelData
      <4>1. parallel'[o] = parallel[o] /\ References(o)' = References(o)
        BY <1>4, <2>4, <3>2
      <4>2. QED
        BY <2>1, <4>1 DEF ReferencesOK
    <3>3. QED
      BY <3>1, <3>2
  <2>8. {o \in Parallels : parallel'[o].no # 0} = {o \in Parallels : parallel[o].no # 0}
    BY <1>4
  <2>9. InRegion' => region' > 0
    BY <1>1, <1>3
  <2>10. QED
    BY <1>1, <2>1, <2>7, <2>8, <2>9 DEF ReferencesOK
<1>16. QED
  BY <1>1, <1>5, <1>8, <1>12, <1>14, <1>15 DEF OmptTeamsInv

-----------------------------------------------------------------------------
(* A region opens. *)

(* What a free list gives, and what is left of it *)
LEMMA Popped ==
    ASSUME NEW S, NEW s \in Seq(S), IsInjective(s), s # <<>>
    PROVE  /\ Head(s) \in Range(s) /\ Head(s) \in S
           /\ Tail(s) \in Seq(S) /\ IsInjective(Tail(s))
           /\ Range(Tail(s)) = Range(s) \ {Head(s)}
<1>1. /\ Len(s) \in Nat \ {0} /\ DOMAIN s = 1..Len(s) /\ Head(s) = s[1]
      /\ Tail(s) \in Seq(S) /\ Len(Tail(s)) = Len(s) - 1
      /\ \A i \in 1..Len(s) - 1 : Tail(s)[i] = s[i + 1]
  BY HeadTailProperties, LenProperties, EmptySeq
<1>2. DOMAIN Tail(s) = 1..Len(s) - 1
  BY <1>1, LenProperties
<1>3. \A i \in DOMAIN s : i = 1 \/ (i - 1 \in DOMAIN Tail(s) /\ Tail(s)[i - 1] = s[i])
  BY <1>1, <1>2
<1>4. Head(s) \in Range(s) /\ Head(s) \in S
  BY <1>1, ElementOfSeq DEF Range
<1>5. IsInjective(Tail(s))
  BY <1>1, <1>2 DEF IsInjective
<1>6. Range(Tail(s)) = Range(s) \ {Head(s)}
  <2>1. ASSUME NEW x \in Range(Tail(s))  PROVE  x \in Range(s) \ {Head(s)}
    BY <1>1, <1>2 DEF Range, IsInjective
  <2>2. ASSUME NEW x \in Range(s) \ {Head(s)}  PROVE  x \in Range(Tail(s))
    <3>1. PICK i \in DOMAIN s : x = s[i] /\ i # 1
      BY <1>1 DEF Range
    <3>2. QED
      BY <1>3, <3>1 DEF Range
  <2>3. QED
    BY <2>1, <2>2
<1>7. QED
  BY <1>1, <1>4, <1>5, <1>6

(* What goes back to a free list *)
LEMMA Pushed ==
    ASSUME NEW S, NEW s \in Seq(S), IsInjective(s), NEW x \in S \ Range(s)
    PROVE  /\ <<x>> \o s \in Seq(S) /\ IsInjective(<<x>> \o s)
           /\ Range(<<x>> \o s) = Range(s) \cup {x}
<1> DEFINE q == <<x>> \o s
<1>1. /\ Len(s) \in Nat /\ DOMAIN s = 1..Len(s)
      /\ <<x>> \in Seq(S) /\ Len(<<x>>) = 1 /\ <<x>>[1] = x
  BY LenProperties
<1>2. /\ q \in Seq(S) /\ Len(q) = 1 + Len(s)
      /\ \A i \in 1..1 + Len(s) : q[i] = IF i <= 1 THEN <<x>>[i] ELSE s[i - 1]
  BY <1>1, ConcatProperties
<1>3. DOMAIN q = 1..1 + Len(s) /\ q[1] = x
  BY <1>1, <1>2, LenProperties
<1>4. /\ \A i \in DOMAIN q : i = 1 \/ (i - 1 \in DOMAIN s /\ q[i] = s[i - 1])
      /\ \A i \in DOMAIN s : i + 1 \in DOMAIN q /\ q[i + 1] = s[i]
  BY <1>1, <1>2, <1>3
<1> HIDE DEF q
<1>5. IsInjective(q)
  <2> SUFFICES ASSUME NEW a \in DOMAIN q, NEW b \in DOMAIN q, q[a] = q[b]  PROVE  a = b
    BY DEF IsInjective
  <2>1. a = 1 <=> b = 1
    BY <1>1, <1>3, <1>4 DEF Range
  <2>2. CASE a # 1 /\ b # 1
    BY <1>1, <1>3, <1>4, <2>2 DEF IsInjective
  <2>3. QED
    BY <2>1, <2>2
<1>6. Range(q) = Range(s) \cup {x}
  BY <1>1, <1>3, <1>4 DEF Range
<1>7. QED
  BY <1>2, <1>5, <1>6 DEF q

LEMMA PastEndFacts ==
    ASSUME OmptTeamsInv, PastEnd
    PROVE  /\ Assembled /\ pc[Primary] # "forked"
           /\ \A u \in Threads : ~Joining(u) /\ pc[u] # "running"
<1> USE Facts, ThreadFacts
<1>1. pc[Primary] \notin Entering \cup {"forked", "running", "barrier"} /\ ~Joining(Primary)
  BY DEF PastEnd, Entering, Joining, WritesOverdue
<1>2. BarrierOK /\ MembersOK
  BY DEF OmptTeamsInv
<1>3. CASE size = 1
  <2>1. ASSUME NEW u \in Workers  PROVE  ~Member(u)
    BY <1>2, <1>3 DEF MembersOK
  <2>2. ASSUME NEW u \in Workers  PROVE  ~Joining(u) /\ pc[u] # "running"
    BY <2>1 DEF Member, ControlOK, OmptTeamsInv, TasksOK
  <2>3. QED
    BY <1>1, <1>3, <2>2 DEF Assembled
<1>4. CASE size # 1
  <2>1. ~(arrived < size /\ size > 1)
    BY <1>1, <1>2 DEF BarrierOK
  <2>2. arrived = size
    BY <1>4, <2>1 DEF TypeOK
  <2>3. QED
    BY <1>1, <1>2, <1>4, <2>2 DEF Assembled, BarrierOK
<1>5. QED
  BY <1>3, <1>4

LEMMA MembersFinite ==
    ASSUME OmptTeamsInv, NEW o
    PROVE  IsFiniteSet(MemberIndices(o)) /\ Cardinality(MemberIndices(o)) \in Nat
<1> USE Facts, ThreadFacts
<1>1. MemberIndices(o) \subseteq Indices
  BY DEF MemberIndices
<1>2. IsFiniteSet(Indices)
  BY FS_Interval
<1>3. QED
  BY <1>1, <1>2, FS_Subset, FS_CardinalityType

(* The object of a new region is nobody's. *)
LEMMA PooledFacts ==
    ASSUME OmptTeamsInv, pc[Primary] = "serial", region < Regions, TakeParallel,
           NEW o, o = PooledParallel
    PROVE  /\ o \in Parallels
           /\ \A u \in Threads : Executes(u) => task[u].parallel # o
           /\ parallelFree' \in Seq(Parallels) /\ IsInjective(parallelFree')
           /\ Range(parallelFree') = Range(parallelFree) \ {o}
<1> USE Facts, ThreadFacts
<1>1. ReferencesOK /\ TasksOK
  BY DEF OmptTeamsInv
<1>2. PastEnd /\ ~InRegion
  BY DEF PastEnd, InRegion
<1>3. CASE parallelFree # <<>>
  <2>1. o = Head(parallelFree) /\ parallelFree' = Tail(parallelFree)
    BY <1>3 DEF PooledParallel, TakeParallel
  <2>2. parallelFree \in Seq(Parallels) /\ IsInjective(parallelFree)
    BY <1>1 DEF TypeOK, ReferencesOK
  <2>3. /\ Head(parallelFree) \in Range(parallelFree) /\ Head(parallelFree) \in Parallels
        /\ Tail(parallelFree) \in Seq(Parallels) /\ IsInjective(Tail(parallelFree))
        /\ Range(Tail(parallelFree)) = Range(parallelFree) \ {Head(parallelFree)}
    BY <1>3, <2>2, Popped
  <2>4. References(o) = 0
    BY <1>1, <2>1, <2>3 DEF ReferencesOK
  <2>5. IsFiniteSet(MemberIndices(o)) /\ Cardinality(MemberIndices(o)) \in Nat
    BY MembersFinite
  <2>6. Assembled /\ pc[Primary] # "forked"
    BY <1>2, PastEndFacts
  <2>7. Cardinality(MemberIndices(o)) = 0
    BY <1>2, <2>4, <2>5, <2>6 DEF References
  <2>8. MemberIndices(o) = {}
    BY <2>5, <2>7, FS_EmptySet
  <2>9. \A u \in Threads : Executes(u) => task[u].parallel # o
    <3>1. \A u \in Threads :
            Executes(u) /\ task[u].parallel = o => index[u] \in MemberIndices(o)
      BY DEF MemberIndices
    <3>2. QED
      BY <2>8, <3>1
  <2>10. QED
    BY <2>1, <2>3, <2>9
<1>4. CASE parallelFree = <<>>
  <2> DEFINE Used == {p \in Parallels : parallel[p].no # 0}
             Number == Cardinality(Used)
  <2>1. \E p \in Parallels : parallel[p].no = 0
    <3>1. SUFFICES ASSUME \A p \in Parallels : parallel[p].no # 0  PROVE  FALSE
      OBVIOUS
    <3>2. Used = Parallels
      BY <3>1
    <3>3. Cardinality(Parallels) = Regions
      BY FS_Interval
    <3>4. Number <= region
      BY <1>1 DEF ReferencesOK
    <3>5. Number = Regions
      BY <3>2, <3>3
    <3> HIDE DEF Number
    <3>6. QED
      BY <3>4, <3>5 DEF TypeOK
  <2>2. o \in Parallels /\ parallel[o].no = 0
    BY <1>4, <2>1 DEF PooledParallel
  <2>3. \A u \in Threads : Executes(u) => task[u].parallel # o
    BY <1>1, <2>2 DEF TasksOK
  <2>4. parallelFree' = parallelFree /\ o \notin Range(parallelFree)
    BY <1>1, <1>4, <2>2 DEF TakeParallel, ReferencesOK
  <2>5. parallelFree \in Seq(Parallels) /\ IsInjective(parallelFree)
    BY <1>1 DEF TypeOK, ReferencesOK
  <2>6. QED
    BY <2>2, <2>3, <2>4, <2>5
<1>5. QED
  BY <1>3, <1>4

LEMMA ParallelBeginStep ==
    ASSUME OmptTeamsInv, ParallelBegin
    PROVE  OmptTeamsInv'
<1> USE Facts, ThreadFacts
<1>1. PICK o : o = PooledParallel
  OBVIOUS
<1>2. PICK n \in Sizes, recorded \in Recording :
         /\ size' = n
         /\ parallel' = [parallel EXCEPT ![o] =
                           [no |-> region + 1, ref |-> -1, barrierEnd |-> 0,
                            taskEnd |-> 0, recorded |-> recorded]]
  BY <1>1, Zenon DEF ParallelBegin
<1>a. TakeParallel /\ Put(0, "fork", region + 1, 0)
  BY <1>1, Zenon DEF ParallelBegin
<1>b. BugOn(stored[0] = None, "parallel_begin: no stored task")
  BY <1>1, Zenon DEF ParallelBegin
<1>3. /\ pc[Primary] = "serial" /\ region < Regions
      /\ parallelData' = o
      /\ region' = region + 1 /\ taken' = {} /\ arrived' = 0
      /\ stored' = [stored EXCEPT ![0] = None]
      /\ pc' = [pc EXCEPT ![Primary] = "forked"]
      /\ UNCHANGED <<taskData, task, taskFree, isOmpt, preserveOrder, team, lastTimestamp,
                   clock, index, object, caller, stamp, endVars>>
  BY <1>1, Zenon DEF ParallelBegin, Goto
<1>4. /\ taskData' = taskData /\ task' = task /\ taskFree' = taskFree /\ isOmpt' = isOmpt
      /\ preserveOrder' = preserveOrder /\ team' = team /\ lastTimestamp' = lastTimestamp
      /\ clock' = clock /\ index' = index /\ object' = object /\ caller' = caller
      /\ stamp' = stamp /\ finalizing' = finalizing /\ finalizeTool' = finalizeTool
  BY <1>3, Zenon DEF endVars
<1>5. /\ o \in Parallels
      /\ \A u \in Threads : Executes(u) => task[u].parallel # o
      /\ parallelFree' \in Seq(Parallels) /\ IsInjective(parallelFree')
      /\ Range(parallelFree') = Range(parallelFree) \ {o}
  BY <1>1, <1>3, <1>a, PooledFacts
<1>c. TypeOK /\ TypesOK
  BY ThreadFacts
<1>6. region \in Nat /\ region + 1 \in 0..Regions /\ region + 1 # 0
  <2>1. region \in 0..Regions
    BY <1>c DEF TypeOK
  <2>2. QED
    BY <1>3, <2>1
<1>7. n \in Nat /\ n >= 1 /\ recorded \in BOOLEAN
  BY OmptTeamsAssumption
<1>8. /\ parallel' \in [Parallels -> ParallelType]
      /\ parallel'[o].no = region + 1 /\ parallel'[o].ref = -1 /\ parallel'[o].taskEnd = 0
      /\ \A p \in Parallels : p # o => parallel'[p] = parallel[p]
  <2>1. parallel \in [Parallels -> ParallelType]
    BY DEF TypeOK, ParallelType
  <2>2. PICK new : new = [no |-> region + 1, ref |-> -1, barrierEnd |-> 0,
                            taskEnd |-> 0, recorded |-> recorded]
    OBVIOUS
  <2>3. -1 \in -1..1 + Cardinality(Threads)
    OBVIOUS
  <2>4. new \in ParallelType /\ new.no = region + 1 /\ new.ref = -1 /\ new.taskEnd = 0
    BY <1>6, <1>7, <2>2, <2>3 DEF ParallelType
  <2>5. parallel' = [parallel EXCEPT ![o] = new]
    BY <1>2, <2>2
  <2>6. QED
    BY <1>5, <2>1, <2>4, <2>5
<1>9. PastEnd /\ ~InRegion /\ Assembled /\ \A u \in Threads : ~Joining(u) /\ pc[u] # "running"
  BY <1>3, PastEndFacts DEF PastEnd, InRegion
<1>10. ~Executes(Primary) /\ index[Primary] = 0
  BY <1>3 DEF ControlOK, OfPrimary
<1>11. stored[0] = InitialTask /\ bug' = bug
  <2>1. stored[0] = InitialTask
    <3>1. StoredOfPrimary = InitialTask
      BY <1>3 DEF StoredOfPrimary, AtEnd
    <3>2. QED
      BY <3>1 DEF OmptTeamsInv, StoredOK
  <2>2. QED
    BY <1>b, <2>1 DEF BugOn
<1>12. /\ events' \in [Indices -> [kind : Kinds, no : 0..Regions, team : Nat]]
       /\ events'[0].kind = "fork" /\ events'[0].no = region'
       /\ \A k \in Indices : k # 0 => events'[k] = events[k]
  <2>1. events[0].kind \in {"none", "join"}
    BY <1>3 DEF OmptTeamsInv, EventsOK
  <2>2. Follows(events[0], "fork", region + 1)
    BY <2>1 DEF Follows
  <2>3. "fork" \in Kinds
    BY DEF Kinds
  <2>4. QED
    BY <1>3, <1>6, <1>a, <2>2, <2>3, PutFits
<1>13. stored' \in [Indices -> Ids \cup {InitialTask}] /\ stored'[0] = None
       /\ \A k \in Indices : k # 0 => stored'[k] = stored[k]
  BY <1>c, <1>3 DEF TypeOK, Ids
<1>14. TypesOK'
  <2>1. /\ region' \in 0..Regions /\ size' \in Sizes \cup {1} /\ taken' \subseteq Indices \ {0}
        /\ arrived' \in 0..size' /\ parallelData' \in Parallels \cup {None}
    BY <1>2, <1>3, <1>5, <1>6, <1>7
  <2>2. parallel' \in [Parallels -> [no : 0..Regions, ref : -1..1 + Cardinality(Threads),
                                     barrierEnd : Nat, taskEnd : Nat, recorded : BOOLEAN]]
    BY <1>8 DEF ParallelType
  <2>3. TypeOK'
    BY <1>c, <1>4, <1>5, <1>13, <2>1, <2>2 DEF TypeOK
  <2>4. QED
    BY <1>c, <1>3, <1>4, <1>12, <2>3 DEF TypesOK, Points, OfPrimary
<1>15. pc'[Primary] = "forked" /\ OnlyMoves(Primary) /\ \A u \in Threads : u # Primary => pc'[u] = pc[u]
  BY <1>3, <1>4 DEF TypesOK, OnlyMoves, Same
<1>16. \A u \in Threads : /\ Executes(u)' <=> Executes(u)
                          /\ Executes(u) => u # Primary /\ index[u] # 0 /\ index[u] \in Indices
                          /\ ~WritesOverdue(u) /\ ~WritesOverdue(u)' /\ ~Joining(u)'
                          /\ pc'[u] # "running"
  <2>1. \A u \in Threads : Executes(u)' <=> Executes(u)
    BY <1>4 DEF Executes
  <2>2. \A u \in Threads : Executes(u) => u # Primary /\ index[u] # 0
    BY <1>10 DEF ControlOK
  <2>3. \A u \in Threads : ~WritesOverdue(u) /\ ~Joining(u) /\ pc[u] # "running"
    BY <1>9 DEF Joining
  <2>4. \A u \in Threads : ~WritesOverdue(u)'
    BY <1>4, <1>15, <2>3 DEF WritesOverdue
  <2>5. \A u \in Threads : ~Joining(u)' /\ pc'[u] # "running"
    BY <1>15, <2>3, <2>4 DEF Joining, Entering
  <2>6. QED
    BY <2>1, <2>2, <2>3, <2>4, <2>5
<1>17. \A u \in Threads : /\ HandlesOwn(u)' <=> HandlesOwn(u)
                          /\ Keeps(u)' <=> Keeps(u)
                          /\ Open(u)' <=> Open(u)
                          /\ Open(u) \/ Keeps(u) => Executes(u)
                          /\ ~Member(u)'
  <2>1. \A u \in Threads : HandlesOwn(u)' <=> HandlesOwn(u)
    BY <1>15, <1>16 DEF HandlesOwn
  <2>2. \A u \in Threads : (Open(u) => Executes(u)) /\ (Keeps(u) => Executes(u))
    BY DEF Open, Keeps, HandlesOwn
  <2>3. \A u \in Threads : Keeps(u)' <=> Keeps(u)
    BY <1>4, <1>15, <1>16, <2>1 DEF Keeps, HandlesOwn
  <2>4. \A u \in Threads : Executes(u) => (Open(u)' <=> Open(u))
    BY <1>4, <1>13, <1>15, <1>16, <2>1 DEF Open
  <2>5. \A u \in Threads : ~Executes(u) => ~Open(u)' /\ ~Open(u)
    BY <1>16 DEF Open, HandlesOwn
  <2>6. \A u \in Threads : ~Member(u)'
    BY <1>3, <1>4, <1>5, <1>16 DEF Member
  <2>7. QED
    BY <2>1, <2>2, <2>3, <2>4, <2>5, <2>6
<1>18. ThreadsOK'
  <2>1. ControlOK(Primary)'
    BY <1>4, <1>10, <1>15, <1>16 DEF ControlOK, Entering, Writing, AtEnd, OfPrimary
  <2>2. CallerOK(Primary)'
    BY <1>4, <1>10, <1>15, <1>16 DEF CallerOK, HandlesOwn
  <2>3. pc'[Primary] \in {"finalizing", "done"} <=> pc[Primary] \in {"finalizing", "done"}
    BY <1>3, <1>15
  <2>4. QED
    BY <1>4, <1>15, <2>1, <2>2, <2>3, ThreadsFrame
<1>19. OverdueOK'
  <2>1. \A x \in Threads : ~task[x].overdue
    BY <1>16 DEF OmptTeamsInv, OverdueOK
  <2>2. QED
    BY <1>4, <1>16, <2>1 DEF OverdueOK, OverdueAt
<1>20. TasksOK'
  <2>1. region' > 0 => parallelData' \in Parallels /\ parallel'[parallelData'].no = region'
    BY <1>3, <1>5, <1>8
  <2>2. ASSUME NEW x \in Threads, Executes(x)'
        PROVE  /\ task'[x].index = index'[x] /\ isOmpt'[index'[x]]
               /\ task'[x].parallel \in Parallels /\ parallel'[task'[x].parallel].no \in 1..region'
               /\ pc'[x] = "running" \/ x = Primary => task'[x].parallel = parallelData'
    <3>1. /\ task[x].index = index[x] /\ isOmpt[index[x]]
          /\ task[x].parallel \in Parallels /\ parallel[task[x].parallel].no \in 1..region
      BY <1>16, <2>2 DEF OmptTeamsInv, TasksOK
    <3>2. task[x].parallel # o
      BY <1>5, <1>16, <2>2
    <3>3. parallel'[task[x].parallel] = parallel[task[x].parallel]
      BY <1>8, <3>1, <3>2
    <3>4. parallel[task[x].parallel].no \in 1..region'
      BY <1>3, <1>6, <3>1, SMTT(30)
    <3>5. QED
      BY <1>4, <1>10, <1>16, <2>2, <3>1, <3>3, <3>4
  <2>3. QED
    BY <2>1, <2>2 DEF TasksOK
<1>21. MembersOK'
  <2>1. \A t, u \in Threads :
         /\ Executes(t) /\ Executes(u)
         /\ task[t].parallel = task[u].parallel /\ index[t] = index[u]
         => t = u
    BY DEF OmptTeamsInv, MembersOK
  <2>2. QED
    BY <1>3, <1>4, <1>6, <1>16, <1>17, <2>1 DEF MembersOK
<1>22. BarrierOK'
  <2>1. AtBarrier' = {}
    <3>1. ASSUME NEW u \in Threads, pc'[u] = "barrier", task'[u].parallel = parallelData'
          PROVE  FALSE
      <4>1. u # Primary /\ pc[u] = "barrier"
        BY <1>15, <3>1
      <4>2. Executes(u)
        BY <4>1 DEF ControlOK, AtEnd
      <4>3. QED
        BY <1>3, <1>4, <1>5, <3>1, <4>2
    <3>2. QED
      BY <3>1 DEF AtBarrier
  <2>2. {index'[u] : u \in AtBarrier'} = {}
    BY <2>1
  <2>3. arrived' = Cardinality({index'[u] : u \in AtBarrier'})
    BY <1>3, <2>2, FS_EmptySet
  <2>4. \A u \in Threads : ~(Executes(u)' /\ task'[u].parallel = parallelData')
    BY <1>3, <1>4, <1>5, <1>16
  <2>5. arrived' # size'
    BY <1>2, <1>3, <1>7
  <2>6. pc'[Primary] \notin Barrier
    BY <1>15 DEF Barrier, AtEnd
  <2>7. QED
    BY <1>3, <1>15, <2>3, <2>4, <2>5, <2>6 DEF BarrierOK
<1>23. ReferencesOK'
  <2>1. ReferencesOK
    BY DEF OmptTeamsInv
  <2>2. ASSUME NEW p \in Parallels, p # o  PROVE  References(p)' = References(p)
    <3>1. MemberIndices(p)' = MemberIndices(p)
      BY <1>4, <1>16 DEF MemberIndices
    <3>2. References(p)' = Cardinality(MemberIndices(p))
      BY <1>3, <2>2, <3>1 DEF References
    <3>3. Cardinality(MemberIndices(p)) \in Nat
      BY MembersFinite
    <3>4. pc[Primary] # "forked"
      BY <1>3
    <3>5. References(p) = Cardinality(MemberIndices(p))
      BY <1>9, <3>3, <3>4 DEF References
    <3>6. QED
      BY <3>2, <3>5
  <2>3. References(o)' = -1
    BY <1>3, <1>15 DEF References
  <2>4. ASSUME NEW p \in Parallels
        PROVE  IF parallel'[p].no = 0 THEN p \notin Range(parallelFree')
               ELSE /\ parallel'[p].ref = References(p)'
                    /\ p \in Range(parallelFree') <=> parallel'[p].ref = 0
    <3>1. CASE p = o
      BY <1>5, <1>6, <1>8, <2>3, <3>1
    <3>2. CASE p # o
      <4>1. parallel'[p] = parallel[p] /\ (p \in Range(parallelFree') <=> p \in Range(parallelFree))
        BY <1>5, <1>8, <3>2
      <4>2. QED
        BY <2>1, <2>2, <3>2, <4>1 DEF ReferencesOK
    <3>3. QED
      BY <3>1, <3>2
  <2>5. Cardinality({p \in Parallels : parallel'[p].no # 0}) <= region'
    <3> DEFINE Used == {p \in Parallels : parallel[p].no # 0}
               Used2 == {p \in Parallels : parallel'[p].no # 0}
    <3>1. Used2 \subseteq Used \cup {o}
      BY <1>8
    <3>a. Used \subseteq Parallels
      OBVIOUS
    <3>b. IsFiniteSet(Parallels)
      <4>1. Parallels = 1..Regions /\ Regions \in Int
        OBVIOUS
      <4>2. QED
        BY <4>1, FS_Interval
    <3>2. IsFiniteSet(Parallels) /\ Used \subseteq Parallels
      BY <3>a, <3>b
    <3>3. IsFiniteSet(Used) /\ Cardinality(Used) \in Nat
      BY <3>2, FS_Subset, FS_CardinalityType
    <3>4. Cardinality(Used) <= region
      BY <2>1 DEF ReferencesOK
    <3> HIDE DEF Used, Used2
    <3>5. /\ IsFiniteSet(Used \cup {o})
          /\ Cardinality(Used \cup {o}) = IF o \in Used THEN Cardinality(Used) ELSE Cardinality(Used) + 1
      BY <3>3, FS_AddElement
    <3>6. Cardinality(Used2) <= Cardinality(Used \cup {o}) /\ IsFiniteSet(Used2)
      BY <3>1, <3>5, FS_Subset
    <3>7. Cardinality(Used2) \in Nat
      BY <3>6, FS_CardinalityType
    <3>8. Cardinality(Used2) <= region'
      BY <1>3, <1>6, <3>3, <3>4, <3>5, <3>6, <3>7
    <3>9. QED
      BY <3>8 DEF Used2
  <2>6. InRegion' => region' > 0
    BY <1>3, <1>6
  <2>7. QED
    BY <1>5, <2>4, <2>5, <2>6 DEF ReferencesOK
<1>24. StoredOK'
  <2>1. StoredOK
    BY DEF OmptTeamsInv
  <2>2. ASSUME NEW k \in Indices \ {0}  PROVE  StoredAt(k)'
    <3>1. CASE stored[k] # None
      <4>1. PICK y : y = stored[k]
        OBVIOUS
      <4>2. /\ y \in Workers /\ Executes(y) /\ index[y] = k
            /\ pc[y] \in AtEnd \cup {"running"} /\ ~task[y].overdue
        BY <2>1, <3>1, <4>1 DEF StoredOK, StoredAt
      <4>3. QED
        BY <1>4, <1>13, <1>15, <1>16, <4>1, <4>2 DEF StoredAt
    <3>2. CASE stored[k] = None
      BY <1>13, <3>2 DEF StoredAt
    <3>3. QED
      BY <3>1, <3>2
  <2>3. StoredOfPrimary' = None
    BY <1>15 DEF StoredOfPrimary, AtEnd
  <2>4. QED
    BY <1>13, <1>16, <2>2, <2>3 DEF StoredOK
<1>25. OpenOK'
  <2>1. OpenOK
    BY DEF OmptTeamsInv
  <2>2. \A u \in Threads : pc'[u] \notin {"task_begin", "wait_order"}
    BY <1>16 DEF Joining, Entering
  <2>3. QED
    BY <1>4, <1>17, <2>1, <2>2 DEF OpenOK
<1>26. OrderOK'
  BY <1>4, <1>17 DEF OmptTeamsInv, OrderOK
<1>27. SyncsOK'
  <2>1. SyncsAt(Primary)'
    BY <1>15 DEF SyncsAt, AtEnd
  <2>2. ASSUME NEW u \in Threads, u # Primary  PROVE  SyncsAt(u)'
    <3>1. pc'[u] = pc[u] /\ SyncsAt(u)
      BY <1>15, <2>2
    <3>2. pc[u] \in AtEnd => stored'[index[u]] = stored[index[u]]
      BY <1>13, <1>16 DEF ControlOK
    <3>3. QED
      BY <1>4, <1>16, <3>1, <3>2 DEF SyncsAt
  <2>3. QED
    BY <2>1, <2>2 DEF SyncsOK
<1>28. EventsOK'
  <2>1. EventsOK
    BY DEF OmptTeamsInv
  <2>2. ASSUME NEW u \in Threads, Open(u)'  PROVE  Written(u)'
    <3>1. Open(u) /\ Executes(u) /\ task[u].parallel \in Parallels
      BY <1>17, <2>2 DEF OmptTeamsInv, TasksOK
    <3>2. Written(u) /\ u # Primary /\ pc'[u] = pc[u]
      BY <1>15, <1>16, <2>1, <3>1 DEF EventsOK
    <3>3. events'[index[u]] = events[index[u]]
      BY <1>12, <1>16, <3>1
    <3>4. parallel'[task[u].parallel] = parallel[task[u].parallel]
      BY <1>5, <1>8, <3>1
    <3>5. QED
      BY <1>4, <3>2, <3>3, <3>4 DEF Written
  <2>3. ASSUME NEW k \in Indices \ {0}, \A u \in Threads : Open(u)' => index'[u] # k
        PROVE  events'[k].kind \in {"none", "end"}
    BY <1>4, <1>12, <1>17, <2>1, <2>3 DEF EventsOK
  <2>4. QED
    BY <1>12, <1>15, <2>2, <2>3 DEF EventsOK
<1>29. EndKnownOK'
  <2>1. ~PastEnd'
    BY <1>15 DEF PastEnd
  <2>2. ASSUME NEW u \in Threads, Executes(u)'  PROVE  TaskEndKnown(task[u].parallel)'
    <3>1. Executes(u) /\ task[u].parallel \in Parallels /\ task[u].parallel # o
      BY <1>5, <1>16, <2>2 DEF OmptTeamsInv, TasksOK
    <3>2. TaskEndKnown(task[u].parallel)
      BY <1>9, <3>1 DEF OmptTeamsInv, EndKnownOK
    <3>3. QED
      BY <1>4, <1>8, <3>1, <3>2 DEF TaskEndKnown
  <2>3. QED
    BY <1>3, <1>4, <1>8, <1>15, <2>1, <2>2 DEF EndKnownOK, TaskEndKnown
<1>30. bug' \in TimestampBugs \cup {None}
  BY <1>11
<1>31. QED
  BY <1>14, <1>18, <1>19, <1>20, <1>21, <1>22, <1>23, <1>24, <1>25, <1>26, <1>27, <1>28,
     <1>29, <1>30 DEF OmptTeamsInv

-----------------------------------------------------------------------------
(* The object of a region is released. *)

LEMMA ReleaseFits ==
    ASSUME OmptTeamsInv, NEW o \in Parallels, parallel[o].no # 0, ReleaseParallel(o),
           References(o) \in Nat \ {0}, References(o)' = References(o) - 1,
           \A p \in Parallels : p # o => References(p)' = References(p),
           region' = region, InRegion' => InRegion
    PROVE  /\ ReferencesOK'
           /\ parallel' \in [Parallels -> ParallelType] /\ parallelFree' \in Seq(Parallels)
           /\ \A p \in Parallels : /\ parallel'[p].no = parallel[p].no
                                   /\ parallel'[p].recorded = parallel[p].recorded
                                   /\ parallel'[p].taskEnd = parallel[p].taskEnd
<1> USE Facts, ThreadFacts
<1>0. TypeOK
  BY ThreadFacts
<1>1. ReferencesOK
  BY DEF OmptTeamsInv
<1>2. PICK n : n = parallel[o].ref
  OBVIOUS
<1>3. n = References(o) /\ n \in Nat \ {0} /\ o \notin Range(parallelFree)
  BY <1>1, <1>2 DEF ReferencesOK
<1>4. n - 1 \in -1..1 + Cardinality(Threads)
  <2>1. n \in -1..1 + Cardinality(Threads)
    BY <1>0, <1>2 DEF TypeOK
  <2>2. QED
    BY <1>3, <2>1
<1>5. parallel' = [parallel EXCEPT ![o].ref = n - 1]
  BY <1>2 DEF ReleaseParallel
<1>6. /\ parallel' \in [Parallels -> ParallelType]
      /\ parallel'[o].ref = n - 1
      /\ \A p \in Parallels : /\ parallel'[p].no = parallel[p].no
                              /\ parallel'[p].recorded = parallel[p].recorded
                              /\ parallel'[p].taskEnd = parallel[p].taskEnd
                              /\ p # o => parallel'[p] = parallel[p]
  <2>1. /\ parallel' \in [Parallels -> ParallelType]
        /\ parallel'[o].ref = n - 1
        /\ \A p \in Parallels : /\ parallel'[p].no = parallel[p].no
                                /\ parallel'[p].recorded = parallel[p].recorded
                                /\ parallel'[p].taskEnd = parallel[p].taskEnd
                                /\ parallel'[p].barrierEnd = parallel[p].barrierEnd
                                /\ p # o => parallel'[p] = parallel[p]
    BY ONLY <1>0, <1>4, <1>5, o \in Parallels, RefSet, Zenon
  <2>2. QED
    BY <2>1, Zenon
<1>7. parallelFree' = IF n = 1 THEN <<o>> \o parallelFree ELSE parallelFree
  BY <1>2 DEF ReleaseParallel
<1>8. parallelFree \in Seq(Parallels) /\ IsInjective(parallelFree)
  BY <1>0, <1>1 DEF TypeOK, ReferencesOK
<1>9. /\ parallelFree' \in Seq(Parallels) /\ IsInjective(parallelFree')
      /\ Range(parallelFree') = IF n = 1 THEN Range(parallelFree) \cup {o} ELSE Range(parallelFree)
  <2>1. CASE n = 1
    <3>1. o \in Parallels \ Range(parallelFree)
      BY <1>3
    <3>2. parallelFree' = <<o>> \o parallelFree
      BY <1>7, <2>1
    <3>3. /\ <<o>> \o parallelFree \in Seq(Parallels) /\ IsInjective(<<o>> \o parallelFree)
          /\ Range(<<o>> \o parallelFree) = Range(parallelFree) \cup {o}
      BY <1>8, <3>1, Pushed
    <3>4. QED
      BY <2>1, <3>2, <3>3, Zenon
  <2>2. CASE n # 1
    BY <1>7, <1>8, <2>2
  <2>3. QED
    BY <2>1, <2>2
<1>10. ASSUME NEW p \in Parallels
       PROVE  IF parallel'[p].no = 0 THEN p \notin Range(parallelFree')
              ELSE /\ parallel'[p].ref = References(p)'
                   /\ p \in Range(parallelFree') <=> parallel'[p].ref = 0
  <2>1. CASE p = o
    <3>1. parallel'[o].ref = References(o)'
      BY <1>3, <1>6
    <3>2. o \in Range(parallelFree') <=> parallel'[o].ref = 0
      BY <1>3, <1>6, <1>9
    <3>3. QED
      BY <1>6, <2>1, <3>1, <3>2
  <2>2. CASE p # o
    <3>1. /\ parallel'[p] = parallel[p] /\ References(p)' = References(p)
          /\ p \in Range(parallelFree') <=> p \in Range(parallelFree)
      BY <1>6, <1>9, <2>2
    <3>2. QED
      BY <1>1, <3>1 DEF ReferencesOK
  <2>3. QED
    BY <2>1, <2>2
<1>11. {p \in Parallels : parallel'[p].no # 0} = {p \in Parallels : parallel[p].no # 0}
  BY <1>6
<1>12. ReferencesOK'
  BY <1>1, <1>9, <1>10, <1>11 DEF ReferencesOK
<1>13. QED
  BY <1>6, <1>9, <1>12

(* A member past the barrier *)
LEMMA PastBarrier ==
    ASSUME OmptTeamsInv, NEW t \in Threads, Executes(t), task[t].parallel = parallelData,
           pc[t] \notin {"running", "barrier"}
    PROVE  Assembled /\ pc[Primary] # "forked"
<1> USE Facts, ThreadFacts
<1>1. BarrierOK /\ MembersOK
  BY DEF OmptTeamsInv
<1>2. Member(t)
  BY DEF Member
<1>3. CASE size = 1
  <2>1. t = Primary
    BY <1>1, <1>2, <1>3 DEF MembersOK
  <2>2. pc[Primary] \notin Entering \cup {"forked"}
    BY <2>1 DEF ControlOK, OfPrimary
  <2>3. QED
    BY <1>3, <2>2 DEF Assembled
<1>4. CASE size # 1
  <2>1. ~(arrived < size /\ size > 1)
    BY <1>1 DEF BarrierOK
  <2>2. arrived = size
    BY <1>4, <2>1 DEF TypeOK
  <2>3. QED
    BY <1>1, <1>4, <2>2 DEF Assembled, BarrierOK
<1>5. QED
  BY <1>3, <1>4

LEMMA ParallelEndStep ==
    ASSUME OmptTeamsInv, ParallelEnd
    PROVE  OmptTeamsInv'
<1> USE Facts, ThreadFacts
<1>0. TypeOK /\ TypesOK
  BY ThreadFacts
<1>1. PICK o : o = parallelData
  OBVIOUS
<1>a. Put(0, "join", region, 0) /\ ReleaseParallel(o)
  BY <1>1, Zenon DEF ParallelEnd
<1>b. BugOn(size > 1 /\ stored[0] # None, "parallel_end: a task is stored")
  BY Zenon DEF ParallelEnd
<1>2. /\ pc[Primary] = "parallel_end" /\ stored' = [stored EXCEPT ![0] = InitialTask]
      /\ pc' = [pc EXCEPT ![Primary] = "serial"]
      /\ UNCHANGED <<runtimeVars, task, taskFree, isOmpt, preserveOrder, team, lastTimestamp,
                     clock, index, object, caller, stamp, endVars>>
  BY Zenon DEF ParallelEnd, Goto
<1>3. /\ region' = region /\ size' = size /\ taken' = taken /\ arrived' = arrived
      /\ parallelData' = parallelData /\ taskData' = taskData
      /\ task' = task /\ taskFree' = taskFree /\ isOmpt' = isOmpt
      /\ preserveOrder' = preserveOrder /\ team' = team /\ lastTimestamp' = lastTimestamp
      /\ clock' = clock /\ index' = index /\ object' = object /\ caller' = caller
      /\ stamp' = stamp /\ finalizing' = finalizing /\ finalizeTool' = finalizeTool
  BY <1>2, Zenon DEF runtimeVars, endVars
<1>4. InRegion /\ PastEnd /\ region > 0 /\ o \in Parallels /\ parallel[o].no = region
  <2>1. InRegion /\ PastEnd
    BY <1>2 DEF InRegion, PastEnd
  <2>2. region > 0
    BY <2>1 DEF OmptTeamsInv, ReferencesOK
  <2>3. QED
    BY <1>1, <2>1, <2>2 DEF OmptTeamsInv, TasksOK
<1>5. Assembled /\ \A u \in Threads : ~Joining(u) /\ pc[u] # "running"
  BY <1>4, PastEndFacts
<1>6. ~Executes(Primary) /\ index[Primary] = 0
  BY <1>2 DEF ControlOK, OfPrimary
<1>7. pc'[Primary] = "serial" /\ OnlyMoves(Primary) /\ \A u \in Threads : u # Primary => pc'[u] = pc[u]
  BY <1>0, <1>2, <1>3 DEF TypesOK, OnlyMoves, Same
<1>8. \A p \in Parallels : MemberIndices(p)' = MemberIndices(p)
  BY <1>3 DEF MemberIndices, Executes
<1>9. /\ References(o) \in Nat \ {0} /\ References(o)' = References(o) - 1
      /\ \A p \in Parallels : p # o => References(p)' = References(p)
  <2>1. Assembled' /\ ~InRegion' /\ pc'[Primary] # "forked"
    BY <1>3, <1>5, <1>7 DEF Assembled, InRegion, Entering
  <2>2. PICK n : n = Cardinality(MemberIndices(o))
    OBVIOUS
  <2>3. n \in Nat
    BY <2>2, MembersFinite
  <2>4. References(o) = n + 1
    BY <1>1, <1>2, <1>4, <1>5, <2>2 DEF References
  <2>5. References(o)' = n + 0
    BY <1>1, <1>3, <1>4, <1>8, <2>1, <2>2 DEF References
  <2>6. \A p \in Parallels : p # o => References(p)' = References(p)
    BY <1>1, <1>3, <1>8 DEF References
  <2>7. QED
    BY <2>3, <2>4, <2>5, <2>6
<1>10. /\ ReferencesOK'
       /\ parallel' \in [Parallels -> ParallelType] /\ parallelFree' \in Seq(Parallels)
       /\ \A p \in Parallels : /\ parallel'[p].no = parallel[p].no
                               /\ parallel'[p].recorded = parallel[p].recorded
                               /\ parallel'[p].taskEnd = parallel[p].taskEnd
  <2>1. parallel[o].no # 0
    BY <1>0, <1>4 DEF TypeOK
  <2>2. QED
    BY <1>3, <1>4, <1>9, <1>a, <2>1, ReleaseFits
<1>11. bug' = bug
  <2>1. size > 1 => StoredOfPrimary = None
    BY <1>2 DEF StoredOfPrimary, AtEnd
  <2>2. QED
    BY <1>b, <2>1 DEF BugOn, OmptTeamsInv, StoredOK
<1>12. /\ events' \in [Indices -> [kind : Kinds, no : 0..Regions, team : Nat]]
       /\ events'[0].kind = "join"
       /\ \A k \in Indices : k # 0 => events'[k] = events[k]
  <2>1. events[0].kind = "end" /\ events[0].no = region
    BY <1>2 DEF OmptTeamsInv, EventsOK
  <2>2. Follows(events[0], "join", region)
    BY <2>1 DEF Follows
  <2>3. "join" \in Kinds /\ region \in 0..Regions
    BY <1>0 DEF Kinds, TypeOK
  <2>4. QED
    BY <1>0, <1>a, <2>2, <2>3, PutFits
<1>13. stored' \in [Indices -> Ids \cup {InitialTask}] /\ stored'[0] = InitialTask
       /\ \A k \in Indices : k # 0 => stored'[k] = stored[k]
  BY <1>0, <1>2 DEF TypeOK
<1>14. TypesOK'
  <2>1. parallel' \in [Parallels -> [no : 0..Regions, ref : -1..1 + Cardinality(Threads),
                                     barrierEnd : Nat, taskEnd : Nat, recorded : BOOLEAN]]
    BY <1>10 DEF ParallelType
  <2>2. TypeOK'
    BY <1>0, <1>3, <1>10, <1>13, <2>1 DEF TypeOK
  <2>3. QED
    BY <1>0, <1>2, <1>3, <1>12, <2>2 DEF TypesOK, Points, OfPrimary
<1>16. \A u \in Threads : /\ Executes(u)' <=> Executes(u)
                          /\ Executes(u) => u # Primary /\ index[u] # 0 /\ index[u] \in Indices
                          /\ ~WritesOverdue(u) /\ ~WritesOverdue(u)' /\ ~Joining(u)'
                          /\ pc'[u] # "running"
  <2>1. \A u \in Threads : Executes(u)' <=> Executes(u)
    BY <1>3 DEF Executes
  <2>2. \A u \in Threads : Executes(u) => u # Primary /\ index[u] # 0
    BY <1>6 DEF ControlOK
  <2>3. \A u \in Threads : ~WritesOverdue(u) /\ ~Joining(u) /\ pc[u] # "running"
    BY <1>5 DEF Joining
  <2>4. \A u \in Threads : ~WritesOverdue(u)'
    BY <1>3, <1>7, <2>3 DEF WritesOverdue
  <2>5. \A u \in Threads : ~Joining(u)' /\ pc'[u] # "running"
    BY <1>7, <2>3, <2>4 DEF Joining, Entering
  <2>6. QED
    BY <2>1, <2>2, <2>3, <2>4, <2>5
<1>17. \A u \in Threads : /\ HandlesOwn(u)' <=> HandlesOwn(u)
                          /\ Keeps(u)' <=> Keeps(u)
                          /\ Open(u)' <=> Open(u)
                          /\ Open(u) \/ Keeps(u) => Executes(u)
                          /\ Member(u)' <=> Member(u)
  <2>1. \A u \in Threads : HandlesOwn(u)' <=> HandlesOwn(u)
    BY <1>7, <1>16 DEF HandlesOwn
  <2>2. \A u \in Threads : (Open(u) => Executes(u)) /\ (Keeps(u) => Executes(u))
    BY DEF Open, Keeps, HandlesOwn
  <2>3. \A u \in Threads : Keeps(u)' <=> Keeps(u)
    BY <1>3, <1>7, <1>16, <2>1 DEF Keeps, HandlesOwn
  <2>4. \A u \in Threads : Executes(u) => (Open(u)' <=> Open(u))
    BY <1>3, <1>13, <1>7, <1>16, <2>1 DEF Open
  <2>5. \A u \in Threads : ~Executes(u) => ~Open(u)' /\ ~Open(u)
    BY <1>16 DEF Open, HandlesOwn
  <2>6. \A u \in Threads : Member(u)' <=> Member(u)
    BY <1>3, <1>5, <1>16 DEF Member
  <2>7. QED
    BY <2>1, <2>2, <2>3, <2>4, <2>5, <2>6
<1>18. ThreadsOK'
  <2>1. ControlOK(Primary)'
    BY <1>3, <1>6, <1>7, <1>16 DEF ControlOK, Entering, Writing, AtEnd, OfPrimary
  <2>2. CallerOK(Primary)'
    BY <1>3, <1>6, <1>7, <1>16 DEF CallerOK, HandlesOwn
  <2>3. pc'[Primary] \in {"finalizing", "done"} <=> pc[Primary] \in {"finalizing", "done"}
    BY <1>2, <1>7
  <2>4. QED
    BY <1>3, <1>7, <2>1, <2>2, <2>3, ThreadsFrame
<1>19. OverdueOK'
  <2>1. \A x \in Threads : ~task[x].overdue
    BY <1>16 DEF OmptTeamsInv, OverdueOK
  <2>2. QED
    BY <1>3, <1>16, <2>1 DEF OverdueOK, OverdueAt
<1>20. TasksOK'
  BY <1>3, <1>6, <1>7, <1>10, <1>16 DEF OmptTeamsInv, TasksOK
<1>21. MembersOK'
  BY <1>3, <1>16, <1>17 DEF OmptTeamsInv, MembersOK
<1>22. BarrierOK'
  <2>1. BarrierOK
    BY DEF OmptTeamsInv
  <2>2. ~(arrived < size /\ size > 1)
    BY <1>2, <2>1 DEF BarrierOK, Entering
  <2>3. pc'[Primary] \notin Barrier
    BY <1>7 DEF Barrier, AtEnd
  <2>4. arrived = size => taken = 1..size - 1
    BY <2>1 DEF BarrierOK
  <2>5. size = 1 => arrived = 0
    BY <2>1 DEF BarrierOK
  <2>6. \A u \in Threads : ~Joining(u)' /\ pc'[u] \notin {"running", "forked"}
    BY <1>7, <1>16 DEF ControlOK, OfPrimary
  <2>7. QED
    BY <1>3, <2>2, <2>3, <2>4, <2>5, <2>6 DEF BarrierOK
<1>24. StoredOK'
  <2>1. StoredOK
    BY DEF OmptTeamsInv
  <2>2. ASSUME NEW k \in Indices \ {0}  PROVE  StoredAt(k)'
    <3>1. CASE stored[k] # None
      <4>1. PICK y : y = stored[k]
        OBVIOUS
      <4>2. /\ y \in Workers /\ Executes(y) /\ index[y] = k
            /\ pc[y] \in AtEnd \cup {"running"} /\ ~task[y].overdue
        BY <2>1, <3>1, <4>1 DEF StoredOK, StoredAt
      <4>3. QED
        BY <1>3, <1>13, <1>7, <1>16, <4>1, <4>2 DEF StoredAt
    <3>2. CASE stored[k] = None
      BY <1>13, <3>2 DEF StoredAt
    <3>3. QED
      BY <3>1, <3>2
  <2>3. StoredOfPrimary' = InitialTask
    BY <1>7 DEF StoredOfPrimary, AtEnd
  <2>4. QED
    BY <1>13, <1>16, <2>2, <2>3 DEF StoredOK
<1>25. OpenOK'
  <2>1. OpenOK
    BY DEF OmptTeamsInv
  <2>2. \A u \in Threads : pc'[u] \notin {"task_begin", "wait_order"}
    BY <1>16 DEF Joining, Entering
  <2>3. QED
    BY <1>3, <1>17, <2>1, <2>2 DEF OpenOK
<1>26. OrderOK'
  BY <1>3, <1>17 DEF OmptTeamsInv, OrderOK
<1>27. SyncsOK'
  <2>1. SyncsAt(Primary)'
    BY <1>7 DEF SyncsAt, AtEnd
  <2>2. ASSUME NEW u \in Threads, u # Primary  PROVE  SyncsAt(u)'
    <3>1. pc'[u] = pc[u] /\ SyncsAt(u)
      BY <1>7, <2>2
    <3>2. pc[u] \in AtEnd => stored'[index[u]] = stored[index[u]]
      BY <1>13, <1>16 DEF ControlOK
    <3>3. QED
      BY <1>3, <1>16, <3>1, <3>2 DEF SyncsAt
  <2>3. QED
    BY <2>1, <2>2 DEF SyncsOK
<1>28. EventsOK'
  <2>1. EventsOK
    BY DEF OmptTeamsInv
  <2>2. ASSUME NEW u \in Threads, Open(u)'  PROVE  Written(u)'
    <3>1. Open(u) /\ Executes(u) /\ task[u].parallel \in Parallels
      BY <1>17, <2>2 DEF OmptTeamsInv, TasksOK
    <3>2. Written(u) /\ u # Primary /\ pc'[u] = pc[u]
      BY <1>7, <1>16, <2>1, <3>1 DEF EventsOK
    <3>3. events'[index[u]] = events[index[u]]
      BY <1>12, <1>16, <3>1
    <3>4. QED
      BY <1>3, <1>10, <3>1, <3>2, <3>3 DEF Written
  <2>3. ASSUME NEW k \in Indices \ {0}, \A u \in Threads : Open(u)' => index'[u] # k
        PROVE  events'[k].kind \in {"none", "end"}
    BY <1>3, <1>12, <1>17, <2>1, <2>3 DEF EventsOK
  <2>4. QED
    BY <1>12, <1>7, <2>2, <2>3 DEF EventsOK, Entering
<1>29. EndKnownOK'
  <2>1. PastEnd'
    BY <1>7 DEF PastEnd
  <2>2. ASSUME NEW u \in Threads, Executes(u)'  PROVE  TaskEndKnown(task[u].parallel)'
    <3>1. Executes(u) /\ task[u].parallel \in Parallels
      BY <1>16, <2>2 DEF OmptTeamsInv, TasksOK
    <3>2. TaskEndKnown(task[u].parallel)
      BY <1>4, <3>1 DEF OmptTeamsInv, EndKnownOK
    <3>3. QED
      BY <1>3, <1>10, <3>1, <3>2 DEF TaskEndKnown
  <2>3. QED
    BY <1>3, <1>7, <2>1, <2>2 DEF EndKnownOK, TaskEndKnown
<1>30. bug' \in TimestampBugs \cup {None}
  BY <1>11
<1>31. QED
  BY <1>10, <1>14, <1>18, <1>19, <1>20, <1>21, <1>22, <1>24, <1>25, <1>26, <1>27, <1>28,
     <1>29, <1>30 DEF OmptTeamsInv

(* A thread leaves the team for good. *)
LEMMA ReleaseAtTeamEndStep ==
    ASSUME OmptTeamsInv, NEW t \in Threads, ReleaseAtTeamEnd(t)
    PROVE  OmptTeamsInv'
<1> USE Facts, ThreadFacts
<1>0. TypeOK /\ TypesOK /\ ControlOK(t) /\ CallerOK(t)
  BY ThreadFacts
<1>1. PICK l : l = IF caller[t] # "implicit_task" THEN "barrier_done"
                   ELSE IF t = Primary THEN "parallel_end" ELSE "idle"
  OBVIOUS
<1>a. pc[t] = "release" /\ Executes(t) /\ taskData[t] = t /\ taskFree[t] = <<>>
  <2>1. pc[t] = "release"
    BY DEF ReleaseAtTeamEnd
  <2>2. QED
    BY <1>0, <2>1 DEF ControlOK, Executes
<1>2. PICK o : o = task[t].parallel
  OBVIOUS
<1>b. ReleaseParallel(o) /\ ~task[t].overdue
  BY <1>2, <1>a, Zenon DEF ReleaseAtTeamEnd, OverdueOver
<1>3. /\ taskData' = [taskData EXCEPT ![t] = None]
      /\ taskFree' = [taskFree EXCEPT ![t] = <<t>> \o taskFree[t]]
      /\ finalizeTool' = IF caller[t] = "finalize_tool" THEN FALSE ELSE finalizeTool
      /\ pc' = [pc EXCEPT ![t] = l]
      /\ index' = IF l = "idle" THEN [index EXCEPT ![t] = 0] ELSE index
      /\ object' = [object EXCEPT ![t] = None] /\ caller' = [caller EXCEPT ![t] = None]
      /\ stamp' = [stamp EXCEPT ![t] = 0]
      /\ UNCHANGED <<region, size, taken, arrived, parallelData, task, locationVars,
                     eventVars, finalizing, bug>>
  BY <1>1, <1>a, Zenon DEF ReleaseAtTeamEnd, Return, Goto
<1>4. /\ region' = region /\ size' = size /\ taken' = taken /\ arrived' = arrived
      /\ parallelData' = parallelData /\ task' = task /\ stored' = stored /\ isOmpt' = isOmpt
      /\ preserveOrder' = preserveOrder /\ team' = team /\ lastTimestamp' = lastTimestamp
      /\ clock' = clock /\ events' = events /\ finalizing' = finalizing /\ bug' = bug
  BY <1>3, Zenon DEF locationVars, eventVars
<1>5. /\ o \in Parallels /\ parallel[o].no \in 1..region /\ parallel[o].no # 0
      /\ \A u \in Threads : Executes(u) => task[u].parallel \in Parallels
  BY <1>2, <1>a DEF OmptTeamsInv, TasksOK
<1>6. /\ l \in {"barrier_done", "parallel_end", "idle"}
      /\ t = Primary <=> l = "parallel_end"
      /\ l = "barrier_done" => t # Primary
  BY <1>0, <1>1, <1>a DEF CallerOK
<1>7. /\ pc'[t] = l /\ taskData'[t] = None /\ taskFree'[t] = <<t>> /\ object'[t] = None
      /\ caller'[t] = None /\ stamp'[t] = 0 /\ index'[t] = IF l = "idle" THEN 0 ELSE index[t]
      /\ OnlyMoves(t)
  <2>1. taskFree'[t] = <<t>>
    <3>1. taskFree' = [taskFree EXCEPT ![t] = <<t>> \o <<>>]
      BY <1>3, <1>a, Zenon
    <3>2. <<t>> \o <<>> = <<t>>
      BY ConcatEmptySeq
    <3>3. QED
      BY <1>0, <3>1, <3>2 DEF TypeOK
  <2>2. QED
    BY <1>0, <1>3, <2>1 DEF TypesOK, TypeOK, OnlyMoves, Same
<1>8. \A u \in Threads : u # t =>
        /\ pc'[u] = pc[u] /\ index'[u] = index[u] /\ taskData'[u] = taskData[u]
        /\ object'[u] = object[u] /\ caller'[u] = caller[u] /\ stamp'[u] = stamp[u]
  BY <1>7 DEF OnlyMoves, Same
<1>9. \A u \in Threads :
        /\ Executes(u)' <=> Executes(u) /\ u # t
        /\ WritesOverdue(u)' <=> WritesOverdue(u)
        /\ WritesOverdue(u) => u # t
        /\ Joining(u)' <=> Joining(u)
        /\ Joining(u) => u # t
        /\ HandlesOwn(u)' <=> HandlesOwn(u)
        /\ HandlesOwn(u) => u # t
  <2>1. \A u \in Threads : Executes(u)' <=> Executes(u) /\ u # t
    BY <1>7, <1>8 DEF Executes
  <2>2. \A u \in Threads : (WritesOverdue(u)' <=> WritesOverdue(u)) /\ (WritesOverdue(u) => u # t)
    BY <1>6, <1>7, <1>8, <1>a DEF WritesOverdue
  <2>3. \A u \in Threads : (Joining(u)' <=> Joining(u)) /\ (Joining(u) => u # t)
    BY <1>6, <1>7, <1>8, <1>a, <2>2 DEF Joining, Entering
  <2>4. \A u \in Threads : (HandlesOwn(u)' <=> HandlesOwn(u)) /\ (HandlesOwn(u) => u # t)
    BY <1>8, <1>a, <2>1 DEF HandlesOwn, Writing
  <2>5. QED
    BY <2>1, <2>2, <2>3, <2>4
<1>10. \A u \in Threads :
         /\ Keeps(u)' <=> Keeps(u)
         /\ Open(u)' <=> Open(u)
         /\ Open(u) \/ Keeps(u) => Executes(u) /\ u # t
         /\ Member(u)' => Member(u) /\ u # t
  <2>1. \A u \in Threads : (Open(u) => Executes(u)) /\ (Keeps(u) => Executes(u))
    BY DEF Open, Keeps, HandlesOwn
  <2>2. \A u \in Threads : (Keeps(u)' <=> Keeps(u)) /\ (Keeps(u) => u # t)
    BY <1>8, <1>9 DEF Keeps
  <2>3. ~Open(t) /\ ~Open(t)'
    BY <1>9, <1>a, <1>b DEF Open, AtEnd
  <2>4. \A u \in Threads : u # t => (Open(u)' <=> Open(u))
    BY <1>4, <1>8, <1>9 DEF Open
  <2>5. \A u \in Threads : Member(u)' => Member(u) /\ u # t
    BY <1>4, <1>9 DEF Member
  <2>6. QED
    BY <2>1, <2>2, <2>3, <2>4, <2>5
<1>11. pc'[Primary] = pc[Primary] \/ (pc[Primary] = "release" /\ pc'[Primary] = "parallel_end")
  BY <1>6, <1>7, <1>8, <1>a
<1>12. /\ PastEnd' <=> PastEnd
       /\ StoredOfPrimary' = StoredOfPrimary
       /\ InRegion' <=> InRegion
       /\ Assembled' <=> Assembled
       /\ pc'[Primary] = "forked" <=> pc[Primary] = "forked"
  BY <1>4, <1>11 DEF PastEnd, StoredOfPrimary, AtEnd, InRegion, Assembled, Entering
<1>c. \A p \in Parallels : p # o => References(p)' = References(p)
  <2>1. ASSUME NEW p \in Parallels, p # o  PROVE  MemberIndices(p)' = MemberIndices(p)
    BY <1>2, <1>4, <1>8, <1>9, <2>1 DEF MemberIndices
  <2>2. QED
    BY <1>4, <1>12, <2>1 DEF References
<1>13. /\ References(o) \in Nat \ {0} /\ References(o)' = References(o) - 1
       /\ \A p \in Parallels : p # o => References(p)' = References(p)
  <2>1. PICK M : M = MemberIndices(o)
    OBVIOUS
  <2>2. IsFiniteSet(M) /\ Cardinality(M) \in Nat
    BY <2>1, MembersFinite
  <2>3. index[t] \in M
    BY <1>2, <1>a, <2>1 DEF MemberIndices
  <2>4. MemberIndices(o)' = M \ {index[t]}
    <3>1. \A u \in Threads : Executes(u) /\ u # t /\ task[u].parallel = o => index[u] # index[t]
      BY <1>2, <1>a DEF OmptTeamsInv, MembersOK
    <3>2. MemberIndices(o)' \subseteq M \ {index[t]}
      BY <1>4, <1>8, <1>9, <2>1, <3>1 DEF MemberIndices
    <3>3. M \ {index[t]} \subseteq MemberIndices(o)'
      <4>1. ASSUME NEW i \in M \ {index[t]}  PROVE  i \in MemberIndices(o)'
        <5>1. PICK u \in Threads : Executes(u) /\ task[u].parallel = o /\ i = index[u]
          BY <2>1 DEF MemberIndices
        <5>2. u # t /\ Executes(u)' /\ task'[u].parallel = o /\ i = index'[u]
          BY <1>4, <1>8, <1>9, <5>1
        <5>3. QED
          BY <5>2 DEF MemberIndices
      <4>2. QED
        BY <4>1
    <3>4. QED
      BY <3>2, <3>3
  <2>5. Cardinality(M \ {index[t]}) = Cardinality(M) - 1
    BY <2>2, <2>3, FS_RemoveElement
  <2>6. Cardinality(M) # 0
    BY <2>2, <2>3, FS_EmptySet
  <2>7. PICK n \in Nat \ {0} : n = Cardinality(M) /\ n - 1 = Cardinality(M \ {index[t]})
    BY <2>2, <2>5, <2>6
  <2>8. CASE o # parallelData
    <3>1. References(o) = n /\ References(o)' = n - 1
      BY <1>4, <2>1, <2>4, <2>7, <2>8 DEF References
    <3>2. QED
      BY <1>c, <2>7, <3>1
  <2>9. CASE o = parallelData
    <3>1. Assembled /\ pc[Primary] # "forked"
      BY <1>2, <1>a, <2>9, PastBarrier
    <3>2. References(o) = n + (IF InRegion THEN 1 ELSE 0)
      BY <2>1, <2>7, <2>9, <3>1 DEF References
    <3>3. References(o)' = n - 1 + (IF InRegion THEN 1 ELSE 0)
      BY <1>4, <1>12, <2>4, <2>7, <2>9, <3>1 DEF References
    <3>4. QED
      BY <1>c, <2>7, <3>2, <3>3
  <2>10. QED
    BY <2>8, <2>9
<1>14. /\ ReferencesOK'
       /\ parallel' \in [Parallels -> ParallelType] /\ parallelFree' \in Seq(Parallels)
       /\ \A p \in Parallels : /\ parallel'[p].no = parallel[p].no
                               /\ parallel'[p].recorded = parallel[p].recorded
                               /\ parallel'[p].taskEnd = parallel[p].taskEnd
  <2>1. InRegion' => InRegion
    BY <1>12
  <2>2. QED
    BY <1>4, <1>5, <1>13, <1>b, <2>1, ReleaseFits
<1>15. TypesOK'
  <2>1. parallel' \in [Parallels -> [no : 0..Regions, ref : -1..1 + Cardinality(Threads),
                                     barrierEnd : Nat, taskEnd : Nat, recorded : BOOLEAN]]
    BY <1>14 DEF ParallelType
  <2>2. taskFree' \in [Threads -> Seq(Threads)]
    <3>1. PICK f : f = <<t>>
      OBVIOUS
    <3>2. f \in Seq(Threads)
      BY <3>1, LenProperties
    <3>3. taskFree' = [taskFree EXCEPT ![t] = f]
      <4>1. taskFree' = [taskFree EXCEPT ![t] = f \o <<>>]
        BY <1>3, <1>a, <3>1, Zenon
      <4>2. f \o <<>> = f
        BY <3>2, ConcatEmptySeq
      <4>3. QED
        BY <4>1, <4>2, Zenon
    <3>4. QED
      BY <1>0, <3>2, <3>3 DEF TypeOK
  <2>3. /\ taskData' \in [Threads -> Ids] /\ object' \in [Threads -> Ids]
        /\ index' \in [Threads -> Indices] /\ finalizeTool' \in BOOLEAN
    BY <1>0, <1>3 DEF TypeOK, Ids
  <2>4. TypeOK'
    BY <1>0, <1>4, <1>14, <2>1, <2>2, <2>3 DEF TypeOK
  <2>5. QED
    BY <1>0, <1>3, <1>4, <1>6, <2>4 DEF TypesOK, Points, OfPrimary
<1>16. ThreadsOK'
  <2>1. ControlOK(t)'
    BY <1>0, <1>6, <1>7, <1>9, <1>a DEF ControlOK, Entering, Writing, AtEnd, OfPrimary
  <2>2. CallerOK(t)'
    BY <1>6, <1>7, <1>9 DEF CallerOK, Callers
  <2>3. t = Primary => (pc'[t] \in {"finalizing", "done"} <=> pc[t] \in {"finalizing", "done"})
    BY <1>6, <1>7, <1>a
  <2>4. QED
    BY <1>4, <1>7, <2>1, <2>2, <2>3, ThreadsFrame
<1>17. OverdueOK'
  <2>1. OverdueOK
    BY DEF OmptTeamsInv
  <2>2. ASSUME NEW u \in Threads  PROVE  OverdueAt(u)'
    <3>1. CASE WritesOverdue(u)
      <4>1. PICK y : y = object[u]
        OBVIOUS
      <4>2. /\ y \in Workers /\ Executes(y) /\ task[y].overdue /\ index[y] = index[u]
            /\ pc[y] \in AtEnd \cup {"release"} /\ stored[index[u]] = None
        BY <2>1, <3>1, <4>1 DEF OverdueOK, OverdueAt
      <4>3. y # t /\ u # t /\ y \in Threads
        BY <1>9, <1>b, <3>1, <4>2
      <4>4. QED
        BY <1>4, <1>8, <1>9, <3>1, <4>1, <4>2, <4>3 DEF OverdueAt
    <3>2. CASE ~WritesOverdue(u)
      BY <1>9, <3>2 DEF OverdueAt
    <3>3. QED
      BY <3>1, <3>2
  <2>3. ASSUME NEW x \in Threads, task'[x].overdue
        PROVE  Executes(x)' /\ \E u \in Threads : WritesOverdue(u)' /\ object'[u] = x
    <3>1. task[x].overdue /\ x # t
      BY <1>4, <1>b, <2>3
    <3>2. QED
      BY <1>8, <1>9, <2>1, <3>1 DEF OverdueOK
  <2>4. QED
    BY <2>2, <2>3 DEF OverdueOK
<1>18. TasksOK'
  <2>1. TasksOK
    BY DEF OmptTeamsInv
  <2>2. \A u \in Threads : u # t /\ pc'[u] = "running" => pc[u] = "running"
    BY <1>8
  <2>3. QED
    BY <1>4, <1>8, <1>9, <1>14, <2>1, <2>2, SMTT(60) DEF TasksOK
<1>19. MembersOK'
  BY <1>4, <1>8, <1>9, <1>10 DEF OmptTeamsInv, MembersOK
<1>20. BarrierOK'
  <2>1. BarrierOK
    BY DEF OmptTeamsInv
  <2>2. AtBarrier' = AtBarrier
    BY <1>4, <1>6, <1>7, <1>8, <1>a DEF AtBarrier
  <2>3. {index'[u] : u \in AtBarrier'} = {index[u] : u \in AtBarrier}
    <3>1. \A u \in AtBarrier : u \in Threads /\ u # t
      BY <1>a DEF AtBarrier
    <3>2. QED
      BY <1>8, <2>2, <3>1
  <2>4. arrived < size /\ size > 1 =>
         /\ arrived = Cardinality({index'[u] : u \in AtBarrier'})
         /\ pc'[Primary] \in Entering \cup {"forked", "running", "barrier"}
         /\ \A u \in Threads : Executes(u)' /\ task[u].parallel = parallelData =>
              pc'[u] \in {"running", "barrier"}
    <3>1. SUFFICES ASSUME arrived < size, size > 1
                   PROVE  /\ arrived = Cardinality({index'[u] : u \in AtBarrier'})
                          /\ pc'[Primary] \in Entering \cup {"forked", "running", "barrier"}
                          /\ \A u \in Threads : Executes(u)' /\ task[u].parallel = parallelData =>
                               pc'[u] \in {"running", "barrier"}
      OBVIOUS
    <3>2. arrived = Cardinality({index'[u] : u \in AtBarrier'})
      BY <2>1, <2>3, <3>1 DEF BarrierOK
    <3>3. pc[Primary] \in Entering \cup {"forked", "running", "barrier"}
      BY <2>1, <3>1 DEF BarrierOK
    <3>4. pc'[Primary] \in Entering \cup {"forked", "running", "barrier"}
      BY <1>11, <3>3 DEF Entering
    <3>5. \A u \in Threads : Executes(u)' /\ task[u].parallel = parallelData =>
                               pc'[u] \in {"running", "barrier"}
      BY <1>8, <1>9, <2>1, <3>1 DEF BarrierOK
    <3>6. QED
      BY <3>2, <3>4, <3>5
  <2>5. arrived = size =>
         /\ taken = 1..size - 1
         /\ \A u \in Threads : ~Joining(u)' /\ pc'[u] \notin {"running", "forked"}
    BY <1>6, <1>7, <1>8, <1>9, <2>1 DEF BarrierOK
  <2>6. size = 1 => arrived = 0 /\ pc'[Primary] \notin Barrier
    <3>1. size = 1 => arrived = 0 /\ pc[Primary] \notin Barrier
      BY <2>1 DEF BarrierOK
    <3>2. QED
      BY <1>11, <3>1 DEF Barrier, AtEnd
  <2>7. QED
    BY <1>4, <2>4, <2>5, <2>6 DEF BarrierOK
<1>21. StoredOK'
  <2>1. StoredOK
    BY DEF OmptTeamsInv
  <2>2. ASSUME NEW k \in Indices \ {0}  PROVE  StoredAt(k)'
    <3>1. CASE stored[k] # None
      <4>1. PICK y : y = stored[k]
        OBVIOUS
      <4>2. /\ y \in Workers /\ Executes(y) /\ index[y] = k
            /\ pc[y] \in AtEnd \cup {"running"} /\ ~task[y].overdue
        BY <2>1, <3>1, <4>1 DEF StoredOK, StoredAt
      <4>3. y # t /\ y \in Threads
        BY <1>a, <4>2 DEF AtEnd
      <4>4. QED
        BY <1>4, <1>8, <1>9, <4>1, <4>2, <4>3 DEF StoredAt
    <3>2. CASE stored[k] = None
      BY <1>4, <3>2 DEF StoredAt
    <3>3. QED
      BY <3>1, <3>2
  <2>3. \A u \in Threads : pc'[u] = "running" => u # t
    BY <1>6, <1>7
  <2>4. QED
    BY <1>4, <1>8, <1>12, <2>1, <2>2, <2>3 DEF StoredOK
<1>22. OpenOK'
  <2>1. OpenOK
    BY DEF OmptTeamsInv
  <2>2. \A u \in Threads : pc'[u] \in {"task_begin", "wait_order"} => u # t
    BY <1>6, <1>7
  <2>3. QED
    BY <1>4, <1>8, <1>10, <2>1, <2>2 DEF OpenOK
<1>23. OrderOK'
  <2>1. \A u \in Threads : Keeps(u) => index'[u] = index[u]
    BY <1>8, <1>10
  <2>2. OrderOK
    BY DEF OmptTeamsInv
  <2>3. \A x \in Workers : Keeps(x)' => preserveOrder'[index'[x]]
    BY <1>4, <1>10, <2>1, <2>2 DEF OrderOK
  <2>4. \A k \in Indices : preserveOrder'[k] => \E x \in Threads : Keeps(x)' /\ index'[x] = k
    BY <1>4, <1>10, <2>1, <2>2 DEF OrderOK
  <2>5. QED
    BY <2>3, <2>4 DEF OrderOK
<1>24. SyncsOK'
  <2>1. SyncsAt(t)'
    BY <1>6, <1>7, <1>9 DEF SyncsAt, AtEnd
  <2>2. ASSUME NEW u \in Threads, u # t  PROVE  SyncsAt(u)'
    <3>1. SyncsAt(u)
      OBVIOUS
    <3>2. QED
      BY <1>4, <1>8, <1>9, <2>2, <3>1 DEF SyncsAt
  <2>3. QED
    BY <2>1, <2>2 DEF SyncsOK
<1>25. EventsOK'
  <2>1. EventsOK
    BY DEF OmptTeamsInv
  <2>2. ASSUME NEW u \in Threads, Open(u)'  PROVE  Written(u)'
    <3>1. Open(u) /\ u # t /\ task[u].parallel \in Parallels
      BY <1>5, <1>10, <2>2
    <3>2. Written(u)
      BY <2>1, <3>1 DEF EventsOK
    <3>3. QED
      BY <1>4, <1>8, <1>14, <3>1, <3>2 DEF Written
  <2>3. ASSUME NEW k \in Indices \ {0}, \A u \in Threads : Open(u)' => index'[u] # k
        PROVE  events'[k].kind \in {"none", "end"}
    BY <1>4, <1>8, <1>10, <2>1, <2>3 DEF EventsOK
  <2>4. QED
    BY <1>4, <1>11, <2>1, <2>2, <2>3 DEF EventsOK, Entering
<1>26. EndKnownOK'
  <2>1. EndKnownOK
    BY DEF OmptTeamsInv
  <2>2. parallelData \in Parallels
    <3>1. \E n : n \in 1..region
      BY <1>5
    <3>2. region > 0
      BY <1>0, <3>1 DEF TypeOK
    <3>3. QED
      BY <3>2 DEF OmptTeamsInv, TasksOK
  <2>3. pc'[Primary] \in {"barrier_exit", "task_exit"} => t # Primary /\ stamp'[Primary] # 0
    BY <1>6, <1>7, <1>8, <2>1 DEF EndKnownOK
  <2>4. QED
    BY <1>4, <1>5, <1>9, <1>12, <1>14, <2>1, <2>2, <2>3 DEF EndKnownOK, TaskEndKnown
<1>27. QED
  BY <1>4, <1>14, <1>15, <1>16, <1>17, <1>18, <1>19, <1>20, <1>21, <1>22, <1>23, <1>24,
     <1>25, <1>26 DEF OmptTeamsInv

-----------------------------------------------------------------------------
(* The end of the tool *)

LEMMA SubsystemEndStep ==
    ASSUME OmptTeamsInv, SubsystemEnd
    PROVE  OmptTeamsInv'
<1> USE Facts, ThreadFacts
<1>0. TypeOK /\ TypesOK
  BY ThreadFacts
<1>1. /\ pc[Primary] = "serial" /\ finalizing' = TRUE /\ pc' = [pc EXCEPT ![Primary] = "finalizing"]
      /\ UNCHANGED <<runtimeVars, poolVars, locationVars, eventVars, index, object, caller,
                     stamp, finalizeTool, bug>>
  BY DEF SubsystemEnd, Goto
<1>2. /\ task' = task /\ parallel' = parallel /\ stored' = stored /\ isOmpt' = isOmpt
      /\ preserveOrder' = preserveOrder /\ events' = events /\ taskData' = taskData
      /\ index' = index /\ object' = object /\ caller' = caller /\ stamp' = stamp
      /\ taskFree' = taskFree /\ size' = size /\ bug' = bug
  BY <1>1 DEF runtimeVars, poolVars, locationVars, eventVars
<1>3. TypesOK'
  BY <1>0, <1>1 DEF TypesOK, TypeOK, Points, OfPrimary, runtimeVars, poolVars, locationVars, eventVars
<1>4. pc'[Primary] = "finalizing" /\ OnlyMoves(Primary) /\ TeamSame
  BY <1>0, <1>1 DEF TypesOK, OnlyMoves, Same, TeamSame, runtimeVars, poolVars, locationVars, eventVars
<1>5. ~Executes(Primary)
  BY <1>1 DEF ControlOK, OfPrimary
<1>6. StaysInTeam(Primary)
  BY <1>1, <1>2, <1>4, <1>5 DEF StaysInTeam, Joining, WritesOverdue, Entering, Barrier, AtEnd
<1>7. StaysAtLocation(Primary)
  BY <1>1, <1>2, <1>4, <1>5 DEF StaysAtLocation, Open, Keeps, HandlesOwn, Executes, WritesOverdue, Writing, AtEnd, SyncsAt, StoredOfPrimary, PastEnd
<1>8. /\ OverdueOK' /\ TasksOK' /\ MembersOK' /\ BarrierOK' /\ ReferencesOK' /\ StoredOK'
      /\ OpenOK' /\ OrderOK' /\ SyncsOK' /\ EventsOK' /\ EndKnownOK'
  BY <1>2, <1>4, <1>6, <1>7, QuietFrame
<1>9. ThreadsOK'
  <2>1. ControlOK(Primary)'
    BY <1>1, <1>2, <1>4, <1>5 DEF ControlOK, Executes, Entering, Writing, AtEnd, OfPrimary
  <2>2. CallerOK(Primary)'
    BY <1>1, <1>2, <1>4, <1>5 DEF CallerOK, HandlesOwn, Executes
  <2>3. ASSUME NEW u \in Threads, u # Primary  PROVE  ControlOK(u)' /\ CallerOK(u)'
    <3>1. Same(u) /\ ControlOK(u) /\ CallerOK(u)
      BY <1>4, <2>3 DEF OnlyMoves
    <3>2. ControlOK(u)'
      BY <3>1 DEF Same, ControlOK, Executes
    <3>3. CallerOK(u)'
      BY <1>1, <3>1 DEF Same, CallerOK, HandlesOwn, Executes
    <3>4. QED
      BY <3>2, <3>3
  <2>4. QED
    BY <1>1, <1>4, <2>1, <2>2, <2>3 DEF ThreadsOK
<1>10. QED
  BY <1>2, <1>3, <1>8, <1>9 DEF OmptTeamsInv

LEMMA FinalizeToolReturnsStep ==
    ASSUME OmptTeamsInv, FinalizeToolReturns
    PROVE  OmptTeamsInv'
<1> USE Facts, ThreadFacts
<1>0. TypeOK /\ TypesOK
  BY ThreadFacts
<1>1. /\ pc[Primary] = "finalizing" /\ pc' = [pc EXCEPT ![Primary] = "done"]
      /\ UNCHANGED <<runtimeVars, poolVars, locationVars, eventVars, index, object, caller,
                     stamp, endVars, bug>>
  BY DEF FinalizeToolReturns, Goto
<1>2. /\ task' = task /\ parallel' = parallel /\ stored' = stored /\ isOmpt' = isOmpt
      /\ preserveOrder' = preserveOrder /\ events' = events /\ taskData' = taskData
      /\ index' = index /\ object' = object /\ caller' = caller /\ stamp' = stamp
      /\ taskFree' = taskFree /\ size' = size /\ bug' = bug /\ finalizing' = finalizing
  BY <1>1 DEF runtimeVars, poolVars, locationVars, eventVars, endVars
<1>3. TypesOK'
  BY <1>0, <1>1 DEF TypesOK, TypeOK, Points, OfPrimary, runtimeVars, poolVars, locationVars, eventVars, endVars
<1>4. pc'[Primary] = "done" /\ OnlyMoves(Primary) /\ TeamSame
  BY <1>0, <1>1 DEF TypesOK, OnlyMoves, Same, TeamSame, runtimeVars, poolVars, locationVars, eventVars
<1>5. ~Executes(Primary)
  BY <1>1 DEF ControlOK, OfPrimary
<1>6. StaysInTeam(Primary)
  BY <1>1, <1>2, <1>4, <1>5 DEF StaysInTeam, Joining, WritesOverdue, Entering, Barrier, AtEnd
<1>7. StaysAtLocation(Primary)
  BY <1>1, <1>2, <1>4, <1>5 DEF StaysAtLocation, Open, Keeps, HandlesOwn, Executes, WritesOverdue, Writing, AtEnd, SyncsAt, StoredOfPrimary, PastEnd
<1>8. ControlOK(Primary)' /\ CallerOK(Primary)'
  <2>1. ControlOK(Primary)'
    BY <1>1, <1>2, <1>4, <1>5 DEF ControlOK, Executes, Entering, Writing, AtEnd, OfPrimary
  <2>2. CallerOK(Primary)'
    BY <1>1, <1>2, <1>4, <1>5 DEF CallerOK, HandlesOwn, Executes
  <2>3. QED
    BY <2>1, <2>2
<1>9. AllSame
  BY <1>2, <1>4 DEF AllSame
<1>10. pc'[Primary] \in {"finalizing", "done"} <=> pc[Primary] \in {"finalizing", "done"}
  BY <1>1, <1>4
<1>11. bug' \in TimestampBugs \cup {None}
  BY <1>2
<1>12. QED
  BY <1>3, <1>4, <1>6, <1>7, <1>8, <1>9, <1>10, <1>11, QuietStep

-----------------------------------------------------------------------------
(* The invariant *)

LEMMA Initially == Init => OmptTeamsInv
<1> SUFFICES ASSUME Init  PROVE  OmptTeamsInv
  OBVIOUS
<1> USE Facts
<1>1. /\ region = 0 /\ size = 1 /\ taken = {} /\ arrived = 0 /\ parallelData = None
      /\ taskData = [t \in Threads |-> None]
      /\ parallelFree = <<>> /\ taskFree = [t \in Threads |-> <<>>]
      /\ task = [x \in Threads |-> [parallel |-> None, index |-> 0, overdue |-> FALSE, syncs |-> 0]]
      /\ stored = [l \in Indices |-> IF l = 0 THEN InitialTask ELSE None]
      /\ isOmpt = [l \in Indices |-> FALSE] /\ preserveOrder = [l \in Indices |-> FALSE]
      /\ finalizing = FALSE /\ finalizeTool = FALSE
      /\ events = [l \in Indices |-> [kind |-> "none", no |-> 0, team |-> 0]]
      /\ pc = [t \in Threads |-> IF t = Primary THEN "serial" ELSE "idle"]
      /\ index = [t \in Threads |-> 0] /\ object = [t \in Threads |-> None]
      /\ caller = [t \in Threads |-> None] /\ stamp = [t \in Threads |-> 0]
  BY DEF Init
<1>2. \A o \in Parallels : parallel[o].no = 0
  BY DEF Init
<1>3. \A x \in Threads : ~Executes(x) /\ ~WritesOverdue(x) /\ ~task[x].overdue
  BY <1>1 DEF Executes, WritesOverdue
<1>4. \A x \in Threads : ~Joining(x) /\ ~Open(x) /\ ~Keeps(x) /\ ~HandlesOwn(x) /\ ~Member(x)
  BY <1>1, <1>3 DEF Joining, Open, Keeps, HandlesOwn, Member, Entering
<1>5. /\ pc[Primary] = "serial" /\ \A x \in Workers : pc[x] = "idle"
      /\ \A x \in Threads : index[x] = 0 /\ taskFree[x] = <<>> /\ pc[x] \in {"serial", "idle"}
      /\ \A x \in Threads : caller[x] = None
  BY <1>1
<1>6. TypesOK
  <2>1. <<>> \in Seq(Parallels) /\ <<>> \in Seq(Threads)
    BY EmptySeq
  <2>2. parallel \in [Parallels -> [no : 0..Regions, ref : -1..1 + Cardinality(Threads),
                                    barrierEnd : Nat, taskEnd : Nat, recorded : BOOLEAN]]
    <3>1. [no |-> 0, ref |-> 0, barrierEnd |-> 0, taskEnd |-> 0, recorded |-> FALSE]
            \in [no : 0..Regions, ref : -1..1 + Cardinality(Threads),
                 barrierEnd : Nat, taskEnd : Nat, recorded : BOOLEAN]
      OBVIOUS
    <3>2. QED
      BY <3>1 DEF Init
  <2>3. task \in [Threads -> [parallel : Parallels \cup {None}, index : Indices,
                             overdue : BOOLEAN, syncs : 0..1]]
    <3>1. [parallel |-> None, index |-> 0, overdue |-> FALSE, syncs |-> 0]
            \in [parallel : Parallels \cup {None}, index : Indices, overdue : BOOLEAN, syncs : 0..1]
      OBVIOUS
    <3>2. QED
      BY <1>1, <3>1
  <2>4. TypeOK
    <3>1. /\ region \in 0..Regions /\ size \in Sizes \cup {1}
          /\ taken \subseteq Indices \ {0} /\ arrived \in 0..size
          /\ parallelData \in Parallels \cup {None} /\ parallelFree \in Seq(Parallels)
      BY <1>1, <2>1
    <3>2. /\ taskData \in [Threads -> Ids] /\ taskFree \in [Threads -> Seq(Threads)]
          /\ index \in [Threads -> Indices] /\ object \in [Threads -> Ids]
      BY <1>1, <2>1 DEF Ids
    <3>3. /\ stored \in [Indices -> Ids \cup {InitialTask}]
          /\ isOmpt \in [Indices -> BOOLEAN] /\ preserveOrder \in [Indices -> BOOLEAN]
          /\ finalizing \in BOOLEAN /\ finalizeTool \in BOOLEAN
      BY <1>1 DEF Ids
    <3>4. QED
      BY <2>2, <2>3, <3>1, <3>2, <3>3 DEF TypeOK
  <2>5. /\ pc \in [Threads -> Points] /\ caller \in [Threads -> Callers \cup {None}]
        /\ stamp \in [Threads -> Nat]
    BY <1>1 DEF Points, OfPrimary
  <2>6. events \in [Indices -> [kind : Kinds, no : 0..Regions, team : Nat]]
    <3>1. [kind |-> "none", no |-> 0, team |-> 0] \in [kind : Kinds, no : 0..Regions, team : Nat]
      BY DEF Kinds
    <3>2. QED
      BY <1>1, <3>1
  <2>7. team \in [Indices -> Nat] /\ clock \in Nat \ {0}
    BY DEF Init
  <2>8. QED
    BY <2>4, <2>5, <2>6, <2>7 DEF TypesOK
<1>7. ThreadsOK
  <2>1. \A x \in Threads : ControlOK(x)
    BY <1>1, <1>3, <1>5 DEF ControlOK, Entering, Writing, AtEnd, OfPrimary
  <2>2. \A x \in Threads : CallerOK(x)
    BY <1>4, <1>5 DEF CallerOK, Callers
  <2>3. QED
    BY <1>1, <1>5, <2>1, <2>2 DEF ThreadsOK
<1>8. OverdueOK /\ TasksOK
  BY <1>1, <1>3 DEF OverdueOK, OverdueAt, TasksOK
<1>9. MembersOK
  BY <1>1, <1>3, <1>4 DEF MembersOK
<1>10. BarrierOK
  BY <1>1, <1>5 DEF BarrierOK, Barrier, AtEnd
<1>11. ReferencesOK
  <2>1. IsInjective(parallelFree) /\ Range(parallelFree) = {}
    BY <1>1 DEF IsInjective, Range
  <2>2. {o \in Parallels : parallel[o].no # 0} = {}
    BY <1>2
  <2>3. Cardinality({o \in Parallels : parallel[o].no # 0}) <= region
    <3>1. Cardinality({o \in Parallels : parallel[o].no # 0}) = 0
      BY <2>2, FS_EmptySet, Zenon
    <3>2. region = 0
      BY <1>1
    <3>3. QED
      BY <3>1, <3>2
  <2>4. ~InRegion
    BY <1>5 DEF InRegion
  <2>5. QED
    BY <1>2, <2>1, <2>3, <2>4 DEF ReferencesOK
<1>12. StoredOK
  <2>1. stored[0] = InitialTask /\ StoredOfPrimary = InitialTask
    BY <1>1, <1>5 DEF StoredOfPrimary, AtEnd
  <2>2. \A l \in Indices \ {0} : stored[l] = None
    BY <1>1
  <2>3. QED
    BY <1>5, <2>1, <2>2 DEF StoredOK, StoredAt
<1>13. OpenOK /\ OrderOK
  BY <1>1, <1>4, <1>5 DEF OpenOK, OrderOK
<1>14. SyncsOK
  BY <1>5 DEF SyncsOK, SyncsAt, AtEnd
<1>15. EventsOK
  <2>1. \A l \in Indices : events[l].kind = "none"
    BY <1>1
  <2>2. QED
    BY <1>4, <1>5, <2>1 DEF EventsOK, Entering
<1>16. EndKnownOK
  BY <1>3, <1>5 DEF EndKnownOK, PastEnd
<1>17. bug \in TimestampBugs \cup {None}
  BY DEF Init
<1>18. QED
  BY <1>6, <1>7, <1>8, <1>9, <1>10, <1>11, <1>12, <1>13, <1>14, <1>15, <1>16, <1>17
     DEF OmptTeamsInv

LEMMA Stutters ==
    ASSUME OmptTeamsInv, UNCHANGED vars
    PROVE  OmptTeamsInv'
<1>1. /\ UNCHANGED runtimeVars /\ UNCHANGED poolVars /\ UNCHANGED locationVars
      /\ UNCHANGED eventVars /\ UNCHANGED threadVars /\ UNCHANGED endVars /\ bug' = bug
  BY DEF vars
<1>2. /\ region' = region /\ size' = size /\ taken' = taken /\ arrived' = arrived
      /\ parallelData' = parallelData /\ taskData' = taskData
      /\ parallel' = parallel /\ parallelFree' = parallelFree /\ task' = task
      /\ taskFree' = taskFree
      /\ stored' = stored /\ isOmpt' = isOmpt /\ preserveOrder' = preserveOrder /\ team' = team
      /\ lastTimestamp' = lastTimestamp /\ events' = events /\ clock' = clock
      /\ pc' = pc /\ index' = index /\ object' = object /\ caller' = caller /\ stamp' = stamp
      /\ finalizing' = finalizing /\ finalizeTool' = finalizeTool /\ bug' = bug
  BY <1>1 DEF runtimeVars, poolVars, locationVars, eventVars, threadVars, endVars
<1>3. TypesOK'
  BY <1>2 DEF OmptTeamsInv, TypesOK, TypeOK
<1>4. \A t \in Threads : /\ Executes(t)' <=> Executes(t)
                         /\ WritesOverdue(t)' <=> WritesOverdue(t)
  BY <1>2 DEF Executes, WritesOverdue
<1>5. \A t \in Threads : /\ HandlesOwn(t)' <=> HandlesOwn(t)
                         /\ Joining(t)' <=> Joining(t)
  BY <1>2, <1>4 DEF HandlesOwn, Joining
<1>6. \A t \in Threads : /\ Open(t)' <=> Open(t)
                         /\ Keeps(t)' <=> Keeps(t)
                         /\ Member(t)' <=> Member(t)
  BY <1>2, <1>4, <1>5 DEF Open, Keeps, Member
<1>7. ThreadsOK'
  <2>1. \A t \in Threads : ControlOK(t) /\ CallerOK(t)
    BY DEF OmptTeamsInv, ThreadsOK
  <2>2. \A t \in Threads : ControlOK(t)'
    BY <1>2, <1>4, <2>1 DEF ControlOK
  <2>3. \A t \in Threads : CallerOK(t)'
    BY <1>2, <1>4, <1>5, <2>1 DEF CallerOK
  <2>4. QED
    BY <1>2, <2>2, <2>3 DEF OmptTeamsInv, ThreadsOK
<1>8. OverdueOK' /\ TasksOK' /\ MembersOK'
  <2>1. OverdueOK'
    BY Facts, <1>2, <1>4 DEF OmptTeamsInv, OverdueOK, OverdueAt
  <2>2. TasksOK'
    BY <1>2, <1>4 DEF OmptTeamsInv, TasksOK
  <2>3. MembersOK'
    BY Facts, <1>2, <1>4, <1>6 DEF OmptTeamsInv, MembersOK
  <2>4. QED
    BY <2>1, <2>2, <2>3
<1>9. BarrierOK'
  BY <1>2, <1>4, <1>5 DEF OmptTeamsInv, BarrierOK, AtBarrier
<1>10. ReferencesOK'
  <2>1. \A o \in Parallels : MemberIndices(o)' = MemberIndices(o)
    BY <1>2, <1>4 DEF MemberIndices
  <2>2. (Assembled' <=> Assembled) /\ (InRegion' <=> InRegion)
    BY <1>2 DEF Assembled, InRegion
  <2>3. \A o \in Parallels : References(o)' = References(o)
    BY <1>2, <2>1, <2>2 DEF References
  <2>4. QED
    BY <1>2, <2>2, <2>3 DEF OmptTeamsInv, ReferencesOK
<1>11. StoredOK'
  <2>1. StoredOfPrimary' = StoredOfPrimary
    BY <1>2 DEF StoredOfPrimary
  <2>2. QED
    BY Facts, <1>2, <1>4, <2>1 DEF OmptTeamsInv, StoredOK, StoredAt
<1>12. OpenOK' /\ OrderOK'
  BY Facts, <1>2, <1>6 DEF OmptTeamsInv, OpenOK, OrderOK
<1>13. SyncsOK'
  BY <1>2, <1>4 DEF OmptTeamsInv, SyncsOK, SyncsAt
<1>14. EventsOK'
  BY <1>2, <1>6 DEF OmptTeamsInv, EventsOK, Written
<1>15. EndKnownOK'
  BY <1>2, <1>4 DEF OmptTeamsInv, EndKnownOK, PastEnd, TaskEndKnown
<1>16. QED
  BY <1>2, <1>3, <1>7, <1>8, <1>9, <1>10, <1>11, <1>12, <1>13, <1>14, <1>15 DEF OmptTeamsInv

LEMMA Inductive == OmptTeamsInv /\ [Next]_vars => OmptTeamsInv'
<1> SUFFICES ASSUME OmptTeamsInv, [Next]_vars  PROVE  OmptTeamsInv'
  OBVIOUS
<1>1. CASE UNCHANGED vars
  BY <1>1, Stutters
<1>2. CASE ParallelBegin
  BY <1>2, ParallelBeginStep
<1>3. CASE ParallelEnd
  BY <1>3, ParallelEndStep
<1>4. CASE SubsystemEnd
  BY <1>4, SubsystemEndStep
<1>5. CASE FinalizeToolReturns
  BY <1>5, FinalizeToolReturnsStep
<1>6. CASE Ended
  BY <1>6, Stutters DEF Ended
<1>7. ASSUME NEW t \in Threads, SyncRegionEnd(t)  PROVE  OmptTeamsInv'
  BY <1>7, SyncRegionEndStep
<1>8. ASSUME NEW t \in Threads, Step(t)  PROVE  OmptTeamsInv'
  <2>1. CASE ImplicitTaskBegin(t)
    <3>1. CASE t = Primary
      BY <2>1, <3>1, PrimaryBeginsStep
    <3>2. CASE t # Primary
      BY <2>1, <3>2, WorkerBeginsStep, Facts
    <3>3. QED
      BY <3>1, <3>2
  <2>2. CASE TeamBeginClock(t)
    BY <2>2, TeamBeginClockStep
  <2>3. CASE TeamBeginCheck(t)
    BY <2>3, TeamBeginCheckStep
  <2>4. CASE TriggerOverdue(t)
    BY <2>4, NothingOverdueStep, TakesOverdueStep
  <2>5. CASE WaitOrder(t)
    BY <2>5, WaitOrderStep
  <2>6. CASE TaskBegin(t)
    BY <2>6, TaskBeginStep
  <2>7. CASE BarrierBegin(t)
    BY <2>7, BarrierBeginStep
  <2>8. CASE BarrierImplicitParallelEnd(t) \/ FinalizeToolEnd(t)
    BY <2>8, TakenStep, TakesOwnStep
  <2>9. CASE BarrierEnd(t)
    BY <2>9, BarrierEndStep
  <2>10. CASE BarrierExit(t)
    BY <2>10, BarrierExitStep
  <2>11. CASE Decide(t)
    BY <2>11, DecideStep
  <2>12. CASE ImplicitTaskEnd(t)
    BY <2>12, ImplicitTaskEndStep
  <2>13. CASE TaskEnd(t)
    BY <2>13, TaskEndStep
  <2>14. CASE TaskExit(t)
    BY <2>14, TaskExitOverdueStep, TaskExitOwnStep
  <2>15. CASE ReleaseAtTeamEnd(t)
    BY <2>15, ReleaseAtTeamEndStep
  <2>16. QED
    BY <1>8, <2>1, <2>2, <2>3, <2>4, <2>5, <2>6, <2>7, <2>8, <2>9, <2>10, <2>11, <2>12,
       <2>13, <2>14, <2>15 DEF Step
<1>9. QED
  BY <1>1, <1>2, <1>3, <1>4, <1>5, <1>6, <1>7, <1>8 DEF Next

(* The invariant holds whatever the runtime does: how many threads, regions
   and members there are, and in which order and how late it calls back. *)
THEOREM Invariance == Spec => []OmptTeamsInv
<1>1. QED
  BY Initially, Inductive, PTL DEF Spec

(* Every variable keeps its type; in particular a team is never larger than
   its size, and a reference count never exceeds the number of threads. *)
THEOREM TypeCorrect == Spec => []TypeOK
<1>1. OmptTeamsInv => TypeOK
  BY DEF OmptTeamsInv, TypesOK
<1>2. QED
  BY <1>1, Invariance, PTL

(* The events of a location form whole implicit tasks, one after the other:
   the end of each is written exactly once, by the thread that executed it or
   by the one that needed its location. *)
THEOREM EventsOrdered == Spec => []EventOrder
<1>1. OmptTeamsInv => EventOrder
  BY DEF OmptTeamsInv, TypesOK, Kinds, EventOrder
<1>2. QED
  BY <1>1, Invariance, PTL

(* The object of a region with members is referenced. *)
LEMMA MembersReferTo ==
    ASSUME OmptTeamsInv, NEW x \in Threads, Executes(x)
    PROVE  task[x].parallel \in Parallels /\ task[x].parallel \notin Range(parallelFree)
<1> USE Facts
<1>1. PICK o : o = task[x].parallel
  OBVIOUS
<1>2. o \in Parallels /\ parallel[o].no # 0
  <2>1. o \in Parallels /\ parallel[o].no \in 1..region
    BY <1>1 DEF OmptTeamsInv, TasksOK
  <2>2. TypeOK
    BY ThreadFacts
  <2>3. QED
    BY <2>1, <2>2 DEF TypeOK
<1>3. References(o) # 0
  <2>1. PICK n : n = Cardinality(MemberIndices(o))
    OBVIOUS
  <2>2. IsFiniteSet(MemberIndices(o)) /\ n \in Nat
    BY <2>1, MembersFinite
  <2>3. index[x] \in MemberIndices(o)
    BY <1>1 DEF MemberIndices
  <2>4. n # 0
    BY <2>1, <2>2, <2>3, FS_EmptySet
  <2>5. size \in Nat
    BY ThreadFacts
  <2>6. QED
    BY <2>1, <2>2, <2>4, <2>5 DEF References
<1>4. QED
  BY <1>1, <1>2, <1>3 DEF OmptTeamsInv, ReferencesOK

(* No task object and no region's object is in a free list while a thread uses
   it, not even while a thread writes the end of another one's task. *)
THEOREM NothingReleasedInUse == Spec => []NoUseAfterRelease
<1>1. ASSUME OmptTeamsInv  PROVE  NoUseAfterRelease
  <2> USE Facts, ThreadFacts
  <2>1. SUFFICES ASSUME NEW t \in Threads, NEW x \in InUse(t)
                 PROVE  /\ \A u \in Threads : x \notin Range(taskFree[u])
                        /\ task[x].parallel \notin Range(parallelFree)
    BY DEF NoUseAfterRelease
  <2>2. x \in Threads /\ Executes(x)
    <3>1. x # None /\ (x = taskData[t] \/ (WritesOverdue(t) /\ x = object[t]))
      BY <2>1 DEF InUse
    <3>2. CASE x = taskData[t]
      BY <1>1, <3>1, <3>2 DEF ControlOK, Executes
    <3>3. CASE WritesOverdue(t) /\ x = object[t]
      BY <1>1, <3>3 DEF OmptTeamsInv, OverdueOK, OverdueAt
    <3>4. QED
      BY <3>1, <3>2, <3>3
  <2>3. ASSUME NEW u \in Threads  PROVE  x \notin Range(taskFree[u])
    <3>1. taskFree[u] \in {<<>>, <<u>>} /\ (u = x => taskFree[u] = <<>>)
      BY <1>1, <2>2 DEF ControlOK
    <3>2. Range(<<>>) = {}
      BY DEF Range
    <3>3. Range(<<u>>) = {u}
      BY DEF Range
    <3>4. QED
      BY <3>1, <3>2, <3>3
  <2>4. QED
    BY <1>1, <2>2, <2>3, MembersReferTo
<1>2. QED
  BY <1>1, Invariance, PTL

(* When all threads are out of the regions, all objects are back, no location
   is held or owes an event, and the primary's task is stored again. *)
THEOREM NothingIsLeftBehind == Spec => []NothingLeftBehind
<1>1. ASSUME OmptTeamsInv, pc[Primary] \in {"serial", "done"}, \A t \in Workers : pc[t] = "idle"
      PROVE  /\ \A o \in Parallels : parallel[o].no = 0 \/ o \in Range(parallelFree)
             /\ \A l \in Indices : ~preserveOrder[l] /\ (l # 0 => stored[l] = None)
             /\ stored[0] = InitialTask
             /\ \A l \in Indices : events[l].kind \in {"none", IF l = 0 THEN "join" ELSE "end"}
  <2> USE Facts, ThreadFacts
  <2>1. \A t \in Threads : pc[t] \in {"serial", "done", "idle"} /\ ~Executes(t)
    BY <1>1 DEF ControlOK, OfPrimary
  <2>2. \A t \in Threads : ~Keeps(t) /\ ~Open(t)
    BY <2>1 DEF Keeps, Open, HandlesOwn
  <2>3. \A o \in Parallels : parallel[o].no = 0 \/ o \in Range(parallelFree)
    <3>1. PastEnd /\ ~InRegion
      BY <1>1 DEF PastEnd, InRegion
    <3>2. Assembled /\ pc[Primary] # "forked"
      BY <1>1, <3>1, PastEndFacts
    <3>3. \A o \in Parallels : MemberIndices(o) = {}
      BY <2>1 DEF MemberIndices
    <3>4. \A o \in Parallels : Cardinality(MemberIndices(o)) = 0
      BY <3>3, FS_EmptySet
    <3>5. \A o \in Parallels : References(o) = 0
      BY <3>1, <3>2, <3>4 DEF References
    <3>6. QED
      BY <1>1, <3>5 DEF OmptTeamsInv, ReferencesOK
  <2>4. \A l \in Indices : ~preserveOrder[l]
    BY <1>1, <2>2 DEF OmptTeamsInv, OrderOK
  <2>5. \A l \in Indices : l # 0 => stored[l] = None
    BY <1>1, <2>1 DEF OmptTeamsInv, StoredOK, StoredAt
  <2>6. stored[0] = InitialTask
    <3>1. StoredOfPrimary = InitialTask
      BY <1>1 DEF StoredOfPrimary, AtEnd
    <3>2. QED
      BY <1>1, <3>1 DEF OmptTeamsInv, StoredOK
  <2>7. \A l \in Indices : events[l].kind \in {"none", IF l = 0 THEN "join" ELSE "end"}
    BY <1>1, <2>2 DEF OmptTeamsInv, EventsOK
  <2>8. QED
    BY <2>3, <2>4, <2>5, <2>6, <2>7
<1>2. OmptTeamsInv => NothingLeftBehind
  BY <1>1 DEF NothingLeftBehind
<1>3. QED
  BY <1>2, Invariance, PTL

(* No assertion fails but those about the order of times: what is stored, the
   barriers that are open and the primary's times are as each callback expects. *)
THEOREM OnlyTimesMayFail == Spec => [](bug \in TimestampBugs \cup {None})
<1>1. OmptTeamsInv => bug \in TimestampBugs \cup {None}
  BY DEF OmptTeamsInv
<1>2. QED
  BY <1>1, Invariance, PTL

-----------------------------------------------------------------------------
(* Times of a clock that stands still *)

LEMMA TimesFrame ==
    ASSUME OmptTeamsInv, TimesOK, NEW t \in Threads, NEW l \in Indices,
           clock' \in Nat, clock' >= clock, Tick = 0 => clock' = clock,
           \/ lastTimestamp' = lastTimestamp
           \/ \E s \in 0..clock' : lastTimestamp' = [lastTimestamp EXCEPT ![l] = s],
           \A u \in Threads : u # t => stamp'[u] = stamp[u] /\ pc'[u] = pc[u],
           stamp'[t] \in 0..clock', pc'[t] = "team_check" => stamp'[t] # 0,
           \A o \in Parallels : parallel'[o].barrierEnd \in 0..clock' /\ parallel'[o].taskEnd \in 0..clock'
    PROVE  TimesOK'
<1>1. clock \in Nat
  BY DEF OmptTeamsInv, TypesOK
<1>2. lastTimestamp' \in [Indices -> Nat] /\ \A k \in Indices : lastTimestamp'[k] <= clock'
  <2>1. lastTimestamp \in [Indices -> Nat] /\ \A k \in Indices : lastTimestamp[k] <= clock
    BY DEF TimesOK
  <2>2. CASE lastTimestamp' = lastTimestamp
    BY <1>1, <2>1, <2>2
  <2>3. CASE \E s \in 0..clock' : lastTimestamp' = [lastTimestamp EXCEPT ![l] = s]
    BY <1>1, <2>1, <2>3
  <2>4. QED
    BY <2>2, <2>3
<1>3. ASSUME NEW u \in Threads  PROVE  stamp'[u] \in 0..clock' /\ (pc'[u] = "team_check" => stamp'[u] # 0)
  BY <1>1 DEF TimesOK
<1>4. QED
  BY <1>2, <1>3 DEF TimesOK

(* Most steps read no clock and write no event. *)
LEMMA QuietTimes ==
    ASSUME OmptTeamsInv, TimesOK, NEW t \in Threads, clock' = clock,
           lastTimestamp' = lastTimestamp, NEW p, p # "team_check", pc' = [pc EXCEPT ![t] = p],
           stamp' = stamp \/ stamp' = [stamp EXCEPT ![t] = 0],
           \A o \in Parallels : /\ parallel'[o].barrierEnd \in {parallel[o].barrierEnd, 0}
                                /\ parallel'[o].taskEnd \in {parallel[o].taskEnd, 0}
    PROVE  TimesOK'
<1>1. TypesOK /\ clock \in Nat
  BY DEF OmptTeamsInv, TypesOK
<1>2. \A u \in Threads : pc'[u] = IF u = t THEN p ELSE pc[u]
  BY <1>1 DEF TypesOK
<1>3. \A u \in Threads : stamp'[u] \in {stamp[u], 0} /\ (u # t => stamp'[u] = stamp[u])
  BY <1>1 DEF TypesOK
<1>4. QED
  BY <1>1, <1>2, <1>3 DEF TimesOK

LEMMA EndsSet ==
    ASSUME TypeOK, NEW o \in Parallels, NEW n \in Nat, NEW time \in 0..n,
           \A p \in Parallels : parallel[p].barrierEnd \in 0..n /\ parallel[p].taskEnd \in 0..n,
           \/ parallel' = parallel
           \/ parallel' = [parallel EXCEPT ![o].barrierEnd = time]
           \/ parallel' = [parallel EXCEPT ![o].taskEnd = time]
    PROVE  \A p \in Parallels : parallel'[p].barrierEnd \in 0..n /\ parallel'[p].taskEnd \in 0..n
<1>1. parallel \in [Parallels -> ParallelType] /\ parallel[o] \in ParallelType
  BY DEF TypeOK, ParallelType
<1>2. CASE parallel' = parallel
  BY <1>2
<1>3. CASE parallel' = [parallel EXCEPT ![o].barrierEnd = time]
  <2>1. /\ parallel'[o] = [parallel[o] EXCEPT !.barrierEnd = time]
        /\ \A p \in Parallels : p # o => parallel'[p] = parallel[p]
    BY <1>1, <1>3
  <2>2. parallel'[o].barrierEnd = time /\ parallel'[o].taskEnd = parallel[o].taskEnd
    BY <1>1, <2>1 DEF ParallelType
  <2>3. QED
    BY <2>1, <2>2
<1>4. CASE parallel' = [parallel EXCEPT ![o].taskEnd = time]
  <2>1. /\ parallel'[o] = [parallel[o] EXCEPT !.taskEnd = time]
        /\ \A p \in Parallels : p # o => parallel'[p] = parallel[p]
    BY <1>1, <1>4
  <2>2. parallel'[o].taskEnd = time /\ parallel'[o].barrierEnd = parallel[o].barrierEnd
    BY <1>1, <2>1 DEF ParallelType
  <2>3. QED
    BY <2>1, <2>2
<1>5. QED
  BY <1>2, <1>3, <1>4

LEMMA ReleaseKeepsTimes ==
    ASSUME TypeOK, NEW o \in Parallels, ReleaseParallel(o)
    PROVE  \A p \in Parallels : /\ parallel'[p].barrierEnd = parallel[p].barrierEnd
                                /\ parallel'[p].taskEnd = parallel[p].taskEnd
<1>1. parallel \in [Parallels -> ParallelType] /\ parallel[o] \in ParallelType
  BY DEF TypeOK, ParallelType
<1>2. PICK n : n = parallel[o].ref
  OBVIOUS
<1>3. n \in -1..1 + Cardinality(Threads) /\ n >= 0
  BY <1>1, <1>2 DEF ReleaseParallel, ParallelType
<1>4. n - 1 \in -1..1 + Cardinality(Threads)
  BY <1>3, Facts
<1>5. parallel' = [parallel EXCEPT ![o].ref = n - 1]
  BY <1>2 DEF ReleaseParallel
<1>6. QED
  BY <1>4, <1>5, RefSet

(* Steps that neither read the clock nor write an event *)
Silent(t) ==
    \/ ImplicitTaskBegin(t) \/ TriggerOverdue(t) \/ WaitOrder(t)
    \/ BarrierImplicitParallelEnd(t) \/ FinalizeToolEnd(t)
    \/ Decide(t) \/ ImplicitTaskEnd(t) \/ ReleaseAtTeamEnd(t) \/ SyncRegionEnd(t)

LEMMA SilentTimes ==
    ASSUME OmptTeamsInv, TimesOK, NEW t \in Threads, Silent(t)
    PROVE  TimesOK' /\ bug' \in {bug, "finalize_tool: no time"}
<1> USE Facts, ThreadFacts
<1>0. TypeOK /\ TypesOK
  BY ThreadFacts
<1>1. CASE ImplicitTaskBegin(t)
  <2>1. /\ pc' = [pc EXCEPT ![t] = "team_begin"] /\ clock' = clock
        /\ lastTimestamp' = lastTimestamp /\ stamp' = stamp /\ bug' = bug
    BY <1>1 DEF ImplicitTaskBegin, Goto, eventVars
  <2>2. \A o \in Parallels : /\ parallel'[o].barrierEnd = parallel[o].barrierEnd
                             /\ parallel'[o].taskEnd = parallel[o].taskEnd
    <3>1. CASE t = Primary
      <4>1. pc[Primary] = "forked" /\ parallel' = [parallel EXCEPT ![parallelData].ref = size + 1]
        BY <1>1, <3>1 DEF ImplicitTaskBegin, InitRefCount
      <4>2. region > 0
        BY <4>1 DEF OmptTeamsInv, ReferencesOK, InRegion
      <4>3. parallelData \in Parallels
        BY <4>2 DEF OmptTeamsInv, TasksOK
      <4>4. size + 1 \in -1..1 + Cardinality(Threads)
        OBVIOUS
      <4>5. QED
        BY <1>0, <4>1, <4>3, <4>4, RefSet
    <3>2. CASE t # Primary
      BY <1>1, <3>2 DEF ImplicitTaskBegin
    <3>3. QED
      BY <3>1, <3>2
  <2>3. TimesOK'
    BY <2>1, <2>2, QuietTimes
  <2>4. QED
    BY <2>1, <2>3
<1>2. CASE TriggerOverdue(t)
  <2>1. PICK p \in {"barrier_end", "wait_order", "task_begin"} : pc' = [pc EXCEPT ![t] = p]
    BY <1>2 DEF TriggerOverdue, Goto
  <2>2. /\ clock' = clock /\ lastTimestamp' = lastTimestamp /\ stamp' = stamp /\ bug' = bug
        /\ parallel' = parallel
    BY <1>2 DEF TriggerOverdue, eventVars
  <2>3. TimesOK'
    BY <2>1, <2>2, QuietTimes
  <2>4. QED
    BY <2>2, <2>3
<1>3. CASE WaitOrder(t) \/ BarrierImplicitParallelEnd(t) \/ FinalizeToolEnd(t) \/ SyncRegionEnd(t)
  <2>1. PICK p \in {"task_begin", "barrier_end", "release", "lock_finalize", "lock_order"} :
          pc' = [pc EXCEPT ![t] = p]
    BY <1>3 DEF WaitOrder, BarrierImplicitParallelEnd, FinalizeToolEnd, SyncRegionEnd, Goto
  <2>2. /\ clock' = clock /\ lastTimestamp' = lastTimestamp /\ stamp' = stamp /\ bug' = bug
        /\ parallel' = parallel
    BY <1>3 DEF WaitOrder, BarrierImplicitParallelEnd, FinalizeToolEnd, SyncRegionEnd, eventVars, poolVars
  <2>3. TimesOK'
    BY <2>1, <2>2, QuietTimes
  <2>4. QED
    BY <2>2, <2>3
<1>4. CASE Decide(t)
  <2>1. PICK p \in {"task_end", "barrier_done"} : pc' = [pc EXCEPT ![t] = p]
    BY <1>4, Zenon DEF Decide, Return, Goto
  <2>2. /\ clock' = clock /\ lastTimestamp' = lastTimestamp /\ parallel' = parallel
        /\ stamp' = stamp \/ stamp' = [stamp EXCEPT ![t] = 0]
    BY <1>4 DEF Decide, Return, eventVars, poolVars
  <2>3. bug' \in {bug, "finalize_tool: no time"}
    BY <1>4 DEF Decide, BugOn
  <2>4. TimesOK'
    BY <2>1, <2>2, QuietTimes
  <2>5. QED
    BY <2>3, <2>4
<1>5. CASE ImplicitTaskEnd(t)
  <2>1. PICK p \in {"task_end", "parallel_end", "idle"} : pc' = [pc EXCEPT ![t] = p]
    BY <1>5, Zenon DEF ImplicitTaskEnd, Return, Goto
  <2>2. /\ clock' = clock /\ lastTimestamp' = lastTimestamp /\ parallel' = parallel
        /\ stamp' = stamp \/ stamp' = [stamp EXCEPT ![t] = 0]
        /\ bug' = bug
    BY <1>5 DEF ImplicitTaskEnd, Return, eventVars, poolVars
  <2>3. TimesOK'
    BY <2>1, <2>2, QuietTimes
  <2>4. QED
    BY <2>2, <2>3
<1>6. CASE ReleaseAtTeamEnd(t)
  <2>1. PICK p \in {"barrier_done", "parallel_end", "idle"} : pc' = [pc EXCEPT ![t] = p]
    BY <1>6, Zenon DEF ReleaseAtTeamEnd, Return, Goto
  <2>2. /\ clock' = clock /\ lastTimestamp' = lastTimestamp /\ stamp' = [stamp EXCEPT ![t] = 0]
        /\ bug' = bug
    BY <1>6, Zenon DEF ReleaseAtTeamEnd, Return, eventVars
  <2>3. PICK o : o = task[taskData[t]].parallel
    OBVIOUS
  <2>4. ReleaseParallel(o) /\ pc[t] = "release"
    BY <1>6, <2>3, Zenon DEF ReleaseAtTeamEnd
  <2>5. Executes(t) /\ taskData[t] = t
    BY <2>4 DEF ControlOK, Executes
  <2>6. o \in Parallels
    BY <2>3, <2>5 DEF OmptTeamsInv, TasksOK
  <2>7. \A q \in Parallels : /\ parallel'[q].barrierEnd = parallel[q].barrierEnd
                             /\ parallel'[q].taskEnd = parallel[q].taskEnd
    BY <1>0, <2>4, <2>6, ReleaseKeepsTimes
  <2>8. TimesOK'
    BY <2>1, <2>2, <2>7, QuietTimes
  <2>9. QED
    BY <2>2, <2>8
<1>7. QED
  BY <1>1, <1>2, <1>3, <1>4, <1>5, <1>6 DEF Silent

(* Steps of the primary between and around the regions *)
Around == ParallelBegin \/ ParallelEnd \/ SubsystemEnd \/ FinalizeToolReturns

LEMMA AroundTimes ==
    ASSUME OmptTeamsInv, TimesOK, Around
    PROVE  TimesOK' /\ bug' \in {bug, "parallel_begin: no stored task", "parallel_end: a task is stored"}
<1> USE Facts, ThreadFacts
<1>0. TypeOK /\ TypesOK
  BY ThreadFacts
<1>1. CASE ParallelBegin
  <2>1. PICK o : o = PooledParallel
    OBVIOUS
  <2>2. PICK n \in Sizes, recorded \in Recording :
           parallel' = [parallel EXCEPT ![o] =
                          [no |-> region + 1, ref |-> -1, barrierEnd |-> 0,
                           taskEnd |-> 0, recorded |-> recorded]]
    BY <1>1, <2>1, Zenon DEF ParallelBegin
  <2>3. /\ pc[Primary] = "serial" /\ region < Regions /\ TakeParallel
        /\ pc' = [pc EXCEPT ![Primary] = "forked"] /\ clock' = clock
        /\ lastTimestamp' = lastTimestamp /\ stamp' = stamp
        /\ BugOn(stored[0] = None, "parallel_begin: no stored task")
    BY <1>1, Zenon DEF ParallelBegin, Goto
  <2>4. o \in Parallels
    BY <2>1, <2>3, PooledFacts
  <2>5. PICK new : new = [no |-> region + 1, ref |-> -1, barrierEnd |-> 0,
                          taskEnd |-> 0, recorded |-> recorded]
    OBVIOUS
  <2>6. new.barrierEnd = 0 /\ new.taskEnd = 0
    BY <2>5
  <2>7. parallel' = [parallel EXCEPT ![o] = new]
    BY <2>2, <2>5, Zenon
  <2>8. \A q \in Parallels : parallel'[q] = IF q = o THEN new ELSE parallel[q]
    BY <1>0, <2>4, <2>7 DEF TypeOK
  <2>9. \A q \in Parallels : /\ parallel'[q].barrierEnd \in {parallel[q].barrierEnd, 0}
                             /\ parallel'[q].taskEnd \in {parallel[q].taskEnd, 0}
    BY <2>6, <2>8
  <2>10. /\ pc' = [pc EXCEPT ![Primary] = "forked"] /\ clock' = clock
         /\ lastTimestamp' = lastTimestamp /\ stamp' = stamp
    BY <2>3, Zenon
  <2>11. TimesOK'
    BY <2>9, <2>10, QuietTimes
  <2>12. QED
    BY <2>3, <2>11, Zenon DEF BugOn
<1>2. CASE ParallelEnd
  <2>1. PICK o : o = parallelData
    OBVIOUS
  <2>2. ReleaseParallel(o)
    BY <1>2, <2>1, Zenon DEF ParallelEnd
  <2>3. BugOn(size > 1 /\ stored[0] # None, "parallel_end: a task is stored")
    BY <1>2, Zenon DEF ParallelEnd
  <2>4. /\ pc[Primary] = "parallel_end" /\ pc' = [pc EXCEPT ![Primary] = "serial"]
        /\ clock' = clock /\ lastTimestamp' = lastTimestamp /\ stamp' = stamp
    BY <1>2, Zenon DEF ParallelEnd, Goto
  <2>5. region > 0
    BY <2>4 DEF OmptTeamsInv, ReferencesOK, InRegion
  <2>6. o \in Parallels
    BY <2>1, <2>5 DEF OmptTeamsInv, TasksOK
  <2>7. \A q \in Parallels : /\ parallel'[q].barrierEnd = parallel[q].barrierEnd
                             /\ parallel'[q].taskEnd = parallel[q].taskEnd
    BY <1>0, <2>2, <2>6, ReleaseKeepsTimes
  <2>8. TimesOK'
    BY <2>4, <2>7, QuietTimes
  <2>9. QED
    BY <2>3, <2>8, Zenon DEF BugOn
<1>3. CASE SubsystemEnd \/ FinalizeToolReturns
  <2>1. PICK p \in {"finalizing", "done"} : pc' = [pc EXCEPT ![Primary] = p]
    BY <1>3 DEF SubsystemEnd, FinalizeToolReturns, Goto
  <2>2. /\ clock' = clock /\ lastTimestamp' = lastTimestamp /\ stamp' = stamp /\ bug' = bug
        /\ parallel' = parallel
    BY <1>3 DEF SubsystemEnd, FinalizeToolReturns, eventVars, poolVars
  <2>3. TimesOK'
    BY <2>1, <2>2, QuietTimes
  <2>4. QED
    BY <2>2, <2>3
<1>4. QED
  BY <1>1, <1>2, <1>3 DEF Around

LEMMA NowFacts ==
    ASSUME OmptTeamsInv
    PROVE  /\ Now \in Nat /\ Now >= clock /\ Now # 0 /\ (Tick = 0 => Now = clock)
           /\ clock \in Nat
BY OmptTeamsAssumption DEF Now, OmptTeamsInv, TypesOK

(* Steps that take a time but write no event *)
LEMMA ReadTimes ==
    ASSUME OmptTeamsInv, TimesOK, NEW t \in Threads,
           TeamBeginClock(t) \/ BarrierEnd(t) \/ TaskEnd(t)
    PROVE  TimesOK' /\ bug' = bug
<1> USE Facts, ThreadFacts
<1>0. TypeOK /\ TypesOK
  BY ThreadFacts
<1>1. PICK p \in {"team_check", "barrier_exit", "task_exit"} : pc' = [pc EXCEPT ![t] = p]
  BY DEF TeamBeginClock, BarrierEnd, TaskEnd, Goto
<1>2. lastTimestamp' = lastTimestamp /\ parallel' = parallel /\ bug' = bug
  BY DEF TeamBeginClock, BarrierEnd, TaskEnd, poolVars
<1>3. \/ stamp' = [stamp EXCEPT ![t] = Now] /\ clock' = Now
      \/ /\ clock' = clock /\ ~TeamBeginClock(t)
         /\ \E s \in 0..clock : stamp' = [stamp EXCEPT ![t] = s]
  <2>1. CASE TeamBeginClock(t)
    BY <2>1 DEF TeamBeginClock
  <2>2. CASE (BarrierEnd(t) \/ TaskEnd(t)) /\ ~TeamBeginClock(t)
    <3>1. PICK o : o = task[object[t]].parallel
      OBVIOUS
    <3>2. pc[t] \in Writing
      BY <2>2 DEF BarrierEnd, TaskEnd, Writing
    <3>3. o \in Parallels
      BY <3>1, <3>2, ObjectFacts
    <3>4. parallel[o].barrierEnd \in 0..clock /\ parallel[o].taskEnd \in 0..clock
      BY <3>3 DEF TimesOK
    <3>5. \/ stamp' = [stamp EXCEPT ![t] = Now] /\ clock' = Now
          \/ /\ clock' = clock
             /\ \/ stamp' = [stamp EXCEPT ![t] = parallel[o].barrierEnd]
                \/ stamp' = [stamp EXCEPT ![t] = parallel[o].taskEnd]
      BY <2>2, <3>1 DEF BarrierEnd, TaskEnd
    <3>6. QED
      BY <2>2, <3>4, <3>5
  <2>3. QED
    BY <2>1, <2>2
<1>4. p = "team_check" <=> TeamBeginClock(t)
  BY <1>0, <1>1 DEF TypesOK, TeamBeginClock, BarrierEnd, TaskEnd, Goto
<1>5. /\ clock' \in Nat /\ clock' >= clock /\ (Tick = 0 => clock' = clock)
      /\ stamp'[t] \in 0..clock' /\ (pc'[t] = "team_check" => stamp'[t] # 0)
  <2>1. pc'[t] = p
    BY <1>0, <1>1 DEF TypesOK
  <2>2. CASE stamp' = [stamp EXCEPT ![t] = Now] /\ clock' = Now
    BY <1>0, <2>2, NowFacts DEF TypesOK
  <2>3. CASE /\ clock' = clock /\ ~TeamBeginClock(t)
             /\ \E s \in 0..clock : stamp' = [stamp EXCEPT ![t] = s]
    BY <1>0, <1>4, <2>1, <2>3, NowFacts DEF TypesOK
  <2>4. QED
    BY <1>3, <2>2, <2>3
<1>6. \A u \in Threads : u # t => stamp'[u] = stamp[u] /\ pc'[u] = pc[u]
  BY <1>0, <1>1, <1>3 DEF TypesOK
<1>7. \A o \in Parallels : parallel'[o].barrierEnd \in 0..clock' /\ parallel'[o].taskEnd \in 0..clock'
  BY <1>2, <1>5, NowFacts, SMTT(30) DEF TimesOK
<1>8. QED
  BY <1>2, <1>5, <1>6, <1>7, TimesFrame

LEMMA TeamBeginCheckTimes ==
    ASSUME OmptTeamsInv, TimesOK, NEW t \in Threads, TeamBeginCheck(t)
    PROVE  TimesOK' /\ (Tick = 0 => bug' = bug)
<1> USE Facts, ThreadFacts
<1>1. /\ pc[t] = "team_check" /\ pc' = [pc EXCEPT ![t] = "overdue"]
      /\ clock' = clock /\ lastTimestamp' = lastTimestamp /\ parallel' = parallel
      /\ stamp' = [stamp EXCEPT ![t] = 0]
  BY DEF TeamBeginCheck, Goto, eventVars, poolVars
<1>2. TimesOK'
  BY <1>1, QuietTimes
<1>3. ASSUME Tick = 0  PROVE  bug' = bug
  <2>1. stamp[t] \in 0..clock /\ stamp[t] # 0 /\ clock = 1 /\ lastTimestamp[index[t]] <= clock
    BY <1>1, <1>3 DEF TimesOK
  <2>2. lastTimestamp[index[t]] \in Nat
    BY DEF TimesOK
  <2>3. ~(lastTimestamp[index[t]] > stamp[t])
    BY <2>1, <2>2
  <2>4. QED
    BY <2>3 DEF TeamBeginCheck, BugOn
<1>4. QED
  BY <1>2, <1>3

LEMMA BeginTimes ==
    ASSUME OmptTeamsInv, TimesOK, NEW t \in Threads, TaskBegin(t) \/ BarrierBegin(t)
    PROVE  TimesOK' /\ bug' \in {bug, "implicit_task: a task is stored"}
<1> USE Facts, ThreadFacts
<1>0. TypeOK /\ TypesOK
  BY ThreadFacts
<1>1. PICK l \in Indices : l = index[t]
  OBVIOUS
<1>2. CASE TaskBegin(t)
  <2>1. /\ clock' = Now /\ lastTimestamp' = [lastTimestamp EXCEPT ![l] = Now]
        /\ pc' = [pc EXCEPT ![t] = "running"] /\ stamp' = [stamp EXCEPT ![t] = 0]
        /\ parallel' = parallel
    BY <1>1, <1>2, Zenon DEF TaskBegin, Return, Goto
  <2>2. bug' \in {bug, "implicit_task: a task is stored"}
    <3>1. BugOn(stored[index[t]] # None, "implicit_task: a task is stored")
      BY <1>2, Zenon DEF TaskBegin
    <3>2. QED
      BY <3>1, Zenon DEF BugOn
  <2>3. /\ clock' \in Nat /\ clock' >= clock /\ (Tick = 0 => clock' = clock)
        /\ stamp'[t] = 0 /\ pc'[t] = "running"
        /\ \A u \in Threads : u # t => stamp'[u] = stamp[u] /\ pc'[u] = pc[u]
    BY <1>0, <2>1, NowFacts DEF TypesOK
  <2>4. \E s \in 0..clock' : lastTimestamp' = [lastTimestamp EXCEPT ![l] = s]
    <3>1. Now \in 0..clock'
      BY <2>1, NowFacts
    <3>2. lastTimestamp' = [lastTimestamp EXCEPT ![l] = Now]
      BY <2>1
    <3>3. QED
      BY <3>1, <3>2, Zenon
  <2>5. \A o \in Parallels : parallel'[o].barrierEnd \in 0..clock' /\ parallel'[o].taskEnd \in 0..clock'
    BY <2>1, <2>3, NowFacts, SMTT(30) DEF TimesOK
  <2>6. stamp'[t] \in 0..clock'
    BY <2>3
  <2>7. TimesOK'
    BY <2>3, <2>4, <2>5, <2>6, TimesFrame
  <2>8. QED
    BY <2>2, <2>7
<1>3. CASE BarrierBegin(t)
  <2>1. /\ pc' = [pc EXCEPT ![t] = "barrier"] /\ stamp' = stamp
        /\ parallel' = parallel /\ bug' = bug
    BY <1>3, Zenon DEF BarrierBegin, Goto
  <2>2. \/ clock' = Now /\ lastTimestamp' = [lastTimestamp EXCEPT ![l] = Now]
        \/ clock' = clock /\ lastTimestamp' = lastTimestamp
    BY <1>1, <1>3, Zenon DEF BarrierBegin, eventVars
  <2>3. /\ clock' \in Nat /\ clock' >= clock /\ (Tick = 0 => clock' = clock)
        /\ pc'[t] = "barrier"
        /\ \A u \in Threads : u # t => stamp'[u] = stamp[u] /\ pc'[u] = pc[u]
    BY <1>0, <2>1, <2>2, NowFacts DEF TypesOK
  <2>4. \/ lastTimestamp' = lastTimestamp
        \/ \E s \in 0..clock' : lastTimestamp' = [lastTimestamp EXCEPT ![l] = s]
    <3>1. clock' = Now => Now \in 0..clock'
      BY NowFacts
    <3>2. QED
      BY <2>2, <3>1, Zenon
  <2>5. \A o \in Parallels : parallel'[o].barrierEnd \in 0..clock' /\ parallel'[o].taskEnd \in 0..clock'
    <3>1. clock' \in Nat /\ clock' >= clock /\ clock \in Nat
      BY <2>3, NowFacts
    <3>2. \A o \in Parallels : parallel'[o].barrierEnd \in 0..clock /\ parallel'[o].taskEnd \in 0..clock
      BY <2>1 DEF TimesOK
    <3>3. QED
      BY <3>1, <3>2, SMTT(30)
  <2>6. stamp'[t] \in 0..clock'
    BY <2>1, <2>3, NowFacts DEF TimesOK
  <2>7. TimesOK'
    BY <2>3, <2>4, <2>5, <2>6, TimesFrame
  <2>8. QED
    BY <2>1, <2>7
<1>4. QED
  BY <1>2, <1>3

(* The time of an end is the primary's or a new one, and never 0. *)
LEMMA ExitTimes ==
    ASSUME OmptTeamsInv, TimesOK, NEW t \in Threads, BarrierExit(t) \/ TaskExit(t)
    PROVE  TimesOK' /\ (Tick = 0 => bug' \in {bug, "sync_region_end: none open"})
<1> USE Facts, ThreadFacts
<1>0. TypeOK /\ TypesOK
  BY ThreadFacts
<1>1. PICK x : x = object[t]
  OBVIOUS
<1>2. PICK o : o = task[x].parallel
  OBVIOUS
<1>3. PICK l \in Indices : l = index[t]
  OBVIOUS
<1>4. pc[t] \in {"barrier_exit", "task_exit"}
  BY DEF BarrierExit, TaskExit
<1>5. o \in Parallels /\ task[x].index = l
  BY <1>1, <1>2, <1>3, <1>4, ObjectFacts DEF Writing
<1>6. /\ clock' = IF l # 0 /\ stamp[t] = 0 THEN Now ELSE clock
      /\ \/ parallel' = parallel
         \/ parallel' = [parallel EXCEPT ![o].barrierEnd = stamp[t]]
         \/ parallel' = [parallel EXCEPT ![o].taskEnd = stamp[t]]
      /\ stamp' = stamp \/ stamp' = [stamp EXCEPT ![t] = 0]
  <2>1. /\ clock' = IF task[object[t]].index # 0 /\ stamp[t] = 0 THEN Now ELSE clock
        /\ \/ parallel' = parallel
           \/ parallel' = [parallel EXCEPT ![task[object[t]].parallel].barrierEnd = stamp[t]]
           \/ parallel' = [parallel EXCEPT ![task[object[t]].parallel].taskEnd = stamp[t]]
        /\ stamp' = stamp \/ stamp' = [stamp EXCEPT ![t] = 0]
    BY Zenon DEF BarrierExit, TaskExit
  <2>2. object[t] = x /\ task[object[t]].parallel = o /\ task[object[t]].index = l
    BY <1>1, <1>2, <1>5
  <2>3. QED
    BY <2>1, <2>2, Zenon
<1>7. PICK p : pc' = [pc EXCEPT ![t] = p] /\ p # "team_check"
  <2>1. \/ pc' = [pc EXCEPT ![t] = IF caller[t] = "overdue" THEN "task_end" ELSE "decide"]
        \/ pc' = [pc EXCEPT ![t] = "task_begin"]
        \/ pc' = [pc EXCEPT ![t] = "release"]
    BY Zenon DEF BarrierExit, TaskExit, Goto
  <2>2. (IF caller[t] = "overdue" THEN "task_end" ELSE "decide") # "team_check"
    OBVIOUS
  <2>3. "task_begin" # "team_check" /\ "release" # "team_check"
    OBVIOUS
  <2>4. QED
    BY <2>1, <2>2, <2>3, Zenon
<1>8. PICK s : s = OwnTime(t, x)
  OBVIOUS
<1>9. s = IF l # 0 /\ stamp[t] = 0 THEN Now ELSE stamp[t]
  BY <1>5, <1>8 DEF OwnTime
<1>10. \/ SetLastTimestamp(l, s)
       \/ /\ lastTimestamp' = lastTimestamp
          /\ bug' \in {bug, "sync_region_end: none open"}
  <2>1. \/ SetLastTimestamp(task[object[t]].index, OwnTime(t, object[t]))
        \/ /\ lastTimestamp' = lastTimestamp
           /\ bug' = bug \/ bug' = "sync_region_end: none open"
    BY Zenon DEF BarrierExit, TaskExit
  <2>2. object[t] = x /\ task[object[t]].index = l /\ OwnTime(t, x) = s
    BY <1>1, <1>5, <1>8
  <2>3. \/ SetLastTimestamp(l, s)
        \/ /\ lastTimestamp' = lastTimestamp
           /\ bug' = bug \/ bug' = "sync_region_end: none open"
    BY <2>1, <2>2, Zenon
  <2>4. QED
    BY <2>3, Zenon
<1>11. stamp[t] \in 0..clock /\ (l = 0 => stamp[t] # 0)
  <2>1. stamp[t] \in 0..clock
    BY DEF TimesOK
  <2>2. l = 0 => t = Primary
    BY <1>3, <1>4 DEF ControlOK
  <2>3. QED
    BY <1>4, <2>1, <2>2 DEF OmptTeamsInv, EndKnownOK
<1>12. /\ clock' \in Nat /\ clock' >= clock /\ (Tick = 0 => clock' = clock)
       /\ s \in 0..clock' /\ s # 0 /\ clock \in Nat
  <2>1. clock' = IF l # 0 /\ stamp[t] = 0 THEN Now ELSE clock
    BY <1>6
  <2>2. CASE l # 0 /\ stamp[t] = 0
    <3>1. clock' = Now /\ s = Now
      BY <1>9, <2>1, <2>2
    <3>2. QED
      BY <3>1, NowFacts
  <2>3. CASE ~(l # 0 /\ stamp[t] = 0)
    <3>1. clock' = clock /\ s = stamp[t]
      BY <1>9, <2>1, <2>3
    <3>2. QED
      BY <1>11, <2>3, <3>1, NowFacts
  <2>4. QED
    BY <2>2, <2>3
<1>13. lastTimestamp' = lastTimestamp \/ lastTimestamp' = [lastTimestamp EXCEPT ![l] = s]
  BY <1>10, Zenon DEF SetLastTimestamp
<1>14. /\ pc'[t] = p /\ stamp'[t] \in 0..clock'
       /\ \A u \in Threads : u # t => stamp'[u] = stamp[u] /\ pc'[u] = pc[u]
  <2>1. pc \in [Threads -> Points] /\ stamp \in [Threads -> Nat]
    BY <1>0 DEF TypesOK
  <2>2. stamp' = stamp \/ stamp' = [stamp EXCEPT ![t] = 0]
    BY <1>6
  <2>3. pc'[t] = p /\ \A u \in Threads : u # t => pc'[u] = pc[u]
    BY <1>7, <2>1
  <2>4. stamp'[t] \in {0, stamp[t]} /\ \A u \in Threads : u # t => stamp'[u] = stamp[u]
    BY <2>1, <2>2
  <2>5. stamp'[t] \in 0..clock'
    BY <1>11, <1>12, <2>4
  <2>6. QED
    BY <2>3, <2>4, <2>5
<1>15. \A q \in Parallels : parallel'[q].barrierEnd \in 0..clock' /\ parallel'[q].taskEnd \in 0..clock'
  <2>1. \A q \in Parallels : parallel'[q].barrierEnd \in 0..clock /\ parallel'[q].taskEnd \in 0..clock
    <3>1. \A q \in Parallels : parallel[q].barrierEnd \in 0..clock /\ parallel[q].taskEnd \in 0..clock
      BY DEF TimesOK
    <3>2. QED
      BY <1>0, <1>5, <1>6, <1>11, <1>12, <3>1, EndsSet
  <2>2. QED
    BY <1>12, <2>1, SMTT(30)
<1>16. TimesOK'
  <2>1. \/ lastTimestamp' = lastTimestamp
        \/ \E r \in 0..clock' : lastTimestamp' = [lastTimestamp EXCEPT ![l] = r]
    BY <1>12, <1>13
  <2>2. pc'[t] # "team_check"
    BY <1>7, <1>14
  <2>3. QED
    BY <1>12, <1>14, <1>15, <2>1, <2>2, TimesFrame
<1>17. ASSUME Tick = 0  PROVE  bug' \in {bug, "sync_region_end: none open"}
  <2>1. clock = 1 /\ lastTimestamp[l] <= clock /\ lastTimestamp[l] \in Nat
    BY <1>17 DEF TimesOK
  <2>2. s >= 1
    BY <1>12
  <2>3. ~(s < lastTimestamp[l])
    BY <1>12, <2>1, <2>2
  <2>4. QED
    BY <1>10, <2>3 DEF SetLastTimestamp, BugOn
<1>18. QED
  BY <1>16, <1>17

TimesInv == OmptTeamsInv /\ TimesOK /\ (Tick = 0 => bug = None)

LEMMA TimesInductive == TimesInv /\ [Next]_vars => TimesInv'
<1> SUFFICES ASSUME TimesInv, [Next]_vars  PROVE  TimesInv'
  OBVIOUS
<1>1. OmptTeamsInv /\ TimesOK /\ OmptTeamsInv'
  BY Inductive DEF TimesInv
<1>2. bug' \in TimestampBugs \cup {None}
  BY <1>1 DEF OmptTeamsInv
<1>3. /\ TimesOK'
      /\ Tick = 0 => bug' \in {bug, "finalize_tool: no time", "parallel_begin: no stored task",
                               "parallel_end: a task is stored", "implicit_task: a task is stored",
                               "sync_region_end: none open"}
  <2>1. CASE UNCHANGED vars
    <3>1. /\ clock' = clock /\ lastTimestamp' = lastTimestamp /\ parallel' = parallel
          /\ pc' = pc /\ stamp' = stamp /\ bug' = bug
      BY <2>1 DEF vars, eventVars, poolVars, threadVars
    <3>2. QED
      BY <1>1, <3>1 DEF TimesOK
  <2>2. CASE Around
    BY <1>1, <2>2, AroundTimes
  <2>3. ASSUME NEW t \in Threads, Silent(t)
        PROVE  TimesOK' /\ bug' \in {bug, "finalize_tool: no time"}
    BY <1>1, <2>3, SilentTimes
  <2>4. ASSUME NEW t \in Threads, TeamBeginClock(t) \/ BarrierEnd(t) \/ TaskEnd(t)
        PROVE  TimesOK' /\ bug' = bug
    BY <1>1, <2>4, ReadTimes
  <2>5. ASSUME NEW t \in Threads, TeamBeginCheck(t)
        PROVE  TimesOK' /\ (Tick = 0 => bug' = bug)
    BY <1>1, <2>5, TeamBeginCheckTimes
  <2>6. ASSUME NEW t \in Threads, TaskBegin(t) \/ BarrierBegin(t)
        PROVE  TimesOK' /\ bug' \in {bug, "implicit_task: a task is stored"}
    BY <1>1, <2>6, BeginTimes
  <2>7. ASSUME NEW t \in Threads, BarrierExit(t) \/ TaskExit(t)
        PROVE  TimesOK' /\ (Tick = 0 => bug' \in {bug, "sync_region_end: none open"})
    BY <1>1, <2>7, ExitTimes
  <2>8. \/ UNCHANGED vars \/ Around
        \/ \E t \in Threads :
             \/ Silent(t) \/ TeamBeginClock(t) \/ BarrierEnd(t) \/ TaskEnd(t)
             \/ TeamBeginCheck(t) \/ TaskBegin(t) \/ BarrierBegin(t)
             \/ BarrierExit(t) \/ TaskExit(t)
    BY Zenon DEF Next, Ended, Around, Step, Silent
  <2>9. QED
    BY <2>1, <2>2, <2>3, <2>4, <2>5, <2>6, <2>7, <2>8
<1>4. Tick = 0 => bug' = None
  BY <1>2, <1>3 DEF TimesInv, TimestampBugs
<1>5. QED
  BY <1>1, <1>3, <1>4 DEF TimesInv

(* When all reads of the clock fall into one tick, the times are in order as
   well, and no assertion of the adapter or of the core fails. *)
THEOREM NoAssertionEverFails ==
    ASSUME Tick = 0  PROVE  Spec => []NoAssertionFails
<1>1. Init => TimesInv
  <2>1. ASSUME Init  PROVE  TimesOK /\ bug = None
    <3>1. /\ clock = 1 /\ lastTimestamp = [l \in Indices |-> 0]
          /\ stamp = [t \in Threads |-> 0] /\ bug = None
          /\ \A t \in Threads : pc[t] \in {"serial", "idle"}
      BY <2>1 DEF Init
    <3>2. \A o \in Parallels : parallel[o].barrierEnd = 0 /\ parallel[o].taskEnd = 0
      BY <2>1 DEF Init
    <3>3. QED
      BY <3>1, <3>2 DEF TimesOK
  <2>2. QED
    BY <2>1, Initially DEF TimesInv
<1>2. TimesInv => NoAssertionFails
  BY DEF TimesInv, NoAssertionFails
<1>3. QED
  BY <1>1, <1>2, TimesInductive, PTL DEF Spec
=============================================================================

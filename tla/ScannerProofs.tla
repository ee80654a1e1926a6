--------------------------- MODULE ScannerProofs ---------------------------
(* Proofs about Scanner.                                                   *)
EXTENDS Scanner, FiniteSetTheorems, TLAPS

(* A group has at most MaxTo operations, and at least one when its         *)
(* directory has a destination.                                            *)
LEMMA GroupSizeType ==
  ASSUME NEW d \in Dirs
  PROVE  /\ GroupSize(d) \in 0..MaxTo
         /\ to_size[d] > 0 => GroupSize(d) > 0
         /\ OnlyMove(d) => GroupSize(d) = 1
  BY ConstantsAssumption DEF GroupSize, OnlyMove

LEMMA IndexType == /\ Index \subseteq Nat
                   /\ 0 \in Index
                   /\ IsFiniteSet(Index)
                   /\ IsFiniteSet(Groups)
                   /\ \A d \in Dirs : 1..GroupSize(d) \subseteq Index
  <1>1. IsFiniteSet(Index)
    BY ConstantsAssumption, FS_Interval, 0 \in Int, MaxTo \in Int DEF Index
  <1>2. IsFiniteSet(Groups)
    BY ConstantsAssumption, FS_Product DEF Groups
  <1>3. QED
    BY <1>1, <1>2, ConstantsAssumption, GroupSizeType DEF Index

(* The handlers of any set of groups are finitely many.                    *)
LEMMA HandlersFinite ==
  ASSUME NEW S, S \subseteq Groups \X Index
  PROVE  IsFiniteSet(S)
  BY IndexType, FS_Product, FS_Subset

LEMMA InitInv == Init => IInv
  <1> SUFFICES ASSUME Init PROVE IInv
    OBVIOUS
  <1>1. TypeOK
    BY ConstantsAssumption DEF Init, TypeOK, Groups, Index, PC, Place, Kind, NoWait
  <1>2. ThreadInv /\ OwnerInv /\ PlaceInv /\ RemovalInv
    BY IndexType, ConstantsAssumption DEF Init, ThreadInv, OwnerInv, PlaceInv, RemovalInv, Running
  <1>3. PendingInv
    <2> SUFFICES ASSUME NEW g \in Groups
                 PROVE  pending_operations[g] = Cardinality(Uncounted(g))
      BY DEF PendingInv
    <2>1. Uncounted(g) = {}
      BY DEF Init, Uncounted
    <2>2. QED BY <2>1, FS_EmptySet DEF Init
  <1>4. ActiveTasksExact
    <2> SUFFICES ASSUME NEW d \in Dirs
                 PROVE  active_tasks[d] = Cardinality(Outstanding(d))
      BY DEF ActiveTasksExact
    <2>1. Outstanding(d) = {}
      BY DEF Init, Outstanding
    <2>2. QED BY <2>1, FS_EmptySet DEF Init
  <1>5. NeverForgotten
    BY DEF Init, NeverForgotten, HasWork, Kind, NoWait
  <1>6. QED
    BY <1>1, <1>2, <1>3, <1>4, <1>5 DEF IInv
-----------------------------------------------------------------------------
(* Steps that leave the groups alone: a thread that holds no handler of a  *)
(* group before or after the step, or a timer.                             *)

GroupPC == {"post", "op", "last", "sub", "delete"}

Quiet ==
  /\ UNCHANGED <<at, pending_operations, active_tasks, grp, idx>>
  /\ \A u \in Threads :
       \/ pc'[u] = pc[u] /\ job'[u] = job[u]
       \/ pc[u] \notin GroupPC /\ pc'[u] \notin GroupPC

(* No operation is counted down or put on account.                         *)
UncountedKept == \A g \in Groups : Uncounted(g)' = Uncounted(g)

LEMMA QuietStep ==
  ASSUME IInv, Quiet
  PROVE  /\ OwnerInv' /\ PlaceInv' /\ PendingInv' /\ RemovalInv' /\ ActiveTasksExact'
         /\ UncountedKept
  <1>1. \A u \in Threads : /\ Running(u)' = Running(u)
                           /\ \A p \in GroupPC : pc'[u] = p <=> pc[u] = p
                           /\ pc[u] = "post" => job'[u] = job[u]
    BY DEF Quiet, Running, GroupPC
  <1>2. OwnerInv'
    BY <1>1 DEF IInv, Quiet, OwnerInv, GroupPC
  <1>3. PlaceInv'
    BY <1>1 DEF IInv, Quiet, PlaceInv, GroupPC
  <1>4. UncountedKept
    BY <1>1 DEF Quiet, Uncounted, GroupPC, UncountedKept
  <1>5. PendingInv'
    BY <1>4 DEF IInv, PendingInv, Quiet, UncountedKept
  <1>6. RemovalInv'
    BY <1>1 DEF IInv, Quiet, RemovalInv, GroupPC
  <1>7. ActiveTasksExact'
    <2>1. \A d \in Dirs : Outstanding(d)' = Outstanding(d)
      BY DEF Quiet, Outstanding
    <2>2. QED BY <2>1 DEF IInv, ActiveTasksExact, Quiet
  <1>8. QED
    BY <1>2, <1>3, <1>4, <1>5, <1>6, <1>7

(* A step that takes nothing away from a directory leaves it its work.     *)
LEMMA WorkKept ==
  ASSUME IInv, NEW e \in Dirs, to_size[e] > 0,
         ready'[e] = ready[e], waiting'[e] = waiting[e],
         \A u \in Threads : job[u] = e => job'[u] = e,
         \A g \in Groups, i \in Index :
           g[1] = e /\ at[g][i] = "queued" => at'[g][i] = "queued"
  PROVE  HasWork(e)'
  <1>1. HasWork(e)
    BY DEF IInv, NeverForgotten
  <1>2. ASSUME NEW u \in Outstanding(e), at[u[1]][u[2]] = "queued"
        PROVE  u \in Outstanding(e)' /\ at'[u[1]][u[2]] = "queued"
    BY <1>2 DEF Outstanding
  <1>3. QED
    BY <1>1, <1>2 DEF HasWork

LEMMA ScanStartStep ==
  ASSUME IInv, NEW t \in Threads, NEW d \in Dirs, ScanStart(t, d)
  PROVE  IInv'
  <1>1. TypeOK'
    BY ConstantsAssumption DEF IInv, TypeOK, ScanStart, PC, Kind, groupVars
  <1>2. Quiet
    BY DEF IInv, TypeOK, ScanStart, Quiet, GroupPC, groupVars
  <1>3. ThreadInv'
    BY ConstantsAssumption DEF IInv, TypeOK, ThreadInv, Running, ScanStart, groupVars
  <1>4. NeverForgotten'
    <2> SUFFICES ASSUME NEW e \in Dirs, to_size[e] > 0
                 PROVE  HasWork(e)'
      BY DEF NeverForgotten
    <2>1. CASE e = d
      BY <2>1 DEF IInv, TypeOK, ScanStart, HasWork
    <2>2. CASE e # d
      <3>1. \A u \in Threads : job[u] = e => job'[u] = e
        BY <2>2, ConstantsAssumption DEF IInv, TypeOK, ThreadInv, ScanStart
      <3>2. ready'[e] = ready[e] /\ waiting' = waiting /\ at' = at
        BY <2>2 DEF IInv, TypeOK, ScanStart, groupVars
      <3>3. QED BY <3>1, <3>2, WorkKept
    <2>3. QED BY <2>1, <2>2
  <1>5. QED
    BY <1>1, <1>2, <1>3, <1>4, QuietStep DEF IInv
LEMMA ScanEndStep ==
  ASSUME IInv, NEW t \in Threads, NEW ok \in ScanResults, ScanEnd(t, ok)
  PROVE  IInv'
  <1> DEFINE d == job[t]
  <1>0. d \in Dirs
    BY DEF IInv, TypeOK, ThreadInv, ScanEnd
  <1>1. TypeOK'
    BY <1>0, ConstantsAssumption
    DEF IInv, TypeOK, ScanEnd, PC, Kind, groupVars, timerVars
  <1>2. Quiet
    BY DEF IInv, TypeOK, ScanEnd, Quiet, GroupPC, groupVars
  <1>3. ThreadInv'
    BY DEF IInv, TypeOK, ThreadInv, Running, ScanEnd, groupVars
  <1>4. NeverForgotten'
    BY WorkKept DEF IInv, NeverForgotten, ScanEnd, groupVars, timerVars
  <1>5. QED
    BY <1>1, <1>2, <1>3, <1>4, QuietStep DEF IInv

LEMMA TakeRecheckStep ==
  ASSUME IInv, NEW t \in Threads, NEW d \in Dirs, TakeRecheck(t, d)
  PROVE  IInv'
  <1>1. TypeOK'
    BY DEF IInv, TypeOK, TakeRecheck, PC, Kind, groupVars
  <1>2. Quiet
    BY DEF IInv, TypeOK, TakeRecheck, Quiet, GroupPC, groupVars
  <1>3. ThreadInv'
    BY ConstantsAssumption
    DEF IInv, TypeOK, ThreadInv, Running, TakeRecheck, groupVars
  <1>4. NeverForgotten'
    <2> SUFFICES ASSUME NEW e \in Dirs, to_size[e] > 0
                 PROVE  HasWork(e)'
      BY DEF NeverForgotten
    <2>1. CASE e = d
      BY <2>1 DEF IInv, TypeOK, TakeRecheck, HasWork
    <2>2. CASE e # d
      <3>1. \A u \in Threads : job[u] = e => job'[u] = e
        BY <2>2, ConstantsAssumption DEF IInv, TypeOK, ThreadInv, TakeRecheck
      <3>2. ready'[e] = ready[e] /\ waiting' = waiting /\ at' = at
        BY <2>2 DEF IInv, TypeOK, TakeRecheck, groupVars
      <3>3. QED BY <3>1, <3>2, WorkKept
    <2>3. QED BY <2>1, <2>2
  <1>5. QED
    BY <1>1, <1>2, <1>3, <1>4, QuietStep DEF IInv

LEMMA ExpiresAfterStep ==
  ASSUME IInv, NEW t \in Threads, ExpiresAfter(t)
  PROVE  IInv'
  <1>1. TypeOK'
    BY DEF IInv, TypeOK, ExpiresAfter, PC, Kind, NoWait, groupVars
  <1>2. Quiet
    BY DEF IInv, TypeOK, ExpiresAfter, Quiet, GroupPC, groupVars
  <1>3. ThreadInv'
    BY DEF IInv, TypeOK, ThreadInv, Running, ExpiresAfter, groupVars
  <1>4. NeverForgotten'
    <2> SUFFICES ASSUME NEW e \in Dirs, to_size[e] > 0
                 PROVE  HasWork(e)'
      BY DEF NeverForgotten
    <2>1. CASE e = job[t]
      BY <2>1 DEF ExpiresAfter, HasWork
    <2>2. CASE e # job[t]
      BY <2>2, WorkKept DEF IInv, TypeOK, ExpiresAfter, groupVars
    <2>3. QED BY <2>1, <2>2
  <1>5. QED
    BY <1>1, <1>2, <1>3, <1>4, QuietStep DEF IInv

LEMMA AsyncWaitStep ==
  ASSUME IInv, NEW t \in Threads, AsyncWait(t)
  PROVE  IInv'
  <1>0. job[t] \in Dirs
    BY DEF IInv, TypeOK, ThreadInv, AsyncWait
  <1>1. TypeOK'
    BY <1>0 DEF IInv, TypeOK, AsyncWait, PC, Kind, groupVars
  <1>2. Quiet
    BY DEF IInv, TypeOK, AsyncWait, Quiet, GroupPC, groupVars
  <1>3. ThreadInv'
    BY DEF IInv, TypeOK, ThreadInv, Running, AsyncWait, groupVars
  <1>4. NeverForgotten'
    <2> SUFFICES ASSUME NEW e \in Dirs, to_size[e] > 0
                 PROVE  HasWork(e)'
      BY DEF NeverForgotten
    <2>1. CASE e = job[t]
      <3>1. waiting'[e][kind[t]] > 0 /\ kind[t] \in Kind
        BY <2>1 DEF IInv, TypeOK, AsyncWait
      <3>2. QED BY <3>1 DEF HasWork
    <2>2. CASE e # job[t]
      BY <2>2, WorkKept DEF IInv, TypeOK, AsyncWait, groupVars
    <2>3. QED BY <2>1, <2>2
  <1>5. QED
    BY <1>1, <1>2, <1>3, <1>4, QuietStep DEF IInv

LEMMA TimerExpiresStep ==
  ASSUME IInv, NEW d \in Dirs, TimerExpires(d)
  PROVE  IInv'
  <1>1. TypeOK'
    BY DEF IInv, TypeOK, TimerExpires, PC, Kind, NoWait, groupVars, threadVars
  <1>2. Quiet
    BY DEF TimerExpires, Quiet, groupVars, threadVars
  <1>3. ThreadInv'
    BY DEF IInv, ThreadInv, Running, TimerExpires, threadVars
  <1>4. NeverForgotten'
    <2> SUFFICES ASSUME NEW e \in Dirs, to_size[e] > 0
                 PROVE  HasWork(e)'
      BY DEF NeverForgotten
    <2>1. CASE e = d
      <3>1. PICK k \in Kind : waiting[d][k] # 0
        BY DEF IInv, TypeOK, TimerExpires, NoWait
      <3>2. waiting[d][k] \in Nat /\ ready[d][k] \in Nat
        BY DEF IInv, TypeOK
      <3>3. ready'[d][k] = ready[d][k] + waiting[d][k]
        BY DEF IInv, TypeOK, TimerExpires
      <3>4. ready'[d][k] > 0
        BY <3>1, <3>2, <3>3
      <3>5. QED BY <2>1, <3>4 DEF HasWork
    <2>2. CASE e # d
      BY <2>2, WorkKept
      DEF IInv, TypeOK, TimerExpires, groupVars, threadVars
    <2>3. QED BY <2>1, <2>2
  <1>5. QED
    BY <1>1, <1>2, <1>3, <1>4, QuietStep DEF IInv

(* A handler that a directory with a destination still owes is in the      *)
(* queue, or a thread is at work on its group.                             *)
LEMMA OutstandingIsWork ==
  ASSUME IInv, NEW d \in Dirs, to_size[d] > 0, active_tasks[d] # 0
  PROVE  \/ \E u \in Outstanding(d) : at[u[1]][u[2]] = "queued"
         \/ \E t \in Threads : job[t] = d /\ pc[t] \in GroupPC
  <1>1. Outstanding(d) # {}
    BY FS_EmptySet DEF IInv, ActiveTasksExact
  <1>2. PICK g \in Groups, i \in Index : g[1] = d /\ at[g][i] # "none"
    BY <1>1 DEF Outstanding
  <1> DEFINE Busy == \E t \in Threads : job[t] = d /\ pc[t] \in GroupPC
  <1>3. \A t \in Threads : grp[t] = g /\ (pc[t] = "post" \/ Running(t)) => Busy
    BY <1>2 DEF IInv, ThreadInv, Running, GroupPC
  <1>4. ASSUME NEW j \in Index, at[g][j] = "queued"
        PROVE  \E u \in Outstanding(d) : at[u[1]][u[2]] = "queued"
    <2>1. <<g, j>> \in Outstanding(d)
      BY <1>2, <1>4 DEF Outstanding
    <2>2. QED BY <1>4, <2>1
  <1>5. ASSUME NEW j \in Index, j # 0, at[g][j] = "owed"
        PROVE  Busy
    BY <1>3, <1>5, IndexType DEF IInv, PlaceInv
  <1>6. CASE at[g][i] \in {"queued", "running"}
    BY <1>3, <1>4, <1>6 DEF IInv, PlaceInv
  <1>7. CASE at[g][i] = "owed" /\ i # 0
    BY <1>5, <1>7
  <1>8. CASE at[g][i] = "owed" /\ i = 0
    <2>1. GroupSize(g[1]) > 0
      BY <1>2, GroupSizeType
    <2>2. CASE pending_operations[g] = 0
      BY <1>3, <1>8, <2>1, <2>2 DEF IInv, RemovalInv, Running
    <2>3. CASE pending_operations[g] # 0
      <3>1. Uncounted(g) # {}
        BY <2>3, FS_EmptySet DEF IInv, PendingInv
      <3>2. PICK j \in Index \ {0} :
              \/ at[g][j] \in {"owed", "queued"}
              \/ \E t \in Threads : pc[t] = "op" /\ grp[t] = g /\ idx[t] = j
        BY <3>1 DEF Uncounted
      <3>3. QED BY <1>3, <1>4, <1>5, <3>2 DEF Running
    <2>4. QED BY <2>2, <2>3
  <1>9. QED
    BY <1>2, <1>6, <1>7, <1>8 DEF IInv, TypeOK, Place

LEMMA CheckCompletionStep ==
  ASSUME IInv, NEW t \in Threads, CheckCompletion(t)
  PROVE  IInv'
  <1>0. job[t] \in Dirs
    BY DEF IInv, TypeOK, ThreadInv, CheckCompletion
  <1>1. TypeOK'
    BY DEF IInv, TypeOK, CheckCompletion, PC, Kind, groupVars, timerVars
  <1>2. Quiet
    BY DEF IInv, TypeOK, CheckCompletion, Quiet, GroupPC, groupVars
  <1>3. ThreadInv'
    BY <1>0, ConstantsAssumption
    DEF IInv, TypeOK, ThreadInv, Running, CheckCompletion, groupVars
  <1>4. NeverForgotten'
    <2> SUFFICES ASSUME NEW e \in Dirs, to_size[e] > 0
                 PROVE  HasWork(e)'
      BY DEF NeverForgotten
    <2>1. CASE active_tasks[job[t]] = 0 \/ e # job[t]
      <3>1. \A u \in Threads : job[u] = e => job'[u] = e
        BY <2>1 DEF IInv, TypeOK, CheckCompletion
      <3>2. QED
        BY <3>1, WorkKept DEF CheckCompletion, groupVars, timerVars
    <2>2. CASE active_tasks[job[t]] # 0 /\ e = job[t]
      <3>1. CASE \E u \in Outstanding(e) : at[u[1]][u[2]] = "queued"
        BY <3>1 DEF CheckCompletion, HasWork, Outstanding, groupVars
      <3>2. CASE \E u \in Threads : job[u] = e /\ pc[u] \in GroupPC
        <4>1. PICK u \in Threads : job[u] = e /\ pc[u] \in GroupPC
          BY <3>2
        <4>2. job'[u] = e
          BY <4>1 DEF IInv, TypeOK, CheckCompletion, GroupPC
        <4>3. QED BY <4>2 DEF HasWork
      <3>3. QED BY <2>2, <3>1, <3>2, OutstandingIsWork
    <2>3. QED BY <2>1, <2>2
  <1>5. QED
    BY <1>1, <1>2, <1>3, <1>4, QuietStep DEF IInv
-----------------------------------------------------------------------------
(* Steps that move one handler of a group.                                 *)

(* Moving one handler between places other than "none" leaves every        *)
(* directory owing what it owed.                                           *)
LEMMA OutstandingKept ==
  ASSUME TypeOK, NEW g \in Groups, NEW i \in Index, NEW p \in Place,
         at' = [at EXCEPT ![g][i] = p], at[g][i] # "none", p # "none"
  PROVE  \A d \in Dirs : Outstanding(d)' = Outstanding(d)
  <1>1. \A h \in Groups, j \in Index : at'[h][j] # "none" <=> at[h][j] # "none"
    BY DEF TypeOK
  <1>2. QED BY <1>1 DEF Outstanding

(* Handing handler i of group g back leaves its directory one less to owe, *)
(* and the other directories what they owed.                               *)
LEMMA OutstandingLess ==
  ASSUME TypeOK, ActiveTasksExact, NEW g \in Groups, NEW i \in Index,
         at' = [at EXCEPT ![g][i] = "none"], at[g][i] # "none",
         active_tasks' = [active_tasks EXCEPT ![g[1]] = @ - 1]
  PROVE  ActiveTasksExact' /\ active_tasks' \in [Dirs -> Nat]
  <1> DEFINE d == g[1]
  <1>1. d \in Dirs /\ <<g, i>> \in Outstanding(d)
    BY DEF Groups, Outstanding
  <1>2. Outstanding(d)' = Outstanding(d) \ {<<g, i>>}
    <2>1. \A u \in Groups \X Index :
            at'[u[1]][u[2]] # "none" <=> at[u[1]][u[2]] # "none" /\ u # <<g, i>>
      BY DEF TypeOK
    <2>2. QED BY <2>1 DEF Outstanding
  <1>3. IsFiniteSet(Outstanding(d))
    BY HandlersFinite DEF Outstanding
  <1>4. /\ Cardinality(Outstanding(d)') = Cardinality(Outstanding(d)) - 1
        /\ Cardinality(Outstanding(d)) \in Nat
        /\ Cardinality(Outstanding(d)') \in Nat
    BY <1>1, <1>2, <1>3, FS_RemoveElement, FS_CardinalityType
  <1>5. active_tasks'[d] = active_tasks[d] - 1 /\ active_tasks[d] \in Nat
    BY <1>1 DEF TypeOK
  <1>6. active_tasks'[d] = Cardinality(Outstanding(d)')
    BY <1>1, <1>4, <1>5 DEF ActiveTasksExact
  <1>7. ASSUME NEW e \in Dirs, e # d
        PROVE  active_tasks'[e] = Cardinality(Outstanding(e)')
    <2>1. \A u \in Groups \X Index :
            u[1][1] = e => at'[u[1]][u[2]] = at[u[1]][u[2]]
      BY <1>7 DEF TypeOK
    <2>2. Outstanding(e)' = Outstanding(e)
      BY <2>1 DEF Outstanding
    <2>3. QED BY <1>7, <2>2 DEF TypeOK, ActiveTasksExact
  <1>8. active_tasks' \in [Dirs -> Nat]
    BY <1>1, <1>4, <1>6 DEF TypeOK
  <1>9. QED BY <1>6, <1>7, <1>8 DEF ActiveTasksExact

LEMMA PostOperationStep ==
  ASSUME IInv, NEW t \in Threads, PostOperation(t)
  PROVE  IInv' /\ UncountedKept
  <1> DEFINE d == job[t]
             g == grp[t]
             i == idx[t]
  <1>0. /\ d \in Dirs /\ g \in Groups /\ g[1] = d
        /\ i \in 1..GroupSize(d) /\ i \in Index /\ i # 0
        /\ at[g][i] = "owed"
    BY GroupSizeType DEF IInv, TypeOK, ThreadInv, OwnerInv, PostOperation, Groups, Index
  <1>1. TypeOK'
    <2>1. at' \in [Groups -> [Index -> Place]]
      BY <1>0 DEF IInv, TypeOK, PostOperation, Place
    <2>2. idx' \in [Threads -> Index]
      <3>1. GroupSize(d) \in 0..MaxTo
        BY <1>0, GroupSizeType
      <3>2. i # GroupSize(d) => i + 1 \in Index
        BY <1>0, <3>1, ConstantsAssumption DEF Index
      <3>3. QED
        BY <1>0, <3>2, IndexType DEF IInv, TypeOK, PostOperation
    <2>3. QED
      BY <2>1, <2>2 DEF IInv, TypeOK, PostOperation, PC, timerVars
  <1>2. ThreadInv'
    <2>1. job' = job /\ job[t] # None
      BY <1>0, ConstantsAssumption DEF PostOperation
    <2>2. i # GroupSize(d) => i + 1 \in 1..GroupSize(d)
      BY <1>0, GroupSizeType
    <2>3. CASE i = GroupSize(d)
      BY <1>0, <2>1, <2>3 DEF IInv, TypeOK, ThreadInv, Running, PostOperation
    <2>4. CASE i # GroupSize(d)
      BY <1>0, <2>1, <2>2, <2>4 DEF IInv, TypeOK, ThreadInv, Running, PostOperation
    <2>5. QED BY <2>3, <2>4
  <1>3. OwnerInv'
    <2>1. \A u \in Threads : Running(u)' = Running(u)
      BY DEF IInv, TypeOK, PostOperation, Running
    <2>2. \A u \in Threads : Running(u) => grp'[u] = grp[u] /\ idx'[u] = idx[u]
      BY DEF IInv, TypeOK, PostOperation, Running
    <2>3. ASSUME NEW u \in Threads, Running(u)
          PROVE  at'[grp'[u]][idx'[u]] = "running"
      BY <1>0, <2>2, <2>3 DEF IInv, TypeOK, OwnerInv, PostOperation
    <2>4. ASSUME NEW u \in Threads, pc'[u] = "post",
                 NEW j \in idx'[u]..GroupSize(job'[u])
          PROVE  at'[grp'[u]][j] = "owed"
      <3>1. pc[u] = "post" /\ grp'[u] = grp[u] /\ job'[u] = job[u]
        BY <2>4 DEF IInv, TypeOK, PostOperation
      <3>2. CASE u = t
        <4>1. idx'[t] = i + 1
          BY <2>4, <3>2 DEF IInv, TypeOK, PostOperation
        <4>2. j \in i..GroupSize(d) /\ j # i
          BY <1>0, <2>4, <3>1, <3>2, <4>1, GroupSizeType
        <4>3. QED
          BY <3>1, <3>2, <4>2, <1>0 DEF IInv, TypeOK, OwnerInv, PostOperation
      <3>3. CASE u # t
        BY <3>1, <3>3, <2>4, <1>0 DEF IInv, TypeOK, OwnerInv, PostOperation
      <3>4. QED BY <3>2, <3>3
    <2>5. \A u, v \in Threads :
            pc'[u] = "post" /\ pc'[v] = "post" /\ grp'[u] = grp'[v] => u = v
      BY DEF IInv, TypeOK, OwnerInv, PostOperation
    <2>6. QED
      BY <2>1, <2>2, <2>3, <2>4, <2>5 DEF IInv, OwnerInv
  <1>4. PlaceInv'
    <2> SUFFICES ASSUME NEW h \in Groups, NEW j \in Index
                 PROVE  /\ at'[h][j] # "none" => j <= GroupSize(h[1])
                        /\ at'[h][j] = "owed" /\ j > 0 =>
                             \E u \in Threads : pc'[u] = "post" /\ grp'[u] = h /\ idx'[u] <= j
                        /\ at'[h][j] = "running" =>
                             \E u \in Threads : Running(u)' /\ grp'[u] = h /\ idx'[u] = j
      BY DEF PlaceInv
    <2>1. at'[h][j] # "none" => j <= GroupSize(h[1])
      BY <1>0 DEF IInv, TypeOK, PlaceInv, PostOperation
    <2>2. ASSUME at'[h][j] = "owed", j > 0
          PROVE  \E u \in Threads : pc'[u] = "post" /\ grp'[u] = h /\ idx'[u] <= j
      <3>1. at[h][j] = "owed" /\ <<h, j>> # <<g, i>>
        BY <1>0, <2>2 DEF IInv, TypeOK, PostOperation
      <3>2. PICK u \in Threads : pc[u] = "post" /\ grp[u] = h /\ idx[u] <= j
        BY <2>2, <3>1 DEF IInv, PlaceInv
      <3>3. CASE u = t
        <4>1. j <= GroupSize(d) /\ j # i /\ j \in Int /\ i \in Int
          BY <1>0, <3>1, <3>2, <3>3, IndexType DEF IInv, PlaceInv
        <4>2. i < j /\ i # GroupSize(d)
          BY <1>0, <3>2, <3>3, <4>1, GroupSizeType
        <4>3. pc'[t] = "post" /\ grp'[t] = g /\ idx'[t] = i + 1
          BY <3>2, <3>3, <4>2 DEF IInv, TypeOK, PostOperation
        <4>4. QED BY <3>2, <3>3, <4>1, <4>2, <4>3
      <3>4. CASE u # t
        BY <3>2, <3>4 DEF IInv, TypeOK, PostOperation
      <3>5. QED BY <3>3, <3>4
    <2>3. ASSUME at'[h][j] = "running"
          PROVE  \E u \in Threads : Running(u)' /\ grp'[u] = h /\ idx'[u] = j
      <3>1. at[h][j] = "running"
        BY <1>0, <2>3 DEF IInv, TypeOK, PostOperation
      <3>2. PICK u \in Threads : Running(u) /\ grp[u] = h /\ idx[u] = j
        BY <3>1 DEF IInv, PlaceInv
      <3>3. Running(u)' /\ grp'[u] = h /\ idx'[u] = j
        BY <3>2 DEF IInv, TypeOK, PostOperation, Running
      <3>4. QED BY <3>3
    <2>4. QED BY <2>1, <2>2, <2>3
  <1>5. UncountedKept /\ PendingInv'
    <2>1. ASSUME NEW h \in Groups PROVE Uncounted(h)' = Uncounted(h)
      <3>1. \A j \in Index : at'[h][j] \in {"owed", "queued"} <=> at[h][j] \in {"owed", "queued"}
        BY <1>0 DEF IInv, TypeOK, PostOperation
      <3>2. \A u \in Threads : /\ pc'[u] = "op" <=> pc[u] = "op"
                               /\ pc[u] = "op" => grp'[u] = grp[u] /\ idx'[u] = idx[u]
        BY DEF IInv, TypeOK, PostOperation
      <3>3. QED BY <3>1, <3>2 DEF Uncounted
    <2>2. QED BY <2>1 DEF IInv, PendingInv, PostOperation, UncountedKept
  <1>6. RemovalInv'
    <2>1. \A u \in Threads : /\ pc'[u] = "last" <=> pc[u] = "last"
                             /\ pc[u] = "last" => grp'[u] = grp[u] /\ grp[u] \in Groups
      BY DEF IInv, TypeOK, ThreadInv, Running, PostOperation
    <2>2. \A h \in Groups : at'[h][0] = at[h][0]
      BY <1>0 DEF IInv, TypeOK, PostOperation
    <2>3. pending_operations' = pending_operations
      BY DEF PostOperation
    <2>4. QED BY <2>1, <2>2, <2>3 DEF IInv, RemovalInv
  <1>7. ActiveTasksExact'
    <2>1. \A e \in Dirs : Outstanding(e)' = Outstanding(e)
      BY <1>0, OutstandingKept DEF IInv, PostOperation, Place
    <2>2. QED BY <2>1 DEF IInv, ActiveTasksExact, PostOperation
  <1>8. NeverForgotten'
    <2>1. /\ \A u \in Threads : job'[u] = job[u]
          /\ \A h \in Groups, j \in Index : at[h][j] = "queued" => at'[h][j] = "queued"
      BY <1>0 DEF IInv, TypeOK, PostOperation
    <2>2. QED BY <2>1, WorkKept DEF NeverForgotten, PostOperation, timerVars
  <1>9. QED
    BY <1>1, <1>2, <1>3, <1>4, <1>5, <1>6, <1>7, <1>8 DEF IInv

(* A thread that takes a handler of a group, from the queue.               *)
LEMMA TakeHandlerStep ==
  ASSUME IInv, NEW t \in Threads, NEW g \in Groups, NEW i \in Index,
         TakeHandler(t, g, i)
  PROVE  IInv' /\ UncountedKept
  <1> DEFINE d == g[1]
  <1>0. /\ d \in Dirs /\ d # None
        /\ i <= GroupSize(d) /\ i \in Nat
        /\ at[g][i] = "queued" /\ job[t] = None
        /\ i # 0 => i \in 1..GroupSize(d)
    BY ConstantsAssumption, GroupSizeType, IndexType
    DEF IInv, ThreadInv, PlaceInv, TakeHandler, Groups
  <1>1. TypeOK'
    <2>1. at' \in [Groups -> [Index -> Place]]
      BY DEF IInv, TypeOK, TakeHandler, Place
    <2>2. QED
      BY <1>0, <2>1 DEF IInv, TypeOK, TakeHandler, PC, timerVars
  <1>2. ThreadInv'
    BY <1>0 DEF IInv, TypeOK, ThreadInv, Running, TakeHandler
  <1>3. \A u \in Threads : Running(u) =>
          /\ u # t /\ grp'[u] = grp[u] /\ idx'[u] = idx[u]
          /\ <<grp[u], idx[u]>> # <<g, i>>
    BY <1>0 DEF IInv, TypeOK, OwnerInv, Running, TakeHandler
  <1>4. \A u \in Threads : /\ u # t => Running(u)' = Running(u)
                           /\ Running(t)' /\ grp'[t] = g /\ idx'[t] = i
    BY DEF IInv, TypeOK, TakeHandler, Running
  <1>5. OwnerInv'
    <2>1. ASSUME NEW u \in Threads, Running(u)'
          PROVE  at'[grp'[u]][idx'[u]] = "running"
      BY <1>3, <1>4, <2>1 DEF IInv, TypeOK, OwnerInv, TakeHandler
    <2>2. ASSUME NEW u \in Threads, pc'[u] = "post",
                 NEW j \in idx'[u]..GroupSize(job'[u])
          PROVE  at'[grp'[u]][j] = "owed"
      BY <1>0, <2>2 DEF IInv, TypeOK, OwnerInv, TakeHandler
    <2>3. \A u, v \in Threads :
            pc'[u] = "post" /\ pc'[v] = "post" /\ grp'[u] = grp'[v] => u = v
      BY DEF IInv, TypeOK, OwnerInv, TakeHandler
    <2>4. QED
      BY <1>3, <1>4, <2>1, <2>2, <2>3 DEF IInv, OwnerInv
  <1>6. PlaceInv'
    <2> SUFFICES ASSUME NEW h \in Groups, NEW j \in Index
                 PROVE  /\ at'[h][j] # "none" => j <= GroupSize(h[1])
                        /\ at'[h][j] = "owed" /\ j > 0 =>
                             \E u \in Threads : pc'[u] = "post" /\ grp'[u] = h /\ idx'[u] <= j
                        /\ at'[h][j] = "running" =>
                             \E u \in Threads : Running(u)' /\ grp'[u] = h /\ idx'[u] = j
      BY DEF PlaceInv
    <2>1. CASE h = g /\ j = i
      BY <1>0, <1>4, <2>1 DEF IInv, TypeOK, TakeHandler
    <2>2. CASE <<h, j>> # <<g, i>>
      <3>1. at'[h][j] = at[h][j]
        BY <2>2 DEF IInv, TypeOK, TakeHandler
      <3>2. \A u \in Threads : pc[u] = "post" =>
              pc'[u] = "post" /\ grp'[u] = grp[u] /\ idx'[u] = idx[u]
        BY DEF IInv, TypeOK, TakeHandler
      <3>3. QED BY <1>3, <1>4, <3>1, <3>2 DEF IInv, PlaceInv
    <2>3. QED BY <2>1, <2>2
  <1>7. UncountedKept /\ PendingInv'
    <2>1. ASSUME NEW h \in Groups, NEW j \in Index \ {0}
          PROVE  j \in Uncounted(h)' <=> j \in Uncounted(h)
      <3>1. CASE h = g /\ j = i
        BY <1>0, <3>1 DEF IInv, TypeOK, TakeHandler, Uncounted
      <3>2. CASE <<h, j>> # <<g, i>>
        <4>1. at'[h][j] = at[h][j]
          BY <3>2 DEF IInv, TypeOK, TakeHandler
        <4>2. \A u \in Threads :
                pc'[u] = "op" /\ grp'[u] = h /\ idx'[u] = j <=>
                  pc[u] = "op" /\ grp[u] = h /\ idx[u] = j
          BY <1>0, <3>2 DEF IInv, TypeOK, TakeHandler
        <4>3. QED BY <4>1, <4>2 DEF Uncounted
      <3>3. QED BY <3>1, <3>2
    <2>2. \A h \in Groups : Uncounted(h)' = Uncounted(h)
      BY <2>1 DEF Uncounted
    <2>3. QED BY <2>2 DEF IInv, PendingInv, TakeHandler, UncountedKept
  <1>8. RemovalInv'
    <2>1. \A u \in Threads : /\ pc'[u] = "last" <=> pc[u] = "last"
                             /\ pc[u] = "last" => grp'[u] = grp[u] /\ grp[u] \in Groups
      BY DEF IInv, TypeOK, ThreadInv, Running, TakeHandler
    <2>2. \A h \in Groups : at'[h][0] = "owed" <=> at[h][0] = "owed"
      BY <1>0, IndexType DEF IInv, TypeOK, TakeHandler
    <2>3. pending_operations' = pending_operations
      BY DEF TakeHandler
    <2>4. QED BY <2>1, <2>2, <2>3 DEF IInv, RemovalInv
  <1>9. ActiveTasksExact'
    <2>1. \A e \in Dirs : Outstanding(e)' = Outstanding(e)
      BY <1>0, OutstandingKept DEF IInv, TakeHandler, Place
    <2>2. QED BY <2>1 DEF IInv, ActiveTasksExact, TakeHandler
  <1>10. NeverForgotten'
    <2> SUFFICES ASSUME NEW e \in Dirs, to_size[e] > 0
                 PROVE  HasWork(e)'
      BY DEF NeverForgotten
    <2>1. CASE e = d
      BY <2>1 DEF IInv, TypeOK, TakeHandler, HasWork
    <2>2. CASE e # d
      <3>1. \A u \in Threads : job[u] = e => job'[u] = e
        BY <1>0, ConstantsAssumption DEF IInv, TypeOK, TakeHandler
      <3>2. \A h \in Groups, j \in Index :
              h[1] = e /\ at[h][j] = "queued" => at'[h][j] = "queued"
        BY <2>2 DEF IInv, TypeOK, TakeHandler
      <3>3. QED BY <3>1, <3>2, WorkKept DEF TakeHandler, timerVars
    <2>3. QED BY <2>1, <2>2
  <1>11. QED
    BY <1>1, <1>2, <1>5, <1>6, <1>7, <1>8, <1>9, <1>10 DEF IInv

LEMMA CountDownStep ==
  ASSUME IInv, NEW t \in Threads, CountDown(t)
  PROVE  /\ IInv'
         /\ grp[t] \in Groups /\ idx[t] \in Uncounted(grp[t])
         /\ Uncounted(grp[t])' = Uncounted(grp[t]) \ {idx[t]}
         /\ \A h \in Groups \ {grp[t]} : Uncounted(h)' = Uncounted(h)
  <1> DEFINE d == job[t]
             g == grp[t]
             i == idx[t]
  <1>0. /\ d \in Dirs /\ g \in Groups /\ g[1] = d
        /\ i \in Index /\ i # 0 /\ Running(t) /\ at[g][i] = "running"
    <2>1. pc[t] = "op" /\ Running(t)
      BY DEF CountDown, Running
    <2>2. g \in Groups /\ g[1] = d /\ i \in 1..GroupSize(d) /\ i \in Index
      BY <2>1 DEF IInv, TypeOK, ThreadInv
    <2>3. d \in Dirs
      BY <2>2 DEF Groups
    <2>4. QED
      BY <2>1, <2>2, <2>3, GroupSizeType DEF IInv, OwnerInv
  <1>1. /\ Uncounted(g)' = Uncounted(g) \ {i}
        /\ i \in Uncounted(g)
    <2>1. \A u \in Threads : pc[u] = "op" /\ grp[u] = g /\ idx[u] = i => u = t
      BY <1>0 DEF IInv, OwnerInv, Running
    <2>2. \A u \in Threads : pc'[u] = "op" <=> pc[u] = "op" /\ u # t
      BY DEF IInv, TypeOK, CountDown
    <2>3. QED
      BY <1>0, <2>1, <2>2 DEF Uncounted, CountDown
  <1>2. ASSUME NEW h \in Groups, h # g PROVE Uncounted(h)' = Uncounted(h)
    <2>1. \A u \in Threads : grp[u] = h => (pc'[u] = "op" <=> pc[u] = "op")
      BY <1>2 DEF IInv, TypeOK, CountDown
    <2>2. QED BY <2>1 DEF Uncounted, CountDown
  <1>3. /\ Cardinality(Uncounted(g)') = Cardinality(Uncounted(g)) - 1
        /\ Cardinality(Uncounted(g)) \in Nat
        /\ Cardinality(Uncounted(g)') \in Nat
    <2>1. IsFiniteSet(Uncounted(g))
      BY IndexType, FS_Subset DEF Uncounted
    <2>2. QED
      BY <1>1, <2>1, FS_RemoveElement, FS_CardinalityType
  <1>4. /\ pending_operations[g] = Cardinality(Uncounted(g))
        /\ pending_operations'[g] = pending_operations[g] - 1
        /\ pending_operations[g] \in Nat /\ pending_operations'[g] \in Nat
    <2>1. pending_operations'[g] = pending_operations[g] - 1
      BY <1>0 DEF IInv, TypeOK, CountDown
    <2>2. QED BY <1>0, <1>3, <2>1 DEF IInv, PendingInv
  <1>5. PendingInv'
    BY <1>0, <1>2, <1>3, <1>4 DEF IInv, TypeOK, PendingInv, CountDown
  <1>6. TypeOK'
    BY <1>0, <1>4 DEF IInv, TypeOK, CountDown, PC, timerVars
  <1>7. \A u \in Threads : Running(u)' = Running(u)
    BY DEF IInv, TypeOK, CountDown, Running
  <1>8. \A u \in Threads : /\ pc'[u] = "post" <=> pc[u] = "post"
                           /\ pc'[u] = "idle" <=> pc[u] = "idle"
                           /\ pc'[u] = "delete" <=> pc[u] = "delete"
    BY DEF IInv, TypeOK, CountDown
  <1>9. UNCHANGED <<job, grp, idx, at, active_tasks>>
    BY DEF CountDown
  <1>10. ThreadInv'
    BY <1>7, <1>8, <1>9 DEF IInv, ThreadInv
  <1>11. OwnerInv' /\ PlaceInv'
    BY <1>7, <1>8, <1>9 DEF IInv, OwnerInv, PlaceInv
  <1>12. RemovalInv'
    <2>1. at[g][0] = "owed"
      BY <1>0, <1>3, <1>4, <1>1 DEF IInv, RemovalInv
    <2>2. \A h \in Groups : h # g => pending_operations'[h] = pending_operations[h]
      BY DEF IInv, TypeOK, CountDown
    <2>3. \A u \in Threads : u # t => pc'[u] = pc[u]
      BY DEF IInv, TypeOK, CountDown
    <2>4. \A u \in Threads : pc[u] = "last" => grp[u] # g /\ grp[u] \in Groups
      <3>1. pending_operations[g] # 0
        BY <1>3, <1>4
      <3>2. QED
        BY <3>1 DEF IInv, RemovalInv, ThreadInv, Running
    <2>5. pc'[t] = "last" <=> pending_operations'[g] = 0
      BY <1>3, <1>4 DEF IInv, TypeOK, CountDown
    <2>6. QED
      BY <1>0, <1>9, <2>1, <2>2, <2>3, <2>4, <2>5 DEF IInv, RemovalInv, CountDown
  <1>13. ActiveTasksExact'
    BY <1>9 DEF IInv, ActiveTasksExact, Outstanding
  <1>14. NeverForgotten'
    BY <1>9, WorkKept DEF NeverForgotten, CountDown, timerVars
  <1>15. QED
    BY <1>0, <1>1, <1>2, <1>5, <1>6, <1>10, <1>11, <1>12, <1>13, <1>14 DEF IInv

(* The last operation hands back the group's extra unit, or posts its      *)
(* removal.                                                                *)
LEMMA LastOperationStep ==
  ASSUME IInv, NEW t \in Threads, LastOperation(t)
  PROVE  IInv' /\ UncountedKept
  <1> DEFINE d == job[t]
             g == grp[t]
  <1>0. /\ d \in Dirs /\ g \in Groups /\ g[1] = d /\ 0 \in Index
        /\ at[g][0] = "owed" /\ pending_operations[g] = 0
        /\ idx[t] # 0
    <2>1. pc[t] = "last" /\ Running(t)
      BY DEF LastOperation, Running
    <2>2. g \in Groups /\ g[1] = d /\ idx[t] \in 1..GroupSize(d)
      BY <2>1 DEF IInv, TypeOK, ThreadInv
    <2>3. d \in Dirs
      BY <2>2 DEF Groups
    <2>4. QED
      BY <2>1, <2>2, <2>3, GroupSizeType, IndexType DEF IInv, RemovalInv
  <1> DEFINE p == IF OnlyMove(d) THEN "none" ELSE "queued"
  <1>1. /\ at' = [at EXCEPT ![g][0] = p]
        /\ p \in Place
        /\ UNCHANGED <<job, grp, idx, left, kind, pending_operations, is_run, timerVars>>
        /\ pc' = [pc EXCEPT ![t] = "sub"]
    BY DEF LastOperation, Place
  <1>2. ActiveTasksExact' /\ active_tasks' \in [Dirs -> Nat]
    <2>1. CASE OnlyMove(d)
      <3>1. /\ at' = [at EXCEPT ![g][0] = "none"]
            /\ active_tasks' = [active_tasks EXCEPT ![g[1]] = @ - 1]
        BY <1>0, <2>1 DEF LastOperation
      <3>2. QED BY <1>0, <3>1, OutstandingLess DEF IInv
    <2>2. CASE ~OnlyMove(d)
      <3>1. at' = [at EXCEPT ![g][0] = "queued"] /\ active_tasks' = active_tasks
        BY <2>2 DEF LastOperation
      <3>2. \A e \in Dirs : Outstanding(e)' = Outstanding(e)
        BY <1>0, <3>1, OutstandingKept DEF IInv, Place
      <3>3. QED BY <3>1, <3>2 DEF IInv, TypeOK, ActiveTasksExact
    <2>3. QED BY <2>1, <2>2
  <1>3. at' \in [Groups -> [Index -> Place]]
    BY <1>0, <1>1 DEF IInv, TypeOK
  <1>4. TypeOK'
    BY <1>1, <1>2, <1>3 DEF IInv, TypeOK, PC, timerVars
  <1>5. /\ pc[t] = "last" /\ pc'[t] = "sub"
        /\ \A u \in Threads : u # t => pc'[u] = pc[u]
    BY <1>1 DEF IInv, TypeOK, LastOperation
  <1>6. \A u \in Threads :
          /\ Running(u)' = Running(u)
          /\ \A q \in {"idle", "post", "op", "delete"} : pc'[u] = q <=> pc[u] = q
    BY <1>5 DEF Running
  <1>7. /\ \A h \in Groups, j \in Index :
             <<h, j>> # <<g, 0>> => at'[h][j] = at[h][j]
        /\ at'[g][0] = p
    BY <1>0, <1>1 DEF IInv, TypeOK
  <1>8. ThreadInv'
    BY <1>1, <1>6 DEF IInv, ThreadInv
  <1>9. OwnerInv'
    <2>1. ASSUME NEW u \in Threads, Running(u)
          PROVE  at'[grp[u]][idx[u]] = "running"
      <3>1. grp[u] \in Groups /\ idx[u] \in Index /\ at[grp[u]][idx[u]] = "running"
        BY <2>1 DEF IInv, TypeOK, ThreadInv, OwnerInv
      <3>2. QED BY <1>0, <1>7, <3>1
    <2>2. ASSUME NEW u \in Threads, pc[u] = "post", NEW j \in idx[u]..GroupSize(job[u])
          PROVE  at'[grp[u]][j] = "owed"
      <3>1. grp[u] \in Groups /\ grp[u][1] = job[u] /\ idx[u] \in 1..GroupSize(job[u])
        BY <2>2 DEF IInv, ThreadInv
      <3>2. j \in 1..GroupSize(job[u]) /\ job[u] \in Dirs
        BY <3>1, GroupSizeType DEF Groups
      <3>3. j \in Index /\ j # 0
        BY <3>2, IndexType
      <3>4. QED BY <1>7, <2>2, <3>1, <3>3 DEF IInv, OwnerInv
    <2>3. QED
      BY <1>1, <1>6, <2>1, <2>2 DEF IInv, OwnerInv
  <1>10. PlaceInv'
    <2>1. at'[g][0] \in {"none", "queued"} /\ 0 <= GroupSize(g[1])
      BY <1>0, <1>7, GroupSizeType
    <2>2. ASSUME NEW h \in Groups, NEW j \in Index, <<h, j>> # <<g, 0>>
          PROVE  at'[h][j] = at[h][j]
      BY <1>7, <2>2
    <2>3. QED
      BY <1>1, <1>6, <2>1, <2>2 DEF IInv, PlaceInv
  <1>11. UncountedKept /\ PendingInv'
    <2>1. \A h \in Groups : Uncounted(h)' = Uncounted(h)
      BY <1>1, <1>6, <1>7 DEF Uncounted
    <2>2. QED BY <1>1, <2>1 DEF IInv, PendingInv, UncountedKept
  <1>12. RemovalInv'
    <2>1. \A u \in Threads : /\ pc'[u] = "last" <=> pc[u] = "last" /\ u # t
                             /\ pc[u] = "last" => grp[u] \in Groups
      BY <1>5 DEF IInv, ThreadInv, Running
    <2>2. \A u \in Threads : pc'[u] = "last" => grp[u] # g
      BY <1>5, <2>1 DEF IInv, RemovalInv
    <2>3. \A h \in Groups : h # g => at'[h][0] = at[h][0]
      BY <1>7, IndexType
    <2>4. at'[g][0] # "owed"
      BY <1>7
    <2>5. QED
      BY <1>0, <1>1, <2>1, <2>2, <2>3, <2>4 DEF IInv, RemovalInv
  <1>13. NeverForgotten'
    <2> SUFFICES ASSUME NEW e \in Dirs, to_size[e] > 0
                 PROVE  HasWork(e)'
      BY DEF NeverForgotten
    <2>1. \A h \in Groups, j \in Index : at[h][j] = "queued" => at'[h][j] = "queued"
      BY <1>0, <1>7
    <2>2. QED BY <1>1, <2>1, WorkKept DEF timerVars
  <1>14. QED
    BY <1>2, <1>4, <1>8, <1>9, <1>10, <1>11, <1>12, <1>13 DEF IInv

LEMMA FinishHandlerStep ==
  ASSUME IInv, NEW t \in Threads, FinishHandler(t)
  PROVE  IInv' /\ UncountedKept
  <1> DEFINE d == job[t]
             g == grp[t]
             i == idx[t]
  <1>0. /\ d \in Dirs /\ g \in Groups /\ g[1] = d /\ i \in Index
        /\ at[g][i] = "running" /\ Running(t)
    <2>1. pc[t] \in {"sub", "delete"} /\ Running(t)
      BY DEF FinishHandler, Running
    <2>2. g \in Groups /\ g[1] = d /\ i \in Index
      BY <2>1 DEF IInv, TypeOK, ThreadInv
    <2>3. QED
      BY <2>1, <2>2 DEF IInv, OwnerInv, Groups
  <1>1. ActiveTasksExact' /\ active_tasks' \in [Dirs -> Nat]
    <2>1. /\ at' = [at EXCEPT ![g][i] = "none"]
          /\ active_tasks' = [active_tasks EXCEPT ![g[1]] = @ - 1]
      BY <1>0 DEF FinishHandler
    <2>2. QED BY <1>0, <2>1, OutstandingLess DEF IInv
  <1>2. TypeOK'
    <2>1. at' \in [Groups -> [Index -> Place]]
      BY <1>0 DEF IInv, TypeOK, FinishHandler, Place
    <2>2. QED
      BY <1>1, <2>1, IndexType DEF IInv, TypeOK, FinishHandler, PC, timerVars
  <1>3. /\ pc[t] \in {"sub", "delete"} /\ pc'[t] = "check"
        /\ \A u \in Threads : u # t =>
             pc'[u] = pc[u] /\ grp'[u] = grp[u] /\ idx'[u] = idx[u]
        /\ job' = job /\ pending_operations' = pending_operations
    BY DEF IInv, TypeOK, FinishHandler
  <1>4. \A u \in Threads :
          /\ Running(u)' <=> Running(u) /\ u # t
          /\ \A q \in {"idle", "post", "op", "last"} : pc'[u] = q <=> pc[u] = q
    BY <1>3 DEF Running
  <1>5. /\ \A h \in Groups, j \in Index :
             <<h, j>> # <<g, i>> => at'[h][j] = at[h][j]
        /\ at'[g][i] = "none"
    BY <1>0 DEF IInv, TypeOK, FinishHandler
  <1>6. ThreadInv'
    BY <1>3, <1>4 DEF IInv, ThreadInv
  <1>7. OwnerInv'
    <2>1. ASSUME NEW u \in Threads, Running(u), u # t
          PROVE  at'[grp'[u]][idx'[u]] = "running"
      <3>1. grp[u] \in Groups /\ idx[u] \in Index /\ at[grp[u]][idx[u]] = "running"
        BY <2>1 DEF IInv, TypeOK, ThreadInv, OwnerInv
      <3>2. <<grp[u], idx[u]>> # <<g, i>>
        BY <1>0, <2>1 DEF IInv, OwnerInv
      <3>3. QED BY <1>3, <1>5, <2>1, <3>1, <3>2
    <2>2. ASSUME NEW u \in Threads, pc[u] = "post", NEW j \in idx[u]..GroupSize(job[u])
          PROVE  at'[grp'[u]][j] = "owed"
      <3>1. u # t
        BY <1>3, <2>2
      <3>2. grp[u] \in Groups /\ grp[u][1] = job[u] /\ idx[u] \in 1..GroupSize(job[u])
        BY <2>2 DEF IInv, ThreadInv
      <3>3. j \in 1..GroupSize(job[u]) /\ job[u] \in Dirs
        BY <3>2, GroupSizeType DEF Groups
      <3>4. j \in Index /\ at[grp[u]][j] = "owed"
        BY <2>2, <3>3, IndexType DEF IInv, OwnerInv
      <3>5. QED BY <1>0, <1>3, <1>5, <3>1, <3>2, <3>4
    <2>3. \A u \in Threads : pc'[u] = "post" => u # t /\ pc[u] = "post"
      BY <1>3, <1>4
    <2>4. \A u \in Threads : pc'[u] = "post" => idx'[u] = idx[u] /\ job'[u] = job[u]
      BY <1>3, <2>3
    <2>5. \A u \in Threads : pc'[u] = "post" =>
            \A j \in idx'[u]..GroupSize(job'[u]) : at'[grp'[u]][j] = "owed"
      BY <2>2, <2>3, <2>4
    <2>6. \A u \in Threads : Running(u)' => at'[grp'[u]][idx'[u]] = "running"
      BY <1>4, <2>1
    <2>7. /\ \A u, v \in Threads :
               Running(u)' /\ Running(v)' /\ grp'[u] = grp'[v] /\ idx'[u] = idx'[v] => u = v
          /\ \A u, v \in Threads :
               pc'[u] = "post" /\ pc'[v] = "post" /\ grp'[u] = grp'[v] => u = v
      BY <1>3, <1>4, <2>3 DEF IInv, OwnerInv
    <2>8. QED
      BY <2>5, <2>6, <2>7 DEF OwnerInv
  <1>8. PlaceInv'
    <2> SUFFICES ASSUME NEW h \in Groups, NEW j \in Index
                 PROVE  /\ at'[h][j] # "none" => j <= GroupSize(h[1])
                        /\ at'[h][j] = "owed" /\ j > 0 =>
                             \E u \in Threads : pc'[u] = "post" /\ grp'[u] = h /\ idx'[u] <= j
                        /\ at'[h][j] = "running" =>
                             \E u \in Threads : Running(u)' /\ grp'[u] = h /\ idx'[u] = j
      BY DEF PlaceInv
    <2>1. CASE h = g /\ j = i
      BY <1>5, <2>1
    <2>2. CASE <<h, j>> # <<g, i>>
      <3>1. at'[h][j] = at[h][j]
        BY <1>5, <2>2
      <3>2. at[h][j] # "none" => j <= GroupSize(h[1])
        BY DEF IInv, PlaceInv
      <3>3. ASSUME at[h][j] = "owed", j > 0
            PROVE  \E u \in Threads : pc'[u] = "post" /\ grp'[u] = h /\ idx'[u] <= j
        <4>1. PICK u \in Threads : pc[u] = "post" /\ grp[u] = h /\ idx[u] <= j
          BY <3>3 DEF IInv, PlaceInv
        <4>2. u # t
          BY <1>3, <4>1
        <4>3. QED BY <1>3, <4>1, <4>2
      <3>4. ASSUME at[h][j] = "running"
            PROVE  \E u \in Threads : Running(u)' /\ grp'[u] = h /\ idx'[u] = j
        <4>1. PICK u \in Threads : Running(u) /\ grp[u] = h /\ idx[u] = j
          BY <3>4 DEF IInv, PlaceInv
        <4>2. QED BY <1>3, <1>4, <2>2, <4>1
      <3>5. QED BY <3>1, <3>2, <3>3, <3>4
    <2>3. QED BY <2>1, <2>2
  <1>9. UncountedKept /\ PendingInv'
    <2>1. \A u \in Threads, h \in Groups, j \in Index :
            pc'[u] = "op" /\ grp'[u] = h /\ idx'[u] = j <=>
              pc[u] = "op" /\ grp[u] = h /\ idx[u] = j
      BY <1>3, <1>4
    <2>2. \A h \in Groups, j \in Index :
            at'[h][j] \in {"owed", "queued"} <=> at[h][j] \in {"owed", "queued"}
      BY <1>0, <1>5
    <2>3. \A h \in Groups : Uncounted(h)' = Uncounted(h)
      BY <2>1, <2>2 DEF Uncounted
    <2>4. QED BY <1>3, <2>3 DEF IInv, PendingInv, UncountedKept
  <1>10. RemovalInv'
    <2>1. \A u \in Threads : /\ pc'[u] = "last" <=> pc[u] = "last"
                             /\ pc[u] = "last" => grp'[u] = grp[u] /\ grp[u] \in Groups
      BY <1>3, <1>4 DEF IInv, ThreadInv, Running
    <2>2. \A h \in Groups : at'[h][0] = "owed" <=> at[h][0] = "owed"
      BY <1>0, <1>5, IndexType
    <2>3. QED BY <1>3, <2>1, <2>2 DEF IInv, RemovalInv
  <1>11. NeverForgotten'
    <2> SUFFICES ASSUME NEW e \in Dirs, to_size[e] > 0
                 PROVE  HasWork(e)'
      BY DEF NeverForgotten
    <2>1. \A h \in Groups, j \in Index : at[h][j] = "queued" => at'[h][j] = "queued"
      BY <1>0, <1>5
    <2>2. QED BY <1>3, <2>1, WorkKept DEF FinishHandler, timerVars
  <1>12. QED
    BY <1>1, <1>2, <1>6, <1>7, <1>8, <1>9, <1>10, <1>11 DEF IInv

(* Listing a file puts a whole group, with the removal, on the account of  *)
(* its directory.                                                          *)
LEMMA ProcessFileStep ==
  ASSUME IInv, NEW t \in Threads, NEW g \in Groups, ProcessFile(t, g)
  PROVE  /\ IInv'
         /\ Uncounted(g)' = 1..GroupSize(g[1])
         /\ \A h \in Groups \ {g} : Uncounted(h)' = Uncounted(h)
  <1> DEFINE d == g[1]
             n == GroupSize(d)
  <1>0. /\ d \in Dirs /\ job[t] = d /\ d # None
        /\ n \in 0..MaxTo /\ n \in Nat /\ MaxTo \in Nat
        /\ \A i \in Index : at[g][i] = "none"
        /\ pc[t] = "scan"
    <2>1. d \in Dirs
      BY DEF Groups
    <2>2. QED
      BY <2>1, GroupSizeType, ConstantsAssumption DEF ProcessFile
  <1>1. /\ \A i \in Index : at'[g][i] = IF i <= n THEN "owed" ELSE "none"
        /\ \A h \in Groups : h # g => at'[h] = at[h]
        /\ at' \in [Groups -> [Index -> Place]]
    <2>1. at' = [at EXCEPT ![g] = [i \in Index |-> IF i <= n THEN "owed" ELSE "none"]]
      BY <1>0 DEF ProcessFile
    <2>2. [i \in Index |-> IF i <= n THEN "owed" ELSE "none"] \in [Index -> Place]
      BY DEF Place
    <2>3. QED BY <2>1, <2>2 DEF IInv, TypeOK
  <1>2. /\ pending_operations' = [pending_operations EXCEPT ![g] = n]
        /\ active_tasks' = [active_tasks EXCEPT ![d] = @ + n + 1]
        /\ left[t] > 0 /\ left' = [left EXCEPT ![t] = @ - 1]
        /\ UNCHANGED <<job, kind, is_run, timerVars>>
    BY <1>0 DEF ProcessFile
  <1>3. /\ n = 0 => UNCHANGED <<pc, grp, idx>>
        /\ n # 0 => /\ pc' = [pc EXCEPT ![t] = "post"]
                    /\ grp' = [grp EXCEPT ![t] = g]
                    /\ idx' = [idx EXCEPT ![t] = 1]
    BY <1>0 DEF ProcessFile
  <1>4. \A u \in Threads :
          /\ u # t => pc'[u] = pc[u] /\ grp'[u] = grp[u] /\ idx'[u] = idx[u]
          /\ n = 0 => pc'[t] = "scan"
          /\ n # 0 => pc'[t] = "post" /\ grp'[t] = g /\ idx'[t] = 1
    BY <1>0, <1>3 DEF IInv, TypeOK
  <1>5. \A u \in Threads : /\ Running(u)' = Running(u)
                           /\ Running(u) => u # t /\ grp[u] # g /\ grp[u] \in Groups
                           /\ pc[u] = "post" => u # t /\ grp[u] # g /\ grp[u] \in Groups
    <2>1. \A u \in Threads : Running(u) => grp[u] # g /\ grp[u] \in Groups
      BY <1>0 DEF IInv, TypeOK, ThreadInv, OwnerInv
    <2>2. ASSUME NEW u \in Threads, pc[u] = "post", grp[u] = g PROVE FALSE
      <3>1. idx[u] \in 1..GroupSize(job[u]) /\ job[u] = d /\ idx[u] \in Index
        BY <1>0, <2>2 DEF IInv, TypeOK, ThreadInv
      <3>2. idx[u] \in idx[u]..GroupSize(job[u])
        BY <1>0, <3>1
      <3>3. at[g][idx[u]] = "owed"
        BY <2>2, <3>2 DEF IInv, OwnerInv
      <3>4. QED BY <1>0, <3>1, <3>3
    <2>3. QED
      BY <1>0, <1>4, <2>1, <2>2 DEF IInv, ThreadInv, Running
  <1>6. TypeOK'
    <2>1. active_tasks' \in [Dirs -> Nat] /\ pending_operations' \in [Groups -> Nat]
      BY <1>0, <1>2 DEF IInv, TypeOK
    <2>2. left' \in [Threads -> 0..MaxFiles]
      BY <1>2, ConstantsAssumption DEF IInv, TypeOK
    <2>3. n # 0 => 1 \in Index
      BY <1>0 DEF Index
    <2>4. /\ pc' \in [Threads -> PC] /\ grp' \in [Threads -> Groups \union {None}]
          /\ idx' \in [Threads -> Index]
      <3>1. CASE n = 0
        BY <1>3, <3>1 DEF IInv, TypeOK
      <3>2. CASE n # 0
        <4>1. "post" \in PC
          BY DEF PC
        <4>2. /\ pc' = [pc EXCEPT ![t] = "post"]
              /\ grp' = [grp EXCEPT ![t] = g]
              /\ idx' = [idx EXCEPT ![t] = 1]
          BY <1>3, <3>2
        <4>3. QED BY <2>3, <3>2, <4>1, <4>2 DEF IInv, TypeOK
      <3>3. QED BY <3>1, <3>2
    <2>5. QED BY <1>1, <1>2, <2>1, <2>2, <2>4 DEF IInv, TypeOK, timerVars
  <1>7. ThreadInv'
    <2>1. n # 0 => 1 \in 1..GroupSize(d)
      BY <1>0
    <2>2. QED
      BY <1>0, <1>2, <1>4, <2>1 DEF IInv, ThreadInv, Running
  <1>8. OwnerInv'
    <2>1. \A u \in Threads : Running(u) => at'[grp[u]][idx[u]] = "running"
      BY <1>1, <1>5 DEF IInv, OwnerInv
    <2>2. \A u \in Threads : pc[u] = "post" =>
            \A j \in idx[u]..GroupSize(job[u]) : at'[grp[u]][j] = "owed"
      BY <1>1, <1>5 DEF IInv, OwnerInv
    <2>3. n # 0 => \A j \in 1..GroupSize(job[t]) : at'[g][j] = "owed"
      BY <1>0, <1>1, IndexType
    <2>4. \A u \in Threads : pc'[u] = "post" => IF u = t THEN n # 0 ELSE pc[u] = "post"
      BY <1>4
    <2>5. \A u \in Threads : pc'[u] = "post" =>
            \A j \in idx'[u]..GroupSize(job'[u]) : at'[grp'[u]][j] = "owed"
      BY <1>2, <1>4, <2>2, <2>3, <2>4
    <2>6. \A u, v \in Threads :
            pc'[u] = "post" /\ pc'[v] = "post" /\ grp'[u] = grp'[v] => u = v
      BY <1>4, <1>5, <2>4 DEF IInv, OwnerInv
    <2>7. \A u \in Threads : Running(u) => grp'[u] = grp[u] /\ idx'[u] = idx[u]
      BY <1>4, <1>5
    <2>8. QED
      BY <1>5, <2>1, <2>5, <2>6, <2>7 DEF IInv, OwnerInv
  <1>9. PlaceInv'
    <2> SUFFICES ASSUME NEW h \in Groups, NEW j \in Index
                 PROVE  /\ at'[h][j] # "none" => j <= GroupSize(h[1])
                        /\ at'[h][j] = "owed" /\ j > 0 =>
                             \E u \in Threads : pc'[u] = "post" /\ grp'[u] = h /\ idx'[u] <= j
                        /\ at'[h][j] = "running" =>
                             \E u \in Threads : Running(u)' /\ grp'[u] = h /\ idx'[u] = j
      BY DEF PlaceInv
    <2>1. CASE h = g
      <3>1. at'[h][j] # "none" => j <= n
        BY <1>1, <2>1
      <3>2. at'[h][j] # "running"
        BY <1>1, <2>1
      <3>3. at'[h][j] = "owed" /\ j > 0 => n # 0 /\ 1 <= j
        BY <1>0, <3>1, IndexType
      <3>4. QED
        BY <1>0, <1>4, <2>1, <3>1, <3>2, <3>3
    <2>2. CASE h # g
      <3>1. at'[h][j] = at[h][j]
        BY <1>1, <2>2
      <3>2. \A u \in Threads : pc[u] = "post" =>
              pc'[u] = "post" /\ grp'[u] = grp[u] /\ idx'[u] = idx[u]
        BY <1>4, <1>5
      <3>3. \A u \in Threads : Running(u) =>
              Running(u)' /\ grp'[u] = grp[u] /\ idx'[u] = idx[u]
        BY <1>4, <1>5
      <3>4. QED BY <3>1, <3>2, <3>3 DEF IInv, PlaceInv
    <2>3. QED BY <2>1, <2>2
  <1>10. \A u \in Threads : /\ pc'[u] = "op" <=> pc[u] = "op"
                            /\ pc'[u] = "last" <=> pc[u] = "last"
                            /\ pc[u] \in {"op", "last"} =>
                                 grp'[u] = grp[u] /\ idx'[u] = idx[u] /\ grp[u] # g
    BY <1>0, <1>4, <1>5 DEF Running
  <1>11. Uncounted(g)' = 1..n
    <2>1. Uncounted(g)' = {i \in Index \ {0} : i <= n}
      BY <1>1, <1>10 DEF Uncounted
    <2>2. QED BY <1>0, <2>1 DEF Index
  <1>12. \A h \in Groups : h # g => Uncounted(h)' = Uncounted(h)
    BY <1>1, <1>10 DEF Uncounted
  <1>13. PendingInv'
    <2>1. Cardinality(1..n) = n
      BY <1>0, FS_Interval, 1 \in Int, n \in Int
    <2>2. QED
      BY <1>2, <1>11, <1>12, <2>1 DEF IInv, TypeOK, PendingInv
  <1>14. RemovalInv'
    <2>1. at'[g][0] = "owed" /\ pending_operations'[g] = n
      BY <1>0, <1>1, <1>2, IndexType DEF IInv, TypeOK
    <2>2. \A h \in Groups : h # g =>
            at'[h] = at[h] /\ pending_operations'[h] = pending_operations[h]
      BY <1>1, <1>2 DEF IInv, TypeOK
    <2>3. \A u \in Threads : pc[u] = "last" => grp[u] \in Groups
      BY <1>5 DEF Running
    <2>4. QED
      BY <1>0, <1>10, <2>1, <2>2, <2>3 DEF IInv, RemovalInv
  <1>15. ActiveTasksExact'
    <2> DEFINE New == {g} \X (0..n)
    <2>1. Outstanding(d)' = Outstanding(d) \union New
      <3>1. \A u \in Groups \X Index : u[1] = g =>
              /\ u \notin Outstanding(d)
              /\ at'[u[1]][u[2]] # "none" <=> u[2] <= n
        BY <1>0, <1>1 DEF Outstanding
      <3>2. \A u \in Groups \X Index : u[1] # g => at'[u[1]] = at[u[1]]
        BY <1>1
      <3>3. New = {u \in Groups \X Index : u[1] = g /\ u[2] <= n}
        BY <1>0 DEF Index
      <3>4. ASSUME NEW u \in Groups \X Index
            PROVE  u \in Outstanding(d)' <=> u \in Outstanding(d) \/ u \in New
        <4>1. CASE u[1] = g
          <5>1. u \in Outstanding(d)' <=> at'[u[1]][u[2]] # "none"
            BY <4>1 DEF Outstanding
          <5>2. QED BY <3>1, <3>3, <4>1, <5>1
        <4>2. CASE u[1] # g
          BY <1>2, <3>2, <3>3, <4>2 DEF Outstanding
        <4>3. QED BY <4>1, <4>2
      <3>5. Outstanding(d)' \subseteq Groups \X Index /\ New \subseteq Groups \X Index
        BY <3>3 DEF Outstanding
      <3>6. QED BY <3>4, <3>5 DEF Outstanding
    <2>2. Outstanding(d) \intersect New = {}
      BY <1>0 DEF Outstanding, Index
    <2>3. IsFiniteSet(Outstanding(d)) /\ IsFiniteSet(New) /\ Cardinality(New) = n + 1
      <3>1. IsFiniteSet(0..n) /\ Cardinality(0..n) = n + 1
        BY <1>0, FS_Interval, 0 \in Int, n \in Int
      <3>2. IsFiniteSet({g}) /\ Cardinality({g}) = 1
        BY FS_Singleton
      <3>3. IsFiniteSet(New) /\ Cardinality(New) = 1 * (n + 1)
        BY <3>1, <3>2, FS_Product
      <3>4. IsFiniteSet(Outstanding(d))
        BY HandlersFinite DEF Outstanding
      <3>5. QED BY <1>0, <3>3, <3>4
    <2>4. Cardinality(Outstanding(d)') = Cardinality(Outstanding(d)) + (n + 1)
      <3>1. Cardinality(Outstanding(d)') =
              Cardinality(Outstanding(d)) + Cardinality(New) - Cardinality({})
        BY <2>1, <2>2, <2>3, FS_Union
      <3>2. Cardinality(Outstanding(d)) \in Nat /\ Cardinality({}) = 0
        BY <2>3, FS_CardinalityType, FS_EmptySet
      <3>3. QED BY <1>0, <2>3, <3>1, <3>2
    <2>5. active_tasks'[d] = active_tasks[d] + n + 1 /\ active_tasks[d] \in Nat
      BY <1>0, <1>2 DEF IInv, TypeOK
    <2>6. active_tasks'[d] = Cardinality(Outstanding(d)')
      BY <1>0, <2>4, <2>5 DEF IInv, ActiveTasksExact
    <2>7. ASSUME NEW e \in Dirs, e # d
          PROVE  active_tasks'[e] = Cardinality(Outstanding(e)')
      <3>1. \A u \in Groups \X Index : u[1][1] = e => at'[u[1]] = at[u[1]]
        BY <1>0, <1>1, <2>7
      <3>2. Outstanding(e)' = Outstanding(e)
        BY <3>1 DEF Outstanding
      <3>3. active_tasks'[e] = active_tasks[e]
        BY <1>2, <2>7 DEF IInv, TypeOK
      <3>4. QED
        BY <3>2, <3>3 DEF IInv, ActiveTasksExact
    <2>8. QED BY <2>6, <2>7 DEF ActiveTasksExact
  <1>16. NeverForgotten'
    <2> SUFFICES ASSUME NEW e \in Dirs, to_size[e] > 0
                 PROVE  HasWork(e)'
      BY DEF NeverForgotten
    <2>1. \A h \in Groups, j \in Index : at[h][j] = "queued" => at'[h][j] = "queued"
      BY <1>0, <1>1
    <2>2. QED BY <1>2, <2>1, WorkKept DEF timerVars
  <1>17. QED
    BY <1>6, <1>7, <1>8, <1>9, <1>11, <1>14, <1>15, <1>16, <1>12, <1>13 DEF IInv
-----------------------------------------------------------------------------
(* The theorems                                                            *)

LEMMA StepInv == IInv /\ [Next]_vars => IInv'
  <1> SUFFICES ASSUME IInv, [Next]_vars
               PROVE  IInv'
    OBVIOUS
  <1>1. ASSUME NEW t \in Threads, HandlerStep(t)
        PROVE  IInv'
    BY <1>1, ProcessFileStep, PostOperationStep, ScanEndStep, CountDownStep,
       LastOperationStep, FinishHandlerStep, CheckCompletionStep,
       ExpiresAfterStep, AsyncWaitStep DEF HandlerStep
  <1>2. ASSUME NEW t \in Threads, NEW d \in Dirs,
               ScanStart(t, d) \/ TakeRecheck(t, d)
        PROVE  IInv'
    BY <1>2, ScanStartStep, TakeRecheckStep
  <1>3. ASSUME NEW t \in Threads, NEW g \in Groups, NEW i \in Index,
               TakeHandler(t, g, i)
        PROVE  IInv'
    BY <1>3, TakeHandlerStep
  <1>4. ASSUME NEW d \in Dirs, TimerExpires(d)
        PROVE  IInv'
    BY <1>4, TimerExpiresStep
  <1>5. CASE UNCHANGED vars
    <2>1. Quiet
      BY <1>5 DEF vars, threadVars, groupVars, Quiet
    <2>2. OwnerInv' /\ PlaceInv' /\ PendingInv' /\ RemovalInv' /\ ActiveTasksExact'
      BY <2>1, QuietStep
    <2>3. TypeOK' /\ ThreadInv'
      BY <1>5 DEF IInv, TypeOK, ThreadInv, Running, vars, threadVars, groupVars, timerVars
    <2>4. NeverForgotten'
      BY <1>5, WorkKept DEF NeverForgotten, vars, threadVars, groupVars, timerVars
    <2>5. QED BY <2>2, <2>3, <2>4 DEF IInv
  <1>6. QED
    BY <1>1, <1>2, <1>3, <1>4, <1>5 DEF Next

(* The strengthened invariant holds in every behaviour: it says, of every  *)
(* handler process_file or delete_file has on its account, which thread or *)
(* which queue holds it, and ties both counters to those places.           *)
THEOREM Inductive == Spec => []IInv
  <1>1. Init => IInv
    BY InitInv
  <1>2. IInv /\ [Next]_vars => IInv'
    BY StepInv
  <1>3. QED
    BY <1>1, <1>2, PTL DEF Spec

(* No step of the scanner leaves the type of its state: in particular      *)
(* neither active_tasks_ nor pending_operations ever goes below zero.      *)
THEOREM TypeCorrect == Spec => []TypeOK
  <1>1. IInv => TypeOK
    BY DEF IInv
  <1>2. QED
    BY <1>1, Inductive, PTL

(* active_tasks_ of a directory is, in every state, the number of handlers *)
(* its groups have still to run, for any number of threads, directories,   *)
(* destinations and overlapping scans.                                     *)
THEOREM ExactCounter == Spec => []ActiveTasksExact
  <1>1. IInv => ActiveTasksExact
    BY DEF IInv
  <1>2. QED
    BY <1>1, Inductive, PTL

(* In the inductive invariant a removal follows every transfer: while one  *)
(* is not counted down the group's extra unit is owed.                     *)
LEMMA InvRemoval == IInv => RemovalAfterTransfers
  <1> SUFFICES ASSUME IInv, NEW g \in Groups, at[g][0] \in {"queued", "running"}
               PROVE  /\ \A i \in Index \ {0} : at[g][i] \notin {"owed", "queued"}
                      /\ \A t \in Threads : grp[t] = g => pc[t] # "op"
    BY DEF RemovalAfterTransfers
  <1>1. pending_operations[g] = 0
    <2>1. pending_operations[g] \in Nat /\ at[g][0] # "owed"
      BY DEF IInv, TypeOK
    <2>2. ~(pending_operations[g] > 0)
      BY <2>1 DEF IInv, RemovalInv
    <2>3. QED BY <2>1, <2>2
  <1>2. IsFiniteSet(Uncounted(g))
    BY IndexType, FS_Subset DEF Uncounted
  <1>3. Uncounted(g) = {}
    BY <1>1, <1>2, FS_EmptySet DEF IInv, PendingInv
  <1>4. ASSUME NEW t \in Threads, grp[t] = g, pc[t] = "op" PROVE FALSE
    <2>1. idx[t] \in 1..GroupSize(job[t]) /\ job[t] \in Dirs /\ idx[t] \in Index
      BY <1>4 DEF IInv, TypeOK, ThreadInv, Running, Groups
    <2>2. idx[t] \in Index \ {0}
      BY <2>1, GroupSizeType
    <2>3. QED BY <1>3, <1>4, <2>2 DEF Uncounted
  <1>5. QED BY <1>3, <1>4 DEF Uncounted

(* The removal of a source is queued or running only when every transfer   *)
(* of its group has returned.                                              *)
THEOREM RemovalIsLast == Spec => []RemovalAfterTransfers
  BY Inductive, InvRemoval, PTL

(* A directory with a destination always has a timer wait, or a handler    *)
(* posted or running, that leads to its next scan.                         *)
THEOREM AlwaysRescheduled == Spec => []NeverForgotten
  <1>1. IInv => NeverForgotten
    BY DEF IInv
  <1>2. QED
    BY <1>1, Inductive, PTL

(* The status line shows a directory as running only while some thread     *)
(* lists it: whoever started last has not ended, for its end would have    *)
(* cleared is_run.                                                         *)
LEMMA RunStep ==
  ASSUME TypeOK, RunShown, [Next]_vars
  PROVE  RunShown'
  <1> SUFFICES ASSUME NEW d \in Dirs, is_run'[d]
               PROVE  Listed(d)'
    BY DEF RunShown
  <1>1. CASE \E t \in Threads : ScanStart(t, d)
    BY <1>1 DEF ScanStart, Listed, TypeOK
  <1>2. ASSUME is_run[d],
               \A t \in Threads : job[t] = d /\ pc[t] \in {"scan", "post"} =>
                 job'[t] = d /\ pc'[t] \in {"scan", "post"}
        PROVE  Listed(d)'
    BY <1>2 DEF RunShown, Listed
  <1>3. ASSUME NEW t \in Threads, NEW e \in Dirs, ScanStart(t, e), e # d
        PROVE  Listed(d)'
    <2>1. is_run[d]
      BY <1>3 DEF ScanStart, TypeOK
    <2>2. QED BY <1>2, <1>3, <2>1 DEF ScanStart, TypeOK
  <1>4. ASSUME NEW t \in Threads, NEW ok \in ScanResults, ScanEnd(t, ok)
        PROVE  Listed(d)'
    <2>1. job[t] # d /\ is_run[d]
      BY <1>4 DEF ScanEnd, TypeOK
    <2>2. QED BY <1>2, <1>4, <2>1 DEF ScanEnd, TypeOK
  <1>5. ASSUME NEW t \in Threads, NEW g \in Groups, ProcessFile(t, g)
        PROVE  Listed(d)'
    BY <1>2, <1>5 DEF ProcessFile, TypeOK
  <1>6. ASSUME NEW t \in Threads, PostOperation(t)
        PROVE  Listed(d)'
    BY <1>2, <1>6 DEF PostOperation, TypeOK
  <1>7. ASSUME NEW t \in Threads,
               \/ CountDown(t) \/ LastOperation(t) \/ FinishHandler(t)
               \/ CheckCompletion(t) \/ ExpiresAfter(t) \/ AsyncWait(t)
        PROVE  Listed(d)'
    BY <1>2, <1>7 DEF CountDown, LastOperation, FinishHandler, CheckCompletion,
                      ExpiresAfter, AsyncWait, TypeOK
  <1>8. ASSUME NEW t \in Threads, NEW g \in Groups, NEW i \in Index,
               TakeHandler(t, g, i)
        PROVE  Listed(d)'
    BY <1>2, <1>8 DEF TakeHandler, TypeOK
  <1>9. ASSUME NEW t \in Threads, NEW e \in Dirs, TakeRecheck(t, e)
        PROVE  Listed(d)'
    BY <1>2, <1>9 DEF TakeRecheck, TypeOK
  <1>10. CASE (\E e \in Dirs : TimerExpires(e)) \/ UNCHANGED vars
    BY <1>2, <1>10 DEF TimerExpires, vars, threadVars
  <1>11. QED
    BY <1>1, <1>3, <1>4, <1>5, <1>6, <1>7, <1>8, <1>9, <1>10 DEF Next, HandlerStep

(* RUN:true is never left behind by a scan that has ended, for any number  *)
(* of overlapping scans.                                                   *)
THEOREM RunIsShown == Spec => []RunShown
  <1>1. Init => RunShown
    BY DEF Init, RunShown
  <1>2. IInv /\ RunShown /\ [Next]_vars => RunShown'
    BY RunStep DEF IInv
  <1>3. QED
    BY <1>1, <1>2, Inductive, PTL DEF Spec
=============================================================================

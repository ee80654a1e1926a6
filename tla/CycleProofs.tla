---------------------------- MODULE CycleProofs ----------------------------
(* Scanner implements GroupCycle.                                          *)
EXTENDS ScannerProofs

(* The abstract state of group g: what it has not returned and its phase.  *)
CycleKept(g) == Uncounted(g)' = Uncounted(g) /\ PhaseOf(g)' = PhaseOf(g)

LEMMA CycleStutter ==
  ASSUME \A g \in Groups : CycleKept(g)
  PROVE  UNCHANGED Cycle!cycleVars
  <1>1. [g \in Groups |-> PhaseOf(g)]' = [g \in Groups |-> PhaseOf(g)]
    BY DEF CycleKept
  <1>2. [g \in Groups |-> Uncounted(g)]' = [g \in Groups |-> Uncounted(g)]
    BY DEF CycleKept
  <1>3. QED
    BY <1>1, <1>2 DEF Cycle!cycleVars

(* A step keeps the phases of the groups whose removal it does not touch.  *)
LEMMA PhaseKept ==
  ASSUME NEW g \in Groups, at'[g][0] = at[g][0]
  PROVE  PhaseOf(g)' = PhaseOf(g)
  BY DEF PhaseOf

LEMMA InitCycle == Init => Cycle!CycleInit
  <1> SUFFICES ASSUME Init PROVE Cycle!CycleInit
    OBVIOUS
  <1>1. \A g \in Groups : PhaseOf(g) = "unused"
    BY IndexType DEF Init, PhaseOf
  <1>2. \A g \in Groups : Uncounted(g) = {}
    BY DEF Init, Uncounted
  <1>3. QED
    BY <1>1, <1>2 DEF Cycle!CycleInit

(* The steps that touch no group. *)
LEMMA QuietCycle ==
  ASSUME IInv, Quiet
  PROVE  UNCHANGED Cycle!cycleVars
  <1>1. \A g \in Groups : CycleKept(g)
    BY QuietStep, PhaseKept DEF CycleKept, UncountedKept, Quiet
  <1>2. QED BY <1>1, CycleStutter

(* A listed file begins its group.                                         *)
LEMMA ProcessFileCycle ==
  ASSUME IInv, NEW t \in Threads, NEW g \in Groups, ProcessFile(t, g)
  PROVE  Cycle!Begin(g)
  <1>1. at[g][0] = "none" /\ g[1] \in Dirs /\ job[t] = g[1] /\ 0 \in Index
    BY IndexType DEF ProcessFile, Groups
  <1>2. at' = [at EXCEPT ![g] =
                [i \in Index |-> IF i <= GroupSize(g[1]) THEN "owed" ELSE "none"]]
    BY <1>1 DEF ProcessFile
  <1>3. at'[g][0] = "owed"
    BY <1>1, <1>2, GroupSizeType DEF IInv, TypeOK
  <1>4. PhaseOf(g) = "unused" /\ PhaseOf(g)' = "transfer"
    BY <1>1, <1>3 DEF PhaseOf
  <1>5. \A h \in Groups \ {g} : PhaseOf(h)' = PhaseOf(h)
    BY <1>2, PhaseKept DEF IInv, TypeOK
  <1>6. /\ Uncounted(g)' = 1..GroupSize(g[1])
        /\ \A h \in Groups \ {g} : Uncounted(h)' = Uncounted(h)
    BY ProcessFileStep
  <1>7. [h \in Groups |-> PhaseOf(h)]' =
          [[h \in Groups |-> PhaseOf(h)] EXCEPT ![g] = "transfer"]
    BY <1>4, <1>5
  <1>8. [h \in Groups |-> Uncounted(h)]' =
          [[h \in Groups |-> Uncounted(h)] EXCEPT ![g] = 1..GroupSize(g[1])]
    BY <1>6
  <1>9. QED
    BY <1>4, <1>7, <1>8 DEF Cycle!Begin

(* Counting down returns one transfer.                                     *)
LEMMA CountDownCycle ==
  ASSUME IInv, NEW t \in Threads, CountDown(t)
  PROVE  \E g \in Groups : \E i \in Uncounted(g) : Cycle!Return(g, i)
  <1>1. PICK g \in Groups : g = grp[t] /\ g = grp'[t]
    BY CountDownStep DEF CountDown
  <1>2. PICK i \in Uncounted(g) : i = idx[t] /\ i = idx'[t]
    BY <1>1, CountDownStep DEF CountDown
  <1>3. /\ Uncounted(g)' = Uncounted(g) \ {i}
        /\ \A h \in Groups \ {g} : Uncounted(h)' = Uncounted(h)
    <2>1. Uncounted(grp[t])' = Uncounted(grp[t]) \ {idx[t]}
      BY CountDownStep
    <2>2. Uncounted(g)' = Uncounted(g) \ {i}
      BY <1>1, <1>2, <2>1 DEF Uncounted
    <2>3. QED BY <1>1, <2>2, CountDownStep
  <1>4. [h \in Groups |-> Uncounted(h)]' =
          [[h \in Groups |-> Uncounted(h)] EXCEPT ![g] = @ \ {i}]
    BY <1>3
  <1>5. \A h \in Groups : PhaseOf(h)' = PhaseOf(h)
    BY PhaseKept DEF CountDown
  <1>6. [h \in Groups |-> PhaseOf(h)]' = [h \in Groups |-> PhaseOf(h)]
    BY <1>5
  <1>7. Cycle!Return(g, i)
    BY <1>2, <1>4, <1>6 DEF Cycle!Return
  <1>8. QED BY <1>7

(* The last operation ends a move, or posts the removal.                   *)
LEMMA LastOperationCycle ==
  ASSUME IInv, NEW t \in Threads, LastOperation(t)
  PROVE  \E g \in Groups : Cycle!LastReturned(g)
  <1> DEFINE g == grp[t]
  <1>1. /\ g \in Groups /\ g[1] = job[t] /\ at[g][0] = "owed"
        /\ pending_operations[g] = 0 /\ 0 \in Index
    BY IndexType DEF LastOperation, IInv, ThreadInv, Running, RemovalInv
  <1> DEFINE p == IF OnlyMove(g[1]) THEN "none" ELSE "queued"
  <1>2. at' = [at EXCEPT ![g][0] = p]
    BY <1>1 DEF LastOperation
  <1>3. Uncounted(g) = {}
    <2>1. IsFiniteSet(Uncounted(g))
      BY IndexType, FS_Subset DEF Uncounted
    <2>2. QED BY <1>1, <2>1, FS_EmptySet DEF IInv, PendingInv
  <1>4. /\ at'[g][0] = p
        /\ \A h \in Groups : h # g => at'[h][0] = at[h][0]
    BY <1>1, <1>2 DEF IInv, TypeOK
  <1>5. \A h \in Groups : PhaseOf(h)' =
          IF h = g THEN IF OnlyMove(g[1]) THEN "unused" ELSE "remove"
                   ELSE PhaseOf(h)
    BY <1>1, <1>4 DEF PhaseOf
  <1>6. PhaseOf(g) = "transfer"
    BY <1>1 DEF PhaseOf
  <1>7. [h \in Groups |-> PhaseOf(h)]' =
          [[h \in Groups |-> PhaseOf(h)] EXCEPT ![g] =
             IF OnlyMove(g[1]) THEN "unused" ELSE "remove"]
    BY <1>1, <1>5
  <1>8. [h \in Groups |-> Uncounted(h)]' = [h \in Groups |-> Uncounted(h)]
    BY LastOperationStep DEF UncountedKept
  <1>9. Cycle!LastReturned(g)
    BY <1>1, <1>3, <1>6, <1>7, <1>8 DEF Cycle!LastReturned
  <1>10. QED BY <1>1, <1>9

(* The end of the handler of a removal ends its group; the end of that of  *)
(* an operation is invisible.                                              *)
LEMMA FinishHandlerCycle ==
  ASSUME IInv, NEW t \in Threads, FinishHandler(t)
  PROVE  (\E g \in Groups : Cycle!Removed(g)) \/ UNCHANGED Cycle!cycleVars
  <1> DEFINE g == grp[t]
  <1>1. /\ g \in Groups /\ idx[t] \in Index /\ at[g][idx[t]] = "running"
        /\ 0 \in Index
    BY IndexType DEF FinishHandler, IInv, TypeOK, ThreadInv, OwnerInv, Running
  <1>2. at' = [at EXCEPT ![g][idx[t]] = "none"]
    BY DEF FinishHandler
  <1>3. \A h \in Groups : Uncounted(h)' = Uncounted(h)
    BY FinishHandlerStep DEF UncountedKept
  <1>4. CASE idx[t] = 0
    <2>1. /\ at'[g][0] = "none" /\ at[g][0] = "running"
          /\ \A h \in Groups : h # g => at'[h][0] = at[h][0]
      BY <1>1, <1>2, <1>4 DEF IInv, TypeOK
    <2>2. \A h \in Groups :
            PhaseOf(h)' = IF h = g THEN "unused" ELSE PhaseOf(h)
      BY <1>1, <2>1 DEF PhaseOf
    <2>3. PhaseOf(g) = "remove"
      BY <2>1 DEF PhaseOf
    <2>4. [h \in Groups |-> PhaseOf(h)]' =
            [[h \in Groups |-> PhaseOf(h)] EXCEPT ![g] = "unused"]
      BY <1>1, <2>2
    <2>5. [h \in Groups |-> Uncounted(h)]' = [h \in Groups |-> Uncounted(h)]
      BY <1>3
    <2>6. Cycle!Removed(g)
      BY <1>1, <2>3, <2>4, <2>5 DEF Cycle!Removed
    <2>7. QED BY <1>1, <2>6
  <1>5. CASE idx[t] # 0
    <2>1. \A h \in Groups : at'[h][0] = at[h][0]
      BY <1>1, <1>2, <1>5 DEF IInv, TypeOK
    <2>2. \A h \in Groups : CycleKept(h)
      BY <1>3, <2>1, PhaseKept DEF CycleKept
    <2>3. QED BY <2>2, CycleStutter
  <1>6. QED BY <1>4, <1>5

(* Posting an operation, and taking a handler from the queue, are          *)
(* invisible.                                                              *)
LEMMA PostAndTakeCycle ==
  ASSUME IInv, NEW t \in Threads,
         \/ PostOperation(t)
         \/ \E g \in Groups, i \in Index : TakeHandler(t, g, i)
  PROVE  UNCHANGED Cycle!cycleVars
  <1>1. CASE PostOperation(t)
    <2>1. idx[t] \in 1..GroupSize(job[t]) /\ job[t] \in Dirs
      BY <1>1 DEF PostOperation, IInv, ThreadInv, Groups
    <2>2. idx[t] # 0
      BY <2>1, GroupSizeType
    <2>3. \A h \in Groups : at'[h][0] = at[h][0]
      BY <1>1, <2>2, IndexType DEF PostOperation, IInv, TypeOK
    <2>4. \A h \in Groups : CycleKept(h)
      BY <1>1, <2>3, PhaseKept, PostOperationStep DEF CycleKept, UncountedKept
    <2>5. QED BY <2>4, CycleStutter
  <1>2. ASSUME NEW g \in Groups, NEW i \in Index, TakeHandler(t, g, i)
        PROVE  UNCHANGED Cycle!cycleVars
    <2>1. /\ at' = [at EXCEPT ![g][i] = "running"]
          /\ at[g][i] = "queued"
          /\ 0 \in Index
      BY <1>2, IndexType DEF TakeHandler
    <2>2. \A h \in Groups : PhaseOf(h)' = PhaseOf(h)
      <3> SUFFICES ASSUME NEW h \in Groups PROVE PhaseOf(h)' = PhaseOf(h)
        OBVIOUS
      <3>1. CASE h = g /\ i = 0
        <4>1. at[h][0] = "queued" /\ at'[h][0] = "running"
          BY <2>1, <3>1 DEF IInv, TypeOK
        <4>2. QED BY <4>1 DEF PhaseOf
      <3>2. CASE ~(h = g /\ i = 0)
        <4>1. at'[h][0] = at[h][0]
          BY <2>1, <3>2 DEF IInv, TypeOK
        <4>2. QED BY <4>1, PhaseKept
      <3>3. QED BY <3>1, <3>2
    <2>3. \A h \in Groups : CycleKept(h)
      BY <1>2, <2>2, TakeHandlerStep DEF CycleKept, UncountedKept
    <2>4. QED BY <2>3, CycleStutter
  <1>3. QED BY <1>1, <1>2

(* Every step of the scanner is a step of a group, or none.                *)
LEMMA StepCycle == IInv /\ [Next]_vars => [Cycle!CycleNext]_(Cycle!cycleVars)
  <1> SUFFICES ASSUME IInv, [Next]_vars
               PROVE  [Cycle!CycleNext]_(Cycle!cycleVars)
    OBVIOUS
  <1> USE DEF Cycle!CycleNext
  <1>1. ASSUME NEW t \in Threads, NEW g \in Groups, ProcessFile(t, g)
        PROVE  Cycle!CycleNext
    BY <1>1, ProcessFileCycle
  <1>2. ASSUME NEW t \in Threads, CountDown(t)
        PROVE  Cycle!CycleNext
    <2>1. PICK g \in Groups : \E i \in Uncounted(g) : Cycle!Return(g, i)
      BY <1>2, CountDownCycle
    <2>2. [h \in Groups |-> Uncounted(h)][g] = Uncounted(g)
      OBVIOUS
    <2>3. QED BY <2>1, <2>2
  <1>3. ASSUME NEW t \in Threads, LastOperation(t)
        PROVE  Cycle!CycleNext
    BY <1>3, LastOperationCycle
  <1>4. ASSUME NEW t \in Threads, FinishHandler(t)
        PROVE  Cycle!CycleNext \/ UNCHANGED Cycle!cycleVars
    BY <1>4, FinishHandlerCycle
  <1>5. ASSUME NEW t \in Threads, NEW ok \in ScanResults,
               ScanEnd(t, ok)
        PROVE  UNCHANGED Cycle!cycleVars
    <2>1. Quiet
      BY <1>5 DEF ScanEnd, Quiet, GroupPC, IInv, TypeOK, groupVars
    <2>2. QED BY <2>1, QuietCycle
  <1>6. ASSUME NEW t \in Threads,
               CheckCompletion(t) \/ ExpiresAfter(t) \/ AsyncWait(t)
        PROVE  UNCHANGED Cycle!cycleVars
    <2>1. Quiet
      BY <1>6 DEF CheckCompletion, ExpiresAfter, AsyncWait, Quiet,
           GroupPC, IInv, TypeOK, groupVars
    <2>2. QED BY <2>1, QuietCycle
  <1>7. ASSUME NEW t \in Threads, NEW d \in Dirs, ScanStart(t, d) \/ TakeRecheck(t, d)
        PROVE  UNCHANGED Cycle!cycleVars
    <2>1. Quiet
      BY <1>7 DEF ScanStart, TakeRecheck, Quiet, GroupPC, IInv, TypeOK, groupVars
    <2>2. QED BY <2>1, QuietCycle
  <1>8. ASSUME NEW d \in Dirs, TimerExpires(d)
        PROVE  UNCHANGED Cycle!cycleVars
    <2>1. Quiet
      BY <1>8 DEF TimerExpires, Quiet, groupVars, threadVars
    <2>2. QED BY <2>1, QuietCycle
  <1>9. CASE UNCHANGED vars
    <2>1. Quiet
      BY <1>9 DEF vars, threadVars, groupVars, Quiet
    <2>2. QED BY <2>1, QuietCycle
  <1>10. QED
    BY <1>1, <1>2, <1>3, <1>4, <1>5, <1>6, <1>7, <1>8, <1>9, PostAndTakeCycle
    DEF Next, HandlerStep

(* The scanner implements the cycle of a group, for every number of        *)
(* threads, directories, destinations and overlapping scans.               *)
THEOREM ScannerImplementsCycle == Spec => ImplementsCycle
  <1>1. Init => Cycle!CycleInit
    BY InitCycle
  <1>2. IInv /\ [Next]_vars => [Cycle!CycleNext]_(Cycle!cycleVars)
    BY StepCycle
  <1>3. QED
    BY <1>1, <1>2, Inductive, PTL DEF Spec, ImplementsCycle, Cycle!CycleSpec
=============================================================================

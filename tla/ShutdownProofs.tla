--------------------------- MODULE ShutdownProofs --------------------------
(***************************************************************************)
(* Theorems about Shutdown, for a pool of any size, any number of scans    *)
(* and any bound on the work.  SafeDestroy is proved for the destructor    *)
(* alone (Calls = 1): with a second call it does not hold.                 *)
(***************************************************************************)
EXTENDS Shutdown, TLAPS

(* The bound on the work, and who has been detached.                       *)
ShutdownType ==
  /\ TypeOK
  /\ posted + waits <= MaxWork + Posted
  /\ caller = "detach" => call \in Runners

LEMMA Constants ==
  /\ Posted \in Nat /\ MaxWork \in Nat /\ Calls \in Nat \ {0}
  /\ Runners = 1..Calls /\ Pool \intersect Runners = {} /\ Nobody \notin Runners
BY ShutdownAssumption DEF ShutdownAssumption, Runners, Nobody

LEMMA ShutdownInit == Init => ShutdownType
<1> SUFFICES ASSUME Init PROVE ShutdownType
  OBVIOUS
<1>1. thread \in [Pool \union Runners -> Runner]
  BY DEF Init, Runner
<1>2. posted = Posted /\ waits = 0 /\ posted + waits <= MaxWork + Posted
  BY Constants DEF Init
<1>3. call = 0 /\ caller = "works" /\ mutex_ = Nobody /\ caller \in Caller
  BY DEF Init, Caller
<1>4. io_stopped = FALSE /\ stopped = FALSE
  BY DEF Init
<1>5. posted \in 0..(MaxWork + Posted) /\ waits \in 0..MaxWork /\ call \in 0..Calls
  BY <1>2, <1>3, Constants
<1> QED BY <1>1, <1>2, <1>3, <1>4, <1>5 DEF ShutdownType, TypeOK

(* A thread goes on: the array of the threads keeps its type.              *)
LEMMA MovesType ==
  ASSUME TypeOK, NEW t \in Pool \union Runners, NEW from, NEW to \in Runner,
         Moves(t, from, to)
  PROVE  /\ thread' \in [Pool \union Runners -> Runner]
         /\ thread[t] = from /\ thread'[t] = to
         /\ \A u \in (Pool \union Runners) \ {t} : thread'[u] = thread[u]
BY DEF TypeOK, Moves

(* The steps of a thread in io_.run().                                     *)
LEMMA RunType ==
  ASSUME ShutdownType, NEW t \in Pool \union Runners,
         RunStep(t) \/ PostHandler(t) \/ ArmTimer(t)
  PROVE  ShutdownType'
<1> USE Constants DEF ShutdownType, TypeOK
<1>1. CASE TakeHandler(t)
  BY <1>1, MovesType DEF TakeHandler, Runner
<1>2. CASE EndHandler(t)
  BY <1>2, MovesType DEF EndHandler, Runner, pool
<1>3. CASE TimerExpires(t)
  BY <1>3 DEF TimerExpires
<1>4. CASE RunReturns(t)
  BY <1>4, MovesType DEF RunReturns, Runner
<1>5. CASE PostHandler(t)
  BY <1>5 DEF PostHandler
<1>6. CASE ArmTimer(t)
  BY <1>6 DEF ArmTimer
<1> QED BY <1>1, <1>2, <1>3, <1>4, <1>5, <1>6 DEF RunStep

(* The steps of a detached thread after io_.run().                         *)
LEMMA RunnerType ==
  ASSUME ShutdownType, NEW n \in Runners, RunnerStep(n)
  PROVE  ShutdownType'
<1> USE Constants DEF ShutdownType, TypeOK, pool
<1>1. CASE LockAndSet(n)
  BY <1>1, MovesType DEF LockAndSet, Runner
<1>2. CASE Notify(n)
  BY <1>2, MovesType DEF Notify, Runner, Caller
<1>3. CASE Unlock(n)
  BY <1>3, MovesType DEF Unlock, Runner
<1> QED BY <1>1, <1>2, <1>3 DEF RunnerStep

(* The steps of stop().                                                    *)
LEMMA CallerType ==
  ASSUME ShutdownType, StopContext \/ CallerStep
  PROVE  ShutdownType'
<1> USE Constants DEF ShutdownType, TypeOK, pool
<1>1. CASE StopContext
  BY <1>1 DEF StopContext, Caller
<1>2. CASE Detach
  BY <1>2, MovesType DEF Detach, Runner, Caller
<1>3. CASE Wait
  BY <1>3 DEF Wait, Caller
<1>4. CASE Join
  BY <1>4 DEF Join, Caller
<1> QED BY <1>1, <1>2, <1>3, <1>4 DEF CallerStep

LEMMA ShutdownStep == ShutdownType /\ [Next]_allVars => ShutdownType'
<1> SUFFICES ASSUME ShutdownType, [Next]_allVars PROVE ShutdownType'
  OBVIOUS
<1>1. CASE UNCHANGED allVars
  BY <1>1 DEF ShutdownType, TypeOK, allVars, pool
<1> QED BY <1>1, RunType, RunnerType, CallerType DEF Next, Destroyed

(* Every variable keeps its type: no more handlers are taken than were     *)
(* posted, and mutex_ is held by nobody or by one detached thread.         *)
THEOREM ShutdownTypeCorrect == Spec => []TypeOK
<1>1. ShutdownType => TypeOK
  BY DEF ShutdownType
<1> QED BY <1>1, ShutdownInit, ShutdownStep, PTL DEF Spec

-----------------------------------------------------------------------------
(* One call of stop() *)

(* The detached thread holds mutex_ from the moment it sets stopped until  *)
(* it has touched the condition variable for the last time.                *)
OnceInv ==
  /\ ShutdownType
  /\ IF caller = "works" THEN call = 0 ELSE call = 1
  /\ stopped => thread[1] \in {"notify", "unlock", "done"}
  /\ thread[1] \in {"notify", "unlock"} => mutex_ = 1
  /\ caller \in {"join", "destroyed"} => thread[1] = "done"
  /\ caller = "destroyed" => \A t \in Pool : thread[t] = "returned"

LEMMA OnceInit == Calls = 1 /\ Init => OnceInv
BY ShutdownInit, Constants DEF Init, OnceInv

LEMMA OnceStep == Calls = 1 /\ OnceInv /\ [Next]_allVars => OnceInv'
<1> SUFFICES ASSUME Calls = 1, OnceInv, [Next]_allVars PROVE OnceInv'
  OBVIOUS
<1>1. ShutdownType' /\ ShutdownType /\ TypeOK
  BY ShutdownStep DEF OnceInv, ShutdownType
<1>2. Runners = {1} /\ 1 \notin Pool /\ 1 # Nobody
  BY Constants DEF Nobody
<1> USE <1>1, <1>2 DEF OnceInv
<1>3. CASE UNCHANGED allVars
  BY <1>3 DEF allVars, pool
<1>4. ASSUME NEW t \in Pool \union Runners,
             RunStep(t) \/ PostHandler(t) \/ ArmTimer(t)
      PROVE  OnceInv'
  <2>1. CASE TakeHandler(t)
    BY <2>1, MovesType DEF TakeHandler, Runner
  <2>2. CASE EndHandler(t)
    BY <2>2, MovesType DEF EndHandler, Runner, pool
  <2>3. CASE TimerExpires(t)
    BY <2>3 DEF TimerExpires
  <2>4. CASE RunReturns(t)
    BY <2>4, MovesType DEF RunReturns, Runner
  <2>5. CASE PostHandler(t)
    BY <2>5 DEF PostHandler
  <2>6. CASE ArmTimer(t)
    BY <2>6 DEF ArmTimer
  <2> QED BY <1>4, <2>1, <2>2, <2>3, <2>4, <2>5, <2>6 DEF RunStep
<1>5. ASSUME NEW n \in Runners, RunnerStep(n)
      PROVE  OnceInv'
  <2>1. CASE LockAndSet(n)
    BY <2>1, MovesType DEF LockAndSet, Runner, pool
  <2>2. CASE Notify(n)
    BY <2>2, MovesType DEF Notify, Runner, pool
  <2>3. CASE Unlock(n)
    BY <2>3, MovesType DEF Unlock, Runner, pool
  <2> QED BY <1>5, <2>1, <2>2, <2>3 DEF RunnerStep
<1>6. CASE StopContext
  BY <1>6 DEF StopContext
<1>7. CASE Detach
  BY <1>7, MovesType DEF Detach, Runner, pool, ShutdownType
<1>8. CASE Wait
  BY <1>8 DEF Wait, pool
<1>9. CASE Join
  <2>1. call = 1 /\ caller = "join"
    BY <1>9 DEF Join
  <2> QED BY <1>9, <2>1 DEF Join, pool
<1> QED BY <1>3, <1>4, <1>5, <1>6, <1>7, <1>8, <1>9 DEF Next, CallerStep, Destroyed

(* When the destructor, the only caller of stop(), goes on to destroy io_, *)
(* mutex_ and cv_, no pool thread is in io_.run() and the detached thread  *)
(* touches none of them any more.                                          *)
THEOREM DestructionIsSafe ==
  ASSUME Calls = 1
  PROVE  Spec => []SafeDestroy
<1>1. OnceInv => SafeDestroy
  BY Constants DEF OnceInv, SafeDestroy
<1>2. Init => OnceInv
  BY OnceInit
<1>3. OnceInv /\ [Next]_allVars => OnceInv'
  BY OnceStep
<1> QED BY <1>1, <1>2, <1>3, PTL DEF Spec
=============================================================================

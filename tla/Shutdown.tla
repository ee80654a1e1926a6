----------------------------- MODULE Shutdown -----------------------------
(***************************************************************************)
(* DirectoryScanner::start and stop (directory_scanner.h): the pool of     *)
(* threads in io_.run(), and the caller that stops the io_context, waits   *)
(* for the thread it detaches to say so, joins the pool and, at the end of *)
(* the destructor, destroys what the handlers use.                         *)
(*                                                                         *)
(* Abstracted: what the handlers do (module Scanner), save that they post  *)
(* handlers and arm timers; which handler is taken.                        *)
(***************************************************************************)
EXTENDS Integers, FiniteSets

CONSTANTS
  Pool,       \* the threads start() created: hardware_concurrency() of them
  Posted,     \* the scans start() posted: one for each directory
  Calls,      \* calls of stop(): 1 by the destructor, 2 with one before it
  MaxWork     \* bound: handlers posted and timers armed at one time

ASSUME ShutdownAssumption ==
  /\ IsFiniteSet(Pool) /\ Posted \in Nat /\ MaxWork \in Nat
  /\ Calls \in Nat \ {0} /\ Pool \intersect (1..Calls) = {}

(* The thread that call n of stop() detaches.                              *)
Runners == 1..Calls

VARIABLES
  posted,      \* handlers in the queue of io_
  waits,       \* pending waits of the timers
  io_stopped,  \* io_ is stopped: run() returns
  thread,      \* where each pool thread and each detached thread is
  call,        \* the call of stop() the caller is in, or made last
  caller,      \* where the caller is
  mutex_,      \* who holds mutex_
  stopped      \* the member stopped

pool == <<posted, waits, io_stopped>>
allVars == <<pool, thread, call, caller, mutex_, stopped>>

Nobody == 0

Runner == {"none", "run", "handler", "returned", "notify", "unlock", "done"}
Caller == {"works", "detach", "wait", "asleep", "join", "destroyed"}

TypeOK ==
  /\ posted \in 0..(MaxWork + Posted) /\ waits \in 0..MaxWork
  /\ io_stopped \in BOOLEAN /\ stopped \in BOOLEAN
  /\ thread \in [Pool \union Runners -> Runner]
  /\ call \in 0..Calls /\ caller \in Caller
  /\ mutex_ \in Runners \union {Nobody}

Init ==
  /\ posted = Posted
  /\ waits = 0
  /\ io_stopped = FALSE
  /\ thread = [t \in Pool \union Runners |-> IF t \in Pool THEN "run" ELSE "none"]
  /\ call = 0
  /\ caller = "works"
  /\ mutex_ = Nobody
  /\ stopped = FALSE

Moves(t, from, to) ==
  /\ thread[t] = from
  /\ thread' = [thread EXCEPT ![t] = to]
-----------------------------------------------------------------------------
(* Faulty variants of actions below.                                       *)

(* A handler is taken from a queue that may be empty.                      *)
TakeHandlerAnyway(t) ==
  /\ ~io_stopped
  /\ Moves(t, "run", "handler")
  /\ posted' = posted - 1
  /\ UNCHANGED <<waits, io_stopped, call, caller, mutex_, stopped>>

(* stopped is set, and nobody is woken.                                    *)
NotifyNobody(n) ==
  /\ Moves(n, "notify", "unlock")
  /\ UNCHANGED <<pool, call, caller, mutex_, stopped>>

(* cv_.wait without its predicate.                                         *)
WaitForNothing ==
  /\ caller = "wait"
  /\ mutex_ = Nobody
  /\ caller' = "join"
  /\ UNCHANGED <<pool, thread, call, mutex_, stopped>>

-----------------------------------------------------------------------------
(* io_.run(), in the pool and in the detached thread                       *)

TakeHandler(t) ==
  /\ ~io_stopped /\ posted > 0
  /\ Moves(t, "run", "handler")
  /\ posted' = posted - 1
  /\ UNCHANGED <<waits, io_stopped, call, caller, mutex_, stopped>>

PostHandler(t) ==
  /\ thread[t] = "handler"
  /\ posted + waits < MaxWork
  /\ posted' = posted + 1
  /\ UNCHANGED <<waits, io_stopped, thread, call, caller, mutex_, stopped>>

ArmTimer(t) ==
  /\ thread[t] = "handler"
  /\ posted + waits < MaxWork
  /\ waits' = waits + 1
  /\ UNCHANGED <<posted, io_stopped, thread, call, caller, mutex_, stopped>>

EndHandler(t) ==
  /\ Moves(t, "handler", "run")
  /\ UNCHANGED <<pool, call, caller, mutex_, stopped>>

(* A thread in run() finds an expired timer and posts its handler.         *)
TimerExpires(t) ==
  /\ thread[t] = "run" /\ ~io_stopped /\ waits > 0
  /\ waits' = waits - 1
  /\ posted' = posted + 1
  /\ UNCHANGED <<io_stopped, thread, call, caller, mutex_, stopped>>

(* run() returns when io_ is stopped, and stops it when nothing is left.   *)
RunReturns(t) ==
  /\ \/ io_stopped
     \/ posted = 0 /\ waits = 0 /\ \A u \in DOMAIN thread : thread[u] # "handler"
  /\ Moves(t, "run", "returned")
  /\ io_stopped' = TRUE
  /\ UNCHANGED <<posted, waits, call, caller, mutex_, stopped>>
-----------------------------------------------------------------------------
(* The detached thread after io_.run(): under mutex_ it sets stopped and   *)
(* wakes the caller.                                                       *)

LockAndSet(n) ==
  /\ mutex_ = Nobody
  /\ Moves(n, "returned", "notify")
  /\ mutex_' = n
  /\ stopped' = TRUE
  /\ UNCHANGED <<pool, call, caller>>

Notify(n) ==
  /\ Moves(n, "notify", "unlock")
  /\ caller' = IF caller = "asleep" THEN "wait" ELSE caller
  /\ UNCHANGED <<pool, call, mutex_, stopped>>

Unlock(n) ==
  /\ Moves(n, "unlock", "done")
  /\ mutex_' = Nobody
  /\ UNCHANGED <<pool, call, caller, stopped>>
-----------------------------------------------------------------------------
(* stop() *)

StopContext ==
  /\ caller = "works" /\ call < Calls
  /\ mutex_ = Nobody
  /\ io_stopped' = TRUE
  /\ call' = call + 1
  /\ caller' = "detach"
  /\ UNCHANGED <<posted, waits, thread, mutex_, stopped>>

Detach ==
  /\ caller = "detach"
  /\ Moves(call, "none", "run")
  /\ caller' = "wait"
  /\ UNCHANGED <<pool, call, mutex_, stopped>>

(* cv_.wait: the predicate is read under mutex_.                           *)
Wait ==
  /\ caller = "wait"
  /\ mutex_ = Nobody
  /\ caller' = IF stopped THEN "join" ELSE "asleep"
  /\ UNCHANGED <<pool, thread, call, mutex_, stopped>>

(* Every thread of the pool is joined; the last call is the destructor's.  *)
Join ==
  /\ caller = "join"
  /\ \A t \in Pool : thread[t] = "returned"
  /\ caller' = IF call = Calls THEN "destroyed" ELSE "works"
  /\ UNCHANGED <<pool, thread, call, mutex_, stopped>>

Destroyed == caller = "destroyed" /\ UNCHANGED allVars
-----------------------------------------------------------------------------
RunStep(t) ==
  \/ TakeHandler(t)
  \/ EndHandler(t)
  \/ TimerExpires(t)
  \/ RunReturns(t)

RunnerStep(n) == LockAndSet(n) \/ Notify(n) \/ Unlock(n)

CallerStep == Detach \/ Wait \/ Join

Next ==
  \/ \E t \in Pool \union Runners : RunStep(t) \/ PostHandler(t) \/ ArmTimer(t)
  \/ \E n \in Runners : RunnerStep(n)
  \/ StopContext
  \/ CallerStep
  \/ Destroyed

Spec == Init /\ [][Next]_allVars

(* Threads that can go on do; a handler ends (a transfer that returns).    *)
Fairness ==
  /\ \A t \in Pool \union Runners : WF_allVars(EndHandler(t)) /\ WF_allVars(RunReturns(t))
  /\ \A n \in Runners : WF_allVars(RunnerStep(n))
  /\ WF_allVars(CallerStep)

FairSpec == Spec /\ Fairness
-----------------------------------------------------------------------------
(* Properties *)

(* When the destructor goes on to destroy io_, the mutex, the condition    *)
(* variable and the monitors, no thread is in a handler or in io_.run(),   *)
(* and the detached threads touch none of them any more.                   *)
SafeDestroy ==
  caller = "destroyed" =>
    /\ \A t \in Pool : thread[t] = "returned"
    /\ \A n \in Runners : thread[n] = "done"

(* stop() returns.                                                         *)
StopReturns == caller = "detach" ~> caller = "destroyed"
=============================================================================

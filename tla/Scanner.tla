------------------------------ MODULE Scanner ------------------------------
(***************************************************************************)
(* DirectoryScanner (directory_scanner.h, directory_scanner.cpp): a pool   *)
(* of threads runs the handlers of one boost::asio::io_context.  A scan of *)
(* a directory lists its files and posts, for each, a group of transfer    *)
(* operations; the last operation of a group posts the handler that        *)
(* removes the source; active_tasks_ counts what is still owed, and the    *)
(* handler that finds it at zero arms the timer of the next scan.          *)
(*                                                                         *)
(* Abstracted: what a transfer does to the files, which files a listing    *)
(* yields, the length of the two delays (10 s, 10 min), the sucsess and    *)
(* error counters, which only the status line of main reads, and logging.  *)
(* io_context promises no order between handlers that several threads run, *)
(* so its queue is a set.                                                  *)
(***************************************************************************)
EXTENDS Integers, FiniteSets

CONSTANTS
  Dirs,          \* the ids of the configured directories (TaskParams::id)
  Threads,       \* the threads that run io_.run()
  to_size,       \* to_size[d]: number of destinations of d (dir.to.size())
  file_mode,     \* file_mode[d]: the mode configured for d
  protocol,      \* protocol[d]: the protocol of d's source
  ScanResults,   \* what a listing may return: a subset of BOOLEAN
  MaxTo,         \* bound: destinations of a directory
  MaxFiles,      \* bound: files one listing yields
  Slots,         \* bound: groups of a directory alive at the same time
  MaxReady,      \* bound: expired timer handlers of a directory not yet run
  None           \* no directory, no group

FileMode == {"COPY", "BALANCER", "ONLY_MOVE"}
Protocol == {"DIR", "FTP", "S3"}

(* A directory may be configured without a destination (TaskParams::to is  *)
(* empty by default); with BALANCER, and a source that is not FTP, the     *)
(* listing then computes round_robin % 0, which is undefined: excluded.    *)
ASSUME ConstantsAssumption ==
  /\ MaxTo \in Nat /\ MaxFiles \in Nat /\ MaxReady \in Nat
  /\ IsFiniteSet(Dirs) /\ IsFiniteSet(Slots)
  /\ to_size \in [Dirs -> 0..MaxTo]
  /\ file_mode \in [Dirs -> FileMode]
  /\ protocol \in [Dirs -> Protocol]
  /\ ScanResults \in SUBSET BOOLEAN
  /\ \A d \in Dirs :
       file_mode[d] = "BALANCER" /\ protocol[d] # "FTP" => to_size[d] > 0
  /\ None \notin Dirs /\ None \notin Dirs \X Slots

(* A GroupTask object: the directory it belongs to and the slot it uses.   *)
Groups == Dirs \X Slots

(* The handlers a group owes: operation i for i in 1..its size, and 0 for  *)
(* the handler that removes the source.                                    *)
Index == 0..MaxTo

(* The mode every group of d gets, and its number of operations: a single  *)
(* destination makes the group a move; a balanced file goes to one         *)
(* destination (the FTP listing pushes them all); else one per destination.*)
OnlyMove(d) == to_size[d] = 1

GroupSize(d) ==
  IF file_mode[d] = "BALANCER" /\ protocol[d] # "FTP" THEN 1 ELSE to_size[d]

VARIABLES
  pc,                  \* what each pool thread is doing
  job,                 \* the directory whose handler the thread runs
  grp, idx,            \* the group and the index of that handler
  left,                \* files the running listing may still yield
  kind,                \* the handler the thread is about to wait with
  at,                  \* at[g][i]: where handler i of group g is
  pending_operations,  \* operations of the group not yet counted down
  active_tasks,        \* active_tasks_[d]
  is_run,              \* monitor[d]->is_run
  waiting,             \* waiting[d][k]: pending async_waits of d's timer
  ready                \* ready[d][k]: expired or posted timer handlers of d

threadVars == <<pc, job, grp, idx, left, kind>>
groupVars == <<at, pending_operations>>
timerVars == <<waiting, ready>>
vars == <<threadVars, groupVars, active_tasks, is_run, timerVars>>

(* What a timer of a directory runs when it expires: scan_directories      *)
(* after schedule_scan, check_completion after a listing that failed.      *)
Kind == {"scan", "recheck"}

(* Counted in active_tasks_ but not posted, posted, run by a thread.       *)
Place == {"none", "owed", "queued", "running"}

PC == {"idle", "scan", "post", "op", "last", "delete", "sub",
       "check", "expires", "wait"}

TypeOK ==
  /\ pc \in [Threads -> PC]
  /\ job \in [Threads -> Dirs \union {None}]
  /\ grp \in [Threads -> Groups \union {None}]
  /\ idx \in [Threads -> Index]
  /\ left \in [Threads -> 0..MaxFiles]
  /\ kind \in [Threads -> Kind]
  /\ at \in [Groups -> [Index -> Place]]
  /\ pending_operations \in [Groups -> Nat]
  /\ active_tasks \in [Dirs -> Nat]
  /\ is_run \in [Dirs -> BOOLEAN]
  /\ waiting \in [Dirs -> [Kind -> Nat]]
  /\ ready \in [Dirs -> [Kind -> Nat]]

NoWait == [k \in Kind |-> 0]

(* After start(): one scan posted for every directory, every thread in     *)
(* io_.run().                                                              *)
Init ==
  /\ pc = [t \in Threads |-> "idle"]
  /\ job = [t \in Threads |-> None]
  /\ grp = [t \in Threads |-> None]
  /\ idx = [t \in Threads |-> 0]
  /\ left = [t \in Threads |-> 0]
  /\ kind = [t \in Threads |-> "scan"]
  /\ at = [g \in Groups |-> [i \in Index |-> "none"]]
  /\ pending_operations = [g \in Groups |-> 0]
  /\ active_tasks = [d \in Dirs |-> 0]
  /\ is_run = [d \in Dirs |-> FALSE]
  /\ waiting = [d \in Dirs |-> NoWait]
  /\ ready = [d \in Dirs |-> [NoWait EXCEPT !["scan"] = 1]]

-----------------------------------------------------------------------------
(* Faulty variants of the actions below: each is a slip the code could     *)
(* have, and breaks a property that holds of the action it varies.         *)

(* process_file adds the number of operations without the extra one.       *)
ProcessFileWithoutExtra(t, g) ==
  LET d == job[t]
      n == GroupSize(d)
  IN /\ pc[t] = "scan" /\ left[t] > 0 /\ g[1] = d
     /\ \A i \in Index : at[g][i] = "none"
     /\ pending_operations' = [pending_operations EXCEPT ![g] = n]
     /\ active_tasks' = [active_tasks EXCEPT ![d] = @ + n]
     /\ at' = [at EXCEPT ![g] = [i \in Index |-> IF i <= n THEN "owed" ELSE "none"]]
     /\ left' = [left EXCEPT ![t] = @ - 1]
     /\ IF n = 0
          THEN UNCHANGED <<pc, grp, idx>>
          ELSE /\ pc' = [pc EXCEPT ![t] = "post"]
               /\ grp' = [grp EXCEPT ![t] = g]
               /\ idx' = [idx EXCEPT ![t] = 1]
     /\ UNCHANGED <<job, kind, is_run, timerVars>>

(* The loop of process_file ends one operation early.                      *)
PostOperationShort(t) ==
  /\ pc[t] = "post"
  /\ at' = [at EXCEPT ![grp[t]][idx[t]] = "queued"]
  /\ IF idx[t] + 1 >= GroupSize(job[t])
       THEN /\ pc' = [pc EXCEPT ![t] = "scan"]
            /\ grp' = [grp EXCEPT ![t] = None]
            /\ idx' = [idx EXCEPT ![t] = 0]
       ELSE /\ idx' = [idx EXCEPT ![t] = @ + 1]
            /\ UNCHANGED <<pc, grp>>
  /\ UNCHANGED <<job, left, kind, pending_operations, active_tasks, is_run,
                 timerVars>>

(* A listing that fails just returns.                                      *)
ScanEndWithoutRecheck(t, ok) ==
  /\ pc[t] = "scan"
  /\ is_run' = [is_run EXCEPT ![job[t]] = FALSE]
  /\ pc' = [pc EXCEPT ![t] = IF ok THEN "check" ELSE "idle"]
  /\ job' = [job EXCEPT ![t] = IF ok THEN @ ELSE None]
  /\ left' = [left EXCEPT ![t] = 0]
  /\ UNCHANGED <<grp, idx, kind, groupVars, active_tasks, timerVars>>

(* A listing that has returned leaves is_run set.                          *)
ScanEndStillShown(t, ok) ==
  /\ pc[t] = "scan"
  /\ pc' = [pc EXCEPT ![t] = IF ok THEN "check" ELSE "expires"]
  /\ kind' = [kind EXCEPT ![t] = IF ok THEN "scan" ELSE "recheck"]
  /\ left' = [left EXCEPT ![t] = 0]
  /\ UNCHANGED <<job, grp, idx, groupVars, active_tasks, is_run, timerVars>>

(* The last but one operation is taken for the last.                       *)
CountDownEarly(t) ==
  /\ pc[t] = "op"
  /\ pending_operations' = [pending_operations EXCEPT ![grp[t]] = @ - 1]
  /\ pc' = [pc EXCEPT ![t] =
              IF pending_operations[grp[t]] <= 2 THEN "last" ELSE "sub"]
  /\ UNCHANGED <<job, grp, idx, left, kind, at, active_tasks, is_run,
                 timerVars>>

(* only_move is tested the wrong way round.                                *)
LastOperationSwapped(t) ==
  /\ pc[t] = "last"
  /\ IF ~OnlyMove(job[t])
       THEN /\ active_tasks' = [active_tasks EXCEPT ![job[t]] = @ - 1]
            /\ at' = [at EXCEPT ![grp[t]][0] = "none"]
       ELSE /\ at' = [at EXCEPT ![grp[t]][0] = "queued"]
            /\ UNCHANGED active_tasks
  /\ pc' = [pc EXCEPT ![t] = "sub"]
  /\ UNCHANGED <<job, grp, idx, left, kind, pending_operations, is_run,
                 timerVars>>

(* check_completion is satisfied with one unit left.                       *)
CheckCompletionEarly(t) ==
  /\ pc[t] = "check"
  /\ IF active_tasks[job[t]] <= 1
       THEN /\ pc' = [pc EXCEPT ![t] = "expires"]
            /\ UNCHANGED job
       ELSE /\ pc' = [pc EXCEPT ![t] = "idle"]
            /\ job' = [job EXCEPT ![t] = None]
  /\ UNCHANGED <<grp, idx, left, kind, groupVars, active_tasks, is_run,
                 timerVars>>

-----------------------------------------------------------------------------
(* scan_directories *)

(* A thread takes the handler that scans d and enters the listing.         *)
ScanStart(t, d) ==
  /\ pc[t] = "idle"
  /\ ready[d]["scan"] > 0
  /\ ready' = [ready EXCEPT ![d]["scan"] = @ - 1]
  /\ is_run' = [is_run EXCEPT ![d] = TRUE]
  /\ pc' = [pc EXCEPT ![t] = "scan"]
  /\ job' = [job EXCEPT ![t] = d]
  /\ left' = [left EXCEPT ![t] = MaxFiles]
  /\ UNCHANGED <<grp, idx, kind, groupVars, active_tasks, waiting>>

(* The listing calls process_file with the group of its next file, which   *)
(* sets pending_operations and adds the size and one to active_tasks_.  A  *)
(* group with no operation posts nothing.                                  *)
ProcessFile(t, g) ==
  LET d == job[t]
      n == GroupSize(d)
  IN /\ pc[t] = "scan"
     /\ left[t] > 0
     /\ g[1] = d
     /\ \A i \in Index : at[g][i] = "none"
     /\ pending_operations' = [pending_operations EXCEPT ![g] = n]
     /\ active_tasks' = [active_tasks EXCEPT ![d] = @ + n + 1]
     /\ at' = [at EXCEPT ![g] =
                 [i \in Index |-> IF i <= n THEN "owed" ELSE "none"]]
     /\ left' = [left EXCEPT ![t] = @ - 1]
     /\ IF n = 0
          THEN UNCHANGED <<pc, grp, idx>>
          ELSE /\ pc' = [pc EXCEPT ![t] = "post"]
               /\ grp' = [grp EXCEPT ![t] = g]
               /\ idx' = [idx EXCEPT ![t] = 1]
     /\ UNCHANGED <<job, kind, is_run, timerVars>>

(* process_file posts operation idx; after the last one the listing goes   *)
(* on.                                                                     *)
PostOperation(t) ==
  /\ pc[t] = "post"
  /\ at' = [at EXCEPT ![grp[t]][idx[t]] = "queued"]
  /\ IF idx[t] = GroupSize(job[t])
       THEN /\ pc' = [pc EXCEPT ![t] = "scan"]
            /\ grp' = [grp EXCEPT ![t] = None]
            /\ idx' = [idx EXCEPT ![t] = 0]
       ELSE /\ idx' = [idx EXCEPT ![t] = @ + 1]
            /\ UNCHANGED <<pc, grp>>
  /\ UNCHANGED <<job, left, kind, pending_operations, active_tasks, is_run,
                 timerVars>>

(* The listing returns ok: check_completion follows a success, a wait for  *)
(* check_completion a failure.                                             *)
ScanEnd(t, ok) ==
  /\ pc[t] = "scan"
  /\ is_run' = [is_run EXCEPT ![job[t]] = FALSE]
  /\ pc' = [pc EXCEPT ![t] = IF ok THEN "check" ELSE "expires"]
  /\ kind' = [kind EXCEPT ![t] = IF ok THEN "scan" ELSE "recheck"]
  /\ left' = [left EXCEPT ![t] = 0]
  /\ UNCHANGED <<job, grp, idx, groupVars, active_tasks, timerVars>>

-----------------------------------------------------------------------------
(* The handlers posted by process_file and delete_file *)

TakeHandler(t, g, i) ==
  /\ pc[t] = "idle"
  /\ at[g][i] = "queued"
  /\ at' = [at EXCEPT ![g][i] = "running"]
  /\ pc' = [pc EXCEPT ![t] = IF i = 0 THEN "delete" ELSE "op"]
  /\ job' = [job EXCEPT ![t] = g[1]]
  /\ grp' = [grp EXCEPT ![t] = g]
  /\ idx' = [idx EXCEPT ![t] = i]
  /\ UNCHANGED <<left, kind, pending_operations, active_tasks, is_run,
                 timerVars>>

(* The transfer has returned, and whatever its status pending_operations   *)
(* is decremented.                                                         *)
CountDown(t) ==
  /\ pc[t] = "op"
  /\ pending_operations' = [pending_operations EXCEPT ![grp[t]] = @ - 1]
  /\ pc' = [pc EXCEPT ![t] =
              IF pending_operations[grp[t]] = 1 THEN "last" ELSE "sub"]
  /\ UNCHANGED <<job, grp, idx, left, kind, at, active_tasks, is_run,
                 timerVars>>

(* The operation that brought pending_operations to zero gives back the    *)
(* group's extra unit when the group is a move, else posts delete_file.    *)
LastOperation(t) ==
  /\ pc[t] = "last"
  /\ IF OnlyMove(job[t])
       THEN /\ active_tasks' = [active_tasks EXCEPT ![job[t]] = @ - 1]
            /\ at' = [at EXCEPT ![grp[t]][0] = "none"]
       ELSE /\ at' = [at EXCEPT ![grp[t]][0] = "queued"]
            /\ UNCHANGED active_tasks
  /\ pc' = [pc EXCEPT ![t] = "sub"]
  /\ UNCHANGED <<job, grp, idx, left, kind, pending_operations, is_run,
                 timerVars>>

(* The handler, of an operation or of a removal, gives back its own unit.  *)
FinishHandler(t) ==
  /\ pc[t] \in {"sub", "delete"}
  /\ active_tasks' = [active_tasks EXCEPT ![job[t]] = @ - 1]
  /\ at' = [at EXCEPT ![grp[t]][idx[t]] = "none"]
  /\ pc' = [pc EXCEPT ![t] = "check"]
  /\ grp' = [grp EXCEPT ![t] = None]
  /\ idx' = [idx EXCEPT ![t] = 0]
  /\ UNCHANGED <<job, left, kind, pending_operations, is_run, timerVars>>

-----------------------------------------------------------------------------
(* check_completion, schedule_scan and the timer *)

TakeRecheck(t, d) ==
  /\ pc[t] = "idle"
  /\ ready[d]["recheck"] > 0
  /\ ready' = [ready EXCEPT ![d]["recheck"] = @ - 1]
  /\ pc' = [pc EXCEPT ![t] = "check"]
  /\ job' = [job EXCEPT ![t] = d]
  /\ UNCHANGED <<grp, idx, left, kind, groupVars, active_tasks, is_run,
                 waiting>>

CheckCompletion(t) ==
  /\ pc[t] = "check"
  /\ IF active_tasks[job[t]] = 0
       THEN /\ pc' = [pc EXCEPT ![t] = "expires"]
            /\ UNCHANGED job
       ELSE /\ pc' = [pc EXCEPT ![t] = "idle"]
            /\ job' = [job EXCEPT ![t] = None]
  /\ UNCHANGED <<grp, idx, left, kind, groupVars, active_tasks, is_run,
                 timerVars>>

(* expires_after cancels the waits that have not expired; their handlers   *)
(* only log the error code.                                                *)
ExpiresAfter(t) ==
  /\ pc[t] = "expires"
  /\ waiting' = [waiting EXCEPT ![job[t]] = NoWait]
  /\ pc' = [pc EXCEPT ![t] = "wait"]
  /\ UNCHANGED <<job, grp, idx, left, kind, groupVars, active_tasks, is_run,
                 ready>>

AsyncWait(t) ==
  /\ pc[t] = "wait"
  /\ waiting' = [waiting EXCEPT ![job[t]][kind[t]] = @ + 1]
  /\ pc' = [pc EXCEPT ![t] = "idle"]
  /\ job' = [job EXCEPT ![t] = None]
  /\ kind' = [kind EXCEPT ![t] = "scan"]
  /\ UNCHANGED <<grp, idx, left, groupVars, active_tasks, is_run, ready>>

(* The timer expires: every wait pending on it is posted.                  *)
TimerExpires(d) ==
  /\ waiting[d] # NoWait
  /\ ready[d]["scan"] + ready[d]["recheck"] < MaxReady
  /\ ready' = [ready EXCEPT ![d] = [k \in Kind |-> @[k] + waiting[d][k]]]
  /\ waiting' = [waiting EXCEPT ![d] = NoWait]
  /\ UNCHANGED <<threadVars, groupVars, active_tasks, is_run>>

-----------------------------------------------------------------------------
(* A step of a thread that is running a handler.                           *)
HandlerStep(t) ==
  \/ \E g \in Groups : ProcessFile(t, g)
  \/ PostOperation(t)
  \/ \E ok \in ScanResults : ScanEnd(t, ok)
  \/ CountDown(t)
  \/ LastOperation(t)
  \/ FinishHandler(t)
  \/ CheckCompletion(t)
  \/ ExpiresAfter(t)
  \/ AsyncWait(t)

Next ==
  \/ \E t \in Threads :
       \/ HandlerStep(t)
       \/ \E d \in Dirs : ScanStart(t, d) \/ TakeRecheck(t, d)
       \/ \E g \in Groups, i \in Index : TakeHandler(t, g, i)
  \/ \E d \in Dirs : TimerExpires(d)

Spec == Init /\ [][Next]_vars

(* A running handler goes on, a timer expires, and the queue of io_context *)
(* being first in first out, no handler in it is overtaken for ever: some  *)
(* thread takes a handler that threads could take again and again.         *)
Fairness ==
  /\ \A t \in Threads : WF_vars(HandlerStep(t))
  /\ \A d \in Dirs : WF_vars(TimerExpires(d))
  /\ \A d \in Dirs : SF_vars(\E t \in Threads : ScanStart(t, d))
  /\ \A d \in Dirs : SF_vars(\E t \in Threads : TakeRecheck(t, d))
  /\ \A g \in Groups, i \in Index :
       SF_vars(\E t \in Threads : TakeHandler(t, g, i))

FairSpec == Spec /\ Fairness
-----------------------------------------------------------------------------
(* Properties *)

(* What directory d still owes: handlers of its groups, posted or not.     *)
Outstanding(d) ==
  {u \in Groups \X Index : u[1][1] = d /\ at[u[1]][u[2]] # "none"}

(* active_tasks_ is exact: at every moment it is the number of operations  *)
(* and removals that groups of d have still to give back, although it is   *)
(* raised by listings and lowered by handlers on other threads, before     *)
(* they are posted and after they have run.                                *)
ActiveTasksExact ==
  \A d \in Dirs : active_tasks[d] = Cardinality(Outstanding(d))

(* The source is handed to its removal only when no operation of the group *)
(* has still to transfer it: none is unposted, queued or in a transfer.    *)
RemovalAfterTransfers ==
  \A g \in Groups : at[g][0] \in {"queued", "running"} =>
    /\ \A i \in Index \ {0} : at[g][i] \notin {"owed", "queued"}
    /\ \A t \in Threads : grp[t] = g => pc[t] # "op"

(* What can still lead to the next scan of d: a timer wait, a posted or    *)
(* running handler of d.                                                   *)
HasWork(d) ==
  \/ \E k \in Kind : waiting[d][k] > 0 \/ ready[d][k] > 0
  \/ \E t \in Threads : job[t] = d
  \/ \E u \in Outstanding(d) : at[u[1]][u[2]] = "queued"

(* A directory with a destination is never forgotten.  Nothing but its own *)
(* timer and handlers ever scans it again, and without outstanding work    *)
(* io_.run() would return in every thread of the pool.                     *)
NeverForgotten == \A d \in Dirs : to_size[d] > 0 => HasWork(d)

(* A cycle starts when the one before it has drained: no handler of an     *)
(* earlier scan is left when a scan of d lists its first file.             *)
CycleDrained ==
  \A t \in Threads :
    pc[t] = "scan" /\ left[t] = MaxFiles => Outstanding(job[t]) = {}

(* The branch of check_completion that logs "All tasks completed" for d is *)
(* taken when no thread is still listing the files of d.                   *)
AllTasksCompleted ==
  \A t, u \in Threads :
    pc[t] = "expires" /\ kind[t] = "scan" /\ job[u] = job[t]
      => pc[u] \notin {"scan", "post"}

(* A directory without a destination that has listed a file is never       *)
(* scanned again: the unit of the empty group is not given back, so that   *)
(* no check_completion, of whatever handler, arms the timer of a scan.     *)
EmptyGroupEndsScanning ==
  [][\A d \in Dirs : to_size[d] = 0 /\ active_tasks[d] > 0 =>
       \A t \in Threads : pc'[t] = "scan" /\ job'[t] = d => pc[t] = "scan"]_vars

(* Some thread lists the files of d.                                       *)
Listed(d) == \E t \in Threads : job[t] = d /\ pc[t] \in {"scan", "post"}

(* The status line of main shows RUN:true for a directory only while it is *)
(* being listed, however scans overlap and listings fail.                  *)
RunShown == \A d \in Dirs : is_run[d] => Listed(d)

(* Every directory with a destination is scanned again and again.          *)
RescannedForever ==
  \A d \in Dirs : to_size[d] > 0 =>
    []<>(\E t \in Threads : pc[t] = "scan" /\ job[t] = d)

(* Every group of a directory with a destination gives all its units back, *)
(* its source removed or moved.                                            *)
GroupsFinish ==
  \A g \in Groups : to_size[g[1]] > 0 =>
    (at[g][0] = "owed" ~> \A i \in Index : at[g][i] = "none")
-----------------------------------------------------------------------------
(* The inductive invariant behind ActiveTasksExact, RemovalAfterTransfers  *)
(* and NeverForgotten.                                                     *)

Running(t) == pc[t] \in {"op", "last", "sub", "delete"}

(* The operations of g that have not counted down yet.                     *)
Uncounted(g) ==
  {i \in Index \ {0} :
     \/ at[g][i] \in {"owed", "queued"}
     \/ \E t \in Threads : pc[t] = "op" /\ grp[t] = g /\ idx[t] = i}

ThreadInv ==
  \A t \in Threads :
    /\ pc[t] = "idle" <=> job[t] = None
    /\ pc[t] = "post" \/ Running(t) => grp[t] \in Groups /\ grp[t][1] = job[t]
    /\ pc[t] = "post" \/ Running(t) =>
         IF pc[t] = "delete" THEN idx[t] = 0 ELSE idx[t] \in 1..GroupSize(job[t])

(* A handler has one place: a thread runs what no other thread runs, and   *)
(* a listing posts a group that no other listing posts.                    *)
OwnerInv ==
  /\ \A t \in Threads : Running(t) => at[grp[t]][idx[t]] = "running"
  /\ \A t \in Threads : pc[t] = "post" =>
       \A i \in idx[t]..GroupSize(job[t]) : at[grp[t]][i] = "owed"
  /\ \A t, u \in Threads :
       Running(t) /\ Running(u) /\ grp[t] = grp[u] /\ idx[t] = idx[u] => t = u
  /\ \A t, u \in Threads :
       pc[t] = "post" /\ pc[u] = "post" /\ grp[t] = grp[u] => t = u

(* Whatever is owed or running has a thread that will move it on.          *)
PlaceInv ==
  \A g \in Groups, i \in Index :
    /\ at[g][i] # "none" => i <= GroupSize(g[1])
    /\ at[g][i] = "owed" /\ i > 0 =>
         \E t \in Threads : pc[t] = "post" /\ grp[t] = g /\ idx[t] <= i
    /\ at[g][i] = "running" =>
         \E t \in Threads : Running(t) /\ grp[t] = g /\ idx[t] = i

PendingInv == \A g \in Groups : pending_operations[g] = Cardinality(Uncounted(g))

(* The extra unit of a group is owed exactly until its last operation.     *)
RemovalInv ==
  /\ \A g \in Groups : pending_operations[g] > 0 => at[g][0] = "owed"
  /\ \A t \in Threads : pc[t] = "last" =>
       at[grp[t]][0] = "owed" /\ pending_operations[grp[t]] = 0
  /\ \A t, u \in Threads :
       pc[t] = "last" /\ pc[u] = "last" /\ grp[t] = grp[u] => t = u
  /\ \A g \in Groups :
       GroupSize(g[1]) > 0 /\ at[g][0] = "owed" /\ pending_operations[g] = 0 =>
         \E t \in Threads : pc[t] = "last" /\ grp[t] = g

IInv ==
  /\ TypeOK
  /\ ThreadInv
  /\ OwnerInv
  /\ PlaceInv
  /\ PendingInv
  /\ RemovalInv
  /\ ActiveTasksExact
  /\ NeverForgotten
-----------------------------------------------------------------------------
(* What the groups look like from outside: module GroupCycle.              *)

PhaseOf(g) ==
  CASE at[g][0] = "owed" -> "transfer"
    [] at[g][0] \in {"queued", "running"} -> "remove"
    [] OTHER -> "unused"

Cycle == INSTANCE GroupCycle WITH
  Group <- Groups,
  size <- [g \in Groups |-> GroupSize(g[1])],
  move <- [g \in Groups |-> OnlyMove(g[1])],
  phase <- [g \in Groups |-> PhaseOf(g)],
  unreturned <- [g \in Groups |-> Uncounted(g)]

(* The scanner implements GroupCycle: every step of a thread is a step of  *)
(* one group there, or none.                                               *)
ImplementsCycle == Cycle!CycleSpec
=============================================================================

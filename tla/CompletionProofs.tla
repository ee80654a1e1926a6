-------------------------- MODULE CompletionProofs --------------------------
(***************************************************************************)
(* Theorems about Scanner: what check_completion and the timer lead to.    *)
(* What may start the next scan of a directory is a token: a pending wait, *)
(* a posted handler of the timer, or a thread that runs a handler.         *)
(***************************************************************************)
EXTENDS ScannerProofs

(* The tokens of d that no thread holds.                                   *)
Tokens(d) == ready[d]["scan"] + ready[d]["recheck"]
               + waiting[d]["scan"] + waiting[d]["recheck"]

ScanTokens(d) == ready[d]["scan"] + waiting[d]["scan"]

(* A directory has tokens or none: they are natural numbers.               *)
LEMMA TokenTypes ==
  ASSUME TypeOK, NEW d \in Dirs
  PROVE  /\ \A k \in Kind : ready[d][k] \in Nat /\ waiting[d][k] \in Nat
         /\ Tokens(d) \in Nat /\ ScanTokens(d) \in Nat
         /\ active_tasks[d] \in Nat
  <1>1. "scan" \in Kind /\ "recheck" \in Kind
    BY DEF Kind
  <1>2. QED BY <1>1 DEF TypeOK, Tokens, ScanTokens

LEMMA NoTokens ==
  ASSUME TypeOK, NEW d \in Dirs, Tokens(d) = 0
  PROVE  /\ ready[d]["scan"] = 0 /\ ready[d]["recheck"] = 0
         /\ waiting[d]["scan"] = 0 /\ waiting[d]["recheck"] = 0
  <1>1. /\ ready[d]["scan"] \in Nat /\ ready[d]["recheck"] \in Nat
        /\ waiting[d]["scan"] \in Nat /\ waiting[d]["recheck"] \in Nat
    BY TokenTypes DEF Kind
  <1>2. QED BY <1>1 DEF Tokens

-----------------------------------------------------------------------------
(* A directory without a destination                                       *)

(* No handler of it is ever posted; its one token, as long as it has one,  *)
(* leads to no scan once a file was listed.                                *)
SingleToken(d) ==
  /\ Tokens(d) <= 1
  /\ \A t \in Threads : job[t] = d => Tokens(d) = 0
  /\ \A t, u \in Threads : job[t] = d /\ job[u] = d => t = u
  /\ \A g \in Groups : g[1] = d => at[g][0] \in {"none", "owed"}
  /\ active_tasks[d] > 0 =>
       /\ ScanTokens(d) = 0
       /\ \A t \in Threads :
            job[t] = d /\ pc[t] \in {"expires", "wait"} => kind[t] = "recheck"

EmptyInv == \A d \in Dirs : to_size[d] = 0 => SingleToken(d)

(* Its handlers are those of the timer.                                    *)
LEMMA EmptyHandlers ==
  ASSUME IInv, NEW d \in Dirs, to_size[d] = 0, SingleToken(d)
  PROVE  /\ GroupSize(d) = 0
         /\ \A t \in Threads : job[t] = d => pc[t] \notin GroupPC
         /\ \A g \in Groups, i \in Index : g[1] = d => at[g][i] # "queued"
  <1>1. GroupSize(d) = 0
    BY ConstantsAssumption DEF ConstantsAssumption, GroupSize
  <1>2. ASSUME NEW t \in Threads, job[t] = d, pc[t] \in GroupPC
        PROVE  FALSE
    <2>1. /\ grp[t] \in Groups /\ grp[t][1] = d
          /\ IF pc[t] = "delete" THEN idx[t] = 0 ELSE idx[t] \in 1..0
      BY <1>1, <1>2 DEF IInv, ThreadInv, Running, GroupPC
    <2>2. pc[t] = "delete" /\ idx[t] = 0
      BY <2>1
    <2>3. at[grp[t]][0] = "running"
      BY <2>2 DEF IInv, OwnerInv, Running
    <2>4. QED BY <2>1, <2>3 DEF SingleToken
  <1>3. ASSUME NEW g \in Groups, NEW i \in Index, g[1] = d, at[g][i] = "queued"
        PROVE  FALSE
    <2>1. i <= 0
      BY <1>1, <1>3 DEF IInv, PlaceInv
    <2>2. i = 0
      BY <2>1, IndexType
    <2>3. QED BY <1>3, <2>2 DEF SingleToken
  <1>4. QED BY <1>1, <1>2, <1>3

LEMMA EmptyInit == Init => EmptyInv
  <1> SUFFICES ASSUME Init, NEW d \in Dirs
               PROVE  SingleToken(d)
    BY DEF EmptyInv
  <1>1. /\ ready[d]["scan"] = 1 /\ ready[d]["recheck"] = 0
        /\ waiting[d]["scan"] = 0 /\ waiting[d]["recheck"] = 0
    BY DEF Init, NoWait, Kind
  <1>2. QED
    BY <1>1, IndexType, ConstantsAssumption DEF Init, SingleToken, Tokens, ScanTokens

(* Steps of other directories, and those that only let a token go.         *)
LEMMA TokenKept ==
  ASSUME NEW d \in Dirs, SingleToken(d), TypeOK, TypeOK',
         ready'[d] = ready[d], waiting'[d] = waiting[d],
         active_tasks'[d] = active_tasks[d],
         \A g \in Groups : g[1] = d => at'[g][0] = at[g][0],
         \A t \in Threads : job'[t] = d =>
           /\ job[t] = d
           /\ pc'[t] \in {"expires", "wait"} => pc[t] \in {"expires", "wait"}
           /\ kind'[t] = kind[t]
  PROVE  SingleToken(d)'
  <1>1. Tokens(d)' = Tokens(d) /\ ScanTokens(d)' = ScanTokens(d)
    BY DEF Tokens, ScanTokens
  <1>2. QED BY <1>1 DEF SingleToken

(* The steps of a thread, with the directory whose handler it runs.        *)
LEMMA EmptyStep ==
  ASSUME IInv, IInv', EmptyInv, [Next]_vars
  PROVE  EmptyInv'
  <1> SUFFICES ASSUME NEW d \in Dirs, to_size[d] = 0
               PROVE  SingleToken(d)'
    BY DEF EmptyInv
  <1>1. SingleToken(d) /\ TypeOK /\ TypeOK'
    BY DEF EmptyInv, IInv
  <1>2. /\ GroupSize(d) = 0
        /\ \A t \in Threads : job[t] = d => pc[t] \notin GroupPC
        /\ \A g \in Groups, i \in Index : g[1] = d => at[g][i] # "queued"
    BY <1>1, EmptyHandlers
  <1>3. /\ ready[d]["scan"] \in Nat /\ ready[d]["recheck"] \in Nat
        /\ waiting[d]["scan"] \in Nat /\ waiting[d]["recheck"] \in Nat
        /\ active_tasks[d] \in Nat
    BY <1>1, TokenTypes DEF Kind
  <1>4. d # None
    BY ConstantsAssumption DEF ConstantsAssumption
  <1>5. ASSUME NEW t \in Threads, NEW e \in Dirs, ScanStart(t, e)
        PROVE  SingleToken(d)'
    <2>1. CASE e # d
      BY <1>1, <1>5, <2>1, TokenKept DEF ScanStart, TypeOK, groupVars
    <2>2. CASE e = d
      <3>1. /\ ready[d]["scan"] = 1 /\ ready[d]["recheck"] = 0
            /\ waiting[d]["scan"] = 0 /\ waiting[d]["recheck"] = 0
        BY <1>1, <1>3, <1>5, <2>2 DEF ScanStart, SingleToken, Tokens
      <3>2. /\ ready'[d]["scan"] = 0 /\ ready'[d]["recheck"] = 0
            /\ waiting' = waiting
        BY <1>1, <1>5, <2>2, <3>1 DEF ScanStart, TypeOK, Kind
      <3>3. \A u \in Threads : job[u] # d
        BY <1>1, <3>1 DEF SingleToken, Tokens
      <3>4. job' = [job EXCEPT ![t] = d] /\ pc' = [pc EXCEPT ![t] = "scan"]
            /\ UNCHANGED <<at, active_tasks>>
        BY <1>5, <2>2 DEF ScanStart, groupVars
      <3>5. QED BY <1>1, <3>1, <3>2, <3>3, <3>4 DEF SingleToken, Tokens, ScanTokens, TypeOK
    <2>3. QED BY <2>1, <2>2
  <1>6. ASSUME NEW t \in Threads, NEW e \in Dirs, TakeRecheck(t, e)
        PROVE  SingleToken(d)'
    <2>1. CASE e # d
      BY <1>1, <1>6, <2>1, TokenKept DEF TakeRecheck, TypeOK, groupVars
    <2>2. CASE e = d
      <3>1. /\ ready[d]["scan"] = 0 /\ ready[d]["recheck"] = 1
            /\ waiting[d]["scan"] = 0 /\ waiting[d]["recheck"] = 0
        BY <1>1, <1>3, <1>6, <2>2 DEF TakeRecheck, SingleToken, Tokens
      <3>2. /\ ready'[d]["scan"] = 0 /\ ready'[d]["recheck"] = 0
            /\ waiting' = waiting
        BY <1>1, <1>6, <2>2, <3>1 DEF TakeRecheck, TypeOK, Kind
      <3>3. \A u \in Threads : job[u] # d
        BY <1>1, <3>1 DEF SingleToken, Tokens
      <3>4. job' = [job EXCEPT ![t] = d] /\ pc' = [pc EXCEPT ![t] = "check"]
            /\ UNCHANGED <<at, active_tasks>>
        BY <1>6, <2>2 DEF TakeRecheck, groupVars
      <3>5. QED BY <1>1, <3>1, <3>2, <3>3, <3>4 DEF SingleToken, Tokens, ScanTokens, TypeOK
    <2>3. QED BY <2>1, <2>2
  <1>7. ASSUME NEW t \in Threads, NEW g \in Groups, ProcessFile(t, g)
        PROVE  SingleToken(d)'
    <2>1. UNCHANGED <<job, kind, ready, waiting>> /\ g[1] = job[t] /\ pc[t] = "scan"
      BY <1>7 DEF ProcessFile, timerVars
    <2>2. CASE job[t] # d
      <3>1. \A h \in Groups : h[1] = d => at'[h] = at[h]
        BY <1>1, <1>7, <2>1, <2>2 DEF ProcessFile, TypeOK
      <3>2. active_tasks'[d] = active_tasks[d] /\ \A u \in Threads \ {t} : pc'[u] = pc[u]
        BY <1>1, <1>7, <2>2 DEF ProcessFile, TypeOK
      <3>3. QED BY <1>1, <2>1, <2>2, <3>1, <3>2, TokenKept
    <2>3. CASE job[t] = d
      <3>1. Tokens(d) = 0 /\ \A u \in Threads : job[u] = d => u = t
        BY <1>1, <2>3 DEF SingleToken
      <3>2. Tokens(d)' = 0 /\ ScanTokens(d)' = 0
        BY <1>1, <2>1, <3>1, NoTokens DEF Tokens, ScanTokens
      <3>3. \A h \in Groups : h[1] = d => at'[h][0] \in {"none", "owed"}
        <4>1. at' = [at EXCEPT ![g] = [i \in Index |-> IF i <= GroupSize(d) THEN "owed" ELSE "none"]]
          BY <1>7, <2>3 DEF ProcessFile
        <4>2. QED BY <1>1, <4>1, IndexType DEF SingleToken, TypeOK
      <3>4. pc'[t] = "scan"
        BY <1>1, <1>2, <1>7, <2>3 DEF ProcessFile, TypeOK
      <3>5. QED BY <2>1, <3>1, <3>2, <3>3, <3>4 DEF SingleToken
    <2>4. QED BY <2>2, <2>3
  <1>8. ASSUME NEW t \in Threads, NEW ok \in ScanResults, ScanEnd(t, ok)
        PROVE  SingleToken(d)'
    <2>1. UNCHANGED <<job, at, active_tasks, ready, waiting>>
      BY <1>8 DEF ScanEnd, groupVars, timerVars
    <2>2. CASE job[t] # d
      BY <1>1, <1>8, <2>1, <2>2, TokenKept DEF ScanEnd, TypeOK
    <2>3. CASE job[t] = d
      <3>1. Tokens(d)' = Tokens(d) /\ ScanTokens(d)' = ScanTokens(d)
        BY <2>1 DEF Tokens, ScanTokens
      <3>2. \A u \in Threads : job[u] = d => u = t
        BY <1>1, <2>3 DEF SingleToken
      <3>3. pc'[t] \in {"expires", "wait"} => kind'[t] = "recheck"
        BY <1>1, <1>8 DEF ScanEnd, TypeOK
      <3>4. QED BY <1>1, <2>1, <3>1, <3>2, <3>3 DEF SingleToken
    <2>4. QED BY <2>2, <2>3
  <1>9. ASSUME NEW t \in Threads, pc[t] \in GroupPC,
               \/ PostOperation(t) \/ CountDown(t)
               \/ LastOperation(t) \/ FinishHandler(t)
        PROVE  SingleToken(d)'
    <2>1. /\ UNCHANGED <<job, kind, ready, waiting>> /\ job[t] # d /\ job[t] \in Dirs
          /\ grp[t] \in Groups /\ grp[t][1] = job[t]
      BY <1>2, <1>9
      DEF PostOperation, CountDown, LastOperation, FinishHandler, timerVars,
          IInv, ThreadInv, TypeOK, GroupPC, Running, Groups
    <2>2. active_tasks'[d] = active_tasks[d]
      BY <1>1, <1>9, <2>1 DEF PostOperation, CountDown, LastOperation, FinishHandler, TypeOK
    <2>3. \A g \in Groups : g[1] = d => at'[g] = at[g]
      BY <1>1, <1>9, <2>1 DEF PostOperation, CountDown, LastOperation, FinishHandler, TypeOK
    <2>4. \A u \in Threads \ {t} : pc'[u] = pc[u]
      BY <1>1, <1>9 DEF PostOperation, CountDown, LastOperation, FinishHandler, TypeOK
    <2>5. QED BY <1>1, <2>1, <2>2, <2>3, <2>4, TokenKept
  <1>10. ASSUME NEW t \in Threads, NEW g \in Groups, NEW i \in Index, TakeHandler(t, g, i)
         PROVE  SingleToken(d)'
    <2>1. g[1] # d
      BY <1>2, <1>10 DEF TakeHandler
    <2>2. /\ UNCHANGED <<kind, ready, waiting, active_tasks>>
          /\ \A h \in Groups : h[1] = d => at'[h] = at[h]
      BY <1>1, <1>10, <2>1 DEF TakeHandler, TypeOK, timerVars
    <2>3. \A u \in Threads : job'[u] = d => job[u] = d /\ pc'[u] = pc[u]
      BY <1>1, <1>10, <2>1 DEF TakeHandler, TypeOK
    <2>4. QED BY <1>1, <2>2, <2>3, TokenKept
  <1>11. ASSUME NEW t \in Threads, CheckCompletion(t)
         PROVE  SingleToken(d)'
    <2>1. UNCHANGED <<kind, at, active_tasks, ready, waiting>>
      BY <1>11 DEF CheckCompletion, groupVars, timerVars
    <2>2. CASE job[t] # d \/ active_tasks[d] # 0
      <3>1. \A u \in Threads : job'[u] = d => job[u] = d /\ (u # t => pc'[u] = pc[u])
        BY <1>1, <1>4, <1>11 DEF CheckCompletion, TypeOK
      <3>2. job'[t] = d => pc'[t] = "expires" /\ job[t] # d
        BY <1>1, <1>4, <1>11, <2>2 DEF CheckCompletion, TypeOK
      <3>3. QED BY <1>1, <2>1, <3>1, <3>2, TokenKept
    <2>3. CASE job[t] = d /\ active_tasks[d] = 0
      <3>1. Tokens(d)' = Tokens(d) /\ ScanTokens(d)' = ScanTokens(d) /\ job' = job
        BY <1>11, <2>1, <2>3 DEF Tokens, ScanTokens, CheckCompletion
      <3>2. QED BY <1>1, <2>1, <2>3, <3>1 DEF SingleToken
    <2>4. QED BY <2>2, <2>3
  <1>12. ASSUME NEW t \in Threads, ExpiresAfter(t)
         PROVE  SingleToken(d)'
    <2>1. /\ UNCHANGED <<job, kind, at, active_tasks, ready>>
          /\ \A u \in Threads \ {t} : pc'[u] = pc[u]
      BY <1>1, <1>12 DEF ExpiresAfter, groupVars, TypeOK
    <2>2. CASE job[t] # d
      BY <1>1, <1>12, <2>1, <2>2, TokenKept DEF ExpiresAfter, TypeOK
    <2>3. CASE job[t] = d
      <3>1. Tokens(d) = 0
        BY <1>1, <2>3 DEF SingleToken
      <3>2. waiting'[d]["scan"] = 0 /\ waiting'[d]["recheck"] = 0
        BY <1>1, <1>12, <2>3 DEF ExpiresAfter, TypeOK, NoWait, Kind
      <3>3. Tokens(d)' = 0 /\ ScanTokens(d)' = 0
        BY <1>1, <2>1, <3>1, <3>2, NoTokens DEF Tokens, ScanTokens
      <3>4. pc[t] = "expires"
        BY <1>12 DEF ExpiresAfter
      <3>5. QED BY <1>1, <2>1, <2>3, <3>3, <3>4 DEF SingleToken
    <2>4. QED BY <2>2, <2>3
  <1>13. ASSUME NEW t \in Threads, AsyncWait(t)
         PROVE  SingleToken(d)'
    <2>1. /\ UNCHANGED <<at, active_tasks, ready>>
          /\ \A u \in Threads \ {t} : pc'[u] = pc[u] /\ kind'[u] = kind[u] /\ job'[u] = job[u]
          /\ job'[t] = None /\ job[t] \in Dirs
      BY <1>1, <1>13 DEF AsyncWait, groupVars, TypeOK, IInv, ThreadInv
    <2>2. CASE job[t] # d
      BY <1>1, <1>4, <1>13, <2>1, <2>2, TokenKept DEF AsyncWait, TypeOK
    <2>3. CASE job[t] = d
      <3>1. /\ ready[d]["scan"] = 0 /\ ready[d]["recheck"] = 0
            /\ waiting[d]["scan"] = 0 /\ waiting[d]["recheck"] = 0
        BY <1>1, <2>3, NoTokens DEF SingleToken
      <3>2. /\ waiting'[d]["scan"] = IF kind[t] = "scan" THEN 1 ELSE 0
            /\ waiting'[d]["recheck"] = IF kind[t] = "recheck" THEN 1 ELSE 0
            /\ kind[t] \in {"scan", "recheck"}
        BY <1>1, <1>13, <2>3, <3>1 DEF AsyncWait, TypeOK, Kind
      <3>3. \A u \in Threads : job'[u] # d
        <4>1. \A u \in Threads \ {t} : job[u] # d
          BY <1>1, <2>3 DEF SingleToken
        <4>2. QED BY <1>4, <2>1, <4>1
      <3>4. active_tasks[d] > 0 => kind[t] = "recheck"
        BY <1>1, <1>13, <2>3 DEF SingleToken, AsyncWait
      <3>5. QED BY <1>1, <2>1, <3>1, <3>2, <3>3, <3>4 DEF SingleToken, Tokens, ScanTokens
    <2>4. QED BY <2>2, <2>3
  <1>14. ASSUME NEW e \in Dirs, TimerExpires(e)
         PROVE  SingleToken(d)'
    <2>1. UNCHANGED <<pc, job, kind, at, active_tasks>>
      BY <1>14 DEF TimerExpires, threadVars, groupVars
    <2>2. CASE e # d
      BY <1>1, <1>14, <2>1, <2>2, TokenKept DEF TimerExpires, TypeOK
    <2>3. CASE e = d
      <3>1. \A k \in Kind : ready'[d][k] = ready[d][k] + waiting[d][k] /\ waiting'[d][k] = 0
        BY <1>1, <1>14, <2>3 DEF TimerExpires, TypeOK, NoWait
      <3>2. Tokens(d)' = Tokens(d) /\ ScanTokens(d)' = ScanTokens(d)
        BY <1>3, <3>1 DEF Tokens, ScanTokens, Kind
      <3>3. QED BY <1>1, <2>1, <3>2 DEF SingleToken
    <2>4. QED BY <2>2, <2>3
  <1>15. CASE UNCHANGED vars
    BY <1>1, <1>15, TokenKept DEF vars, threadVars, groupVars, timerVars
  <1>16. \A t \in Threads :
           PostOperation(t) \/ CountDown(t) \/ LastOperation(t) \/ FinishHandler(t)
             => pc[t] \in GroupPC
    BY DEF PostOperation, CountDown, LastOperation, FinishHandler, GroupPC
  <1>17. ASSUME NEW t \in Threads, HandlerStep(t)
         PROVE  SingleToken(d)'
    BY <1>7, <1>8, <1>9, <1>11, <1>12, <1>13, <1>16, <1>17 DEF HandlerStep
  <1>18. CASE Next
    BY <1>5, <1>6, <1>10, <1>14, <1>17, <1>18 DEF Next
  <1>19. QED
    BY <1>15, <1>18

(* A directory without a destination is scanned until it lists a file, and *)
(* never again: active_tasks_ keeps the unit of the empty group, and no    *)
(* wait or handler that would scan is left.                                *)
THEOREM EmptyGroupsEndScanning == Spec => EmptyGroupEndsScanning
  <1>1. Init => IInv /\ EmptyInv
    BY InitInv, EmptyInit
  <1>2. IInv /\ EmptyInv /\ [Next]_vars => IInv' /\ EmptyInv'
    BY StepInv, EmptyStep
  <1>3. IInv /\ EmptyInv /\ [Next]_vars =>
          [\A d \in Dirs : to_size[d] = 0 /\ active_tasks[d] > 0 =>
             \A t \in Threads : pc'[t] = "scan" /\ job'[t] = d => pc[t] = "scan"]_vars
    <2> SUFFICES ASSUME IInv, EmptyInv, Next, NEW d \in Dirs, to_size[d] = 0,
                        active_tasks[d] > 0, NEW t \in Threads,
                        pc'[t] = "scan", job'[t] = d, pc[t] # "scan"
                 PROVE  FALSE
      OBVIOUS
    <2>1. SingleToken(d) /\ TypeOK
      BY DEF EmptyInv, IInv
    <2>2. ready[d]["scan"] = 0
      BY <2>1, TokenTypes DEF SingleToken, ScanTokens, Kind
    <2>3. job[t] = d => pc[t] \notin GroupPC
      BY <2>1, EmptyHandlers
    <2>4. \E u \in Threads : (\E e \in Dirs : ScanStart(u, e)) \/ PostOperation(u)
      <3>1. ASSUME NEW u \in Threads,
                   \/ \E g \in Groups : ProcessFile(u, g)
                   \/ \E ok \in ScanResults : ScanEnd(u, ok)
                   \/ CountDown(u) \/ LastOperation(u) \/ FinishHandler(u)
                   \/ CheckCompletion(u) \/ ExpiresAfter(u) \/ AsyncWait(u)
            PROVE  pc'[t] # "scan" \/ pc[t] = "scan"
        BY <2>1, <3>1 DEF ProcessFile, ScanEnd, CountDown, LastOperation, FinishHandler,
           CheckCompletion, ExpiresAfter, AsyncWait, TypeOK
      <3>2. ASSUME NEW u \in Threads,
                   \/ \E e \in Dirs : TakeRecheck(u, e)
                   \/ \E g \in Groups, i \in Index : TakeHandler(u, g, i)
            PROVE  pc'[t] # "scan" \/ pc[t] = "scan"
        BY <2>1, <3>2 DEF TakeRecheck, TakeHandler, TypeOK
      <3>3. ASSUME NEW e \in Dirs, TimerExpires(e)
            PROVE  pc' = pc
        BY <3>3 DEF TimerExpires, threadVars
      <3>4. QED BY <3>1, <3>2, <3>3 DEF Next, HandlerStep
    <2>5. ASSUME NEW u \in Threads, NEW e \in Dirs, ScanStart(u, e)
          PROVE  FALSE
      BY <2>1, <2>2, <2>5 DEF ScanStart, TypeOK
    <2>6. ASSUME NEW u \in Threads, PostOperation(u)
          PROVE  FALSE
      BY <2>1, <2>3, <2>6 DEF PostOperation, TypeOK, GroupPC
    <2>7. QED BY <2>4, <2>5, <2>6
  <1>4. QED BY <1>1, <1>2, <1>3, PTL DEF Spec, EmptyGroupEndsScanning
-----------------------------------------------------------------------------
(* A pool of one thread                                                    *)

OneThread == \A t, u \in Threads : t = u

ListingsSucceed == FALSE \notin ScanResults

(* There is at most one token that leads to a scan of d, and none while d  *)
(* owes anything or a handler of d runs.                                   *)
DirDrained(d) ==
  /\ ready[d]["recheck"] = 0 /\ waiting[d]["recheck"] = 0
  /\ ScanTokens(d) <= 1
  /\ ScanTokens(d) > 0 => active_tasks[d] = 0 /\ \A t \in Threads : job[t] # d

(* The thread arms a timer, or starts to list, when nothing is owed.       *)
ThreadDrained(t) ==
  /\ kind[t] = "scan"
  /\ pc[t] \in {"expires", "wait"} => active_tasks[job[t]] = 0
  /\ pc[t] = "scan" /\ left[t] = MaxFiles => active_tasks[job[t]] = 0
  /\ pc[t] = "post" => left[t] # MaxFiles

DrainInv == /\ \A d \in Dirs : DirDrained(d)
            /\ \A t \in Threads : ThreadDrained(t)

LEMMA DrainInit == Init => DrainInv
  <1> SUFFICES ASSUME Init PROVE DrainInv
    OBVIOUS
  <1>1. ASSUME NEW d \in Dirs
        PROVE  DirDrained(d)
    <2>1. /\ ready[d]["scan"] = 1 /\ ready[d]["recheck"] = 0
          /\ waiting[d]["scan"] = 0 /\ waiting[d]["recheck"] = 0
      BY DEF Init, NoWait, Kind
    <2>2. QED BY <2>1, ConstantsAssumption DEF Init, DirDrained, ScanTokens, ConstantsAssumption
  <1>2. \A t \in Threads : ThreadDrained(t)
    BY DEF Init, ThreadDrained
  <1>3. QED BY <1>1, <1>2 DEF DrainInv

(* Nothing is outstanding exactly when active_tasks_ is zero.              *)
LEMMA DrainedCount ==
  ASSUME IInv, NEW d \in Dirs
  PROVE  active_tasks[d] = 0 <=> Outstanding(d) = {}
  <1>1. IsFiniteSet(Outstanding(d))
    BY HandlersFinite DEF Outstanding
  <1>2. QED BY <1>1, FS_EmptySet DEF IInv, ActiveTasksExact

(* While a handler of d runs, or is queued, no token leads to a scan.      *)
LEMMA BusyNoToken ==
  ASSUME IInv, NEW d \in Dirs, DirDrained(d),
         \/ \E t \in Threads : job[t] = d
         \/ \E g \in Groups, i \in Index : g[1] = d /\ at[g][i] # "none"
  PROVE  ready[d]["scan"] = 0 /\ waiting[d]["scan"] = 0
  <1>1. ready[d]["scan"] \in Nat /\ waiting[d]["scan"] \in Nat /\ ScanTokens(d) \in Nat
    BY TokenTypes DEF IInv, Kind
  <1>2. ScanTokens(d) = 0
    <2>1. CASE \E t \in Threads : job[t] = d
      BY <1>1, <2>1 DEF DirDrained
    <2>2. CASE \E g \in Groups, i \in Index : g[1] = d /\ at[g][i] # "none"
      <3>1. PICK g \in Groups, i \in Index : g[1] = d /\ at[g][i] # "none"
        BY <2>2
      <3>2. <<g, i>> \in Outstanding(d)
        BY <3>1 DEF Outstanding
      <3>3. active_tasks[d] # 0
        BY <3>2, DrainedCount
      <3>4. QED BY <1>1, <3>3 DEF DirDrained
    <2>3. QED BY <2>1, <2>2
  <1>3. QED BY <1>1, <1>2 DEF ScanTokens

(* Without a token only the thread needs a look.                           *)
LEMMA NoTokenDrained ==
  ASSUME NEW d \in Dirs, DirDrained(d), ready[d]["scan"] = 0, waiting[d]["scan"] = 0,
         ready'[d] = ready[d], waiting'[d] = waiting[d]
  PROVE  DirDrained(d)'
  BY DEF DirDrained, ScanTokens

LEMMA DrainKept ==
  ASSUME NEW d \in Dirs, DirDrained(d),
         ready'[d] = ready[d], waiting'[d] = waiting[d], active_tasks'[d] = active_tasks[d],
         \A t \in Threads : job'[t] = d => job[t] = d
  PROVE  DirDrained(d)'
  BY DEF DirDrained, ScanTokens

LEMMA DrainStep ==
  ASSUME OneThread, ListingsSucceed, IInv, DrainInv, [Next]_vars
  PROVE  DrainInv'
  <1>1. TypeOK /\ \A d \in Dirs : active_tasks[d] \in Nat
    BY DEF IInv, TypeOK
  <1>2. None \notin Dirs
    BY ConstantsAssumption DEF ConstantsAssumption
  <1>3. ASSUME NEW t \in Threads
        PROVE  /\ ThreadDrained(t)
               /\ \A u \in Threads : u = t
               /\ pc[t] # "idle" => job[t] \in Dirs
    BY <1>3 DEF OneThread, DrainInv, IInv, TypeOK, ThreadInv
  <1>4. ASSUME NEW t \in Threads, NEW e \in Dirs, ScanStart(t, e)
        PROVE  DrainInv'
    <2>1. ready[e]["scan"] = 1 /\ waiting[e]["scan"] = 0 /\ active_tasks[e] = 0
      <3>1. ready[e]["scan"] \in Nat \ {0} /\ waiting[e]["scan"] \in Nat
        BY <1>4, TokenTypes DEF ScanStart, IInv, Kind
      <3>2. QED BY <3>1 DEF DrainInv, DirDrained, ScanTokens
    <2>2. DirDrained(e)'
      <3>1. ready'[e]["scan"] = 0 /\ ready'[e]["recheck"] = ready[e]["recheck"]
            /\ waiting' = waiting
        BY <1>1, <1>4, <2>1 DEF ScanStart, TypeOK, Kind
      <3>2. QED BY <2>1, <3>1 DEF DrainInv, DirDrained, ScanTokens
    <2>3. \A d \in Dirs \ {e} : DirDrained(d)'
      BY <1>1, <1>3, <1>4, DrainKept DEF ScanStart, TypeOK, DrainInv
    <2>4. ThreadDrained(t)'
      BY <1>1, <1>3, <1>4, <2>1 DEF ScanStart, TypeOK, ThreadDrained
    <2>5. QED BY <1>3, <2>2, <2>3, <2>4 DEF DrainInv
  <1>5. ASSUME NEW t \in Threads, NEW e \in Dirs, TakeRecheck(t, e)
        PROVE  FALSE
    BY <1>5 DEF TakeRecheck, DrainInv, DirDrained
  <1>6. ASSUME NEW t \in Threads, NEW g \in Groups, ProcessFile(t, g)
        PROVE  DrainInv'
    <2>1. job[t] \in Dirs /\ ready[job[t]]["scan"] = 0 /\ waiting[job[t]]["scan"] = 0
      BY <1>3, <1>6, BusyNoToken DEF ProcessFile, DrainInv
    <2>2. UNCHANGED <<job, kind, ready, waiting>>
      BY <1>6 DEF ProcessFile, timerVars
    <2>3. \A d \in Dirs \ {job[t]} : DirDrained(d)'
      BY <1>1, <1>6, <2>2, DrainKept DEF ProcessFile, TypeOK, DrainInv
    <2>4. DirDrained(job[t])'
      BY <2>1, <2>2, NoTokenDrained DEF DrainInv
    <2>5. ThreadDrained(t)'
      <3>1. left'[t] # MaxFiles /\ pc'[t] \in {"scan", "post"}
        BY <1>1, <1>6, ConstantsAssumption DEF ProcessFile, TypeOK, ConstantsAssumption
      <3>2. QED BY <1>3, <2>2, <3>1 DEF ThreadDrained
    <2>6. QED BY <1>3, <2>2, <2>3, <2>4, <2>5 DEF DrainInv
  <1>7. ASSUME NEW t \in Threads, PostOperation(t)
        PROVE  DrainInv'
    <2>1. UNCHANGED <<job, kind, left, active_tasks, ready, waiting>>
      BY <1>7 DEF PostOperation, timerVars
    <2>2. \A d \in Dirs : DirDrained(d)'
      BY <2>1, DrainKept DEF DrainInv
    <2>3. ThreadDrained(t)'
      BY <1>1, <1>3, <1>7, <2>1 DEF PostOperation, TypeOK, ThreadDrained
    <2>4. QED BY <1>3, <2>2, <2>3 DEF DrainInv
  <1>8. ASSUME NEW t \in Threads, NEW ok \in ScanResults, ScanEnd(t, ok)
        PROVE  DrainInv'
    <2>1. UNCHANGED <<job, active_tasks, ready, waiting>>
      BY <1>8 DEF ScanEnd, timerVars
    <2>2. ok = TRUE
      BY ConstantsAssumption DEF ConstantsAssumption, ListingsSucceed
    <2>3. \A d \in Dirs : DirDrained(d)'
      BY <2>1, DrainKept DEF DrainInv
    <2>4. ThreadDrained(t)'
      BY <1>1, <1>8, <2>2 DEF ScanEnd, TypeOK, ThreadDrained
    <2>5. QED BY <1>3, <2>3, <2>4 DEF DrainInv
  <1>9. ASSUME NEW t \in Threads, CountDown(t) \/ LastOperation(t) \/ FinishHandler(t)
        PROVE  DrainInv'
    <2>1. /\ UNCHANGED <<job, kind, ready, waiting>>
          /\ pc[t] # "idle" /\ pc'[t] \in {"last", "sub", "check"}
      BY <1>1, <1>9 DEF CountDown, LastOperation, FinishHandler, timerVars, TypeOK
    <2>2. job[t] \in Dirs /\ ready[job[t]]["scan"] = 0 /\ waiting[job[t]]["scan"] = 0
      BY <1>3, <2>1, BusyNoToken DEF DrainInv
    <2>3. DirDrained(job[t])'
      BY <2>1, <2>2, NoTokenDrained DEF DrainInv
    <2>4. \A d \in Dirs \ {job[t]} : DirDrained(d)'
      BY <1>1, <1>9, <2>1, DrainKept
      DEF CountDown, LastOperation, FinishHandler, TypeOK, DrainInv
    <2>5. ThreadDrained(t)'
      BY <1>3, <2>1 DEF ThreadDrained
    <2>6. QED BY <1>3, <2>1, <2>3, <2>4, <2>5 DEF DrainInv
  <1>10. ASSUME NEW t \in Threads, NEW g \in Groups, NEW i \in Index, TakeHandler(t, g, i)
         PROVE  DrainInv'
    <2>1. /\ UNCHANGED <<kind, active_tasks, ready, waiting>> /\ g[1] \in Dirs
          /\ job'[t] = g[1] /\ pc'[t] \in {"op", "delete"}
      BY <1>1, <1>10 DEF TakeHandler, timerVars, TypeOK, Groups
    <2>2. ready[g[1]]["scan"] = 0 /\ waiting[g[1]]["scan"] = 0
      BY <1>10, <2>1, BusyNoToken DEF TakeHandler, DrainInv
    <2>3. DirDrained(g[1])'
      BY <2>1, <2>2, NoTokenDrained DEF DrainInv
    <2>4. \A d \in Dirs \ {g[1]} : DirDrained(d)'
      BY <1>3, <2>1, DrainKept DEF DrainInv
    <2>5. ThreadDrained(t)'
      BY <1>3, <2>1 DEF ThreadDrained
    <2>6. QED BY <1>3, <2>3, <2>4, <2>5 DEF DrainInv
  <1>11. ASSUME NEW t \in Threads, CheckCompletion(t)
         PROVE  DrainInv'
    <2>1. UNCHANGED <<kind, active_tasks, ready, waiting>>
      BY <1>11 DEF CheckCompletion, groupVars, timerVars
    <2>2. job'[t] \in {job[t], None}
      BY <1>1, <1>11 DEF CheckCompletion, TypeOK
    <2>3. \A d \in Dirs : DirDrained(d)'
      BY <1>2, <1>3, <2>1, <2>2, DrainKept DEF DrainInv
    <2>4. ThreadDrained(t)'
      BY <1>1, <1>3, <1>11, <2>1 DEF CheckCompletion, TypeOK, ThreadDrained
    <2>5. QED BY <1>3, <2>3, <2>4 DEF DrainInv
  <1>12. ASSUME NEW t \in Threads, ExpiresAfter(t)
         PROVE  DrainInv'
    <2>1. UNCHANGED <<job, kind, active_tasks, ready>>
      BY <1>12 DEF ExpiresAfter, groupVars
    <2>2. job[t] \in Dirs /\ ready[job[t]]["scan"] = 0 /\ waiting[job[t]]["scan"] = 0
      BY <1>3, <1>12, BusyNoToken DEF ExpiresAfter, DrainInv
    <2>3. waiting'[job[t]]["scan"] = 0 /\ waiting'[job[t]]["recheck"] = 0
      BY <1>1, <1>12, <2>2 DEF ExpiresAfter, TypeOK, NoWait, Kind
    <2>4. DirDrained(job[t])'
      BY <2>1, <2>2, <2>3 DEF DrainInv, DirDrained, ScanTokens
    <2>5. \A d \in Dirs \ {job[t]} : DirDrained(d)'
      BY <1>1, <1>12, <2>1, DrainKept DEF ExpiresAfter, TypeOK, DrainInv
    <2>6. ThreadDrained(t)'
      BY <1>1, <1>3, <1>12, <2>1 DEF ExpiresAfter, TypeOK, ThreadDrained
    <2>7. QED BY <1>3, <2>1, <2>4, <2>5, <2>6 DEF DrainInv
  <1>13. ASSUME NEW t \in Threads, NEW e \in Dirs, job[t] = e, AsyncWait(t)
         PROVE  DrainInv'
    <2>1. /\ UNCHANGED <<active_tasks, ready>> /\ kind[t] = "scan" /\ kind'[t] = "scan"
          /\ pc'[t] = "idle" /\ job'[t] = None /\ active_tasks[e] = 0
      BY <1>1, <1>3, <1>13 DEF AsyncWait, groupVars, TypeOK, ThreadDrained
    <2>2. ready[e]["scan"] = 0 /\ waiting[e]["scan"] = 0
      BY <1>3, <1>13, BusyNoToken DEF DrainInv
    <2>3. /\ waiting'[e]["scan"] = 1
          /\ waiting'[e]["recheck"] = waiting[e]["recheck"]
      BY <1>1, <1>13, <2>1, <2>2 DEF AsyncWait, TypeOK, Kind
    <2>4. \A u \in Threads : job'[u] \notin Dirs
      BY <1>2, <1>3, <2>1
    <2>5. DirDrained(e)'
      BY <2>1, <2>2, <2>3, <2>4 DEF DrainInv, DirDrained, ScanTokens
    <2>6. \A d \in Dirs \ {e} : DirDrained(d)'
      BY <1>1, <1>13, <2>1, <2>4, DrainKept DEF AsyncWait, TypeOK, DrainInv
    <2>7. ThreadDrained(t)'
      BY <2>1 DEF ThreadDrained
    <2>8. QED BY <1>3, <2>5, <2>6, <2>7 DEF DrainInv
  <1>14. ASSUME NEW e \in Dirs, TimerExpires(e)
         PROVE  DrainInv'
    <2>1. UNCHANGED <<pc, job, left, kind, active_tasks>>
      BY <1>14 DEF TimerExpires, threadVars
    <2>2. \A d \in Dirs \ {e} : DirDrained(d)'
      BY <1>1, <1>14, <2>1, DrainKept DEF TimerExpires, TypeOK, DrainInv
    <2>3. DirDrained(e)'
      <3>1. \A k \in Kind : ready'[e][k] = ready[e][k] + waiting[e][k] /\ waiting'[e][k] = 0
        BY <1>1, <1>14 DEF TimerExpires, TypeOK, NoWait
      <3>2. \A k \in Kind : ready[e][k] \in Nat /\ waiting[e][k] \in Nat
        BY <1>1, TokenTypes
      <3>3. /\ ScanTokens(e)' = ScanTokens(e)
            /\ ready'[e]["recheck"] = ready[e]["recheck"] + waiting[e]["recheck"]
            /\ waiting'[e]["recheck"] = 0
        BY <3>1, <3>2 DEF ScanTokens, Kind
      <3>4. QED BY <2>1, <3>3 DEF DrainInv, DirDrained
    <2>4. QED BY <2>1, <2>2, <2>3 DEF DrainInv, ThreadDrained
  <1>15. CASE UNCHANGED vars
    BY <1>15 DEF vars, threadVars, groupVars, timerVars, DrainInv, DirDrained,
                 ThreadDrained, ScanTokens
  <1>16. ASSUME NEW t \in Threads, HandlerStep(t)
         PROVE  DrainInv'
    <2>1. AsyncWait(t) => job[t] \in Dirs
      BY <1>3 DEF AsyncWait
    <2>2. QED
      BY <1>6, <1>7, <1>8, <1>9, <1>11, <1>12, <1>13, <1>16, <2>1 DEF HandlerStep
  <1>17. QED
    BY <1>4, <1>5, <1>10, <1>14, <1>15, <1>16 DEF Next

LEMMA DrainImplies == IInv /\ DrainInv => CycleDrained
  <1> SUFFICES ASSUME IInv, DrainInv, NEW t \in Threads, pc[t] = "scan", left[t] = MaxFiles
               PROVE  Outstanding(job[t]) = {}
    BY DEF CycleDrained
  <1>1. job[t] \in Dirs
    BY DEF IInv, TypeOK, ThreadInv
  <1>2. QED BY <1>1, DrainedCount DEF DrainInv, ThreadDrained

(* With a pool of one thread, and listings that succeed, a scan of a       *)
(* directory begins only when every handler of the scans before it is      *)
(* done: nobody else arms the timer in between.                            *)
THEOREM OneThreadDrains ==
  ASSUME OneThread, ListingsSucceed
  PROVE  Spec => []CycleDrained
  <1>1. Init => IInv /\ DrainInv
    BY InitInv, DrainInit
  <1>2. IInv /\ DrainInv /\ [Next]_vars => IInv' /\ DrainInv'
    BY StepInv, DrainStep
  <1>3. QED BY <1>1, <1>2, DrainImplies, PTL DEF Spec
=============================================================================

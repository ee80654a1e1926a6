----------------------------- MODULE LossProofs -----------------------------
(* Proofs about Mover: no file is lost in silence, and a pool of one       *)
(* thread loses none of the files it moves.                                *)
EXTENDS MoverProofs, CompletionProofs, CycleProofs

-----------------------------------------------------------------------------
(* No loss in silence                                                      *)

(* No destination and no source is an S3 bucket: the result of every       *)
(* download and of every upload is looked at, and a source that is missing *)
(* ends the transfer.                                                      *)
CheckedProtocols ==
  \A d \in Dirs, k \in Index \ {0} : protocol[d] # "S3" /\ to_protocol[d][k] # "S3"

(* The process is not killed, and a name arrives once.                     *)
NeverKilled == MaxCrashes = 0
ArriveOnce == ~Rearrive

(* Thread t transfers file f to destination k of directory d.              *)
On(t, d, k, f) == pc[t] = "op" /\ job[t] = d /\ To(t) = k /\ File(t) = f

(* It writes the destination, or has returned an error.                    *)
Writing(t) == op[t].stage = "put" \/ (op[t].stage = "get" /\ ToProtocol(t) = "DIR")
Reporting(t) == op[t].stage = "done" /\ ~op[t].status
AtWork(t) == (Writing(t) /\ op[t].clean) \/ Reporting(t)

(* What is at a destination is whole, or an error tells that it is not, or *)
(* a transfer will make it whole or count an error.                        *)
Accounted(d, k, f) ==
  \/ dst[d][k][f] = "full"
  \/ f \in failed[d]
  \/ \E t \in Threads : On(t, d, k, f) /\ AtWork(t)

(* A transfer that has touched its destination answers for it.             *)
Answers(t) == Writing(t) \/ op[t].stage \in {"remove", "done"}

TransfersAnswer ==
  \A t \in Threads : pc[t] = "op" /\ Answers(t) => Accounted(job[t], To(t), File(t))

(* What an upload reads is the source, or all that the download got; only  *)
(* the transfers of a move remove the source.                              *)
StagesSound ==
  \A t \in Threads :
    pc[t] = "op" => /\ op[t].stage = "get" => op[t].body \in {"none", "src"}
                    /\ op[t].stage \in {"body", "put"} => op[t].body \in {"src", "full"}
                    /\ op[t].stage = "remove" => OnlyMove(job[t])

(* The destination of operation i of group g.                              *)
Dest(g, i) == IF Balanced(g[1]) THEN target[g] ELSE i

(* So does a group for its transfers that have been counted down.          *)
GroupsAnswer ==
  \A g \in Groups : at[g][0] # "none" =>
    \A i \in 1..GroupSize(g[1]) :
      i \in Uncounted(g) \/ Accounted(g[1], Dest(g, i), file[g])

(* A source is gone when its destinations are answered for.                *)
Answered(d, f) ==
  IF Balanced(d) THEN \E k \in 1..to_size[d] : Accounted(d, k, f)
                 ELSE \A k \in 1..to_size[d] : Accounted(d, k, f)

GoneAnswered == \A d \in Dirs, f \in Files : src[d][f] = "gone" => Answered(d, f)

(* Only files that have arrived are listed and transferred.                *)
ListedArrived ==
  /\ \A g \in Groups, i \in Index : at[g][i] # "none" => src[g[1]][file[g]] # "absent"
  /\ \A t \in Threads : \A f \in seen[t] :
       pc[t] \in {"scan", "post"} /\ src[job[t]][f] # "absent"

TargetsKnown ==
  \A g \in Groups :
    at[g][0] # "none" /\ Balanced(g[1]) => target[g] \in 1..to_size[g[1]]

LossInv ==
  /\ IInv
  /\ MoverTypeOK
  /\ GroupNamed
  /\ TransfersAnswer
  /\ StagesSound
  /\ GroupsAnswer
  /\ GoneAnswered
  /\ ListedArrived
  /\ TargetsKnown

(* The task of a running transfer.                                         *)
LEMMA TaskOf ==
  ASSUME LossInv, NEW t \in Threads, pc[t] = "op"
  PROVE  /\ job[t] \in Dirs /\ grp[t] \in Groups /\ grp[t][1] = job[t]
         /\ idx[t] \in 1..GroupSize(job[t]) /\ idx[t] \in Index
         /\ at[grp[t]][idx[t]] = "running" /\ at[grp[t]][0] # "none"
         /\ File(t) \in Files /\ src[job[t]][File(t)] # "absent"
         /\ To(t) \in 1..to_size[job[t]] /\ To(t) \in Index \ {0}
         /\ To(t) = Dest(grp[t], idx[t])
  <1>1. /\ grp[t] \in Groups /\ grp[t][1] = job[t] /\ job[t] \in Dirs
        /\ idx[t] \in 1..GroupSize(job[t]) /\ idx[t] \in Index
        /\ at[grp[t]][idx[t]] = "running"
    BY DEF LossInv, IInv, TypeOK, ThreadInv, OwnerInv, Running, Groups
  <1>2. File(t) \in Files /\ src[job[t]][File(t)] # "absent"
    BY <1>1 DEF LossInv, GroupNamed, ListedArrived, File
  <1>3. at[grp[t]][0] = "owed"
    <2>1. idx[t] \in Index \ {0}
      BY <1>1, GroupSizeType
    <2>2. idx[t] \in Uncounted(grp[t])
      BY <2>1 DEF Uncounted
    <2>3. IsFiniteSet(Uncounted(grp[t]))
      BY IndexType, FS_Subset DEF Uncounted
    <2>4. pending_operations[grp[t]] # 0
      BY <1>1, <2>2, <2>3, FS_EmptySet DEF LossInv, IInv, PendingInv
    <2>5. QED BY <1>1, <2>4 DEF LossInv, IInv, TypeOK, RemovalInv
  <1>4. To(t) = Dest(grp[t], idx[t])
    BY <1>1 DEF To, Dest
  <1>5. to_size[job[t]] \in 0..MaxTo
    BY <1>1, ConstantsAssumption DEF ConstantsAssumption
  <1>6. To(t) \in 1..to_size[job[t]]
    <2>1. CASE Balanced(job[t])
      BY <1>1, <1>3, <2>1 DEF LossInv, TargetsKnown, To
    <2>2. CASE ~Balanced(job[t])
      <3>1. GroupSize(job[t]) = to_size[job[t]]
        BY <1>1, <2>2, GroupSizeType DEF Balanced, GroupSize, OnlyMove
      <3>2. QED BY <1>1, <2>2, <3>1 DEF To
    <2>3. QED BY <2>1, <2>2
  <1>7. To(t) \in Index \ {0}
    BY <1>5, <1>6, ConstantsAssumption DEF Index, ConstantsAssumption
  <1>8. QED BY <1>1, <1>2, <1>3, <1>4, <1>6, <1>7

(* Nothing that was answered for is left without an answer.                *)
AccountsKept ==
  \A d \in Dirs, k \in Index \ {0}, f \in Files :
    Accounted(d, k, f) => Accounted(d, k, f)'

(* A step that leaves the running transfers and their tasks alone, and at  *)
(* most begins another.                                                    *)
TransfersKept ==
  /\ \A t \in Threads :
       pc[t] = "op" => /\ pc'[t] = "op" /\ op'[t] = op[t]
                       /\ job'[t] = job[t] /\ grp'[t] = grp[t] /\ idx'[t] = idx[t]
                       /\ file'[grp[t]] = file[grp[t]]
                       /\ target'[grp[t]] = target[grp[t]]
  /\ \A t \in Threads : pc[t] # "op" /\ pc'[t] = "op" => op'[t].stage = "begin"
  /\ UNCHANGED <<dst, failed>>

LEMMA KeptTasks ==
  ASSUME TransfersKept, NEW t \in Threads, pc[t] = "op"
  PROVE  /\ File(t)' = File(t) /\ To(t)' = To(t)
         /\ Writing(t)' = Writing(t) /\ AtWork(t)' = AtWork(t)
         /\ Answers(t)' = Answers(t)
  <1>1. File(t)' = File(t) /\ To(t)' = To(t)
    BY DEF TransfersKept, File, To
  <1>2. ToProtocol(t)' = ToProtocol(t)
    BY <1>1 DEF TransfersKept, ToProtocol
  <1>3. op'[t] = op[t]
    BY DEF TransfersKept
  <1>4. Writing(t)' = Writing(t) /\ Reporting(t)' = Reporting(t)
    BY <1>2, <1>3 DEF Writing, Reporting
  <1>5. QED BY <1>1, <1>3, <1>4 DEF AtWork, Answers

LEMMA KeptAccounts ==
  ASSUME TransfersKept
  PROVE  AccountsKept
  <1> SUFFICES ASSUME NEW d \in Dirs, NEW k \in Index \ {0}, NEW f \in Files, Accounted(d, k, f)
               PROVE  Accounted(d, k, f)'
    BY DEF AccountsKept
  <1>1. CASE dst[d][k][f] = "full" \/ f \in failed[d]
    BY <1>1 DEF TransfersKept, Accounted
  <1>2. ASSUME NEW t \in Threads, On(t, d, k, f), AtWork(t)
        PROVE  Accounted(d, k, f)'
    <2>1. On(t, d, k, f)' /\ AtWork(t)'
      BY <1>2, KeptTasks DEF On, TransfersKept
    <2>2. QED BY <2>1 DEF Accounted
  <1>3. QED BY <1>1, <1>2 DEF Accounted

LEMMA KeptAnswers ==
  ASSUME LossInv, TransfersKept
  PROVE  TransfersAnswer' /\ StagesSound'
  <1>1. ASSUME NEW t \in Threads, pc'[t] = "op", Answers(t)'
        PROVE  Accounted(job[t], To(t), File(t))' /\ job'[t] = job[t]
               /\ To(t)' = To(t) /\ File(t)' = File(t)
    <2>1. pc[t] = "op"
      BY <1>1 DEF TransfersKept, Answers, Writing
    <2>2. Answers(t) /\ job'[t] = job[t] /\ To(t)' = To(t) /\ File(t)' = File(t)
      BY <1>1, <2>1, KeptTasks DEF TransfersKept
    <2>3. PICK d \in Dirs, k \in Index \ {0}, f \in Files :
            d = job[t] /\ k = To(t) /\ f = File(t)
      BY <2>1, TaskOf
    <2>4. Accounted(d, k, f)
      BY <2>1, <2>2, <2>3 DEF LossInv, TransfersAnswer
    <2>5. Accounted(d, k, f)'
      BY <2>4, KeptAccounts DEF AccountsKept
    <2>6. d = job'[t] /\ k = To(t)' /\ f = File(t)'
      BY <2>2, <2>3
    <2>7. Accounted(job[t], To(t), File(t))'
      BY <2>5, <2>6 DEF Accounted
    <2>8. QED BY <2>2, <2>7
  <1>2. TransfersAnswer'
    BY <1>1 DEF TransfersAnswer
  <1>3. StagesSound'
    BY DEF LossInv, StagesSound, TransfersKept
  <1>4. QED BY <1>2, <1>3

(* A group is new, or owes and has counted down what it had.               *)
GroupsKept ==
  \A g \in Groups : at'[g][0] # "none" =>
    \/ Uncounted(g)' = 1..GroupSize(g[1])
    \/ /\ at[g][0] # "none" /\ Uncounted(g)' = Uncounted(g)
       /\ file'[g] = file[g] /\ target'[g] = target[g]

(* The destination and the file of a group that owes its removal.          *)
LEMMA DestType ==
  ASSUME LossInv, NEW g \in Groups, at[g][0] # "none", NEW i \in 1..GroupSize(g[1])
  PROVE  /\ g[1] \in Dirs /\ file[g] \in Files
         /\ Dest(g, i) \in Index \ {0} /\ Dest(g, i) \in 1..to_size[g[1]]
  <1>1. g[1] \in Dirs /\ file[g] \in Files
    BY IndexType DEF LossInv, GroupNamed, Groups
  <1>2. to_size[g[1]] \in 0..MaxTo /\ MaxTo \in Nat
    BY <1>1, ConstantsAssumption DEF ConstantsAssumption
  <1>3. Dest(g, i) \in 1..to_size[g[1]]
    <2>1. CASE Balanced(g[1])
      BY <2>1 DEF LossInv, TargetsKnown, Dest
    <2>2. CASE ~Balanced(g[1])
      <3>1. GroupSize(g[1]) = to_size[g[1]]
        BY <1>1, <2>2, GroupSizeType DEF Balanced, GroupSize, OnlyMove
      <3>2. QED BY <2>2, <3>1 DEF Dest
    <2>3. QED BY <2>1, <2>2
  <1>4. QED BY <1>1, <1>2, <1>3 DEF Index

LEMMA KeptGroups ==
  ASSUME LossInv, AccountsKept, GroupsKept
  PROVE  GroupsAnswer'
  <1> SUFFICES ASSUME NEW g \in Groups, at'[g][0] # "none",
                      NEW i \in 1..GroupSize(g[1]), i \notin Uncounted(g)'
               PROVE  Accounted(g[1], Dest(g, i), file[g])'
    BY DEF GroupsAnswer
  <1>1. /\ at[g][0] # "none" /\ i \notin Uncounted(g)
        /\ file'[g] = file[g] /\ target'[g] = target[g]
    BY DEF GroupsKept
  <1>2. PICK d \in Dirs, k \in Index \ {0}, f \in Files :
          d = g[1] /\ k = Dest(g, i) /\ f = file[g]
    BY <1>1, DestType
  <1>3. Accounted(d, k, f)
    BY <1>1, <1>2 DEF LossInv, GroupsAnswer
  <1>4. Accounted(d, k, f)'
    BY <1>3 DEF AccountsKept
  <1>5. k = Dest(g, i)' /\ f = file'[g]
    BY <1>1, <1>2 DEF Dest
  <1>6. QED BY <1>2, <1>4, <1>5 DEF Accounted

LEMMA KeptAnswered ==
  ASSUME AccountsKept, NEW d \in Dirs, NEW f \in Files, Answered(d, f)
  PROVE  Answered(d, f)'
  <1>1. 1..to_size[d] \subseteq Index \ {0}
    BY ConstantsAssumption DEF ConstantsAssumption, Index
  <1>2. QED BY <1>1 DEF Answered, AccountsKept, Balanced, OnlyMove

LEMMA KeptGone ==
  ASSUME LossInv, AccountsKept,
         \A d \in Dirs, f \in Files :
           src'[d][f] = "gone" => src[d][f] = "gone" \/ Answered(d, f)
  PROVE  GoneAnswered'
  BY KeptAnswered DEF LossInv, GoneAnswered

(* No listing starts, no group takes a file.                               *)
ListingsKept ==
  /\ \A g \in Groups, i \in Index : at'[g][i] # "none" => at[g][i] # "none"
  /\ \A t \in Threads : \A f \in seen'[t] :
       f \in seen[t] /\ pc'[t] \in {"scan", "post"} /\ job'[t] = job[t]
  /\ \A d \in Dirs, f \in Files : src'[d][f] = "absent" => src[d][f] = "absent"
  /\ UNCHANGED file

LEMMA KeptListings ==
  ASSUME LossInv, ListingsKept
  PROVE  ListedArrived'
  <1>1. ASSUME NEW g \in Groups, NEW i \in Index, at'[g][i] # "none"
        PROVE  src'[g[1]][file'[g]] # "absent"
    <2>1. at[g][i] # "none" /\ file'[g] = file[g]
      BY <1>1 DEF ListingsKept
    <2>2. g[1] \in Dirs /\ file[g] \in Files /\ src[g[1]][file[g]] # "absent"
      BY <2>1 DEF LossInv, ListedArrived, GroupNamed, Groups
    <2>3. QED BY <2>1, <2>2 DEF ListingsKept
  <1>2. ASSUME NEW t \in Threads, NEW f \in seen'[t]
        PROVE  pc'[t] \in {"scan", "post"} /\ src'[job'[t]][f] # "absent"
    <2>1. f \in seen[t] /\ pc'[t] \in {"scan", "post"} /\ job'[t] = job[t]
      BY DEF ListingsKept
    <2>2. pc[t] \in {"scan", "post"} /\ f \in Files /\ src[job[t]][f] # "absent"
      BY <2>1 DEF LossInv, ListedArrived, MoverTypeOK
    <2>3. job[t] \in Dirs
      BY <2>2 DEF LossInv, IInv, TypeOK, ThreadInv
    <2>4. QED BY <2>1, <2>2, <2>3 DEF ListingsKept
  <1>3. QED BY <1>1, <1>2 DEF ListedArrived

LEMMA QuietLoss ==
  ASSUME LossInv, IInv', MoverTypeOK', GroupNamed', ListedArrived',
         TransfersKept, UncountedKept, UNCHANGED <<file, target>>,
         \A g \in Groups, i \in Index : at'[g][i] # "none" => at[g][i] # "none",
         \A d \in Dirs, f \in Files :
           src'[d][f] = "gone" => src[d][f] = "gone" \/ Answered(d, f)
  PROVE  LossInv'
  <1>1. AccountsKept
    BY KeptAccounts
  <1>2. TransfersAnswer' /\ StagesSound'
    BY KeptAnswers
  <1>3. GroupsKept
    BY IndexType DEF GroupsKept, UncountedKept
  <1>4. TargetsKnown'
    BY IndexType DEF LossInv, TargetsKnown
  <1>5. QED
    BY <1>1, <1>2, <1>3, <1>4, KeptGroups, KeptGone DEF LossInv

(* A step that leaves groups and files alone.                              *)
LEMMA IdleLoss ==
  ASSUME LossInv, IInv', MoverTypeOK', GroupNamed', Quiet, ListingsKept,
         UNCHANGED <<dst, failed, op, file, target, src>>,
         \A u \in Threads : (pc[u] = "op" <=> pc'[u] = "op")
  PROVE  LossInv'
  <1>1. UncountedKept
    BY QuietStep DEF LossInv
  <1>2. TransfersKept
    BY DEF Quiet, TransfersKept, GroupPC
  <1>3. QED
    BY <1>1, <1>2, KeptListings, QuietLoss DEF ListingsKept

LEMMA TimerLoss ==
  ASSUME LossInv, IInv', MoverTypeOK', GroupNamed',
         \/ \E d \in Dirs : TimerExpires(d) /\ UNCHANGED moverVars
         \/ UNCHANGED allVars
  PROVE  LossInv'
  <1>1. UNCHANGED <<pc, job, grp, idx, at, pending_operations, active_tasks,
                    dst, failed, op, file, target, src, seen>>
    BY DEF TimerExpires, allVars, vars, threadVars, groupVars, moverVars, fileVars
  <1>2. Quiet /\ ListingsKept /\ \A u \in Threads : (pc[u] = "op" <=> pc'[u] = "op")
    BY <1>1 DEF Quiet, ListingsKept, LossInv, ListedArrived
  <1>3. QED BY <1>1, <1>2, IdleLoss

(* The steps of a handler that do nothing to the files.                    *)
LEMMA OtherLoss ==
  ASSUME LossInv, IInv', MoverTypeOK', GroupNamed', NEW t \in Threads,
         \/ MoverOther(t)
         \/ \E ok \in ScanResults : MoverScanEnd(t, ok)
         \/ \E d \in Dirs : TakeRecheck(t, d) /\ UNCHANGED moverVars
         \/ pc[t] = "sub" /\ MoverFinishHandler(t)
  PROVE  LossInv'
  <1>1. IInv /\ TypeOK
    BY DEF LossInv, IInv
  <1>2. seen \in [Threads -> SUBSET Files]
        /\ \A u \in Threads : \A f \in seen[u] : pc[u] \in {"scan", "post"}
    BY DEF LossInv, MoverTypeOK, ListedArrived
  <1>3. CASE PostOperation(t) /\ UNCHANGED moverVars
    <2>1. UncountedKept
      BY <1>1, <1>3, PostOperationStep
    <2>2. UNCHANGED <<dst, failed, op, file, target, src, seen>>
      BY <1>3 DEF moverVars, fileVars
    <2>3. TransfersKept
      BY <1>1, <1>3, <2>2 DEF PostOperation, TypeOK, TransfersKept
    <2>4. grp[t] \in Groups /\ idx[t] \in idx[t]..GroupSize(job[t])
      <3>1. /\ grp[t] \in Groups /\ job[t] \in Dirs /\ idx[t] \in 1..GroupSize(job[t])
        BY <1>1, <1>3 DEF PostOperation, IInv, ThreadInv, Groups
      <3>2. QED BY <3>1, GroupSizeType
    <2>5. \A g \in Groups, i \in Index : at'[g][i] # "none" => at[g][i] # "none"
      BY <1>1, <1>3, <2>4 DEF PostOperation, TypeOK, IInv, OwnerInv
    <2>6. ListingsKept
      BY <1>1, <1>2, <1>3, <2>2, <2>5 DEF PostOperation, TypeOK, ListingsKept
    <2>7. QED BY <2>1, <2>2, <2>3, <2>5, <2>6, KeptListings, QuietLoss
  <1>4. CASE LastOperation(t) /\ UNCHANGED moverVars
    <2>1. UncountedKept
      BY <1>1, <1>4, LastOperationStep
    <2>2. UNCHANGED <<dst, failed, op, file, target, src, seen>>
      BY <1>4 DEF moverVars, fileVars
    <2>3. TransfersKept
      BY <1>1, <1>4, <2>2 DEF LastOperation, TypeOK, TransfersKept
    <2>4. grp[t] \in Groups /\ at[grp[t]][0] = "owed"
      BY <1>1, <1>4 DEF LastOperation, IInv, ThreadInv, RemovalInv, Running
    <2>5. \A g \in Groups, i \in Index : at'[g][i] # "none" => at[g][i] # "none"
      <3>1. PICK p : at' = [at EXCEPT ![grp[t]][0] = p]
        BY <1>4 DEF LastOperation
      <3>2. \A g \in Groups, i \in Index :
              g # grp[t] \/ i # 0 => at'[g][i] = at[g][i]
        BY <1>1, <3>1 DEF TypeOK
      <3>3. QED BY <2>4, <3>2
    <2>6. ListingsKept
      BY <1>1, <1>2, <1>4, <2>2, <2>5 DEF LastOperation, TypeOK, ListingsKept
    <2>7. QED BY <2>1, <2>2, <2>3, <2>5, <2>6, KeptListings, QuietLoss
  <1>5. CASE (CheckCompletion(t) \/ ExpiresAfter(t) \/ AsyncWait(t)) /\ UNCHANGED moverVars
    <2>1. UNCHANGED <<dst, failed, op, file, target, src, seen>>
      BY <1>5 DEF moverVars, fileVars
    <2>2. Quiet /\ \A u \in Threads : (pc[u] = "op" <=> pc'[u] = "op")
      BY <1>1, <1>5 DEF CheckCompletion, ExpiresAfter, AsyncWait, TypeOK, Quiet,
         GroupPC, groupVars
    <2>3. ListingsKept
      BY <1>1, <1>2, <1>5, <2>1
      DEF CheckCompletion, ExpiresAfter, AsyncWait, TypeOK, ListingsKept, groupVars
    <2>4. QED BY <2>1, <2>2, <2>3, IdleLoss
  <1>6. ASSUME NEW ok \in ScanResults, MoverScanEnd(t, ok)
        PROVE  LossInv'
    <2>1. Quiet /\ \A u \in Threads : (pc[u] = "op" <=> pc'[u] = "op")
      BY <1>1, <1>6 DEF MoverScanEnd, ScanEnd, TypeOK, Quiet, GroupPC, groupVars
    <2>2. ListingsKept
      BY <1>1, <1>2, <1>6
      DEF MoverScanEnd, ScanEnd, TypeOK, ListingsKept, groupVars, fileVars
    <2>3. QED BY <1>6, <2>1, <2>2, IdleLoss DEF MoverScanEnd, fileVars
  <1>7. ASSUME NEW d \in Dirs, TakeRecheck(t, d) /\ UNCHANGED moverVars
        PROVE  LossInv'
    <2>1. UNCHANGED <<dst, failed, op, file, target, src, seen>>
      BY <1>7 DEF moverVars, fileVars
    <2>2. Quiet /\ \A u \in Threads : (pc[u] = "op" <=> pc'[u] = "op")
      BY <1>1, <1>7 DEF TakeRecheck, TypeOK, Quiet, GroupPC, groupVars
    <2>3. ListingsKept
      BY <1>1, <1>2, <1>7, <2>1 DEF TakeRecheck, TypeOK, ListingsKept, groupVars
    <2>4. QED BY <2>1, <2>2, <2>3, IdleLoss
  <1>8. CASE pc[t] = "sub" /\ MoverFinishHandler(t)
    <2>1. UncountedKept
      BY <1>1, <1>8, FinishHandlerStep DEF MoverFinishHandler
    <2>2. UNCHANGED <<dst, failed, op, file, target, src, seen>>
      BY <1>8 DEF MoverFinishHandler
    <2>3. TransfersKept
      BY <1>1, <1>8, <2>2 DEF MoverFinishHandler, FinishHandler, TypeOK, TransfersKept
    <2>4. grp[t] \in Groups /\ idx[t] \in Index
      BY <1>1, <1>8 DEF IInv, TypeOK, ThreadInv, Running
    <2>5. \A g \in Groups, i \in Index : at'[g][i] # "none" => at[g][i] # "none"
      BY <1>1, <1>8, <2>4 DEF MoverFinishHandler, FinishHandler, TypeOK
    <2>6. ListingsKept
      BY <1>1, <1>2, <1>8, <2>2, <2>5
      DEF MoverFinishHandler, FinishHandler, TypeOK, ListingsKept
    <2>7. QED BY <2>1, <2>2, <2>3, <2>5, <2>6, KeptListings, QuietLoss
  <1>9. QED
    BY <1>3, <1>4, <1>5, <1>6, <1>7, <1>8 DEF MoverOther

(* A listing finds the files that are there.                               *)
LEMMA ScanStartLoss ==
  ASSUME LossInv, IInv', MoverTypeOK', GroupNamed',
         NEW t \in Threads, NEW d \in Dirs, MoverScanStart(t, d)
  PROVE  LossInv'
  <1>1. IInv /\ TypeOK /\ seen \in [Threads -> SUBSET Files]
    BY DEF LossInv, IInv, MoverTypeOK
  <1>2. UNCHANGED <<at, grp, idx, dst, failed, op, file, target, src>>
    BY DEF MoverScanStart, ScanStart, groupVars, fileVars
  <1>3. UncountedKept
    <2>1. Quiet
      BY <1>1 DEF MoverScanStart, ScanStart, TypeOK, Quiet, GroupPC, groupVars
    <2>2. QED BY <1>1, <2>1, QuietStep
  <1>4. TransfersKept
    BY <1>1, <1>2 DEF MoverScanStart, ScanStart, TypeOK, TransfersKept
  <1>5. ListedArrived'
    <2>1. /\ pc'[t] = "scan" /\ job'[t] = d
          /\ \A f \in seen'[t] : src[d][f] = "present"
      BY <1>1 DEF MoverScanStart, ScanStart, TypeOK
    <2>2. \A u \in Threads \ {t} :
            pc'[u] = pc[u] /\ job'[u] = job[u] /\ seen'[u] = seen[u]
      BY <1>1 DEF MoverScanStart, ScanStart, TypeOK
    <2>3. QED BY <1>2, <2>1, <2>2 DEF LossInv, ListedArrived
  <1>6. QED BY <1>2, <1>3, <1>4, <1>5, QuietLoss

(* A thread begins a transfer, or is about to remove a source.             *)
LEMMA TakeLoss ==
  ASSUME LossInv, IInv', MoverTypeOK', GroupNamed', NEW t \in Threads,
         NEW g \in Groups, NEW i \in Index, MoverTakeHandler(t, g, i)
  PROVE  LossInv'
  <1>1. /\ IInv /\ TypeOK /\ seen \in [Threads -> SUBSET Files] /\ op \in [Threads -> Op]
        /\ \A u \in Threads : \A f \in seen[u] : pc[u] \in {"scan", "post"}
    BY DEF LossInv, IInv, MoverTypeOK, ListedArrived
  <1>2. UNCHANGED <<dst, failed, file, target, src, seen>>
    BY DEF MoverTakeHandler, fileVars
  <1>3. UncountedKept
    BY <1>1, TakeHandlerStep DEF MoverTakeHandler
  <1>4. TransfersKept
    <2>1. pc[t] = "idle" /\ \A u \in Threads \ {t} :
            /\ pc'[u] = pc[u] /\ job'[u] = job[u] /\ grp'[u] = grp[u]
            /\ idx'[u] = idx[u] /\ op'[u] = op[u]
      BY <1>1 DEF MoverTakeHandler, TakeHandler, TypeOK
    <2>2. pc'[t] = "op" => op'[t].stage = "begin"
      BY <1>1 DEF MoverTakeHandler, TakeHandler, TypeOK, NoOp
    <2>3. QED BY <1>2, <2>1, <2>2 DEF TransfersKept
  <1>5. \A h \in Groups, j \in Index : at'[h][j] # "none" => at[h][j] # "none"
    BY <1>1 DEF MoverTakeHandler, TakeHandler, TypeOK
  <1>6. ListingsKept
    BY <1>1, <1>2, <1>5 DEF MoverTakeHandler, TakeHandler, TypeOK, ListingsKept
  <1>7. QED BY <1>2, <1>3, <1>4, <1>5, <1>6, KeptListings, QuietLoss

(* A new group has everything to count down.                               *)
LEMMA ProcessLoss ==
  ASSUME LossInv, IInv', MoverTypeOK', GroupNamed', NEW t \in Threads,
         NEW g \in Groups, MoverProcessFile(t, g)
  PROVE  LossInv'
  <1>1. IInv /\ TypeOK /\ MoverTypeOK
    BY DEF LossInv, IInv
  <1>2. ProcessFile(t, g) /\ UNCHANGED <<dst, failed, op, src>>
    BY DEF MoverProcessFile, fileVars
  <1>3. PICK f \in seen[t] :
          file' = [file EXCEPT ![g] = f] /\ seen' = [seen EXCEPT ![t] = @ \ {f}]
    BY DEF MoverProcessFile
  <1>4. /\ \A h \in Groups \ {g} : target'[h] = target[h]
        /\ Balanced(job[t]) => target'[g] \in 1..to_size[job[t]]
    BY <1>1 DEF MoverProcessFile, MoverTypeOK
  <1>5. \A h \in Groups \ {g} : at'[h] = at[h] /\ file'[h] = file[h]
    BY <1>1, <1>2, <1>3 DEF ProcessFile, TypeOK, MoverTypeOK
  <1>6. /\ g[1] = job[t] /\ job' = job /\ \A i \in Index : at[g][i] = "none"
        /\ pc[t] = "scan" /\ pc'[t] \in {"scan", "post"}
        /\ \A u \in Threads \ {t} :
             pc'[u] = pc[u] /\ grp'[u] = grp[u] /\ idx'[u] = idx[u]
    BY <1>1, <1>2 DEF ProcessFile, TypeOK
  <1>7. TransfersKept
    <2>1. ASSUME NEW u \in Threads, pc[u] = "op"
          PROVE  grp[u] \in Groups /\ grp[u] # g /\ u # t
      BY <1>6, <2>1, TaskOf
    <2>2. QED BY <1>2, <1>4, <1>5, <1>6, <2>1 DEF TransfersKept
  <1>8. AccountsKept /\ TransfersAnswer' /\ StagesSound'
    BY <1>7, KeptAccounts, KeptAnswers
  <1>9. GroupsKept
    <2>1. /\ Uncounted(g)' = 1..GroupSize(g[1])
          /\ \A h \in Groups \ {g} : Uncounted(h)' = Uncounted(h)
      BY <1>1, <1>2, ProcessFileStep
    <2>2. QED BY <1>4, <1>5, <2>1 DEF GroupsKept
  <1>10. TargetsKnown'
    BY <1>4, <1>5, <1>6 DEF LossInv, TargetsKnown
  <1>11. ListedArrived'
    <2>1. src[job[t]][f] # "absent" /\ file'[g] = f
      BY <1>1, <1>3 DEF LossInv, ListedArrived, MoverTypeOK
    <2>2. \A u \in Threads : seen'[u] \subseteq seen[u]
      BY <1>1, <1>3 DEF MoverTypeOK
    <2>3. QED BY <1>2, <1>5, <1>6, <2>1, <2>2 DEF LossInv, ListedArrived
  <1>12. GoneAnswered'
    BY <1>2, <1>8, KeptGone
  <1>13. QED BY <1>8, <1>9, <1>10, <1>11, <1>12, KeptGroups DEF LossInv

(* What a transfer answers for is answered for after the step.             *)
LEMMA StillAnswered ==
  ASSUME LossInv, AccountsKept, NEW t \in Threads, pc[t] = "op", Answers(t),
         job'[t] = job[t], To(t)' = To(t), File(t)' = File(t)
  PROVE  Accounted(job[t], To(t), File(t))'
  <1>1. PICK d \in Dirs, k \in Index \ {0}, f \in Files :
          d = job[t] /\ k = To(t) /\ f = File(t)
    BY TaskOf
  <1>2. Accounted(d, k, f)
    BY <1>1 DEF LossInv, TransfersAnswer
  <1>3. Accounted(d, k, f)'
    BY <1>2 DEF AccountsKept
  <1>4. d = job'[t] /\ k = To(t)' /\ f = File(t)'
    BY <1>1
  <1>5. QED BY <1>3, <1>4 DEF Accounted

(* A transfer that returned an error leaves it in the error count.         *)
LEMMA CountDownLoss ==
  ASSUME LossInv, IInv', MoverTypeOK', GroupNamed', NEW t \in Threads,
         MoverCountDown(t)
  PROVE  LossInv'
  <1>1. IInv /\ TypeOK /\ MoverTypeOK
    BY DEF LossInv, IInv
  <1>2. CountDown(t) /\ pc[t] = "op" /\ op[t].stage = "done"
    BY DEF MoverCountDown, CountDown
  <1>3. UNCHANGED <<job, grp, idx, at, src, dst, file, target, seen>>
    BY DEF MoverCountDown, CountDown, fileVars
  <1>4. pc'[t] # "op" /\ \A u \in Threads \ {t} : pc'[u] = pc[u] /\ op'[u] = op[u]
    BY <1>1 DEF MoverCountDown, CountDown, TypeOK, MoverTypeOK
  <1>5. \A u \in Threads : File(u)' = File(u) /\ To(u)' = To(u)
    BY <1>3 DEF File, To
  <1>6. \A u \in Threads \ {t} :
          /\ Writing(u)' = Writing(u) /\ AtWork(u)' = AtWork(u)
          /\ Answers(u)' = Answers(u)
    <2>1. \A u \in Threads : ToProtocol(u)' = ToProtocol(u)
      BY <1>3, <1>5 DEF ToProtocol
    <2>2. QED BY <1>4, <2>1 DEF Writing, AtWork, Reporting, Answers
  <1>7. /\ \A d \in Dirs : failed[d] \subseteq failed'[d]
        /\ ~op[t].status => File(t) \in failed'[job[t]]
    <2>1. job[t] \in Dirs
      BY <1>2, TaskOf
    <2>2. QED BY <1>1, <2>1 DEF MoverCountDown, MoverTypeOK
  <1>8. AccountsKept
    <2> SUFFICES ASSUME NEW d \in Dirs, NEW k \in Index \ {0}, NEW f \in Files, Accounted(d, k, f)
                 PROVE  Accounted(d, k, f)'
      BY DEF AccountsKept
    <2>1. CASE dst[d][k][f] = "full" \/ f \in failed[d]
      BY <1>3, <1>7, <2>1 DEF Accounted
    <2>2. CASE On(t, d, k, f) /\ AtWork(t)
      <3>1. f \in failed'[d]
        <4>1. ~op[t].status /\ d = job[t] /\ f = File(t)
          BY <1>2, <2>2 DEF On, AtWork, Writing, Reporting
        <4>2. QED BY <1>7, <4>1
      <3>2. QED
        BY <1>3, <3>1 DEF Accounted
    <2>3. ASSUME NEW u \in Threads \ {t}, On(u, d, k, f), AtWork(u)
          PROVE  Accounted(d, k, f)'
      <3>1. On(u, d, k, f)' /\ AtWork(u)'
        BY <1>3, <1>4, <1>5, <1>6, <2>3 DEF On
      <3>2. QED BY <3>1 DEF Accounted
    <2>4. QED BY <2>1, <2>2, <2>3 DEF Accounted
  <1>9. TransfersAnswer'
    <2> SUFFICES ASSUME NEW u \in Threads, pc'[u] = "op", Answers(u)'
                 PROVE  Accounted(job[u], To(u), File(u))'
      BY DEF TransfersAnswer
    <2>1. pc[u] = "op" /\ Answers(u)
      BY <1>4, <1>6
    <2>2. QED BY <1>3, <1>5, <1>8, <2>1, StillAnswered
  <1>10. StagesSound'
    BY <1>3, <1>4 DEF LossInv, StagesSound
  <1>11. GroupsAnswer'
    <2> SUFFICES ASSUME NEW g \in Groups, at'[g][0] # "none",
                        NEW i \in 1..GroupSize(g[1]), i \notin Uncounted(g)'
                 PROVE  Accounted(g[1], Dest(g, i), file[g])'
      BY DEF GroupsAnswer
    <2>1. at[g][0] # "none"
      BY <1>3
    <2>2. PICK d \in Dirs, k \in Index \ {0}, f \in Files :
            d = g[1] /\ k = Dest(g, i) /\ f = file[g]
      BY <2>1, DestType
    <2>3. Accounted(d, k, f)
      <3>1. CASE i \notin Uncounted(g)
        BY <2>1, <2>2, <3>1 DEF LossInv, GroupsAnswer
      <3>2. CASE i \in Uncounted(g)
        <4>1. g = grp[t] /\ i = idx[t]
          <5>1. /\ Uncounted(grp[t])' = Uncounted(grp[t]) \ {idx[t]}
                /\ \A h \in Groups \ {grp[t]} : Uncounted(h)' = Uncounted(h)
            BY <1>1, <1>2, CountDownStep
          <5>2. CASE g = grp[t]
            <6>1. Uncounted(g)' = Uncounted(g) \ {idx[t]}
              BY <1>3, <5>1, <5>2 DEF Uncounted
            <6>2. QED BY <3>2, <5>2, <6>1
          <5>3. CASE g # grp[t]
            BY <3>2, <5>1, <5>3
          <5>4. QED BY <5>2, <5>3
        <4>2. d = job[t] /\ k = To(t) /\ f = File(t)
          <5>1. grp[t][1] = job[t] /\ To(t) = Dest(grp[t], idx[t])
            BY <1>2, TaskOf
          <5>2. QED BY <2>2, <4>1, <5>1 DEF File
        <4>3. QED BY <1>2, <4>2 DEF LossInv, TransfersAnswer, Answers
      <3>3. QED BY <3>1, <3>2
    <2>4. Accounted(d, k, f)'
      BY <1>8, <2>3 DEF AccountsKept
    <2>5. k = Dest(g, i)' /\ f = file'[g]
      BY <1>3, <2>2 DEF Dest
    <2>6. QED BY <2>2, <2>4, <2>5 DEF Accounted
  <1>12. GoneAnswered'
    BY <1>3, <1>8, KeptGone
  <1>13. ListedArrived'
    <2>1. \A u \in Threads : seen[u] # {} => u # t
      BY <1>2 DEF LossInv, ListedArrived
    <2>2. QED BY <1>3, <1>4, <2>1 DEF LossInv, ListedArrived
  <1>14. TargetsKnown'
    BY <1>3 DEF LossInv, TargetsKnown
  <1>15. QED BY <1>9, <1>10, <1>11, <1>12, <1>13, <1>14 DEF LossInv

(* delete_file removes the source of a group that has counted down all its *)
(* transfers.                                                              *)
LEMMA DeleteLoss ==
  ASSUME LossInv, IInv', MoverTypeOK', GroupNamed', NEW t \in Threads,
         pc[t] = "delete", MoverFinishHandler(t)
  PROVE  LossInv'
  <1>1. IInv /\ TypeOK /\ MoverTypeOK
    BY DEF LossInv, IInv
  <1>2. UNCHANGED <<dst, file, target, seen, op, failed, job>>
    BY DEF MoverFinishHandler, FinishHandler
  <1>3. UncountedKept
    BY <1>1, FinishHandlerStep DEF MoverFinishHandler
  <1>4. pc'[t] = "check" /\ \A u \in Threads \ {t} :
          pc'[u] = pc[u] /\ grp'[u] = grp[u] /\ idx'[u] = idx[u]
    BY <1>1 DEF MoverFinishHandler, FinishHandler, TypeOK
  <1>5. TransfersKept
    BY <1>2, <1>4 DEF TransfersKept
  <1>6. /\ grp[t] \in Groups /\ grp[t][1] = job[t] /\ job[t] \in Dirs
        /\ 0 \in Index /\ at[grp[t]][0] = "running" /\ idx[t] = 0
    BY <1>1, IndexType DEF IInv, ThreadInv, OwnerInv, Running, Groups
  <1>7. \A g \in Groups, i \in Index : at'[g][i] # "none" => at[g][i] # "none"
    BY <1>1, <1>6 DEF MoverFinishHandler, FinishHandler, TypeOK
  <1>8. File(t) \in Files
    BY <1>6 DEF LossInv, GroupNamed, File
  <1>9. Answered(job[t], File(t))
    <2>1. ASSUME NEW i \in 1..GroupSize(job[t])
          PROVE  i \notin Uncounted(grp[t])
      <3>1. i \in Index \ {0}
        BY <1>6, IndexType
      <3>2. QED
        BY <1>1, <1>6, <3>1, InvRemoval DEF RemovalAfterTransfers, Uncounted
    <2>2. \A i \in 1..GroupSize(job[t]) : Accounted(job[t], Dest(grp[t], i), File(t))
      BY <1>6, <2>1 DEF LossInv, GroupsAnswer, File
    <2>3. CASE Balanced(job[t])
      <3>1. GroupSize(job[t]) = 1 /\ target[grp[t]] \in 1..to_size[job[t]]
        BY <1>6, <2>3 DEF LossInv, TargetsKnown, Balanced, GroupSize
      <3>2. 1 \in 1..GroupSize(job[t]) /\ Dest(grp[t], 1) = target[grp[t]]
        BY <1>6, <2>3, <3>1 DEF Dest
      <3>3. Accounted(job[t], target[grp[t]], File(t))
        BY <2>2, <3>2
      <3>4. QED BY <2>3, <3>1, <3>3 DEF Answered
    <2>4. CASE ~Balanced(job[t])
      <3>1. GroupSize(job[t]) = to_size[job[t]]
        BY <1>6, <2>4, GroupSizeType DEF Balanced, GroupSize, OnlyMove
      <3>2. \A i \in 1..GroupSize(job[t]) : Dest(grp[t], i) = i
        BY <1>6, <2>4 DEF Dest
      <3>3. QED BY <2>2, <2>4, <3>1, <3>2 DEF Answered
    <2>5. QED BY <2>3, <2>4
  <1>10. /\ \A d \in Dirs, f \in Files :
              src'[d][f] = "gone" => src[d][f] = "gone" \/ Answered(d, f)
         /\ \A d \in Dirs, f \in Files : src'[d][f] = "absent" => src[d][f] = "absent"
    <2>1. \E ok : src' = SourceAfter(job[t], File(t), ok)
      BY DEF MoverFinishHandler
    <2>2. \A d \in Dirs, f \in Files :
            \/ src'[d][f] = src[d][f]
            \/ src'[d][f] = "gone" /\ d = job[t] /\ f = File(t)
      BY <1>1, <2>1 DEF SourceAfter, MoverTypeOK
    <2>3. QED BY <1>9, <2>2
  <1>11. ListingsKept
    <2>1. \A u \in Threads : seen[u] # {} => u # t /\ pc[u] \in {"scan", "post"}
      BY DEF LossInv, ListedArrived
    <2>2. QED BY <1>2, <1>4, <1>7, <1>10, <2>1 DEF ListingsKept
  <1>12. QED
    BY <1>2, <1>3, <1>5, <1>7, <1>10, <1>11, KeptListings, QuietLoss

(* What a step of transfer t does: to the other files and transfers, to    *)
(* its own destination, to what it reads, to its source.                   *)
OthersKept(t) ==
  /\ \A u \in Threads \ {t} :
       \/ op'[u] = op[u]
       \/ On(u, job[t], To(t), File(t)) /\ op'[u] = [op[u] EXCEPT !.clean = FALSE]
  /\ \A d \in Dirs, k \in Index \ {0}, f \in Files :
       ~(d = job[t] /\ k = To(t) /\ f = File(t)) => dst'[d][k][f] = dst[d][k][f]

OwnAnswered(t) ==
  \/ dst'[job[t]][To(t)][File(t)] = "full"
  \/ AtWork(t)'
  \/ /\ dst' = dst /\ \A u \in Threads \ {t} : op'[u] = op[u]
     /\ ~AtWork(t) /\ (Answers(t)' => Answers(t))

OwnStage(t) ==
  /\ op'[t].stage = "get" => op'[t].body \in {"none", "src"}
  /\ op'[t].stage \in {"body", "put"} => op'[t].body \in {"src", "full"}
  /\ op'[t].stage = "remove" => OnlyMove(job[t])

SourceKept(t) ==
  \A d \in Dirs, f \in Files :
    \/ src'[d][f] = src[d][f]
    \/ /\ d = job[t] /\ f = File(t) /\ src'[d][f] = "gone" /\ OnlyMove(d)
       /\ Answers(t) \/ dst'[d][To(t)][f] = "full"

Effect(t) == OthersKept(t) /\ OwnAnswered(t) /\ OwnStage(t) /\ SourceKept(t)

(* A step of a transfer leaves the scanner, and every task, as they are.   *)
TasksKept == UNCHANGED <<vars, file, target, seen, failed, crashes>>

LEMMA TasksStay ==
  ASSUME TasksKept, NEW t \in Threads
  PROVE  /\ pc'[t] = pc[t] /\ job'[t] = job[t] /\ grp'[t] = grp[t] /\ idx'[t] = idx[t]
         /\ File(t)' = File(t) /\ To(t)' = To(t) /\ ToProtocol(t)' = ToProtocol(t)
         /\ UNCHANGED <<at, file, target, failed, seen>>
  <1>1. UNCHANGED <<pc, job, grp, idx, at, file, target, failed, seen>>
    BY DEF TasksKept, vars, threadVars, groupVars
  <1>2. File(t)' = File(t) /\ To(t)' = To(t)
    BY <1>1 DEF File, To
  <1>3. QED BY <1>1, <1>2 DEF ToProtocol

LEMMA TransferShape ==
  ASSUME LossInv, NEW t \in Threads, NEW o \in Op, Transfer(t, o)
  PROVE  /\ TasksKept /\ op'[t] = o /\ \A u \in Threads \ {t} : op'[u] = op[u]
         /\ AtWork(t)' <=> \/ o.stage = "put" /\ o.clean
                           \/ o.stage = "get" /\ ToProtocol(t) = "DIR" /\ o.clean
                           \/ o.stage = "done" /\ ~o.status
         /\ Answers(t)' <=> \/ o.stage \in {"put", "remove", "done"}
                            \/ o.stage = "get" /\ ToProtocol(t) = "DIR"
  <1>1. TasksKept
    BY DEF Transfer, TasksKept
  <1>2. op'[t] = o /\ \A u \in Threads \ {t} : op'[u] = op[u]
    BY DEF LossInv, MoverTypeOK, Transfer
  <1>3. ToProtocol(t)' = ToProtocol(t)
    BY <1>1, TasksStay
  <1>4. QED
    BY <1>1, <1>2, <1>3 DEF AtWork, Answers, Writing, Reporting

(* A transfer that opens its destination for writing.                      *)
LEMMA TruncateEffect ==
  ASSUME LossInv, NEW t \in Threads, pc[t] = "op", NEW o \in Op, Truncate(t, o), o.clean,
         \/ o.stage = "get" /\ ToProtocol(t) = "DIR" /\ o.body \in {"none", "src"}
         \/ o.stage = "put" /\ o.body \in {"src", "full"}
  PROVE  TasksKept /\ Effect(t)
  <1>1. TasksKept
    BY DEF Truncate, TasksKept
  <1>2. op'[t] = o
    BY DEF Truncate
  <1>3. OthersKept(t)
    <2>1. \A u \in Threads \ {t} :
            \/ op'[u] = op[u]
            \/ On(u, job[t], To(t), File(t)) /\ op'[u] = [op[u] EXCEPT !.clean = FALSE]
      BY DEF Truncate, On
    <2>2. \A d \in Dirs, k \in Index \ {0}, f \in Files :
            ~(d = job[t] /\ k = To(t) /\ f = File(t)) => dst'[d][k][f] = dst[d][k][f]
      BY DEF LossInv, MoverTypeOK, Truncate
    <2>3. QED BY <2>1, <2>2 DEF OthersKept
  <1>4. OwnAnswered(t)
    <2>1. ToProtocol(t)' = ToProtocol(t)
      BY <1>1, TasksStay
    <2>2. AtWork(t)'
      BY <1>2, <2>1 DEF AtWork, Writing
    <2>3. QED BY <2>2 DEF OwnAnswered
  <1>5. OwnStage(t)
    BY <1>2 DEF OwnStage
  <1>6. SourceKept(t)
    BY DEF Truncate, SourceKept
  <1>7. QED BY <1>1, <1>3, <1>4, <1>5, <1>6 DEF Effect

(* Any other step: it leaves the destination alone, or makes it whole.     *)
LEMMA WriteEffect ==
  ASSUME LossInv, NEW t \in Threads, pc[t] = "op", NEW o \in Op, Transfer(t, o),
         \/ dst' = [dst EXCEPT ![job[t]][To(t)][File(t)] = "full"]
         \/ dst' = dst /\ AtWork(t)'
         \/ dst' = dst /\ ~AtWork(t) /\ (Answers(t)' => Answers(t)),
         o.stage = "get" => o.body \in {"none", "src"},
         o.stage \in {"body", "put"} => o.body \in {"src", "full"},
         o.stage = "remove" => OnlyMove(job[t]),
         \/ src' = src
         \/ /\ \E ok : src' = SourceAfter(job[t], File(t), ok)
            /\ OnlyMove(job[t])
            /\ Answers(t) \/ dst' = [dst EXCEPT ![job[t]][To(t)][File(t)] = "full"]
  PROVE  TasksKept /\ Effect(t)
  <1>1. TasksKept /\ op'[t] = o /\ \A u \in Threads \ {t} : op'[u] = op[u]
    BY TransferShape
  <1>2. job[t] \in Dirs /\ To(t) \in Index \ {0} /\ File(t) \in Files
    BY TaskOf
  <1>3. ASSUME dst' = [dst EXCEPT ![job[t]][To(t)][File(t)] = "full"]
        PROVE  dst'[job[t]][To(t)][File(t)] = "full"
    BY <1>2, <1>3 DEF LossInv, MoverTypeOK
  <1>4. OthersKept(t)
    <2>1. \A d \in Dirs, k \in Index \ {0}, f \in Files :
            ~(d = job[t] /\ k = To(t) /\ f = File(t)) => dst'[d][k][f] = dst[d][k][f]
      BY DEF LossInv, MoverTypeOK
    <2>2. QED BY <1>1, <2>1 DEF OthersKept
  <1>5. OwnAnswered(t)
    BY <1>1, <1>3 DEF OwnAnswered
  <1>6. OwnStage(t)
    BY <1>1 DEF OwnStage
  <1>7. SourceKept(t)
    <2>1. CASE src' = src
      BY <2>1 DEF SourceKept
    <2>2. CASE src' # src
      <3>1. \A d \in Dirs, f \in Files :
              \/ src'[d][f] = src[d][f]
              \/ src'[d][f] = "gone" /\ d = job[t] /\ f = File(t)
        BY <2>2 DEF SourceAfter, LossInv, MoverTypeOK
      <3>2. Answers(t) \/ dst'[job[t]][To(t)][File(t)] = "full"
        BY <1>3, <2>2
      <3>3. OnlyMove(job[t])
        BY <2>2
      <3>4. QED BY <3>1, <3>2, <3>3 DEF SourceKept
    <2>3. QED BY <2>1, <2>2
  <1>8. QED BY <1>1, <1>4, <1>5, <1>6, <1>7 DEF Effect

(* The steps of a transfer, with protocols other than S3.                  *)
LEMMA StepEffect ==
  ASSUME CheckedProtocols, LossInv, NEW t \in Threads, TransferStep(t)
  PROVE  pc[t] = "op" /\ TasksKept /\ Effect(t)
  <1> DEFINE Error == [NoOp EXCEPT !.stage = "done"]
             Success == [NoOp EXCEPT !.stage = "done", !.status = TRUE]
             Remove == [NoOp EXCEPT !.stage = "remove"]
             Read(c) == [NoOp EXCEPT !.stage = "body", !.body = c]
  <1>1. pc[t] = "op"
    BY DEF TransferStep, Rename, OpenSource, LocalFailure, BeginGet, EndGet,
       BeginPut, EndPut, PutObject, RemoveMoved, At
  <1> SUFFICES TasksKept /\ Effect(t)
    BY <1>1
  <1>2. /\ job[t] \in Dirs /\ To(t) \in Index \ {0} /\ File(t) \in Files
        /\ FromProtocol(t) # "S3" /\ ToProtocol(t) # "S3" /\ Checked(t)
    <2>1. job[t] \in Dirs /\ To(t) \in Index \ {0} /\ File(t) \in Files
      BY <1>1, TaskOf
    <2>2. QED BY <2>1 DEF CheckedProtocols, FromProtocol, ToProtocol, Checked
  <1>3. /\ Error \in Op /\ Success \in Op /\ Remove \in Op
        /\ \A c \in {"none", "src", "bad", "full"} : Read(c) \in Op
    BY OpValues DEF Stage
  <1>4. /\ Error.stage = "done" /\ ~Error.status
        /\ Success.stage = "done" /\ Success.status /\ Remove.stage = "remove"
        /\ \A c : Read(c).stage = "body" /\ Read(c).body = c
    BY DEF NoOp
  <1>5. /\ After(t, FALSE) = Error
        /\ After(t, TRUE) = IF OnlyMove(job[t]) THEN Remove ELSE Success
    BY <1>2 DEF After
  <1>6. op[t] \in Op /\ /\ op[t].stage = "get" => op[t].body \in {"none", "src"}
                        /\ op[t].stage \in {"body", "put"} => op[t].body \in {"src", "full"}
                        /\ op[t].stage = "remove" => OnlyMove(job[t])
    BY <1>1 DEF LossInv, MoverTypeOK, StagesSound
  <1> HIDE DEF Error, Success, Remove, Read
  <1>7. ASSUME NEW o \in Op, o.stage = "done", ~o.status, Transfer(t, o),
               UNCHANGED fileVars
        PROVE  TasksKept /\ Effect(t)
    <2>1. AtWork(t)'
      BY <1>7, TransferShape
    <2>2. dst' = dst /\ src' = src
      BY <1>7 DEF fileVars
    <2>3. QED BY <1>1, <1>7, <2>1, <2>2, WriteEffect
  <1>8. CASE Rename(t)
    <2>1. PICK done \in BOOLEAN :
            /\ src' = SourceAfter(job[t], File(t), done)
            /\ dst' = IF done THEN [dst EXCEPT ![job[t]][To(t)][File(t)] = "full"] ELSE dst
            /\ Transfer(t, [NoOp EXCEPT !.stage = "done", !.status = done])
      BY <1>8 DEF Rename
    <2>2. CASE done = TRUE
      <3>1. Transfer(t, Success)
        BY <2>1, <2>2 DEF Success
      <3>2. /\ dst' = [dst EXCEPT ![job[t]][To(t)][File(t)] = "full"]
            /\ OnlyMove(job[t])
        BY <1>8, <2>1, <2>2 DEF Rename
      <3>3. QED BY <1>1, <1>3, <1>4, <2>1, <3>1, <3>2, WriteEffect
    <2>3. CASE done = FALSE
      <3>1. PICK o \in Op : /\ o = [NoOp EXCEPT !.stage = "done", !.status = done]
                            /\ o.stage = "done" /\ ~o.status
        <4>1. [NoOp EXCEPT !.stage = "done", !.status = done] \in Op
          BY OpValues DEF Stage
        <4>2. QED BY <2>3, <4>1 DEF NoOp
      <3>2. UNCHANGED fileVars
        BY <2>1, <2>3 DEF fileVars, SourceAfter
      <3>3. QED BY <1>7, <2>1, <3>1, <3>2
    <2>4. QED BY <2>1, <2>2, <2>3
  <1>9. CASE OpenSource(t)
    <2>1. dst' = dst /\ src' = src
      BY <1>9 DEF OpenSource, fileVars
    <2>2. CASE src[job[t]][File(t)] = "present"
      <3>1. Transfer(t, Read("src"))
        BY <1>9, <2>2 DEF OpenSource, Read
      <3>2. ~AtWork(t)
        BY <1>9 DEF OpenSource, At, AtWork, Writing, Reporting
      <3>3. ~(Answers(t)')
        BY <1>3, <1>4, <3>1, TransferShape
      <3>4. QED BY <1>1, <1>3, <1>4, <2>1, <3>1, <3>2, <3>3, WriteEffect
    <2>3. CASE src[job[t]][File(t)] # "present"
      <3>1. Transfer(t, Error)
        BY <1>2, <1>9, <2>3 DEF OpenSource, Error
      <3>2. QED BY <1>3, <1>4, <1>7, <1>9, <3>1 DEF OpenSource
    <2>4. QED BY <2>2, <2>3
  <1>10. CASE LocalFailure(t)
    BY <1>3, <1>4, <1>7, <1>10 DEF LocalFailure, Error
  <1>11. CASE BeginGet(t)
    <2>1. PICK c \in {"none", "src"} :
            IF ToProtocol(t) = "DIR"
              THEN Truncate(t, [NoOp EXCEPT !.stage = "get", !.body = c])
              ELSE /\ Transfer(t, [NoOp EXCEPT !.stage = "get", !.body = c])
                   /\ UNCHANGED fileVars
      BY <1>11 DEF BeginGet
    <2>2. PICK o \in Op :
            /\ o.stage = "get" /\ o.body = c /\ o.clean
            /\ o = [NoOp EXCEPT !.stage = "get", !.body = c]
      <3>1. [NoOp EXCEPT !.stage = "get", !.body = c] \in Op
        BY OpValues DEF Stage
      <3>2. QED BY <3>1 DEF NoOp
    <2>3. CASE ToProtocol(t) = "DIR"
      BY <1>1, <2>1, <2>2, <2>3, TruncateEffect
    <2>4. CASE ToProtocol(t) # "DIR"
      <3>1. Transfer(t, o) /\ dst' = dst /\ src' = src
        BY <2>1, <2>2, <2>4 DEF fileVars
      <3>2. ~AtWork(t)
        BY <1>11 DEF BeginGet, At, AtWork, Writing, Reporting
      <3>3. ~(Answers(t)')
        BY <2>2, <2>4, <3>1, TransferShape
      <3>4. QED BY <1>1, <2>2, <3>1, <3>2, <3>3, WriteEffect
    <2>5. QED BY <2>3, <2>4
  <1>12. ASSUME NEW ok \in IF op[t].body = "none" THEN {FALSE} ELSE Outcomes, EndGet(t, ok)
         PROVE  TasksKept /\ Effect(t)
    <2>1. /\ op[t].stage = "get" /\ src' = src /\ ok \in BOOLEAN
          /\ ok => op[t].body = "src"
      BY <1>6, <1>12, MoverAssumption DEF EndGet, At, MoverAssumption
    <2>2. CASE ok = FALSE
      <3>1. Transfer(t, Error) /\ dst' = dst
        BY <1>2, <1>5, <1>12, <2>2 DEF EndGet
      <3>2. QED BY <1>3, <1>4, <1>7, <2>1, <3>1 DEF fileVars
    <2>3. CASE ok = TRUE /\ ToProtocol(t) = "DIR"
      <3>1. PICK o \in Op : /\ Transfer(t, o) /\ o.stage \in {"done", "remove"}
                            /\ o.stage = "remove" => OnlyMove(job[t])
        BY <1>3, <1>4, <1>5, <1>12, <2>3 DEF EndGet
      <3>2. CASE op[t].clean
        <4>1. dst' = [dst EXCEPT ![job[t]][To(t)][File(t)] = "full"]
          BY <1>12, <2>3, <3>2 DEF EndGet
        <4>2. QED BY <1>1, <2>1, <3>1, <4>1, WriteEffect
      <3>3. CASE ~op[t].clean
        <4>1. dst' = dst
          BY <1>12, <2>3, <3>3 DEF EndGet
        <4>2. ~AtWork(t) /\ Answers(t)
          BY <2>1, <2>3, <3>3 DEF AtWork, Answers, Writing, Reporting
        <4>3. QED BY <1>1, <2>1, <3>1, <4>1, <4>2, WriteEffect
      <3>4. QED BY <3>2, <3>3
    <2>4. CASE ok = TRUE /\ ToProtocol(t) # "DIR"
      <3>1. Transfer(t, Read("full")) /\ dst' = dst
        BY <1>12, <2>1, <2>4 DEF EndGet, Read
      <3>2. ~AtWork(t)
        BY <2>1, <2>4 DEF AtWork, Writing, Reporting
      <3>3. ~(Answers(t)')
        BY <1>3, <1>4, <3>1, TransferShape
      <3>4. QED BY <1>1, <1>3, <1>4, <2>1, <3>1, <3>2, <3>3, WriteEffect
    <2>5. QED BY <2>1, <2>2, <2>3, <2>4
  <1>13. CASE BeginPut(t)
    <2>1. CASE Truncate(t, [op[t] EXCEPT !.stage = "put", !.clean = TRUE])
      <3>1. PICK o \in Op :
              /\ o.stage = "put" /\ o.clean /\ o.body = op[t].body
              /\ o = [op[t] EXCEPT !.stage = "put", !.clean = TRUE]
        <4>1. [op[t] EXCEPT !.stage = "put", !.clean = TRUE] \in Op
          BY <1>6, OpValues DEF Stage
        <4>2. QED BY <1>6, <4>1 DEF Op
      <3>2. op[t].body \in {"src", "full"}
        BY <1>6, <1>13 DEF BeginPut, At
      <3>3. QED BY <1>1, <2>1, <3>1, <3>2, TruncateEffect
    <2>2. CASE Transfer(t, After(t, FALSE)) /\ UNCHANGED fileVars
      BY <1>3, <1>4, <1>5, <1>7, <2>2
    <2>3. QED BY <1>13, <2>1, <2>2 DEF BeginPut
  <1>14. ASSUME NEW ok \in Outcomes, EndPut(t, ok)
         PROVE  TasksKept /\ Effect(t)
    <2>1. op[t].stage = "put" /\ op[t].body \in {"src", "full"} /\ src' = src
      BY <1>6, <1>14 DEF EndPut, At
    <2>2. CASE ok = FALSE
      <3>1. Transfer(t, Error) /\ dst' = dst
        BY <1>5, <1>14, <2>2 DEF EndPut
      <3>2. QED BY <1>3, <1>4, <1>7, <2>1, <3>1 DEF fileVars
    <2>3. CASE ok = TRUE
      <3>1. PICK o \in Op : /\ Transfer(t, o) /\ o.stage \in {"done", "remove"}
                            /\ o.stage = "remove" => OnlyMove(job[t])
        BY <1>3, <1>4, <1>5, <1>14, <2>3 DEF EndPut
      <3>2. CASE op[t].clean
        <4>1. dst' = [dst EXCEPT ![job[t]][To(t)][File(t)] = "full"]
          BY <1>14, <2>1, <2>3, <3>2 DEF EndPut
        <4>2. QED BY <1>1, <2>1, <3>1, <4>1, WriteEffect
      <3>3. CASE ~op[t].clean
        <4>1. dst' = dst
          BY <1>14, <2>3, <3>3 DEF EndPut
        <4>2. ~AtWork(t) /\ Answers(t)
          BY <2>1, <3>3 DEF AtWork, Answers, Writing, Reporting
        <4>3. QED BY <1>1, <2>1, <3>1, <4>1, <4>2, WriteEffect
      <3>4. QED BY <3>2, <3>3
    <2>4. QED BY <1>14, <2>2, <2>3, MoverAssumption DEF MoverAssumption
  <1>15. ASSUME NEW ok \in Outcomes, PutObject(t, ok)
         PROVE  FALSE
    BY <1>2, <1>15 DEF PutObject
  <1>16. CASE RemoveMoved(t)
    <2>1. PICK b \in BOOLEAN :
            /\ \E ok : src' = SourceAfter(job[t], File(t), ok)
            /\ Transfer(t, [NoOp EXCEPT !.stage = "done", !.status = b])
      BY <1>16 DEF RemoveMoved
    <2>2. PICK o \in Op : /\ o = [NoOp EXCEPT !.stage = "done", !.status = b]
                          /\ o.stage = "done"
      <3>1. [NoOp EXCEPT !.stage = "done", !.status = b] \in Op
        BY OpValues DEF Stage
      <3>2. QED BY <3>1 DEF NoOp
    <2>3. op[t].stage = "remove" /\ dst' = dst
      BY <1>16 DEF RemoveMoved, At
    <2>4. ~AtWork(t) /\ Answers(t)
      BY <2>3 DEF AtWork, Answers, Writing, Reporting
    <2>5. OnlyMove(job[t])
      BY <1>6, <2>3
    <2>6. QED BY <1>1, <2>1, <2>2, <2>3, <2>4, <2>5, WriteEffect
  <1>17. QED
    BY <1>1, <1>8, <1>9, <1>10, <1>11, <1>12, <1>13, <1>14, <1>15, <1>16
    DEF TransferStep

(* Whatever a transfer does, it answers for its own destination and leaves *)
(* the others alone, and a source it removes has been answered for.        *)
LEMMA TransferLoss ==
  ASSUME CheckedProtocols, LossInv, IInv', MoverTypeOK', GroupNamed',
         NEW t \in Threads, TransferStep(t)
  PROVE  LossInv'
  <1>1. pc[t] = "op" /\ TasksKept
        /\ OthersKept(t) /\ OwnAnswered(t) /\ OwnStage(t) /\ SourceKept(t)
    BY StepEffect DEF Effect
  <1>2. PICK e \in Dirs, k \in Index \ {0}, f \in Files :
          e = job[t] /\ k = To(t) /\ f = File(t) /\ k \in 1..to_size[e]
    BY <1>1, TaskOf
  <1>3. \A u \in Threads :
          /\ pc'[u] = pc[u] /\ job'[u] = job[u]
          /\ File(u)' = File(u) /\ To(u)' = To(u) /\ ToProtocol(u)' = ToProtocol(u)
    BY <1>1, TasksStay
  <1>4. UNCHANGED <<at, grp, idx, pc, file, target, failed, seen>>
    BY <1>1 DEF TasksKept, vars, threadVars, groupVars
  <1>5. \A u \in Threads \ {t} :
          /\ op'[u].stage = op[u].stage /\ op'[u].body = op[u].body
          /\ op'[u].status = op[u].status
          /\ ~On(u, e, k, f) => op'[u] = op[u]
    <2>1. op \in [Threads -> Op]
      BY DEF LossInv, MoverTypeOK
    <2>2. \A o \in Op :
            LET c == [o EXCEPT !.clean = FALSE]
            IN c.stage = o.stage /\ c.body = o.body /\ c.status = o.status
      BY DEF Op
    <2>3. \A u \in Threads \ {t} :
            \/ op'[u] = op[u]
            \/ On(u, e, k, f) /\ op'[u] = [op[u] EXCEPT !.clean = FALSE]
      BY <1>1, <1>2 DEF OthersKept
    <2>4. QED BY <2>1, <2>2, <2>3
  <1>6. \A u \in Threads \ {t} :
          /\ Answers(u)' => Answers(u)
          /\ op'[u] = op[u] => AtWork(u)' = AtWork(u)
    BY <1>3, <1>5 DEF Answers, AtWork, Writing, Reporting
  <1>7. AtWork(t)' => Accounted(e, k, f)'
    BY <1>1, <1>2, <1>3 DEF On, Accounted
  <1>8. dst'[e][k][f] = "full" => Accounted(e, k, f)'
    BY DEF Accounted
  <1>9. AccountsKept
    <2> SUFFICES ASSUME NEW d \in Dirs, NEW j \in Index \ {0}, NEW x \in Files,
                        Accounted(d, j, x)
                 PROVE  Accounted(d, j, x)'
      BY DEF AccountsKept
    <2>1. ASSUME NEW u \in Threads \ {t}, On(u, d, j, x), AtWork(u), op'[u] = op[u]
          PROVE  Accounted(d, j, x)'
      <3>1. On(u, d, j, x)' /\ AtWork(u)'
        BY <1>3, <1>6, <2>1 DEF On
      <3>2. QED BY <3>1 DEF Accounted
    <2>2. dst'[d][j][x] = "full" \/ x \in failed[d] => Accounted(d, j, x)'
      BY <1>4 DEF Accounted
    <2>3. CASE d = e /\ j = k /\ x = f
      <3>1. CASE /\ dst' = dst /\ \A u \in Threads \ {t} : op'[u] = op[u]
                 /\ ~AtWork(t)
        BY <2>1, <2>2, <3>1 DEF Accounted
      <3>2. QED BY <1>1, <1>2, <1>7, <1>8, <2>3, <3>1 DEF OwnAnswered
    <2>4. CASE ~(d = e /\ j = k /\ x = f)
      <3>1. dst'[d][j][x] = dst[d][j][x]
        BY <1>1, <1>2, <2>4 DEF OthersKept
      <3>2. ASSUME NEW u \in Threads, On(u, d, j, x)
            PROVE  u # t /\ op'[u] = op[u]
        BY <1>2, <1>5, <2>4, <3>2 DEF On
      <3>3. QED BY <2>1, <2>2, <3>1, <3>2 DEF Accounted
    <2>5. QED BY <2>3, <2>4
  <1>10. TransfersAnswer'
    <2> SUFFICES ASSUME NEW u \in Threads, pc'[u] = "op", Answers(u)'
                 PROVE  Accounted(job[u], To(u), File(u))'
      BY DEF TransfersAnswer
    <2>1. pc[u] = "op"
      BY <1>3
    <2>2. CASE Answers(u)
      BY <1>3, <1>9, <2>1, <2>2, StillAnswered
    <2>3. CASE ~Answers(u)
      <3>1. u = t
        BY <1>6, <2>3
      <3>2. Accounted(e, k, f)'
        BY <1>1, <1>2, <1>7, <1>8, <2>3, <3>1 DEF OwnAnswered
      <3>3. e = job'[u] /\ k = To(u)' /\ f = File(u)'
        BY <1>2, <1>3, <3>1
      <3>4. QED BY <3>2, <3>3 DEF Accounted
    <2>4. QED BY <2>2, <2>3
  <1>11. StagesSound'
    <2>1. \A u \in Threads \ {t} : pc'[u] = "op" =>
            /\ op'[u].stage = "get" => op'[u].body \in {"none", "src"}
            /\ op'[u].stage \in {"body", "put"} => op'[u].body \in {"src", "full"}
            /\ op'[u].stage = "remove" => OnlyMove(job'[u])
      BY <1>3, <1>5 DEF LossInv, StagesSound
    <2>2. QED BY <1>1, <1>3, <2>1 DEF OwnStage, StagesSound
  <1>12. GroupsAnswer'
    <2>1. \A g \in Groups : Uncounted(g)' = Uncounted(g)
      BY <1>4 DEF Uncounted
    <2>2. GroupsKept
      BY <1>4, <2>1 DEF GroupsKept
    <2>3. QED BY <1>9, <2>2, KeptGroups
  <1>13. GoneAnswered'
    <2> SUFFICES ASSUME NEW d \in Dirs, NEW x \in Files, src'[d][x] = "gone"
                 PROVE  Answered(d, x)'
      BY DEF GoneAnswered
    <2>1. CASE src[d][x] = "gone"
      BY <1>9, <2>1, KeptAnswered DEF LossInv, GoneAnswered
    <2>2. CASE src[d][x] # "gone"
      <3>1. d = e /\ x = f /\ OnlyMove(d) /\ (Answers(t) \/ dst'[d][k][f] = "full")
        BY <1>1, <1>2, <2>2 DEF SourceKept
      <3>2. Accounted(d, k, x)'
        <4>1. Answers(t) => Accounted(e, k, f)
          BY <1>1, <1>2 DEF LossInv, TransfersAnswer
        <4>2. QED BY <1>8, <1>9, <3>1, <4>1 DEF AccountsKept
      <3>3. k = 1 /\ to_size[d] = 1 /\ ~Balanced(d)
        BY <1>2, <3>1 DEF OnlyMove, Balanced
      <3>4. QED BY <3>2, <3>3 DEF Answered
    <2>3. QED BY <2>1, <2>2
  <1>14. ListedArrived'
    <2>1. \A d \in Dirs, x \in Files : src'[d][x] = "absent" => src[d][x] = "absent"
      BY <1>1 DEF SourceKept
    <2>2. ListingsKept
      BY <1>3, <1>4, <2>1 DEF LossInv, ListedArrived, ListingsKept
    <2>3. QED BY <2>2, KeptListings
  <1>15. TargetsKnown'
    BY <1>4 DEF LossInv, TargetsKnown
  <1>16. QED BY <1>10, <1>11, <1>12, <1>13, <1>14, <1>15 DEF LossInv

(* A file arrives that nobody has heard of.                                *)
LEMMA ArriveLoss ==
  ASSUME ArriveOnce, LossInv, IInv', MoverTypeOK', GroupNamed',
         NEW e \in Dirs, NEW x \in Files, Arrive(e, x)
  PROVE  LossInv'
  <1>1. /\ src[e][x] = "absent" /\ src' = [src EXCEPT ![e][x] = "present"]
        /\ UNCHANGED <<vars, file, target, seen, failed, crashes>>
    BY DEF Arrive, ArriveOnce
  <1>2. UNCHANGED <<pc, job, grp, idx, at, file, target, seen, failed>>
    BY <1>1 DEF vars, threadVars, groupVars
  <1>3. \A d \in Dirs, f \in Files :
          IF d = e /\ f = x THEN src'[d][f] = "present" ELSE src'[d][f] = src[d][f]
    BY <1>1 DEF LossInv, MoverTypeOK
  <1>4. \A u \in Threads : pc[u] = "op" => job[u] \in Dirs /\ ~(job[u] = e /\ File(u) = x)
    BY <1>1, TaskOf
  <1>5. \A u \in Threads : op'[u] = op[u]
    BY <1>4 DEF Arrive
  <1>6. \A d \in Dirs, k \in Index \ {0}, f \in Files :
          ~(d = e /\ f = x) => dst'[d][k][f] = dst[d][k][f]
    BY DEF Arrive, LossInv, MoverTypeOK
  <1>7. \A u \in Threads :
          /\ File(u)' = File(u) /\ To(u)' = To(u)
          /\ AtWork(u)' = AtWork(u) /\ Answers(u)' = Answers(u)
    <2>1. \A u \in Threads : File(u)' = File(u) /\ To(u)' = To(u)
      BY <1>2 DEF File, To
    <2>2. \A u \in Threads : ToProtocol(u)' = ToProtocol(u)
      BY <1>2, <2>1 DEF ToProtocol
    <2>3. QED
      BY <1>5, <2>1, <2>2 DEF AtWork, Answers, Writing, Reporting
  <1>8. ASSUME NEW d \in Dirs, NEW k \in Index \ {0}, NEW f \in Files,
               ~(d = e /\ f = x), Accounted(d, k, f)
        PROVE  Accounted(d, k, f)'
    <2>1. dst'[d][k][f] = dst[d][k][f] /\ failed' = failed
      BY <1>2, <1>6, <1>8
    <2>2. \A u \in Threads : On(u, d, k, f) /\ AtWork(u) => On(u, d, k, f)' /\ AtWork(u)'
      BY <1>2, <1>7 DEF On
    <2>3. QED BY <1>8, <2>1, <2>2 DEF Accounted
  <1>9. TransfersAnswer'
    <2> SUFFICES ASSUME NEW u \in Threads, pc'[u] = "op", Answers(u)'
                 PROVE  Accounted(job[u], To(u), File(u))'
      BY DEF TransfersAnswer
    <2>1. pc[u] = "op" /\ Answers(u)
      BY <1>2, <1>7
    <2>2. PICK d \in Dirs, k \in Index \ {0}, f \in Files :
            d = job[u] /\ k = To(u) /\ f = File(u)
      BY <2>1, TaskOf
    <2>3. ~(d = e /\ f = x) /\ Accounted(d, k, f)
      BY <1>4, <2>1, <2>2 DEF LossInv, TransfersAnswer
    <2>4. Accounted(d, k, f)'
      BY <1>8, <2>3
    <2>5. d = job'[u] /\ k = To(u)' /\ f = File(u)'
      BY <1>2, <1>7, <2>2
    <2>6. QED BY <2>4, <2>5 DEF Accounted
  <1>10. StagesSound'
    BY <1>2, <1>5 DEF LossInv, StagesSound
  <1>11. GroupsAnswer'
    <2> SUFFICES ASSUME NEW g \in Groups, at'[g][0] # "none",
                        NEW i \in 1..GroupSize(g[1]), i \notin Uncounted(g)'
                 PROVE  Accounted(g[1], Dest(g, i), file[g])'
      BY DEF GroupsAnswer
    <2>1. at[g][0] # "none" /\ i \notin Uncounted(g)
      BY <1>2 DEF Uncounted
    <2>2. PICK d \in Dirs, k \in Index \ {0}, f \in Files :
            d = g[1] /\ k = Dest(g, i) /\ f = file[g]
      BY <2>1, DestType
    <2>3. src[d][f] # "absent"
      BY <2>1, <2>2, IndexType DEF LossInv, ListedArrived
    <2>4. ~(d = e /\ f = x) /\ Accounted(d, k, f)
      BY <1>1, <2>1, <2>2, <2>3 DEF LossInv, GroupsAnswer
    <2>5. Accounted(d, k, f)'
      BY <1>8, <2>4
    <2>6. k = Dest(g, i)' /\ f = file'[g]
      BY <1>2, <2>2 DEF Dest
    <2>7. QED BY <2>2, <2>5, <2>6 DEF Accounted
  <1>12. GoneAnswered'
    <2> SUFFICES ASSUME NEW d \in Dirs, NEW f \in Files, src'[d][f] = "gone"
                 PROVE  Answered(d, f)'
      BY DEF GoneAnswered
    <2>1. ~(d = e /\ f = x) /\ Answered(d, f)
      BY <1>3 DEF LossInv, GoneAnswered
    <2>2. 1..to_size[d] \subseteq Index \ {0}
      BY ConstantsAssumption DEF ConstantsAssumption, Index
    <2>3. \A k \in 1..to_size[d] : Accounted(d, k, f) => Accounted(d, k, f)'
      BY <1>8, <2>1, <2>2
    <2>4. QED BY <2>1, <2>3 DEF Answered, Balanced, OnlyMove
  <1>13. ListedArrived'
    <2>1. \A d \in Dirs, f \in Files : src'[d][f] = "absent" => src[d][f] = "absent"
      BY <1>3
    <2>2. ListingsKept
      BY <1>2, <2>1 DEF LossInv, ListedArrived, ListingsKept
    <2>3. QED BY <2>2, KeptListings
  <1>14. TargetsKnown'
    BY <1>2 DEF LossInv, TargetsKnown
  <1>15. QED BY <1>9, <1>10, <1>11, <1>12, <1>13, <1>14 DEF LossInv

LEMMA LossInit == MoverInit => LossInv
  <1> SUFFICES ASSUME MoverInit PROVE LossInv
    OBVIOUS
  <1>1. IInv /\ MoverTypeOK /\ GroupNamed
    BY InitInv, MoverTypeInit, NamedInit DEF MoverInit
  <1>2. \A t \in Threads : pc[t] = "idle" /\ seen[t] = {}
    BY DEF MoverInit, Init
  <1>3. \A g \in Groups, i \in Index : at[g][i] = "none"
    BY DEF MoverInit, Init
  <1>4. \A d \in Dirs, f \in Files : src[d][f] = "absent"
    BY DEF MoverInit
  <1>5. QED
    BY <1>1, <1>2, <1>3, <1>4, IndexType
    DEF LossInv, TransfersAnswer, StagesSound, GroupsAnswer, GoneAnswered,
        ListedArrived, TargetsKnown

LEMMA LossStep ==
  ASSUME CheckedProtocols, ArriveOnce, NeverKilled, LossInv, [MoverNext]_allVars
  PROVE  LossInv'
  <1>1. IInv' /\ MoverTypeOK' /\ GroupNamed'
    <2>1. IInv /\ MoverTypeOK /\ GroupNamed
      BY DEF LossInv
    <2>2. IInv'
      BY <2>1, InitInvNext, MoverStep, StepInv
    <2>3. MoverTypeOK'
      BY <2>1, MoverTypeStep
    <2>4. GroupNamed'
      BY <2>1, NamedStep DEF MoverTypeOK
    <2>5. QED BY <2>2, <2>3, <2>4
  <1>2. ASSUME NEW t \in Threads, MoverFinishHandler(t)
        PROVE  LossInv'
    <2>1. pc[t] \in {"sub", "delete"}
      BY <1>2 DEF MoverFinishHandler, FinishHandler
    <2>2. QED BY <1>1, <1>2, <2>1, OtherLoss, DeleteLoss
  <1>3. ASSUME NEW t \in Threads, MoverHandlerStep(t)
        PROVE  LossInv'
    <2>1. CASE \E g \in Groups : MoverProcessFile(t, g)
      BY <1>1, <2>1, ProcessLoss
    <2>2. CASE (\E ok \in ScanResults : MoverScanEnd(t, ok)) \/ MoverOther(t)
      BY <1>1, <2>2, OtherLoss
    <2>3. CASE TransferStep(t)
      BY <1>1, <2>3, TransferLoss
    <2>4. CASE MoverCountDown(t)
      BY <1>1, <2>4, CountDownLoss
    <2>5. QED
      BY <1>2, <1>3, <2>1, <2>2, <2>3, <2>4 DEF MoverHandlerStep
  <1>4. ASSUME NEW t \in Threads, NEW d \in Dirs,
               MoverScanStart(t, d) \/ (TakeRecheck(t, d) /\ UNCHANGED moverVars)
        PROVE  LossInv'
    BY <1>1, <1>4, ScanStartLoss, OtherLoss
  <1>5. ASSUME NEW t \in Threads, NEW g \in Groups, NEW i \in Index,
               MoverTakeHandler(t, g, i)
        PROVE  LossInv'
    BY <1>1, <1>5, TakeLoss
  <1>6. CASE \/ \E d \in Dirs : TimerExpires(d) /\ UNCHANGED moverVars
             \/ UNCHANGED allVars
    BY <1>1, <1>6, TimerLoss
  <1>7. ASSUME NEW d \in Dirs, NEW f \in Files, Arrive(d, f)
        PROVE  LossInv'
    BY <1>1, <1>7, ArriveLoss
  <1>8. ~Restart
    BY MoverAssumption DEF Restart, NeverKilled, LossInv, MoverTypeOK
  <1>9. QED
    BY <1>3, <1>4, <1>5, <1>6, <1>7, <1>8 DEF MoverNext

LEMMA LossImplies == LossInv => LossReported
  <1> SUFFICES ASSUME LossInv, NEW d \in Dirs, NEW f \in Files, src[d][f] = "gone",
                      ~Delivered(d, f)
               PROVE  \/ f \in failed[d]
                      \/ \E t \in Threads : pc[t] = "op" /\ job[t] = d /\ File(t) = f
    BY DEF LossReported
  <1>1. Answered(d, f)
    BY DEF LossInv, GoneAnswered
  <1>2. PICK k \in 1..to_size[d] : dst[d][k][f] # "full" /\ Accounted(d, k, f)
    BY <1>1 DEF Answered, Delivered
  <1>3. QED BY <1>2 DEF Accounted, On

(* For any number of threads, directories, destinations and files, and     *)
(* however scans, transfers and removals overlap: while the process is not *)
(* killed and a name arrives once, a file that has left a directory or an  *)
(* FTP server without being whole at the local or FTP destinations its     *)
(* directory sends it to has been counted as an error, or a transfer of it *)
(* is still at work.                                                       *)
THEOREM LossIsReported ==
  ASSUME CheckedProtocols, ArriveOnce, NeverKilled
  PROVE  MoverSpec => []LossReported
  <1>1. MoverInit => LossInv
    BY LossInit
  <1>2. LossInv /\ [MoverNext]_allVars => LossInv'
    BY LossStep
  <1>3. LossInv => LossReported
    BY LossImplies
  <1>4. QED
    BY <1>1, <1>2, <1>3, PTL DEF MoverSpec
-----------------------------------------------------------------------------
(* One life of the process                                                 *)

(* Until it is killed the composed program is the scanner, and its groups  *)
(* go through the cycle of GroupCycle: the transfers change none of it.    *)
THEOREM MoverImplementsCycle ==
  ASSUME NeverKilled
  PROVE  MoverSpec => Spec /\ ImplementsCycle
  <1>1. MoverInit => Init
    BY DEF MoverInit
  <1>2. MoverTypeOK => ~Restart
    BY DEF MoverTypeOK, Restart, NeverKilled
  <1>3. MoverTypeOK /\ [MoverNext]_allVars => [Next]_vars
    BY <1>2, MoverStep
  <1>4. QED
    BY <1>1, <1>3, MoverTypeCorrect, ScannerImplementsCycle, PTL DEF MoverSpec, Spec
-----------------------------------------------------------------------------
(* A pool of one thread                                                    *)

(* A process that has just been started again.                             *)
LEMMA DrainInitNext == Init' => IInv' /\ DrainInv'
  <1>1. Init => IInv /\ DrainInv
    BY InitInv, DrainInit
  <1>2. QED BY <1>1, PTL

LEMMA MoverDrainStep ==
  ASSUME OneThread, ListingsSucceed, IInv, DrainInv, [MoverNext]_allVars
  PROVE  IInv' /\ DrainInv'
  <1>1. [Next]_vars => IInv' /\ DrainInv'
    BY StepInv, DrainStep
  <1>2. QED BY <1>1, DrainInitNext, MoverStep

(* Restarts included, a single thread starts to list a directory only when *)
(* every transfer and removal of the scans before is done.                 *)
THEOREM OneThreadMoverDrains ==
  ASSUME OneThread, ListingsSucceed
  PROVE  MoverSpec => []CycleDrained
  <1>1. MoverInit => IInv /\ DrainInv
    BY InitInv, DrainInit DEF MoverInit
  <1>2. IInv /\ DrainInv /\ [MoverNext]_allVars => IInv' /\ DrainInv'
    BY MoverDrainStep
  <1>3. QED BY <1>1, <1>2, DrainImplies, PTL DEF MoverSpec

-----------------------------------------------------------------------------
(* Moves by one thread                                                     *)

(* Every directory with one destination is local or an FTP server, and     *)
(* does not move files from FTP to S3: the result of every download and of *)
(* every upload of a move is looked at.                                    *)
CheckedMoves ==
  \A d \in Dirs : OnlyMove(d) =>
    protocol[d] # "S3" /\ (protocol[d] = "FTP" => to_protocol[d][1] # "S3")

(* A file that a move has still to transfer is in the source.              *)
MovesPresent ==
  /\ \A g \in Groups : OnlyMove(g[1]) /\ at[g][1] \in {"owed", "queued"} =>
       src[g[1]][file[g]] = "present"
  /\ \A t \in Threads : pc[t] \in {"scan", "post"} /\ OnlyMove(job[t]) =>
       \A f \in seen[t] : src[job[t]][f] = "present"
  /\ \A t \in Threads : pc[t] = "op" /\ OnlyMove(job[t]) /\ op[t].stage # "done" =>
       src[job[t]][File(t)] = "present"

(* It has one group, or the listing has still to hand it out.              *)
MovesApart ==
  /\ \A g, h \in Groups :
       /\ OnlyMove(g[1]) /\ g[1] = h[1] /\ file[g] = file[h]
       /\ at[g][1] # "none" /\ at[h][1] # "none"
       => g = h
  /\ \A t \in Threads, g \in Groups :
       /\ pc[t] \in {"scan", "post"} /\ g[1] = job[t]
       /\ OnlyMove(g[1]) /\ at[g][1] # "none"
       => file[g] \notin seen[t]

(* A move reads the whole file, nobody else writes what it writes, and it  *)
(* removes the source when the destination is whole.                       *)
StageSound(t, o) ==
  /\ o.stage = "get" => o.body = "src" /\ o.clean
  /\ o.stage \in {"body", "put"} => o.body \in {"src", "full"}
  /\ o.stage = "put" => o.clean
  /\ o.stage = "remove" => dst[job[t]][1][File(t)] = "full"

MoveStages ==
  \A t \in Threads : pc[t] = "op" =>
    /\ OnlyMove(job[t]) => StageSound(t, op[t])
    /\ op[t].stage = "remove" => OnlyMove(job[t])

(* delete_file is never posted for a move.                                 *)
MovesKeep == \A g \in Groups : OnlyMove(g[1]) => at[g][0] \notin {"queued", "running"}

MoveInv ==
  /\ IInv /\ DrainInv
  /\ MoverTypeOK
  /\ GroupNamed
  /\ MovesPresent
  /\ MovesApart
  /\ MoveStages
  /\ MovesKeep
  /\ NoLoss

(* A move has one destination.                                             *)
LEMMA MoveDelivered ==
  ASSUME NEW d \in Dirs, OnlyMove(d)
  PROVE  /\ ~Balanced(d) /\ GroupSize(d) = 1 /\ to_size[d] = 1
         /\ 1 \in Index \ {0} /\ 1 \in Index /\ 0 \in Index
         /\ \A f : Delivered(d, f) <=> dst[d][1][f] = "full"
         /\ \A f : Delivered(d, f)' <=> dst'[d][1][f] = "full"
  <1>1. ~Balanced(d) /\ to_size[d] = 1 /\ GroupSize(d) = 1
    BY DEF OnlyMove, Balanced, GroupSize
  <1>2. 1 \in Index \ {0} /\ 1 \in Index /\ 0 \in Index
    BY <1>1, ConstantsAssumption DEF Index, ConstantsAssumption
  <1>3. ~Balanced(d)'
    BY <1>1 DEF Balanced, OnlyMove
  <1>4. 1..to_size[d] = {1}
    BY <1>1
  <1>5. \A f : Delivered(d, f) <=> dst[d][1][f] = "full"
    BY <1>1, <1>4 DEF Delivered
  <1>6. \A f : Delivered(d, f)' <=> dst'[d][1][f] = "full"
    BY <1>3, <1>4 DEF Delivered
  <1>7. QED BY <1>1, <1>2, <1>5, <1>6

(* The task of a running transfer, and what is special about a move.       *)
LEMMA MoveTask ==
  ASSUME MoveInv, NEW t \in Threads, pc[t] = "op"
  PROVE  /\ job[t] \in Dirs /\ grp[t] \in Groups /\ grp[t][1] = job[t]
         /\ File(t) \in Files
         /\ OnlyMove(job[t]) =>
              /\ idx[t] = 1 /\ To(t) = 1 /\ at[grp[t]][1] = "running"
              /\ op[t].stage # "done" => src[job[t]][File(t)] = "present"
              /\ StageSound(t, op[t])
  <1>1. /\ grp[t] \in Groups /\ grp[t][1] = job[t] /\ job[t] \in Dirs
        /\ idx[t] \in 1..GroupSize(job[t]) /\ idx[t] \in Index
        /\ at[grp[t]][idx[t]] = "running"
    BY DEF MoveInv, IInv, TypeOK, ThreadInv, OwnerInv, Running, Groups
  <1>2. File(t) \in Files
    BY <1>1 DEF MoveInv, GroupNamed, File
  <1>3. OnlyMove(job[t]) => idx[t] = 1 /\ ~Balanced(job[t])
    BY <1>1, MoveDelivered
  <1>4. OnlyMove(job[t]) => idx[t] = 1 /\ To(t) = 1
    BY <1>3 DEF To
  <1>5. OnlyMove(job[t]) => /\ op[t].stage # "done" => src[job[t]][File(t)] = "present"
                            /\ StageSound(t, op[t])
    BY DEF MoveInv, MovesPresent, MoveStages
  <1>6. QED BY <1>1, <1>2, <1>4, <1>5

(* What a step of a transfer does: it touches its own file only, and takes *)
(* a source away when the one destination of its directory is whole.       *)
MoveEffect(t) ==
  /\ UNCHANGED <<vars, file, seen>>
  /\ \A d \in Dirs, k \in Index \ {0}, f \in Files :
       ~(d = job[t] /\ f = File(t)) => dst'[d][k][f] = dst[d][k][f]
  /\ OnlyMove(job[t]) => StageSound(t, op[t])'
  /\ op'[t].stage = "remove" => OnlyMove(job[t])
  /\ \/ src' = src
     \/ /\ src' = [src EXCEPT ![job[t]][File(t)] = "gone"]
        /\ OnlyMove(job[t]) /\ op'[t].stage = "done"
        /\ dst'[job[t]][1][File(t)] = "full"

LEMMA AfterShape ==
  ASSUME NEW t, NEW ok
  PROVE  /\ After(t, ok) \in Op /\ After(t, ok).stage \in {"done", "remove"}
         /\ After(t, ok).stage = "remove" => OnlyMove(job[t]) /\ (ok \/ ~Checked(t))
  <1> DEFINE Error == [NoOp EXCEPT !.stage = "done"]
             Success == [NoOp EXCEPT !.stage = "done", !.status = TRUE]
             Remove == [NoOp EXCEPT !.stage = "remove"]
  <1>1. Error.stage = "done" /\ Success.stage = "done" /\ Remove.stage = "remove"
    BY DEF NoOp
  <1>2. After(t, ok) = IF ~ok /\ Checked(t) THEN Error
                       ELSE IF OnlyMove(job[t]) THEN Remove ELSE Success
    BY DEF After
  <1> HIDE DEF Error, Success, Remove
  <1>3. QED BY <1>1, <1>2, AfterType

LEMMA MoveChecked ==
  ASSUME CheckedMoves, MoveInv, NEW t \in Threads, pc[t] = "op", OnlyMove(job[t])
  PROVE  Checked(t)
  BY MoveTask DEF CheckedMoves, Checked, FromProtocol, ToProtocol

(* Its new state is o, and it leaves its destination alone, or writes it.  *)
LEMMA MoveWrites ==
  ASSUME MoveInv, NEW t \in Threads, pc[t] = "op", NEW o \in Op, op'[t] = o,
         UNCHANGED <<vars, file, seen>>,
         \/ dst' = dst
         \/ \E c \in Content : dst' = [dst EXCEPT ![job[t]][To(t)][File(t)] = c],
         OnlyMove(job[t]) =>
           /\ o.stage = "get" => o.body = "src" /\ o.clean
           /\ o.stage \in {"body", "put"} => o.body \in {"src", "full"}
           /\ o.stage = "put" => o.clean
           /\ o.stage = "remove" => dst'[job[t]][1][File(t)] = "full",
         o.stage = "remove" => OnlyMove(job[t]),
         \/ src' = src
         \/ /\ src' = [src EXCEPT ![job[t]][File(t)] = "gone"]
            /\ OnlyMove(job[t]) /\ o.stage = "done"
            /\ dst'[job[t]][1][File(t)] = "full"
  PROVE  MoveEffect(t)
  <1>1. \A d \in Dirs, k \in Index \ {0}, f \in Files :
          ~(d = job[t] /\ f = File(t)) => dst'[d][k][f] = dst[d][k][f]
    <2>1. dst \in [Dirs -> [Index \ {0} -> [Files -> Content]]]
      BY DEF MoveInv, MoverTypeOK
    <2>2. CASE dst' = dst
      BY <2>2
    <2>3. ASSUME NEW c \in Content, dst' = [dst EXCEPT ![job[t]][To(t)][File(t)] = c]
          PROVE  \A d \in Dirs, k \in Index \ {0}, f \in Files :
                   ~(d = job[t] /\ f = File(t)) => dst'[d][k][f] = dst[d][k][f]
      BY <2>1, <2>3
    <2>4. QED BY <2>2, <2>3
  <1>2. job'[t] = job[t] /\ File(t)' = File(t)
    BY DEF vars, threadVars, File
  <1>3. OnlyMove(job[t]) => StageSound(t, op[t])'
    BY <1>2 DEF StageSound
  <1>4. QED BY <1>1, <1>3 DEF MoveEffect

LEMMA MoveStepEffect ==
  ASSUME CheckedMoves, MoveInv, NEW t \in Threads, TransferStep(t)
  PROVE  pc[t] = "op" /\ op[t].stage # "done" /\ MoveEffect(t)
  <1>1. pc[t] = "op" /\ op[t].stage # "done"
    BY DEF TransferStep, Rename, OpenSource, LocalFailure, BeginGet, EndGet,
       BeginPut, EndPut, PutObject, RemoveMoved, At
  <1> SUFFICES MoveEffect(t)
    BY <1>1
  <1>2. /\ job[t] \in Dirs /\ File(t) \in Files /\ op[t] \in Op
        /\ OnlyMove(job[t]) =>
             /\ To(t) = 1 /\ Checked(t) /\ src[job[t]][File(t)] = "present"
             /\ StageSound(t, op[t])
        /\ op[t].stage = "remove" => OnlyMove(job[t])
    BY <1>1, MoveTask, MoveChecked DEF MoveInv, MoverTypeOK, MoveStages
  <1>3. dst \in [Dirs -> [Index \ {0} -> [Files -> Content]]]
    BY DEF MoveInv, MoverTypeOK
  <1>4. OnlyMove(job[t]) =>
          [dst EXCEPT ![job[t]][To(t)][File(t)] = "full"][job[t]][1][File(t)] = "full"
    BY <1>2, <1>3, MoveDelivered
  <1>5. ASSUME NEW o \in Op, Transfer(t, o)
        PROVE  op'[t] = o /\ UNCHANGED <<vars, file, seen>>
    BY <1>5 DEF Transfer, MoveInv, MoverTypeOK
  <1>6. ASSUME NEW o \in Op, Transfer(t, o), o.stage = "done", UNCHANGED fileVars
        PROVE  MoveEffect(t)
    BY <1>1, <1>5, <1>6, MoveWrites DEF fileVars
  <1>7. ASSUME NEW ok \in BOOLEAN, Transfer(t, After(t, ok)), src' = src,
               \/ dst' = dst
               \/ \E c \in Content : dst' = [dst EXCEPT ![job[t]][To(t)][File(t)] = c],
               ok /\ OnlyMove(job[t]) => dst'[job[t]][1][File(t)] = "full"
        PROVE  MoveEffect(t)
    <2>1. PICK o \in Op : /\ o = After(t, ok) /\ o.stage \in {"done", "remove"}
                          /\ o.stage = "remove" => OnlyMove(job[t]) /\ (ok \/ ~Checked(t))
      BY AfterShape
    <2>2. op'[t] = o /\ UNCHANGED <<vars, file, seen>>
      BY <1>5, <1>7, <2>1
    <2>3. QED BY <1>1, <1>2, <1>7, <2>1, <2>2, MoveWrites
  <1>8. ASSUME NEW o \in Op, Truncate(t, o), o.stage \in {"get", "put"},
               OnlyMove(job[t]) => /\ o.stage = "get" => o.body = "src"
                                   /\ o.stage = "put" => o.body \in {"src", "full"}
                                   /\ o.clean
        PROVE  MoveEffect(t)
    <2>1. op'[t] = o /\ UNCHANGED <<vars, file, seen>> /\ src' = src
      BY <1>8 DEF Truncate
    <2>2. \E c \in Content : dst' = [dst EXCEPT ![job[t]][To(t)][File(t)] = c]
      BY <1>8 DEF Truncate, Content
    <2>3. QED BY <1>1, <1>8, <2>1, <2>2, MoveWrites
  <1>9. ASSUME NEW o \in Op, Transfer(t, o), o.stage \in {"get", "body"}, UNCHANGED fileVars,
               OnlyMove(job[t]) => /\ o.stage = "get" => o.body = "src" /\ o.clean
                                   /\ o.stage = "body" => o.body \in {"src", "full"}
        PROVE  MoveEffect(t)
    BY <1>1, <1>5, <1>9, MoveWrites DEF fileVars
  <1>10. CASE Rename(t)
    <2>1. PICK done \in BOOLEAN :
            /\ src' = SourceAfter(job[t], File(t), done)
            /\ dst' = IF done THEN [dst EXCEPT ![job[t]][To(t)][File(t)] = "full"] ELSE dst
            /\ Transfer(t, [NoOp EXCEPT !.stage = "done", !.status = done])
      BY <1>10 DEF Rename
    <2>2. PICK o \in Op : /\ o = [NoOp EXCEPT !.stage = "done", !.status = done]
                          /\ o.stage = "done"
      <3>1. [NoOp EXCEPT !.stage = "done", !.status = done] \in Op
        BY OpValues DEF Stage
      <3>2. QED BY <3>1 DEF NoOp
    <2>3. op'[t] = o /\ UNCHANGED <<vars, file, seen>> /\ OnlyMove(job[t])
      BY <1>5, <1>10, <2>1, <2>2 DEF Rename
    <2>4. CASE done = TRUE
      <3>1. /\ src' = [src EXCEPT ![job[t]][File(t)] = "gone"]
            /\ dst' = [dst EXCEPT ![job[t]][To(t)][File(t)] = "full"]
        BY <2>1, <2>4 DEF SourceAfter
      <3>2. dst'[job[t]][1][File(t)] = "full"
        BY <1>4, <2>3, <3>1
      <3>3. \E c \in Content : dst' = [dst EXCEPT ![job[t]][To(t)][File(t)] = c]
        BY <3>1 DEF Content
      <3>4. QED BY <1>1, <2>2, <2>3, <3>1, <3>2, <3>3, MoveWrites
    <2>5. CASE done = FALSE
      <3>1. src' = src /\ dst' = dst
        BY <2>1, <2>5 DEF SourceAfter
      <3>2. QED BY <1>1, <2>2, <2>3, <3>1, MoveWrites
    <2>6. QED BY <2>4, <2>5
  <1>11. CASE OpenSource(t)
    <2>1. PICK o \in Op : /\ Transfer(t, o) /\ UNCHANGED fileVars
                          /\ o.stage \in {"body", "done"}
                          /\ src[job[t]][File(t)] = "present" => o.body = "src"
      <3> DEFINE Opened == [NoOp EXCEPT !.stage = "body", !.body = "src"]
                 Closed == [NoOp EXCEPT !.stage = "body"]
                 Error == [NoOp EXCEPT !.stage = "done"]
      <3>1. /\ Opened \in Op /\ Opened.stage = "body" /\ Opened.body = "src"
            /\ Closed \in Op /\ Closed.stage = "body"
            /\ Error \in Op /\ Error.stage = "done"
        BY DEF NoOp, Op, Stage
      <3>2. /\ UNCHANGED fileVars
            /\ \/ Transfer(t, Opened)
               \/ src[job[t]][File(t)] # "present" /\ (Transfer(t, Closed) \/ Transfer(t, Error))
        BY <1>11 DEF OpenSource
      <3> HIDE DEF Opened, Closed, Error
      <3>3. QED BY <3>1, <3>2
    <2>2. QED BY <1>2, <1>6, <1>9, <2>1
  <1>12. CASE LocalFailure(t)
    <2>1. PICK o \in Op : o = [NoOp EXCEPT !.stage = "done"] /\ o.stage = "done"
      <3>1. [NoOp EXCEPT !.stage = "done"] \in Op
        BY OpValues DEF Stage
      <3>2. QED BY <3>1 DEF NoOp
    <2>2. QED BY <1>6, <1>12, <2>1 DEF LocalFailure
  <1>13. CASE BeginGet(t)
    <2>1. PICK c \in {"none", "src"} :
            /\ src[job[t]][File(t)] = "present" => c = "src"
            /\ IF ToProtocol(t) = "DIR"
                 THEN Truncate(t, [NoOp EXCEPT !.stage = "get", !.body = c])
                 ELSE /\ Transfer(t, [NoOp EXCEPT !.stage = "get", !.body = c])
                      /\ UNCHANGED fileVars
      BY <1>13 DEF BeginGet
    <2>2. PICK o \in Op :
            /\ o.stage = "get" /\ o.body = c /\ o.clean
            /\ o = [NoOp EXCEPT !.stage = "get", !.body = c]
      <3>1. [NoOp EXCEPT !.stage = "get", !.body = c] \in Op
        BY OpValues DEF Stage
      <3>2. QED BY <3>1 DEF NoOp
    <2>3. CASE ToProtocol(t) = "DIR"
      BY <1>2, <1>8, <2>1, <2>2, <2>3
    <2>4. CASE ToProtocol(t) # "DIR"
      BY <1>2, <1>9, <2>1, <2>2, <2>4
    <2>5. QED BY <2>3, <2>4
  <1>14. ASSUME NEW ok \in IF op[t].body = "none" THEN {FALSE} ELSE Outcomes, EndGet(t, ok)
         PROVE  MoveEffect(t)
    <2>1. op[t].stage = "get" /\ src' = src /\ ok \in BOOLEAN
      BY <1>14, MoverAssumption DEF EndGet, At, MoverAssumption
    <2>2. OnlyMove(job[t]) => op[t].body = "src" /\ op[t].clean /\ Checked(t)
      BY <1>2, <2>1 DEF StageSound
    <2>3. CASE ToProtocol(t) = "DIR"
      <3>1. /\ Transfer(t, After(t, ok))
            /\ dst' = IF ok /\ op[t].clean
                        THEN [dst EXCEPT ![job[t]][To(t)][File(t)] = "full"] ELSE dst
        BY <1>14, <2>3 DEF EndGet
      <3>2. ok /\ OnlyMove(job[t]) => dst'[job[t]][1][File(t)] = "full"
        BY <1>4, <2>2, <3>1
      <3>3. dst' = dst \/ \E c \in Content : dst' = [dst EXCEPT ![job[t]][To(t)][File(t)] = c]
        BY <3>1 DEF Content
      <3>4. QED BY <1>7, <2>1, <3>1, <3>2, <3>3
    <2>4. CASE ToProtocol(t) # "DIR" /\ ok = FALSE /\ Checked(t)
      <3>1. Transfer(t, After(t, ok)) /\ dst' = dst
        BY <1>14, <2>4 DEF EndGet
      <3>2. QED BY <1>7, <2>1, <2>4, <3>1
    <2>5. CASE ToProtocol(t) # "DIR" /\ ~(ok = FALSE /\ Checked(t))
      <3>1. PICK c \in {"full", "bad"} :
              /\ c = IF ok /\ op[t].body = "src" THEN "full" ELSE "bad"
              /\ Transfer(t, [NoOp EXCEPT !.stage = "body", !.body = c]) /\ dst' = dst
        BY <1>14, <2>1, <2>5 DEF EndGet
      <3>2. PICK o \in Op : /\ o = [NoOp EXCEPT !.stage = "body", !.body = c]
                            /\ o.stage = "body" /\ o.body = c
        <4>1. [NoOp EXCEPT !.stage = "body", !.body = c] \in Op
          BY OpValues DEF Stage
        <4>2. QED BY <4>1 DEF NoOp
      <3>3. OnlyMove(job[t]) => o.body = "full"
        BY <2>1, <2>2, <2>5, <3>1, <3>2
      <3>4. QED BY <1>9, <2>1, <3>1, <3>2, <3>3 DEF fileVars
    <2>6. QED BY <2>1, <2>3, <2>4, <2>5
  <1>15. CASE BeginPut(t)
    <2>1. CASE Truncate(t, [op[t] EXCEPT !.stage = "put", !.clean = TRUE])
      <3>1. PICK o \in Op :
              /\ o.stage = "put" /\ o.clean /\ o.body = op[t].body
              /\ o = [op[t] EXCEPT !.stage = "put", !.clean = TRUE]
        <4>1. [op[t] EXCEPT !.stage = "put", !.clean = TRUE] \in Op
          BY <1>2, OpValues DEF Stage
        <4>2. QED BY <1>2, <4>1 DEF Op
      <3>2. OnlyMove(job[t]) => o.body \in {"src", "full"}
        BY <1>2, <1>15, <3>1 DEF BeginPut, At, StageSound
      <3>3. QED BY <1>8, <2>1, <3>1, <3>2
    <2>2. CASE Transfer(t, After(t, FALSE)) /\ UNCHANGED fileVars
      BY <1>7, <2>2 DEF fileVars
    <2>3. QED BY <1>15, <2>1, <2>2 DEF BeginPut
  <1>16. ASSUME NEW ok \in Outcomes, EndPut(t, ok)
         PROVE  MoveEffect(t)
    <2>1. /\ op[t].stage = "put" /\ src' = src /\ ok \in BOOLEAN
          /\ Transfer(t, After(t, ok))
          /\ dst' = IF ok /\ op[t].clean /\ op[t].body \in {"src", "full"}
                      THEN [dst EXCEPT ![job[t]][To(t)][File(t)] = "full"] ELSE dst
      BY <1>16, MoverAssumption DEF EndPut, At, MoverAssumption
    <2>2. ok /\ OnlyMove(job[t]) => dst'[job[t]][1][File(t)] = "full"
      BY <1>2, <1>4, <2>1 DEF StageSound
    <2>3. dst' = dst \/ \E c \in Content : dst' = [dst EXCEPT ![job[t]][To(t)][File(t)] = c]
      BY <2>1 DEF Content
    <2>4. QED BY <1>7, <2>1, <2>2, <2>3
  <1>17. ASSUME NEW ok \in Outcomes, PutObject(t, ok)
         PROVE  MoveEffect(t)
    <2>1. PICK c \in {"full", "bad"} :
            /\ c = IF op[t].body \in {"src", "full"} THEN "full" ELSE "bad"
            /\ dst' = IF ok THEN [dst EXCEPT ![job[t]][To(t)][File(t)] = c] ELSE dst
      BY <1>17 DEF PutObject
    <2>2. /\ op[t].stage = "body" /\ src' = src /\ ok \in BOOLEAN
          /\ Transfer(t, After(t, ok))
      BY <1>17, MoverAssumption DEF PutObject, At, MoverAssumption
    <2>3. OnlyMove(job[t]) => c = "full"
      BY <1>2, <2>1, <2>2 DEF StageSound
    <2>4. ok /\ OnlyMove(job[t]) => dst'[job[t]][1][File(t)] = "full"
      BY <1>4, <2>1, <2>3
    <2>5. dst' = dst \/ \E b \in Content : dst' = [dst EXCEPT ![job[t]][To(t)][File(t)] = b]
      BY <2>1 DEF Content
    <2>6. QED BY <1>7, <2>2, <2>4, <2>5
  <1>18. CASE RemoveMoved(t)
    <2>1. PICK b \in BOOLEAN :
            /\ \E ok : src' = SourceAfter(job[t], File(t), ok)
            /\ Transfer(t, [NoOp EXCEPT !.stage = "done", !.status = b])
      BY <1>18 DEF RemoveMoved
    <2>2. PICK o \in Op : /\ o = [NoOp EXCEPT !.stage = "done", !.status = b]
                          /\ o.stage = "done"
      <3>1. [NoOp EXCEPT !.stage = "done", !.status = b] \in Op
        BY OpValues DEF Stage
      <3>2. QED BY <3>1 DEF NoOp
    <2>3. op[t].stage = "remove" /\ dst' = dst
      BY <1>18 DEF RemoveMoved, At
    <2>4. OnlyMove(job[t]) /\ dst'[job[t]][1][File(t)] = "full"
      BY <1>2, <2>3 DEF StageSound
    <2>5. src' = src \/ src' = [src EXCEPT ![job[t]][File(t)] = "gone"]
      BY <2>1 DEF SourceAfter
    <2>6. op'[t] = o /\ UNCHANGED <<vars, file, seen>>
      BY <1>5, <2>1, <2>2
    <2>7. QED BY <1>1, <2>2, <2>3, <2>4, <2>5, <2>6, MoveWrites
  <1>19. QED
    BY <1>10, <1>11, <1>12, <1>13, <1>14, <1>15, <1>16, <1>17, <1>18 DEF TransferStep

(* What the proof of NoLoss adds to the types.                             *)
Moves == MovesPresent /\ MovesApart /\ MoveStages /\ MovesKeep /\ NoLoss

(* A handler of a move is posted, taken and done, in this order.           *)
PlacesLater ==
  \A g \in Groups : OnlyMove(g[1]) =>
    /\ at'[g][1] # "none" => at[g][1] # "none"
    /\ at'[g][1] \in {"owed", "queued"} => at[g][1] \in {"owed", "queued"}
    /\ at'[g][0] \in {"queued", "running"} => at[g][0] \in {"queued", "running"}

(* A listing of moves goes on, or starts when none of its groups is left.  *)
ListingsLater ==
  \A t \in Threads : pc'[t] \in {"scan", "post"} /\ OnlyMove(job'[t]) =>
    \/ pc[t] \in {"scan", "post"} /\ job'[t] = job[t] /\ seen'[t] = seen[t]
    \/ /\ \A f \in seen'[t] : src[job'[t]][f] = "present"
       /\ \A g \in Groups : g[1] = job'[t] => at'[g][1] = "none"

(* A transfer rests, or starts with a handler that was queued.             *)
TransfersLater ==
  \A t \in Threads : pc'[t] = "op" =>
    \/ pc[t] = "op" /\ op'[t] = op[t] /\ job'[t] = job[t] /\ grp'[t] = grp[t]
    \/ /\ op'[t].stage = "begin" /\ grp'[t] \in Groups /\ grp'[t][1] = job'[t]
       /\ OnlyMove(job'[t]) => at[grp'[t]][1] = "queued"

(* A step that leaves the files of moves alone.                            *)
LEMMA MoveFrame ==
  ASSUME MoveInv, PlacesLater, ListingsLater, TransfersLater,
         file' = file, dst' = dst, \A t \in Threads : job'[t] \in Dirs \union {None},
         \A t \in Threads : pc'[t] \in {"scan", "post", "op"} => job'[t] \in Dirs,
         \A d \in Dirs : OnlyMove(d) => src'[d] = src[d]
  PROVE  Moves'
  <1>1. MovesPresent'
    <2>1. ASSUME NEW g \in Groups, OnlyMove(g[1]), at'[g][1] \in {"owed", "queued"}
          PROVE  src'[g[1]][file'[g]] = "present"
      BY <2>1 DEF Groups, PlacesLater, MoveInv, MovesPresent
    <2>2. ASSUME NEW t \in Threads, pc'[t] \in {"scan", "post"}, OnlyMove(job'[t]),
                 NEW f \in seen'[t]
          PROVE  src'[job'[t]][f] = "present"
      BY <2>2 DEF ListingsLater, MoveInv, MovesPresent
    <2>3. ASSUME NEW t \in Threads, pc'[t] = "op", OnlyMove(job'[t]), op'[t].stage # "done"
          PROVE  src'[job'[t]][File(t)'] = "present"
      <3>1. job'[t] \in Dirs /\ src'[job'[t]] = src[job'[t]] /\ File(t)' = file[grp'[t]]
        BY <2>3 DEF File
      <3>2. CASE pc[t] = "op" /\ op'[t] = op[t] /\ job'[t] = job[t] /\ grp'[t] = grp[t]
        BY <2>3, <3>1, <3>2 DEF MoveInv, MovesPresent, File
      <3>3. CASE grp'[t] \in Groups /\ grp'[t][1] = job'[t] /\ at[grp'[t]][1] = "queued"
        BY <2>3, <3>1, <3>3 DEF MoveInv, MovesPresent
      <3>4. QED BY <2>3, <3>2, <3>3 DEF TransfersLater
    <2>4. \A d : OnlyMove(d)' <=> OnlyMove(d)
      BY DEF OnlyMove
    <2>5. QED BY <2>1, <2>2, <2>3, <2>4 DEF MovesPresent
  <1>2. MovesApart'
    <2>1. ASSUME NEW g \in Groups, NEW h \in Groups, OnlyMove(g[1]), g[1] = h[1],
                 file'[g] = file'[h], at'[g][1] # "none", at'[h][1] # "none"
          PROVE  g = h
      BY <2>1 DEF PlacesLater, MoveInv, MovesApart
    <2>2. ASSUME NEW t \in Threads, NEW g \in Groups, pc'[t] \in {"scan", "post"},
                 g[1] = job'[t], OnlyMove(g[1]), at'[g][1] # "none"
          PROVE  file'[g] \notin seen'[t]
      BY <2>2 DEF PlacesLater, ListingsLater, MoveInv, MovesApart
    <2>3. QED BY <2>1, <2>2 DEF MovesApart, OnlyMove
  <1>3. MoveStages'
    <2>1. ASSUME NEW t \in Threads, pc'[t] = "op"
          PROVE  /\ OnlyMove(job'[t]) => StageSound(t, op[t])'
                 /\ op'[t].stage = "remove" => OnlyMove(job'[t])
      <3>1. CASE pc[t] = "op" /\ op'[t] = op[t] /\ job'[t] = job[t] /\ grp'[t] = grp[t]
        BY <3>1 DEF MoveInv, MoveStages, StageSound, File
      <3>2. CASE op'[t].stage = "begin"
        BY <3>2 DEF StageSound
      <3>3. QED BY <2>1, <3>1, <3>2 DEF TransfersLater
    <2>2. QED BY <2>1 DEF MoveStages, OnlyMove
  <1>4. MovesKeep'
    BY DEF MoveInv, MovesKeep, PlacesLater, OnlyMove
  <1>5. NoLoss'
    <2>1. ASSUME NEW d \in Dirs, NEW f \in Files, OnlyMove(d), src'[d][f] = "gone"
          PROVE  Delivered(d, f)'
      BY <2>1, MoveDelivered DEF MoveInv, NoLoss
    <2>2. QED BY <2>1 DEF NoLoss, OnlyMove
  <1>6. QED BY <1>1, <1>2, <1>3, <1>4, <1>5 DEF Moves

LEMMA MoveTransfer ==
  ASSUME OneThread, CheckedMoves, MoveInv, NEW t \in Threads, TransferStep(t)
  PROVE  Moves'
  <1>1. pc[t] = "op" /\ op[t].stage # "done" /\ MoveEffect(t)
    BY MoveStepEffect
  <1>2. /\ job[t] \in Dirs /\ grp[t] \in Groups /\ grp[t][1] = job[t] /\ File(t) \in Files
        /\ OnlyMove(job[t]) => at[grp[t]][1] = "running"
    BY <1>1, MoveTask
  <1>3. UNCHANGED <<pc, job, grp, idx, at, file, seen>>
    BY <1>1 DEF MoveEffect, vars, threadVars, groupVars
  <1>4. \A u \in Threads : u = t
    BY DEF OneThread
  <1>5. \A d : OnlyMove(d)' <=> OnlyMove(d)
    BY DEF OnlyMove
  <1>6. src \in [Dirs -> [Files -> Source]]
    BY DEF MoveInv, MoverTypeOK
  <1>7. ASSUME NEW d \in Dirs, NEW f, f \in Files, ~(d = job[t] /\ f = File(t))
        PROVE  src'[d][f] = src[d][f]
    BY <1>1, <1>2, <1>6, <1>7 DEF MoveEffect
  <1>8. MovesPresent'
    <2>1. ASSUME NEW g \in Groups, OnlyMove(g[1]), at[g][1] \in {"owed", "queued"}
          PROVE  src'[g[1]][file[g]] = "present"
      <3>1. g[1] \in Dirs /\ file[g] \in Files /\ src[g[1]][file[g]] = "present"
        BY <2>1, MoveDelivered DEF Groups, MoveInv, GroupNamed, MovesPresent
      <3>2. ~(g[1] = job[t] /\ file[g] = File(t))
        BY <1>2, <2>1 DEF MoveInv, MovesApart, File
      <3>3. QED BY <1>7, <3>1, <3>2
    <2>2. \A u \in Threads : pc[u] \notin {"scan", "post"}
      BY <1>1, <1>4
    <2>3. OnlyMove(job[t]) /\ op'[t].stage # "done" => src'[job[t]][File(t)] = "present"
      BY <1>1 DEF MoveEffect, MoveInv, MovesPresent
    <2>4. File(t)' = File(t)
      BY <1>3 DEF File
    <2>5. QED BY <1>3, <1>4, <1>5, <2>1, <2>2, <2>3, <2>4 DEF MovesPresent
  <1>9. MovesApart'
    BY <1>3, <1>5 DEF MoveInv, MovesApart
  <1>10. MoveStages'
    BY <1>1, <1>3, <1>4, <1>5 DEF MoveEffect, MoveStages
  <1>11. MovesKeep'
    BY <1>3, <1>5 DEF MoveInv, MovesKeep
  <1>12. NoLoss'
    <2>1. ASSUME NEW d \in Dirs, NEW f \in Files, OnlyMove(d), src'[d][f] = "gone"
          PROVE  dst'[d][1][f] = "full"
      <3>1. CASE d = job[t] /\ f = File(t)
        <4>1. src[d][f] = "present"
          BY <1>1, <2>1, <3>1 DEF MoveInv, MovesPresent
        <4>2. QED BY <1>1, <2>1, <3>1, <4>1 DEF MoveEffect
      <3>2. CASE ~(d = job[t] /\ f = File(t))
        <4>1. src[d][f] = "gone" /\ 1 \in Index \ {0}
          BY <1>7, <2>1, <3>2, MoveDelivered
        <4>2. dst[d][1][f] = "full"
          BY <2>1, <4>1, MoveDelivered DEF MoveInv, NoLoss
        <4>3. QED BY <1>1, <3>2, <4>1, <4>2 DEF MoveEffect
      <3>3. QED BY <3>1, <3>2
    <2>2. QED BY <1>5, <2>1, MoveDelivered DEF NoLoss
  <1>13. QED BY <1>8, <1>9, <1>10, <1>11, <1>12 DEF Moves

(* A listing hands out a file that is in the source and in no other group. *)
LEMMA MoveHandedOut ==
  ASSUME OneThread, MoveInv, NEW t \in Threads, NEW g \in Groups, MoverProcessFile(t, g)
  PROVE  Moves'
  <1>1. PICK f \in seen[t] :
          /\ file' = [file EXCEPT ![g] = f]
          /\ seen' = [seen EXCEPT ![t] = @ \ {f}]
    BY DEF MoverProcessFile
  <1>2. /\ pc[t] = "scan" /\ pc'[t] \in {"scan", "post"} /\ job' = job /\ g[1] = job[t]
        /\ job[t] \in Dirs /\ at[g] = [i \in Index |-> "none"]
        /\ at' = [at EXCEPT ![g] =
                    [i \in Index |-> IF i <= GroupSize(job[t]) THEN "owed" ELSE "none"]]
        /\ src' = src /\ dst' = dst
    BY DEF MoverProcessFile, ProcessFile, MoveInv, IInv, TypeOK, Groups, fileVars
  <1>3. /\ \A h \in Groups \ {g} : at'[h] = at[h] /\ file'[h] = file[h]
        /\ OnlyMove(job[t]) => at'[g][1] = "owed" /\ at'[g][0] = "owed"
        /\ file'[g] = f /\ seen'[t] = seen[t] \ {f}
    <2>1. at \in [Groups -> [Index -> Place]] /\ file \in [Groups -> Files \union {None}]
          /\ seen \in [Threads -> SUBSET Files]
      BY DEF MoveInv, IInv, TypeOK, MoverTypeOK
    <2>2. QED BY <1>1, <1>2, <2>1, MoveDelivered
  <1>4. /\ \A u \in Threads : u = t
        /\ \A d : OnlyMove(d)' <=> OnlyMove(d)
    BY DEF OneThread, OnlyMove
  <1>5. MovesPresent'
    <2>1. ASSUME NEW h \in Groups, OnlyMove(h[1]), at'[h][1] \in {"owed", "queued"}
          PROVE  src[h[1]][file'[h]] = "present"
      BY <1>1, <1>2, <1>3, <2>1 DEF MoveInv, MovesPresent
    <2>2. OnlyMove(job[t]) => \A e \in seen'[t] : src[job[t]][e] = "present"
      BY <1>2, <1>3 DEF MoveInv, MovesPresent
    <2>3. QED BY <1>2, <1>4, <2>1, <2>2 DEF MovesPresent
  <1>6. MovesApart'
    <2>1. ASSUME NEW h \in Groups, h # g, h[1] = g[1], OnlyMove(g[1]), at'[h][1] # "none"
          PROVE  file'[h] # f /\ file'[h] \notin seen'[t]
      BY <1>1, <1>2, <1>3, <2>1 DEF MoveInv, MovesApart
    <2>2. ASSUME NEW h \in Groups, NEW k \in Groups, OnlyMove(h[1]), h[1] = k[1],
                 file'[h] = file'[k], at'[h][1] # "none", at'[k][1] # "none"
          PROVE  h = k
      <3>1. CASE h # g /\ k # g
        BY <1>3, <2>2, <3>1 DEF MoveInv, MovesApart
      <3>2. CASE h = g \/ k = g
        BY <1>3, <2>1, <2>2, <3>2
      <3>3. QED BY <3>1, <3>2
    <2>3. ASSUME NEW h \in Groups, h[1] = job[t], OnlyMove(h[1]), at'[h][1] # "none"
          PROVE  file'[h] \notin seen'[t]
      BY <1>2, <1>3, <2>1, <2>3
    <2>4. QED BY <1>2, <1>4, <2>2, <2>3 DEF MovesApart
  <1>7. MoveStages'
    BY <1>2, <1>4 DEF MoveStages
  <1>8. MovesKeep'
    BY <1>2, <1>3, <1>4 DEF MoveInv, MovesKeep
  <1>9. NoLoss'
    BY <1>2, NoLossStutter DEF MoveInv, fileVars
  <1>10. QED BY <1>5, <1>6, <1>7, <1>8, <1>9 DEF Moves

(* What arrives was not in the source, so that no move is about it.        *)
LEMMA MoveArrive ==
  ASSUME ArriveOnce, MoveInv, NEW d \in Dirs, NEW f \in Files, Arrive(d, f)
  PROVE  Moves'
  <1>1. UNCHANGED <<pc, job, grp, idx, at, file, seen>>
    BY DEF Arrive, vars, threadVars, groupVars
  <1>2. /\ src[d][f] = "absent" /\ src'[d][f] = "present"
        /\ \A e \in Dirs, h \in Files : ~(e = d /\ h = f) => src'[e][h] = src[e][h]
        /\ \A e \in Dirs, k \in Index \ {0}, h \in Files :
             ~(e = d /\ h = f) => dst'[e][k][h] = dst[e][k][h]
    BY DEF ArriveOnce, Arrive, MoveInv, MoverTypeOK
  <1>3. ASSUME NEW e \in Dirs, NEW h \in Files, src[e][h] = "present"
        PROVE  src'[e][h] = "present"
    BY <1>2, <1>3
  <1>4. \A e : OnlyMove(e)' <=> OnlyMove(e)
    BY DEF OnlyMove
  <1>5. ASSUME NEW t \in Threads, pc[t] = "op"
        PROVE  /\ op'[t].stage = op[t].stage
               /\ OnlyMove(job[t]) /\ op[t].stage # "done" =>
                    op'[t] = op[t] /\ ~(job[t] = d /\ File(t) = f)
    <2>1. op' = [u \in Threads |->
            IF pc[u] = "op" /\ job[u] = d /\ File(u) = f THEN Outdated(op[u]) ELSE op[u]]
      BY DEF Arrive
    <2>2. op[t] \in Op
      BY DEF MoveInv, MoverTypeOK
    <2>3. \A o \in Op : Outdated(o).stage = o.stage
      BY DEF Outdated, Op
    <2>4. OnlyMove(job[t]) /\ op[t].stage # "done" => src[job[t]][File(t)] = "present"
      BY <1>5 DEF MoveInv, MovesPresent
    <2>5. QED BY <1>2, <1>5, <2>1, <2>2, <2>3, <2>4
  <1>6. MovesPresent'
    <2>1. ASSUME NEW g \in Groups, OnlyMove(g[1]), at[g][1] \in {"owed", "queued"}
          PROVE  src'[g[1]][file[g]] = "present"
      BY <1>3, <2>1, MoveDelivered DEF Groups, MoveInv, GroupNamed, MovesPresent
    <2>2. ASSUME NEW t \in Threads, pc[t] \in {"scan", "post"}, OnlyMove(job[t]),
                 NEW h \in seen[t]
          PROVE  src'[job[t]][h] = "present"
      <3>1. job[t] \in Dirs /\ h \in Files
        BY <2>2 DEF MoveInv, IInv, TypeOK, ThreadInv, MoverTypeOK
      <3>2. QED BY <1>3, <2>2, <3>1 DEF MoveInv, MovesPresent
    <2>3. ASSUME NEW t \in Threads, pc[t] = "op", OnlyMove(job[t]), op'[t].stage # "done"
          PROVE  src'[job[t]][File(t)'] = "present"
      <3>1. File(t)' = File(t) /\ job[t] \in Dirs /\ File(t) \in Files
        BY <1>1, <2>3, MoveTask DEF File
      <3>2. QED BY <1>3, <1>5, <2>3, <3>1 DEF MoveInv, MovesPresent
    <2>4. QED BY <1>1, <1>4, <2>1, <2>2, <2>3 DEF MovesPresent
  <1>7. MovesApart'
    BY <1>1, <1>4 DEF MoveInv, MovesApart
  <1>8. MoveStages'
    <2>1. ASSUME NEW t \in Threads, pc[t] = "op"
          PROVE  /\ OnlyMove(job[t]) => StageSound(t, op[t])'
                 /\ op'[t].stage = "remove" => OnlyMove(job[t])
      <3>1. /\ job'[t] = job[t] /\ File(t)' = File(t) /\ job[t] \in Dirs /\ File(t) \in Files
            /\ OnlyMove(job[t]) => 1 \in Index \ {0} /\ StageSound(t, op[t])
        BY <1>1, <2>1, MoveTask, MoveDelivered DEF File
      <3>2. CASE op[t].stage = "done"
        BY <1>5, <2>1, <3>2 DEF StageSound
      <3>3. CASE op[t].stage # "done"
        BY <1>2, <1>5, <2>1, <3>1, <3>3 DEF StageSound, MoveInv, MoveStages
      <3>4. QED BY <3>2, <3>3
    <2>2. QED BY <1>1, <1>4, <2>1 DEF MoveStages
  <1>9. MovesKeep'
    BY <1>1, <1>4 DEF MoveInv, MovesKeep
  <1>10. NoLoss'
    <2>1. ASSUME NEW e \in Dirs, NEW h \in Files, OnlyMove(e), src'[e][h] = "gone"
          PROVE  dst'[e][1][h] = "full"
      <3>1. ~(e = d /\ h = f) /\ src[e][h] = "gone"
        BY <1>2, <2>1
      <3>2. 1 \in Index \ {0} /\ dst[e][1][h] = "full"
        BY <2>1, <3>1, MoveDelivered DEF MoveInv, NoLoss
      <3>3. QED BY <1>2, <3>1, <3>2
    <2>2. QED BY <1>4, <2>1, MoveDelivered DEF NoLoss
  <1>11. QED BY <1>6, <1>7, <1>8, <1>9, <1>10 DEF Moves

(* A restart leaves nothing but the files.                                 *)
LEMMA MoveRestart ==
  ASSUME MoveInv, Restart
  PROVE  Moves'
  <1>1. /\ \A t \in Threads : pc'[t] = "idle"
        /\ \A g \in Groups, i \in Index : at'[g][i] = "none"
        /\ UNCHANGED fileVars
    BY DEF Restart
  <1>2. \A g \in Groups : OnlyMove(g[1]) => at'[g][0] = "none" /\ at'[g][1] = "none"
    BY <1>1, MoveDelivered DEF Groups
  <1>3. \A g \in Groups : OnlyMove(g[1])' <=> OnlyMove(g[1])
    BY DEF OnlyMove
  <1>4. MovesPresent' /\ MovesApart' /\ MoveStages' /\ MovesKeep'
    BY <1>1, <1>2, <1>3 DEF MovesPresent, MovesApart, MoveStages, MovesKeep
  <1>5. QED BY <1>1, <1>4, NoLossStutter DEF Moves, MoveInv

(* The handlers of module Scanner, but for process_file.                   *)
LEMMA MoveHandlers ==
  ASSUME OneThread, MoveInv, NEW t \in Threads,
         \/ \E d \in Dirs : MoverScanStart(t, d) \/ (TakeRecheck(t, d) /\ UNCHANGED moverVars)
         \/ \E ok \in ScanResults : MoverScanEnd(t, ok)
         \/ \E g \in Groups, i \in Index : MoverTakeHandler(t, g, i)
         \/ MoverCountDown(t) \/ MoverFinishHandler(t) \/ MoverOther(t)
  PROVE  Moves'
  <1>1. /\ TypeOK /\ \A u \in Threads : u = t
        /\ pc[t] # "idle" => job[t] \in Dirs
        /\ pc[t] = "post" \/ Running(t) => grp[t] \in Groups /\ grp[t][1] = job[t]
        /\ Running(t) => at[grp[t]][idx[t]] = "running"
    BY DEF OneThread, MoveInv, IInv, TypeOK, ThreadInv, OwnerInv
  <1>2. \A g \in Groups : OnlyMove(g[1]) => 1 \in Index /\ 0 \in Index
    BY MoveDelivered DEF Groups
  <1>3. at \in [Groups -> [Index -> Place]] /\ op \in [Threads -> Op]
        /\ seen \in [Threads -> SUBSET Files]
    BY DEF MoveInv, IInv, TypeOK, MoverTypeOK
  <1> DEFINE Quietly == /\ PlacesLater /\ file' = file /\ dst' = dst
                        /\ \A d \in Dirs : OnlyMove(d) => src'[d] = src[d]
  <1>4. ASSUME Quietly, pc'[t] \notin {"scan", "post", "op"}, job'[t] \in Dirs \union {None}
        PROVE  Moves'
    BY <1>1, <1>4, MoveFrame DEF ListingsLater, TransfersLater
  <1>5. ASSUME NEW d \in Dirs, MoverScanStart(t, d)
        PROVE  Moves'
    <2>1. /\ pc'[t] = "scan" /\ job'[t] = d /\ at' = at
          /\ file' = file /\ dst' = dst /\ src' = src
          /\ seen'[t] = {f \in Files : src[d][f] = "present"}
      BY <1>1, <1>3, <1>5 DEF MoverScanStart, ScanStart, TypeOK, groupVars, fileVars
    <2>2. Outstanding(d) = {}
      <3>1. ScanTokens(d) > 0
        BY <1>5, TokenTypes DEF MoverScanStart, ScanStart, ScanTokens, MoveInv, IInv, Kind
      <3>2. QED BY <3>1, DrainedCount DEF MoveInv, DrainInv, DirDrained
    <2>3. \A g \in Groups, i \in Index : g[1] = d => at[g][i] = "none"
      <3> SUFFICES ASSUME NEW g \in Groups, NEW i \in Index, g[1] = d, at[g][i] # "none"
                   PROVE  FALSE
        OBVIOUS
      <3>1. <<g, i>> \in Outstanding(d)
        BY DEF Outstanding
      <3>2. QED BY <2>2, <3>1
    <2>4. ListingsLater
      BY <1>1, <2>1, <2>3, MoveDelivered DEF ListingsLater
    <2>5. PlacesLater /\ TransfersLater
      BY <1>1, <2>1 DEF PlacesLater, TransfersLater
    <2>6. QED BY <1>1, <2>1, <2>4, <2>5, MoveFrame
  <1>6. ASSUME NEW d \in Dirs, TakeRecheck(t, d), UNCHANGED moverVars
        PROVE  Moves'
    BY <1>1, <1>4, <1>6 DEF TakeRecheck, TypeOK, groupVars, moverVars, fileVars, PlacesLater
  <1>7. ASSUME NEW ok \in ScanResults, MoverScanEnd(t, ok)
        PROVE  Moves'
    BY <1>1, <1>4, <1>7 DEF MoverScanEnd, ScanEnd, TypeOK, groupVars, fileVars, PlacesLater
  <1>8. ASSUME NEW g \in Groups, NEW i \in Index, MoverTakeHandler(t, g, i)
        PROVE  Moves'
    <2>1. /\ at[g][i] = "queued" /\ at' = [at EXCEPT ![g][i] = "running"]
          /\ job'[t] = g[1] /\ grp'[t] = g /\ g[1] \in Dirs
          /\ pc'[t] = (IF i = 0 THEN "delete" ELSE "op")
          /\ file' = file /\ dst' = dst /\ src' = src
      BY <1>1, <1>8 DEF MoverTakeHandler, TakeHandler, TypeOK, Groups, fileVars
    <2>2. OnlyMove(g[1]) => i = 1
      <3>1. i <= GroupSize(g[1]) /\ (OnlyMove(g[1]) => i # 0)
        BY <2>1 DEF MoveInv, IInv, PlaceInv, MovesKeep
      <3>2. QED BY <2>1, <3>1, IndexType, MoveDelivered
    <2>3. PlacesLater
      BY <1>2, <1>3, <2>1, <2>2 DEF PlacesLater
    <2>4. i # 0 => op'[t].stage = "begin"
      BY <1>3, <1>8 DEF MoverTakeHandler, NoOp
    <2>5. TransfersLater /\ ListingsLater
      BY <1>1, <2>1, <2>2, <2>4 DEF TransfersLater, ListingsLater
    <2>6. QED BY <1>1, <2>1, <2>3, <2>5, MoveFrame
  <1>9. CASE MoverCountDown(t)
    BY <1>1, <1>4, <1>9 DEF MoverCountDown, CountDown, TypeOK, fileVars, PlacesLater
  <1>10. CASE MoverFinishHandler(t)
    <2>1. PlacesLater
      BY <1>1, <1>3, <1>10 DEF MoverFinishHandler, FinishHandler, PlacesLater
    <2>2. pc[t] = "delete" => ~OnlyMove(job[t])
      BY <1>1 DEF MoveInv, MovesKeep, IInv, ThreadInv, Running
    <2>3. \A d \in Dirs : OnlyMove(d) => src'[d] = src[d]
      BY <1>10, <2>2 DEF MoverFinishHandler, SourceAfter, MoveInv, MoverTypeOK
    <2>4. QED
      BY <1>1, <1>4, <1>10, <2>1, <2>3 DEF MoverFinishHandler, FinishHandler, TypeOK
  <1>11. CASE MoverOther(t)
    <2>1. UNCHANGED <<file, dst, src, op, seen>>
      BY <1>11 DEF MoverOther, moverVars, fileVars
    <2>2. CASE PostOperation(t)
      <3>1. /\ idx[t] \in 1..GroupSize(job[t]) /\ idx[t] \in Index /\ at[grp[t]][idx[t]] = "owed"
            /\ pc'[t] \in {"scan", "post"} /\ job' = job
            /\ at' = [at EXCEPT ![grp[t]][idx[t]] = "queued"]
        <4>1. idx[t] \in 1..GroupSize(job[t]) /\ idx[t] \in Index
          BY <1>1, <2>2 DEF PostOperation, MoveInv, IInv, ThreadInv, TypeOK
        <4>2. idx[t] \in idx[t]..GroupSize(job[t])
          BY <1>1, <2>2, <4>1, GroupSizeType DEF PostOperation
        <4>3. QED BY <1>1, <2>2, <4>1, <4>2 DEF PostOperation, MoveInv, IInv, OwnerInv, TypeOK
      <3>2. PlacesLater
        BY <1>1, <1>3, <2>2, <3>1, MoveDelivered DEF PostOperation, PlacesLater
      <3>3. TransfersLater /\ ListingsLater
        BY <1>1, <2>1, <2>2, <3>1 DEF PostOperation, TransfersLater, ListingsLater
      <3>4. QED BY <1>1, <2>1, <2>2, <3>1, <3>2, <3>3, MoveFrame DEF PostOperation
    <2>3. CASE LastOperation(t)
      <3>1. PlacesLater
        BY <1>1, <1>2, <1>3, <2>3 DEF LastOperation, PlacesLater, Running
      <3>2. QED BY <1>1, <1>4, <2>1, <2>3, <3>1 DEF LastOperation, TypeOK
    <2>4. CASE CheckCompletion(t) \/ ExpiresAfter(t) \/ AsyncWait(t)
      BY <1>1, <1>4, <2>1, <2>4
      DEF CheckCompletion, ExpiresAfter, AsyncWait, TypeOK, groupVars, PlacesLater
    <2>5. QED BY <1>11, <2>2, <2>3, <2>4 DEF MoverOther
  <1>12. QED BY <1>5, <1>6, <1>7, <1>8, <1>9, <1>10, <1>11

LEMMA MoveStep ==
  ASSUME OneThread, ListingsSucceed, ArriveOnce, CheckedMoves, MoveInv, [MoverNext]_allVars
  PROVE  MoveInv'
  <1>1. IInv' /\ DrainInv'
    BY MoverDrainStep DEF MoveInv
  <1>2. MoverTypeOK' /\ GroupNamed'
    BY MoverTypeStep, NamedStep DEF MoveInv, MoverTypeOK
  <1>3. ASSUME UNCHANGED <<threadVars, groupVars>>, UNCHANGED moverVars
        PROVE  Moves'
    <2>1. PlacesLater /\ ListingsLater /\ TransfersLater
      BY <1>3 DEF threadVars, groupVars, moverVars, PlacesLater, ListingsLater, TransfersLater
    <2>2. \A t \in Threads : /\ job[t] \in Dirs \union {None}
                             /\ pc[t] # "idle" => job[t] \in Dirs
      BY DEF MoveInv, IInv, TypeOK, ThreadInv
    <2>3. QED BY <1>3, <2>1, <2>2, MoveFrame DEF threadVars, moverVars, fileVars
  <1>4. ASSUME UNCHANGED allVars
        PROVE  Moves'
    BY <1>3, <1>4 DEF allVars, vars
  <1>5. ASSUME NEW d \in Dirs, TimerExpires(d) /\ UNCHANGED moverVars
        PROVE  Moves'
    BY <1>3, <1>5 DEF TimerExpires
  <1>6. ASSUME NEW t \in Threads, MoverHandlerStep(t)
        PROVE  Moves'
    BY <1>6, MoveHandlers, MoveHandedOut, MoveTransfer DEF MoverHandlerStep
  <1>7. ASSUME NEW t \in Threads,
               \/ \E d \in Dirs : MoverScanStart(t, d) \/ (TakeRecheck(t, d) /\ UNCHANGED moverVars)
               \/ \E g \in Groups, i \in Index : MoverTakeHandler(t, g, i)
        PROVE  Moves'
    BY <1>7, MoveHandlers
  <1>8. ASSUME NEW d \in Dirs, NEW f \in Files, Arrive(d, f)
        PROVE  Moves'
    BY <1>8, MoveArrive
  <1>9. CASE MoverNext
    <2>1. Moves'
      BY <1>5, <1>6, <1>7, <1>8, <1>9, MoveRestart DEF MoverNext
    <2>2. QED BY <1>1, <1>2, <2>1 DEF MoveInv, Moves
  <1>10. QED BY <1>1, <1>2, <1>4, <1>9 DEF MoveInv, Moves

LEMMA MoveInit == MoverInit => MoveInv
  <1> SUFFICES ASSUME MoverInit PROVE MoveInv
    OBVIOUS
  <1>1. IInv /\ DrainInv /\ MoverTypeOK /\ GroupNamed
    BY InitInv, DrainInit, MoverTypeInit, NamedInit DEF MoverInit
  <1>2. /\ \A t \in Threads : pc[t] = "idle"
        /\ \A g \in Groups : OnlyMove(g[1]) => at[g][0] = "none" /\ at[g][1] = "none"
        /\ \A d \in Dirs, f \in Files : src[d][f] = "absent"
    BY MoveDelivered DEF MoverInit, Init, Groups
  <1>3. MovesPresent /\ MovesApart /\ MoveStages /\ MovesKeep /\ NoLoss
    BY <1>2 DEF MovesPresent, MovesApart, MoveStages, MovesKeep, NoLoss
  <1>4. QED BY <1>1, <1>3 DEF MoveInv

(* With a pool of one thread, listings that succeed and names that arrive  *)
(* once, a directory that moves its files to one destination loses none:   *)
(* from a local directory to any protocol and from FTP to a directory or   *)
(* to FTP, whatever fails and however often the process is killed, and     *)
(* whatever the other directories do.                                      *)
THEOREM OneThreadNeverLoses ==
  ASSUME OneThread, ListingsSucceed, ArriveOnce, CheckedMoves
  PROVE  MoverSpec => []NoLoss
  <1>1. MoveInv /\ [MoverNext]_allVars => MoveInv'
    BY MoveStep
  <1>2. MoveInv => NoLoss
    BY DEF MoveInv
  <1>3. QED BY <1>1, <1>2, MoveInit, PTL DEF MoverSpec
=============================================================================

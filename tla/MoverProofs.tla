---------------------------- MODULE MoverProofs ----------------------------
(* Proofs about Mover.                                                     *)
EXTENDS Mover, ScannerProofs

(* A step of the composed program is a step of the scanner, or leaves its  *)
(* state alone, or starts it anew.                                         *)
LEMMA MoverStep == [MoverNext]_allVars => [Next]_vars \/ (Restart /\ Init')
  <1> SUFFICES ASSUME [MoverNext]_allVars
               PROVE  [Next]_vars \/ (Restart /\ Init')
    OBVIOUS
  <1>1. ASSUME NEW t \in Threads, TransferStep(t)
        PROVE  UNCHANGED vars
    BY <1>1 DEF TransferStep, Rename, OpenSource, LocalFailure, BeginGet, EndGet,
         BeginPut, EndPut, PutObject, RemoveMoved, Transfer, Truncate
  <1>2. ASSUME NEW t \in Threads, MoverHandlerStep(t)
        PROVE  HandlerStep(t) \/ UNCHANGED vars
    BY <1>1, <1>2 DEF MoverHandlerStep, MoverProcessFile, MoverScanEnd,
         MoverCountDown, MoverFinishHandler, MoverOther, HandlerStep
  <1>3. ASSUME NEW t \in Threads, NEW d \in Dirs,
               MoverScanStart(t, d) \/ TakeRecheck(t, d)
        PROVE  ScanStart(t, d) \/ TakeRecheck(t, d)
    BY <1>3 DEF MoverScanStart
  <1>4. ASSUME NEW t \in Threads, NEW g \in Groups, NEW i \in Index,
               MoverTakeHandler(t, g, i)
        PROVE  TakeHandler(t, g, i)
    BY <1>4 DEF MoverTakeHandler
  <1>5. ASSUME NEW d \in Dirs, NEW f \in Files, Arrive(d, f)
        PROVE  UNCHANGED vars
    BY <1>5 DEF Arrive
  <1>6. ASSUME Restart
        PROVE  Init'
    BY <1>6 DEF Restart, Init
  <1>7. CASE UNCHANGED allVars
    BY <1>7 DEF allVars
  <1>8. QED
    BY <1>2, <1>3, <1>4, <1>5, <1>6, <1>7 DEF MoverNext, Next

(* A process that has just been started again.                             *)
LEMMA InitInvNext == Init' => IInv'
  <1>1. Init => IInv
    BY InitInv
  <1>2. QED
    BY <1>1, PTL

(* Whatever the transfers do, and however often the process is killed, the *)
(* counters of the scanner stay exact, no removal overtakes a transfer and *)
(* no directory is forgotten.                                              *)
THEOREM MoverKeepsScanner ==
  MoverSpec => [](IInv /\ ActiveTasksExact /\ RemovalAfterTransfers /\ NeverForgotten)
  <1>1. MoverInit => IInv
    BY InitInv DEF MoverInit
  <1>2. IInv /\ [MoverNext]_allVars => IInv'
    BY InitInvNext, MoverStep, StepInv
  <1>3. IInv => ActiveTasksExact /\ RemovalAfterTransfers /\ NeverForgotten
    BY InvRemoval DEF IInv
  <1>4. QED
    BY <1>1, <1>2, <1>3, PTL DEF MoverSpec
-----------------------------------------------------------------------------
(* The types of the files and of the transfers *)

(* The values a transfer's state takes.                                    *)
LEMMA OpValues ==
  /\ NoOp \in Op
  /\ \A s \in Stage : [NoOp EXCEPT !.stage = s] \in Op
  /\ \A s \in Stage, b \in BOOLEAN : [NoOp EXCEPT !.stage = s, !.status = b] \in Op
  /\ \A s \in Stage, c \in {"none", "src", "bad", "full"} :
       [NoOp EXCEPT !.stage = s, !.body = c] \in Op
  /\ \A o \in Op, s \in Stage : [o EXCEPT !.stage = s, !.clean = TRUE] \in Op
  /\ \A o \in Op : [o EXCEPT !.clean = FALSE] \in Op
  /\ \A o \in Op : Outdated(o) \in Op
  <1>1. NoOp \in Op
    BY DEF NoOp, Op, Stage
  <1>2. \A s \in Stage, o \in Op : [o EXCEPT !.stage = s] \in Op
    BY DEF Op
  <1>3. \A s \in Stage, b \in BOOLEAN : [NoOp EXCEPT !.stage = s, !.status = b] \in Op
    BY DEF NoOp, Op
  <1>4. \A s \in Stage, c \in {"none", "src", "bad", "full"} :
          [NoOp EXCEPT !.stage = s, !.body = c] \in Op
    BY DEF NoOp, Op
  <1>5. \A o \in Op, s \in Stage : [o EXCEPT !.stage = s, !.clean = TRUE] \in Op
    BY DEF Op
  <1>6. \A o \in Op : [o EXCEPT !.clean = FALSE] \in Op /\ Outdated(o) \in Op
    BY DEF Op, Outdated
  <1>7. QED BY <1>1, <1>2, <1>3, <1>4, <1>5, <1>6

LEMMA AfterType ==
  ASSUME NEW t, NEW ok
  PROVE  After(t, ok) \in Op
  <1>1. /\ [NoOp EXCEPT !.stage = "done"] \in Op
        /\ [NoOp EXCEPT !.stage = "remove"] \in Op
        /\ [NoOp EXCEPT !.stage = "done", !.status = TRUE] \in Op
    BY OpValues DEF Stage
  <1>2. QED BY <1>1 DEF After

(* One copy of one file changes.                                           *)
LEMMA DstType ==
  ASSUME MoverTypeOK, NEW d, NEW k, NEW f, NEW c \in Content
  PROVE  [dst EXCEPT ![d][k][f] = c] \in [Dirs -> [Index \ {0} -> [Files -> Content]]]
  BY DEF MoverTypeOK

LEMMA SrcType ==
  ASSUME MoverTypeOK, NEW d, NEW f, NEW ok
  PROVE  SourceAfter(d, f, ok) \in [Dirs -> [Files -> Source]]
  BY DEF MoverTypeOK, SourceAfter, Source

(* A step of a transfer that changes nothing but its own state and files.  *)
LEMMA TransferType ==
  ASSUME MoverTypeOK, NEW t \in Threads, NEW o \in Op, Transfer(t, o),
         src' \in [Dirs -> [Files -> Source]],
         dst' \in [Dirs -> [Index \ {0} -> [Files -> Content]]]
  PROVE  MoverTypeOK'
  BY DEF MoverTypeOK, Transfer

LEMMA TruncateType ==
  ASSUME MoverTypeOK, NEW t \in Threads, NEW o \in Op, Truncate(t, o)
  PROVE  MoverTypeOK'
  <1>1. dst' \in [Dirs -> [Index \ {0} -> [Files -> Content]]]
    BY DstType DEF Truncate, Content
  <1>2. op' \in [Threads -> Op]
    BY OpValues DEF Truncate, MoverTypeOK
  <1>3. QED BY <1>1, <1>2 DEF Truncate, MoverTypeOK

LEMMA StepOfTransferType ==
  ASSUME MoverTypeOK, NEW t \in Threads, TransferStep(t)
  PROVE  MoverTypeOK'
  <1>1. UNCHANGED fileVars =>
          /\ src' \in [Dirs -> [Files -> Source]]
          /\ dst' \in [Dirs -> [Index \ {0} -> [Files -> Content]]]
    BY DEF MoverTypeOK, fileVars
  <1>2. UNCHANGED src => src' \in [Dirs -> [Files -> Source]]
    BY DEF MoverTypeOK
  <1>3. UNCHANGED dst => dst' \in [Dirs -> [Index \ {0} -> [Files -> Content]]]
    BY DEF MoverTypeOK
  <1>4. [NoOp EXCEPT !.stage = "done"] \in Op
    BY OpValues DEF Stage
  <1>5. CASE Rename(t)
    <2>1. PICK b \in BOOLEAN : /\ src' = SourceAfter(job[t], File(t), b)
                               /\ dst' = IF b THEN [dst EXCEPT ![job[t]][To(t)][File(t)] = "full"]
                                              ELSE dst
                               /\ Transfer(t, [NoOp EXCEPT !.stage = "done", !.status = b])
      BY <1>5, MoverAssumption DEF Rename, MoverAssumption
    <2>2. [NoOp EXCEPT !.stage = "done", !.status = b] \in Op
      BY OpValues DEF Stage
    <2>3. dst' \in [Dirs -> [Index \ {0} -> [Files -> Content]]]
      BY <2>1, DstType, <1>3 DEF Content
    <2>4. QED BY <2>1, <2>2, <2>3, SrcType, TransferType
  <1>6. CASE OpenSource(t)
    <2>1. PICK o \in Op : Transfer(t, o)
      <3>1. /\ [NoOp EXCEPT !.stage = "body", !.body = "src"] \in Op
            /\ [NoOp EXCEPT !.stage = "body"] \in Op
        BY OpValues DEF Stage
      <3>2. QED BY <1>4, <1>6, <3>1 DEF OpenSource
    <2>2. QED BY <1>1, <1>6, <2>1, TransferType DEF OpenSource
  <1>7. CASE LocalFailure(t)
    BY <1>1, <1>4, <1>7, TransferType DEF LocalFailure
  <1>8. CASE BeginGet(t)
    <2>1. PICK o \in Op : Truncate(t, o) \/ (Transfer(t, o) /\ UNCHANGED fileVars)
      <3>1. \A c \in {"none", "src"} : [NoOp EXCEPT !.stage = "get", !.body = c] \in Op
        BY OpValues DEF Stage
      <3>2. QED BY <1>8, <3>1 DEF BeginGet
    <2>2. QED BY <1>1, <2>1, TransferType, TruncateType
  <1>9. ASSUME NEW ok, EndGet(t, ok)
        PROVE  MoverTypeOK'
    <2>1. PICK o \in Op : Transfer(t, o)
      <3>1. \A c \in {"full", "bad"} : [NoOp EXCEPT !.stage = "body", !.body = c] \in Op
        BY OpValues DEF Stage
      <3>2. QED BY <1>9, <3>1, AfterType DEF EndGet
    <2>2. dst' \in [Dirs -> [Index \ {0} -> [Files -> Content]]]
      BY <1>3, <1>9, DstType DEF EndGet, Content
    <2>3. QED BY <1>2, <1>9, <2>1, <2>2, TransferType DEF EndGet
  <1>10. CASE BeginPut(t)
    <2>1. [op[t] EXCEPT !.stage = "put", !.clean = TRUE] \in Op
      BY OpValues DEF MoverTypeOK, Stage
    <2>2. QED BY <1>1, <1>10, <2>1, AfterType, TransferType, TruncateType DEF BeginPut
  <1>11. ASSUME NEW ok, EndPut(t, ok) \/ PutObject(t, ok)
         PROVE  MoverTypeOK'
    <2>1. dst' \in [Dirs -> [Index \ {0} -> [Files -> Content]]]
      <3>1. \A c \in {"full", "bad"} :
              [dst EXCEPT ![job[t]][To(t)][File(t)] = c]
                \in [Dirs -> [Index \ {0} -> [Files -> Content]]]
        BY DstType DEF Content
      <3>2. QED BY <1>3, <1>11, <3>1 DEF EndPut, PutObject
    <2>2. QED BY <1>2, <1>11, <2>1, AfterType, TransferType DEF EndPut, PutObject
  <1>12. CASE RemoveMoved(t)
    <2>1. PICK b \in BOOLEAN :
            /\ \E ok : src' = SourceAfter(job[t], File(t), ok)
            /\ Transfer(t, [NoOp EXCEPT !.stage = "done", !.status = b])
      BY <1>12 DEF RemoveMoved
    <2>2. [NoOp EXCEPT !.stage = "done", !.status = b] \in Op
      BY OpValues DEF Stage
    <2>3. src' \in [Dirs -> [Files -> Source]]
      BY <2>1, SrcType
    <2>4. dst' \in [Dirs -> [Index \ {0} -> [Files -> Content]]]
      BY <1>3, <1>12 DEF RemoveMoved
    <2>5. QED BY <2>1, <2>2, <2>3, <2>4, TransferType
  <1>13. QED
    BY <1>5, <1>6, <1>7, <1>8, <1>9, <1>10, <1>11, <1>12 DEF TransferStep

(* A group that is in use has a file.                                      *)
GroupNamed == \A g \in Groups, i \in Index : at[g][i] # "none" => file[g] \in Files

LEMMA NamedInit == MoverInit => GroupNamed
  BY IndexType DEF MoverInit, Init, GroupNamed

LEMMA NamedStep ==
  ASSUME IInv, GroupNamed, file \in [Groups -> Files \union {None}],
         seen \in [Threads -> SUBSET Files], [MoverNext]_allVars
  PROVE  GroupNamed'
  <1>1. at \in [Groups -> [Index -> Place]]
    BY DEF IInv, TypeOK
  <1>2. CASE UNCHANGED <<at, file>>
    BY <1>2 DEF GroupNamed
  <1>3. ASSUME NEW g \in Groups, NEW i \in Index, NEW p,
               at' = [at EXCEPT ![g][i] = p], file' = file, file[g] \in Files
        PROVE  GroupNamed'
    BY <1>1, <1>3 DEF GroupNamed
  <1>4. ASSUME NEW t \in Threads, NEW g \in Groups, MoverProcessFile(t, g)
        PROVE  GroupNamed'
    <2>1. PICK f \in Files : file' = [file EXCEPT ![g] = f]
      BY <1>4 DEF MoverProcessFile
    <2>2. \A h \in Groups \ {g} : at'[h] = at[h]
      BY <1>1, <1>4 DEF MoverProcessFile, ProcessFile
    <2>3. QED BY <2>1, <2>2 DEF GroupNamed
  <1>5. ASSUME NEW t \in Threads, NEW g \in Groups, NEW i \in Index,
               MoverTakeHandler(t, g, i)
        PROVE  GroupNamed'
    <2>1. file[g] \in Files
      BY <1>5 DEF MoverTakeHandler, TakeHandler, GroupNamed
    <2>2. QED BY <1>3, <1>5, <2>1 DEF MoverTakeHandler, TakeHandler
  <1>6. ASSUME NEW t \in Threads, MoverFinishHandler(t)
        PROVE  GroupNamed'
    <2>1. grp[t] \in Groups /\ idx[t] \in Index /\ at[grp[t]][idx[t]] = "running"
      BY <1>6 DEF MoverFinishHandler, FinishHandler, IInv, TypeOK, ThreadInv,
           OwnerInv, Running
    <2>2. file[grp[t]] \in Files
      BY <2>1 DEF GroupNamed
    <2>3. QED BY <1>3, <1>6, <2>1, <2>2 DEF MoverFinishHandler, FinishHandler
  <1>7. ASSUME NEW t \in Threads, MoverOther(t), PostOperation(t)
        PROVE  GroupNamed'
    <2>1. /\ grp[t] \in Groups /\ job[t] \in Dirs
          /\ idx[t] \in 1..GroupSize(job[t])
      BY <1>7 DEF PostOperation, IInv, ThreadInv, Groups
    <2>2. idx[t] \in Index /\ idx[t] \in idx[t]..GroupSize(job[t])
      BY <2>1, IndexType, GroupSizeType
    <2>3. file[grp[t]] \in Files
      BY <1>7, <2>1, <2>2 DEF PostOperation, IInv, OwnerInv, GroupNamed
    <2>4. QED BY <1>3, <1>7, <2>1, <2>2, <2>3 DEF PostOperation, MoverOther, moverVars
  <1>8. ASSUME NEW t \in Threads, MoverOther(t), LastOperation(t)
        PROVE  GroupNamed'
    <2>1. grp[t] \in Groups /\ idx[t] \in Index /\ at[grp[t]][idx[t]] = "running"
      BY <1>8 DEF LastOperation, IInv, TypeOK, ThreadInv, OwnerInv, Running
    <2>2. file[grp[t]] \in Files /\ 0 \in Index
      BY <2>1, IndexType DEF GroupNamed
    <2>3. \E p : at' = [at EXCEPT ![grp[t]][0] = p]
      BY <1>8 DEF LastOperation
    <2>4. QED BY <1>3, <1>8, <2>1, <2>2, <2>3 DEF MoverOther, moverVars
  <1>9. CASE Restart
    <2>1. \A g \in Groups, i \in Index : at'[g][i] = "none"
      BY <1>9 DEF Restart
    <2>2. QED BY <2>1 DEF GroupNamed
  <1>10. ASSUME NEW t \in Threads, TransferStep(t)
         PROVE  UNCHANGED <<at, file>>
    BY <1>10 DEF TransferStep, Rename, OpenSource, LocalFailure, BeginGet, EndGet,
         BeginPut, EndPut, PutObject, RemoveMoved, Transfer, Truncate, vars, groupVars
  <1>11. ASSUME NEW t \in Threads,
                \/ \E ok \in ScanResults : MoverScanEnd(t, ok)
                \/ MoverCountDown(t)
                \/ \E d \in Dirs : MoverScanStart(t, d)
                \/ \E d \in Dirs : TakeRecheck(t, d) /\ UNCHANGED moverVars
         PROVE  UNCHANGED <<at, file>>
    BY <1>11 DEF MoverScanEnd, ScanEnd, MoverCountDown, CountDown, MoverScanStart,
         ScanStart, TakeRecheck, groupVars, moverVars
  <1>12. ASSUME NEW t \in Threads, MoverOther(t), ~PostOperation(t), ~LastOperation(t)
         PROVE  UNCHANGED <<at, file>>
    BY <1>12 DEF MoverOther, CheckCompletion, ExpiresAfter, AsyncWait, groupVars, moverVars
  <1>13. ASSUME NEW d \in Dirs,
                \/ TimerExpires(d) /\ UNCHANGED moverVars
                \/ \E f \in Files : Arrive(d, f)
         PROVE  UNCHANGED <<at, file>>
    BY <1>13 DEF TimerExpires, Arrive, vars, groupVars, moverVars
  <1>14. CASE UNCHANGED allVars
    BY <1>2, <1>14 DEF allVars, vars, groupVars, moverVars
  <1>15. QED
    BY <1>2, <1>4, <1>5, <1>6, <1>7, <1>8, <1>9, <1>10, <1>11, <1>12, <1>13, <1>14
    DEF MoverNext, MoverHandlerStep

LEMMA MoverTypeInit == MoverInit => MoverTypeOK
  <1> SUFFICES ASSUME MoverInit PROVE MoverTypeOK
    OBVIOUS
  <1>1. /\ src \in [Dirs -> [Files -> Source]]
        /\ dst \in [Dirs -> [Index \ {0} -> [Files -> Content]]]
    BY DEF MoverInit, Source, Content
  <1>2. /\ file \in [Groups -> Files \union {None}]
        /\ target \in [Groups -> Index]
        /\ seen \in [Threads -> SUBSET Files]
        /\ failed \in [Dirs -> SUBSET Files]
    BY IndexType DEF MoverInit
  <1>3. op \in [Threads -> Op]
    BY OpValues DEF MoverInit
  <1>4. crashes \in 0..MaxCrashes
    BY MoverAssumption DEF MoverInit, MoverAssumption
  <1>5. QED BY <1>1, <1>2, <1>3, <1>4 DEF MoverTypeOK

LEMMA MoverTypeStep ==
  ASSUME IInv, GroupNamed, MoverTypeOK, [MoverNext]_allVars
  PROVE  MoverTypeOK'
  <1>1. CASE UNCHANGED moverVars
    BY <1>1 DEF moverVars, fileVars, MoverTypeOK
  <1>2. ASSUME NEW t \in Threads, NEW g \in Groups, MoverProcessFile(t, g)
        PROVE  MoverTypeOK'
    <2>1. PICK f \in seen[t] : file' = [file EXCEPT ![g] = f]
                               /\ seen' = [seen EXCEPT ![t] = @ \ {f}]
      BY <1>2 DEF MoverProcessFile
    <2>2. f \in Files
      BY <2>1 DEF MoverTypeOK
    <2>3. target' \in [Groups -> Index]
      <3>1. CASE ~Balanced(job[t])
        BY <1>2, <3>1 DEF MoverProcessFile, MoverTypeOK
      <3>2. CASE Balanced(job[t])
        <4>1. job[t] \in Dirs
          BY <1>2 DEF MoverProcessFile, ProcessFile, IInv, TypeOK, ThreadInv
        <4>2. 1..to_size[job[t]] \subseteq Index
          BY <4>1, ConstantsAssumption DEF ConstantsAssumption, Index
        <4>3. QED BY <1>2, <3>2, <4>2 DEF MoverProcessFile, MoverTypeOK
      <3>3. QED BY <3>1, <3>2
    <2>4. file' \in [Groups -> Files \union {None}] /\ seen' \in [Threads -> SUBSET Files]
      BY <2>1, <2>2 DEF MoverTypeOK
    <2>5. QED BY <1>2, <2>3, <2>4 DEF MoverProcessFile, MoverTypeOK, fileVars
  <1>3. ASSUME NEW t \in Threads, NEW ok, MoverScanEnd(t, ok)
        PROVE  MoverTypeOK'
    BY <1>3 DEF MoverScanEnd, MoverTypeOK, fileVars
  <1>4. ASSUME NEW t \in Threads, MoverCountDown(t)
        PROVE  MoverTypeOK'
    <2>1. grp[t] \in Groups /\ idx[t] \in Index /\ at[grp[t]][idx[t]] = "running"
      BY <1>4 DEF MoverCountDown, CountDown, IInv, TypeOK, ThreadInv, OwnerInv, Running
    <2>2. failed' \in [Dirs -> SUBSET Files]
      <3>1. File(t) \in Files
        BY <2>1 DEF GroupNamed, File
      <3>2. QED BY <1>4, <3>1 DEF MoverCountDown, MoverTypeOK
    <2>3. QED BY <1>4, <2>2, OpValues DEF MoverCountDown, MoverTypeOK, fileVars
  <1>5. ASSUME NEW t \in Threads, MoverFinishHandler(t)
        PROVE  MoverTypeOK'
    <2>1. src' \in [Dirs -> [Files -> Source]]
      <3>1. CASE src' = src
        BY <3>1 DEF MoverTypeOK
      <3>2. CASE \E ok : src' = SourceAfter(job[t], File(t), ok)
        BY <3>2, SrcType
      <3>3. QED BY <1>5, <3>1, <3>2 DEF MoverFinishHandler
    <2>2. QED BY <1>5, <2>1 DEF MoverFinishHandler, MoverTypeOK
  <1>6. ASSUME NEW t \in Threads, NEW d \in Dirs, MoverScanStart(t, d)
        PROVE  MoverTypeOK'
    BY <1>6 DEF MoverScanStart, MoverTypeOK, fileVars
  <1>7. ASSUME NEW t \in Threads, NEW g \in Groups, NEW i \in Index,
               MoverTakeHandler(t, g, i)
        PROVE  MoverTypeOK'
    <2>1. NoOp \in Op /\ [NoOp EXCEPT !.stage = "begin"] \in Op
      BY OpValues DEF Stage
    <2>2. QED BY <1>7, <2>1 DEF MoverTakeHandler, MoverTypeOK, fileVars
  <1>8. ASSUME NEW d \in Dirs, NEW f \in Files, Arrive(d, f)
        PROVE  MoverTypeOK'
    <2>1. src' \in [Dirs -> [Files -> Source]]
      BY <1>8 DEF Arrive, MoverTypeOK, Source
    <2>2. dst' \in [Dirs -> [Index \ {0} -> [Files -> Content]]]
      BY <1>8 DEF Arrive, MoverTypeOK, Content
    <2>3. op' \in [Threads -> Op]
      BY <1>8, OpValues DEF Arrive, MoverTypeOK
    <2>4. QED BY <1>8, <2>1, <2>2, <2>3 DEF Arrive, MoverTypeOK
  <1>9. CASE Restart
    <2>1. crashes' \in 0..MaxCrashes
      BY <1>9, MoverAssumption DEF Restart, MoverTypeOK, MoverAssumption
    <2>2. QED BY <1>9, <2>1, OpValues, IndexType DEF Restart, MoverTypeOK, fileVars
  <1>10. QED
    BY <1>1, <1>2, <1>3, <1>4, <1>5, <1>6, <1>7, <1>8, <1>9, StepOfTransferType
    DEF MoverNext, MoverHandlerStep, MoverOther, allVars

(* Files, copies, transfers and errors keep their types, restarts and      *)
(* arrivals included; a balanced group has one of its directory's          *)
(* destinations.                                                           *)
THEOREM MoverTypeCorrect == MoverSpec => []MoverTypeOK
  <1>1. MoverInit => IInv
    BY InitInv DEF MoverInit
  <1>2. IInv /\ [MoverNext]_allVars => IInv'
    BY InitInvNext, MoverStep, StepInv
  <1>3. IInv /\ GroupNamed /\ MoverTypeOK /\ [MoverNext]_allVars => MoverTypeOK'
    BY MoverTypeStep
  <1>4. IInv /\ GroupNamed /\ MoverTypeOK /\ [MoverNext]_allVars => GroupNamed'
    BY NamedStep DEF MoverTypeOK
  <1>5. QED
    BY <1>1, <1>2, <1>3, <1>4, NamedInit, MoverTypeInit, PTL DEF MoverSpec
-----------------------------------------------------------------------------
(* Moves from one directory to another *)

(* Every configured directory has one destination, and both are local.     *)
RenameOnly ==
  /\ \A d \in Dirs : to_size[d] = 1 /\ protocol[d] = "DIR"
  /\ to_protocol \in [Dirs -> [Index \ {0} -> {"DIR"}]]

(* No transfer of a move by rename leaves its first step but to return,    *)
(* and delete_file is never posted.                                        *)
RenameInv ==
  /\ IInv
  /\ src \in [Dirs -> [Files -> Source]]
  /\ dst \in [Dirs -> [Index \ {0} -> [Files -> Content]]]
  /\ \A t \in Threads : op[t].stage \in {"none", "begin", "done"}
  /\ op \in [Threads -> Op]
  /\ \A g \in Groups : at[g][0] \notin {"queued", "running"}
  /\ NoLoss

LEMMA RenameInit == MoverInit => RenameInv
  <1> SUFFICES ASSUME MoverInit PROVE RenameInv
    OBVIOUS
  <1>1. IInv
    BY InitInv DEF MoverInit
  <1>2. /\ src \in [Dirs -> [Files -> Source]]
        /\ dst \in [Dirs -> [Index \ {0} -> [Files -> Content]]]
        /\ op \in [Threads -> Op]
    BY DEF MoverInit, Source, Content, Op, NoOp, Stage
  <1>3. \A t \in Threads : op[t].stage \in {"none", "begin", "done"}
    BY DEF MoverInit, NoOp
  <1>4. \A g \in Groups : at[g][0] \notin {"queued", "running"}
    BY IndexType DEF MoverInit, Init
  <1>5. NoLoss
    BY DEF MoverInit, NoLoss
  <1>6. QED
    BY <1>1, <1>2, <1>3, <1>4, <1>5 DEF RenameInv

(* The task of a transfer of such a move.                                  *)
LEMMA RenameTask ==
  ASSUME RenameOnly, RenameInv, NEW t \in Threads, pc[t] = "op"
  PROVE  /\ job[t] \in Dirs /\ OnlyMove(job[t])
         /\ To(t) = 1 /\ 1 \in Index \ {0}
         /\ FromProtocol(t) = "DIR" /\ ToProtocol(t) = "DIR"
  <1>1. job[t] \in Dirs /\ idx[t] \in 1..GroupSize(job[t]) /\ idx[t] \in Index
    BY DEF RenameInv, IInv, TypeOK, ThreadInv, Running, Groups
  <1>2. OnlyMove(job[t]) /\ GroupSize(job[t]) = 1
    BY <1>1, GroupSizeType DEF RenameOnly, OnlyMove
  <1>3. idx[t] = 1
    BY <1>1, <1>2
  <1>4. To(t) = 1
    BY <1>2, <1>3 DEF To, Balanced
  <1>5. QED
    BY <1>1, <1>2, <1>3, <1>4 DEF RenameOnly, FromProtocol, ToProtocol

(* A step that leaves the files alone keeps what they satisfy.             *)
LEMMA NoLossStutter ==
  ASSUME NoLoss, UNCHANGED fileVars
  PROVE  NoLoss'
  <1>1. \A d \in Dirs, f \in Files : Delivered(d, f)' <=> Delivered(d, f)
    <2>1. dst' = dst
      BY DEF fileVars
    <2>2. QED BY <2>1 DEF Delivered, Balanced
  <1>2. src' = src
    BY DEF fileVars
  <1>3. QED BY <1>1, <1>2 DEF NoLoss

(* No step of a transfer other than Rename or a failure is possible; a     *)
(* rename takes the file from the source and puts it at the destination.   *)
LEMMA RenameTransfer ==
  ASSUME RenameOnly, RenameInv, NEW t \in Threads, TransferStep(t)
  PROVE  /\ src' \in [Dirs -> [Files -> Source]]
         /\ dst' \in [Dirs -> [Index \ {0} -> [Files -> Content]]]
         /\ op' \in [Threads -> Op]
         /\ \A u \in Threads : op'[u].stage \in {"none", "begin", "done"}
         /\ NoLoss'
         /\ UNCHANGED vars
  <1>1. pc[t] = "op" /\ op[t].stage = "begin" /\ (Rename(t) \/ LocalFailure(t))
    <2>1. pc[t] = "op"
      BY DEF TransferStep, Rename, OpenSource, LocalFailure, BeginGet, EndGet,
         BeginPut, EndPut, PutObject, RemoveMoved, At
    <2>2. ~OpenSource(t) /\ ~BeginGet(t)
      BY <2>1, RenameTask DEF OpenSource, BeginGet
    <2>3. op[t].stage \in {"none", "begin", "done"}
      BY DEF RenameInv
    <2>4. QED
      BY <2>1, <2>2, <2>3 DEF TransferStep, Rename, LocalFailure, EndGet,
         BeginPut, EndPut, PutObject, RemoveMoved, At
  <1> DEFINE d == job[t]
             f == File(t)
  <1>2. d \in Dirs /\ To(t) = 1 /\ 1 \in Index \ {0}
    BY <1>1, RenameTask
  <1>3. PICK o \in Op : o.stage = "done" /\ op' = [op EXCEPT ![t] = o]
    <2> DEFINE Done(b) == [NoOp EXCEPT !.stage = "done", !.status = b]
               Failed == [NoOp EXCEPT !.stage = "done"]
    <2>1. /\ \A b \in BOOLEAN : Done(b) \in Op /\ Done(b).stage = "done"
          /\ Failed \in Op /\ Failed.stage = "done"
      BY DEF NoOp, Op, Stage
    <2>2. CASE Rename(t)
      <3>1. \E b \in BOOLEAN : op' = [op EXCEPT ![t] = Done(b)]
        BY <2>2 DEF Rename, Transfer
      <3>2. QED BY <2>1, <3>1
    <2>3. CASE LocalFailure(t)
      <3>1. op' = [op EXCEPT ![t] = Failed]
        BY <2>3 DEF LocalFailure, Transfer
      <3>2. QED BY <2>1, <3>1
    <2>4. QED BY <1>1, <2>2, <2>3
  <1>4. /\ op' \in [Threads -> Op]
        /\ \A u \in Threads : op'[u].stage \in {"none", "begin", "done"}
    BY <1>3 DEF RenameInv
  <1>5. UNCHANGED vars
    BY <1>1 DEF Rename, LocalFailure, Transfer
  <1>6. CASE UNCHANGED fileVars
    <2>1. src' = src /\ dst' = dst
      BY <1>6 DEF fileVars
    <2>2. NoLoss'
      BY <1>6, NoLossStutter DEF RenameInv
    <2>3. QED BY <1>4, <1>5, <2>1, <2>2 DEF RenameInv
  <1>7. CASE /\ src' = [src EXCEPT ![d][f] = "gone"]
             /\ dst' = [dst EXCEPT ![d][1][f] = "full"]
    <2>1. src' \in [Dirs -> [Files -> Source]]
      BY <1>7 DEF RenameInv, Source
    <2>2. dst' \in [Dirs -> [Index \ {0} -> [Files -> Content]]]
      BY <1>2, <1>7 DEF RenameInv, Content
    <2>3. NoLoss'
      <3> SUFFICES ASSUME NEW e \in Dirs, NEW h \in Files, src'[e][h] = "gone"
                   PROVE  dst'[e][1][h] = "full"
        BY DEF NoLoss, Delivered, Balanced, OnlyMove, RenameOnly
      <3>1. CASE e = d /\ h = f
        BY <1>2, <1>7, <3>1 DEF RenameInv
      <3>2. CASE ~(e = d /\ h = f)
        <4>1. src[e][h] = "gone" /\ dst'[e][1][h] = dst[e][1][h]
          BY <1>2, <1>7, <3>2 DEF RenameInv
        <4>2. NoLoss /\ to_size[e] = 1 /\ OnlyMove(e) /\ ~Balanced(e)
          BY DEF RenameInv, Balanced, OnlyMove, RenameOnly
        <4>3. Delivered(e, h)
          BY <4>1, <4>2 DEF NoLoss
        <4>4. QED BY <4>1, <4>2, <4>3 DEF Delivered
      <3>3. QED BY <3>1, <3>2
    <2>4. QED BY <1>4, <1>5, <2>1, <2>2, <2>3
  <1>8. QED
    BY <1>1, <1>2, <1>6, <1>7 DEF Rename, LocalFailure, SourceAfter, fileVars

LEMMA RenameStep ==
  ASSUME RenameOnly, RenameInv, [MoverNext]_allVars
  PROVE  RenameInv'
  <1>1. IInv'
    BY InitInvNext, MoverStep, StepInv DEF RenameInv
  <1>2. ASSUME NEW t \in Threads, TransferStep(t)
        PROVE  RenameInv'
    BY <1>1, <1>2, RenameTransfer DEF RenameInv, vars, groupVars
  <1>3. ASSUME NEW d \in Dirs, NEW f \in Files, Arrive(d, f)
        PROVE  RenameInv'
    <2>1. src' \in [Dirs -> [Files -> Source]]
      BY <1>3 DEF Arrive, RenameInv, Source
    <2>2. /\ dst' \in [Dirs -> [Index \ {0} -> [Files -> Content]]]
          /\ \A e \in Dirs, k \in Index \ {0}, h \in Files :
               ~(e = d /\ h = f) => dst'[e][k][h] = dst[e][k][h]
      BY <1>3 DEF Arrive, RenameInv, Content
    <2>3. at' = at
      BY <1>3 DEF Arrive, vars, groupVars
    <2>4. /\ op' \in [Threads -> Op]
          /\ \A t \in Threads : op'[t].stage = op[t].stage
      <3>1. \A o \in Op : Outdated(o) \in Op /\ Outdated(o).stage = o.stage
        BY DEF Outdated, Op
      <3>2. op' = [t \in Threads |->
              IF pc[t] = "op" /\ job[t] = d /\ File(t) = f THEN Outdated(op[t]) ELSE op[t]]
        BY <1>3 DEF Arrive
      <3>3. QED BY <3>1, <3>2 DEF RenameInv
    <2>5. NoLoss'
      <3> SUFFICES ASSUME NEW e \in Dirs, NEW h \in Files, OnlyMove(e),
                          src'[e][h] = "gone"
                   PROVE  Delivered(e, h)'
        BY DEF NoLoss
      <3>1. ~(e = d /\ h = f) /\ src[e][h] = "gone"
        BY <1>3 DEF Arrive, RenameInv
      <3>2. Delivered(e, h)
        BY <3>1 DEF NoLoss, RenameInv
      <3>3. to_size[e] = 1 /\ ~Balanced(e) /\ ~Balanced(e)' /\ 1 \in Index \ {0}
        BY IndexType, ConstantsAssumption DEF OnlyMove, Balanced, Index
      <3>4. dst[e][1][h] = "full"
        BY <3>2, <3>3 DEF Delivered
      <3>5. dst'[e][1][h] = "full"
        BY <2>2, <3>1, <3>3, <3>4
      <3>6. QED BY <3>3, <3>5 DEF Delivered
    <2>6. QED BY <1>1, <2>1, <2>2, <2>3, <2>4, <2>5 DEF RenameInv
  <1>4. ASSUME Restart
        PROVE  RenameInv'
    <2>1. src' = src /\ dst' = dst
      BY <1>4 DEF Restart, fileVars
    <2>2. op' \in [Threads -> Op] /\ \A t \in Threads : op'[t].stage = "none"
      BY <1>4 DEF Restart, NoOp, Op, Stage
    <2>3. \A g \in Groups : at'[g][0] = "none"
      BY <1>4, IndexType DEF Restart
    <2>4. NoLoss'
      BY <2>1, NoLossStutter DEF RenameInv, fileVars
    <2>5. QED BY <1>1, <2>1, <2>2, <2>3, <2>4 DEF RenameInv
  <1> DEFINE Settled ==
        /\ UNCHANGED fileVars
        /\ op' \in [Threads -> Op]
        /\ \A t \in Threads : op'[t].stage \in {"none", "begin", "done"}
        /\ \A g \in Groups : at'[g][0] \notin {"queued", "running"}
  <1>5. Settled => RenameInv'
    <2>1. UNCHANGED fileVars => NoLoss'
      BY NoLossStutter DEF RenameInv
    <2>2. QED BY <1>1, <2>1 DEF RenameInv, fileVars
  <1>6. ASSUME NEW t \in Threads, NEW g \in Groups, MoverProcessFile(t, g)
        PROVE  Settled
    <2>1. \A h \in Groups : at'[h][0] \in {"owed", "none", at[h][0]}
      <3>1. /\ at' = [at EXCEPT ![g] = [i \in Index |->
                        IF i <= GroupSize(job[t]) THEN "owed" ELSE "none"]]
            /\ at \in [Groups -> [Index -> Place]] /\ 0 \in Index
        BY <1>6, IndexType DEF MoverProcessFile, ProcessFile, RenameInv, IInv, TypeOK
      <3>2. QED BY <3>1
    <2>2. QED BY <1>6, <2>1 DEF MoverProcessFile, RenameInv, fileVars
  <1>7. ASSUME NEW t \in Threads, NEW d \in Dirs, MoverScanStart(t, d)
        PROVE  Settled
    BY <1>7 DEF MoverScanStart, ScanStart, groupVars, RenameInv
  <1>8. ASSUME NEW t \in Threads, NEW ok \in ScanResults, MoverScanEnd(t, ok)
        PROVE  Settled
    BY <1>8 DEF MoverScanEnd, ScanEnd, groupVars, RenameInv
  <1>9. ASSUME NEW t \in Threads, NEW g \in Groups, NEW i \in Index,
               MoverTakeHandler(t, g, i)
        PROVE  Settled
    <2>1. i # 0
      BY <1>9 DEF MoverTakeHandler, TakeHandler, RenameInv
    <2>2. \A h \in Groups : at'[h][0] = at[h][0]
      BY <1>9, <2>1, IndexType DEF MoverTakeHandler, TakeHandler, RenameInv, IInv, TypeOK
    <2>3. /\ [NoOp EXCEPT !.stage = "begin"] \in Op
          /\ [NoOp EXCEPT !.stage = "begin"].stage = "begin"
      BY DEF NoOp, Op, Stage
    <2>4. op' = [op EXCEPT ![t] = [NoOp EXCEPT !.stage = "begin"]]
      BY <1>9, <2>1 DEF MoverTakeHandler
    <2>5. QED BY <1>9, <2>2, <2>3, <2>4 DEF MoverTakeHandler, RenameInv
  <1>10. ASSUME NEW t \in Threads, MoverCountDown(t)
         PROVE  Settled
    <2>1. NoOp \in Op /\ NoOp.stage = "none"
      BY DEF NoOp, Op, Stage
    <2>2. op' = [op EXCEPT ![t] = NoOp] /\ at' = at /\ UNCHANGED fileVars
      BY <1>10 DEF MoverCountDown, CountDown
    <2>3. QED BY <2>1, <2>2 DEF RenameInv
  <1>11. ASSUME NEW t \in Threads, MoverFinishHandler(t)
         PROVE  Settled
    <2>1. pc[t] # "delete"
      <3>1. pc[t] = "delete" => grp[t] \in Groups /\ at[grp[t]][0] = "running"
        BY DEF RenameInv, IInv, ThreadInv, OwnerInv, Running
      <3>2. QED BY <3>1 DEF RenameInv
    <2>2. UNCHANGED <<fileVars, op>>
      BY <1>11, <2>1 DEF MoverFinishHandler, fileVars
    <2>3. \A h \in Groups : at'[h][0] \in {"none", at[h][0]}
      <3>1. at' = [at EXCEPT ![grp[t]][idx[t]] = "none"]
        BY <1>11 DEF MoverFinishHandler, FinishHandler
      <3>2. QED BY <3>1, IndexType DEF RenameInv, IInv, TypeOK
    <2>4. QED BY <2>2, <2>3 DEF RenameInv
  <1>12. ASSUME NEW t \in Threads, MoverOther(t)
         PROVE  Settled
    <2>1. UNCHANGED <<fileVars, op>>
      BY <1>12 DEF MoverOther, moverVars
    <2>2. ASSUME PostOperation(t), NEW h \in Groups
          PROVE  at'[h][0] = at[h][0]
      <3>1. idx[t] \in 1..GroupSize(job[t]) /\ job[t] \in Dirs
        BY <2>2 DEF PostOperation, RenameInv, IInv, ThreadInv, Groups
      <3>2. idx[t] # 0
        BY <3>1, GroupSizeType
      <3>3. QED
        BY <2>2, <3>2, IndexType DEF PostOperation, RenameInv, IInv, TypeOK
    <2>3. ASSUME LastOperation(t), NEW h \in Groups
          PROVE  at'[h][0] \in {"none", at[h][0]}
      <3>1. job[t] \in Dirs
        BY <2>3 DEF LastOperation, RenameInv, IInv, ThreadInv, Running, Groups
      <3>2. at' = [at EXCEPT ![grp[t]][0] = "none"]
        BY <2>3, <3>1 DEF LastOperation, OnlyMove, RenameOnly
      <3>3. QED BY <3>2, IndexType DEF RenameInv, IInv, TypeOK
    <2>4. CASE CheckCompletion(t) \/ ExpiresAfter(t) \/ AsyncWait(t)
      BY <2>1, <2>4 DEF CheckCompletion, ExpiresAfter, AsyncWait, groupVars, RenameInv
    <2>5. QED
      BY <1>12, <2>1, <2>2, <2>3, <2>4 DEF MoverOther, RenameInv
  <1>13. ASSUME NEW t \in Threads, NEW d \in Dirs,
                TakeRecheck(t, d) /\ UNCHANGED moverVars
         PROVE  Settled
    BY <1>13 DEF TakeRecheck, groupVars, moverVars, RenameInv
  <1>14. ASSUME NEW d \in Dirs, TimerExpires(d) /\ UNCHANGED moverVars
         PROVE  Settled
    BY <1>14 DEF TimerExpires, groupVars, moverVars, RenameInv
  <1>15. CASE UNCHANGED allVars
    BY <1>5, <1>15 DEF allVars, vars, groupVars, moverVars, RenameInv
  <1>16. QED
    BY <1>2, <1>3, <1>4, <1>5, <1>6, <1>7, <1>8, <1>9, <1>10, <1>11, <1>12,
       <1>13, <1>14, <1>15 DEF MoverNext, MoverHandlerStep

(* When every directory has one destination and both are local, no file is *)
(* ever lost: for any number of threads, directories and files, however    *)
(* scans overlap, whatever renames fail and however often the process is   *)
(* killed.                                                                 *)
THEOREM RenameNeverLoses ==
  ASSUME RenameOnly
  PROVE  MoverSpec => []NoLoss
  <1>1. MoverInit => RenameInv
    BY RenameInit
  <1>2. RenameInv /\ [MoverNext]_allVars => RenameInv'
    BY RenameStep
  <1>3. RenameInv => NoLoss
    BY DEF RenameInv
  <1>4. QED
    BY <1>1, <1>2, <1>3, PTL DEF MoverSpec
=============================================================================

------------------------------- MODULE Mover -------------------------------
(***************************************************************************)
(* The scanner of module Scanner together with what its handlers do to the *)
(* files: the listings of one scan, the nine transfers of                  *)
(* filesystem_worker.cpp, ftp_worker.cpp and s3_worker.cpp, the removals,  *)
(* and a process that is killed and started again.                         *)
(*                                                                         *)
(* A transfer is at most four steps: it opens the source of a local file,  *)
(* or downloads into the destination or a temporary file; it uploads; and, *)
(* when the directory has one destination, it removes the source.          *)
(*                                                                         *)
(* Abstracted: the bytes of a file (absent, whole, or anything else), its  *)
(* path and masks (module Listing), all but the latest version of a file,  *)
(* the client set-up of curl and of the AWS SDK, the round robin of a      *)
(* balanced directory (any destination is chosen).                         *)
(***************************************************************************)
EXTENDS Scanner

CONSTANTS
  Files,         \* the names that may arrive in a source directory
  to_protocol,   \* to_protocol[d][k]: the protocol of destination k of d
  Outcomes,      \* what a request to a server or the file system may return
  Rearrive,      \* whether a name may arrive again, as another version
  MaxCrashes     \* bound: how often the process is killed

ASSUME MoverAssumption ==
  /\ IsFiniteSet(Files) /\ None \notin Files
  /\ to_protocol \in [Dirs -> [Index \ {0} -> Protocol]]
  /\ Outcomes \in SUBSET BOOLEAN /\ TRUE \in Outcomes
  /\ Rearrive \in BOOLEAN /\ MaxCrashes \in Nat

VARIABLES
  src,       \* src[d][f]: f in the source of d
  dst,       \* dst[d][k][f]: f at destination k of d
  file,      \* the file of a group
  target,    \* the destination of a balanced group
  seen,      \* files the listing a thread runs has still to hand out
  op,        \* how far the transfer a thread runs has come
  failed,    \* files of d of which a transfer was counted as an error
  crashes    \* how often the process was killed

fileVars == <<src, dst>>
moverVars == <<fileVars, file, target, seen, op, failed, crashes>>
allVars == <<vars, moverVars>>

Source == {"absent", "present", "gone"}
Content == {"absent", "bad", "full"}
Stage == {"none", "begin", "get", "body", "put", "remove", "done"}

(* The state of a transfer: body is what an upload reads, the open source  *)
(* or a temporary file; clean holds while nobody else truncated the file   *)
(* the transfer is writing; status is what it returns.                     *)
Op == [stage : Stage, body : {"none", "src", "bad", "full"},
       clean : BOOLEAN, status : BOOLEAN]

NoOp == [stage |-> "none", body |-> "none", clean |-> TRUE, status |-> FALSE]

MoverTypeOK ==
  /\ src \in [Dirs -> [Files -> Source]]
  /\ dst \in [Dirs -> [Index \ {0} -> [Files -> Content]]]
  /\ file \in [Groups -> Files \union {None}]
  /\ target \in [Groups -> Index]
  /\ seen \in [Threads -> SUBSET Files]
  /\ op \in [Threads -> Op]
  /\ failed \in [Dirs -> SUBSET Files]
  /\ crashes \in 0..MaxCrashes

MoverInit ==
  /\ Init
  /\ src = [d \in Dirs |-> [f \in Files |-> "absent"]]
  /\ dst = [d \in Dirs |-> [k \in Index \ {0} |-> [f \in Files |-> "absent"]]]
  /\ file = [g \in Groups |-> None]
  /\ target = [g \in Groups |-> 0]
  /\ seen = [t \in Threads |-> {}]
  /\ op = [t \in Threads |-> NoOp]
  /\ failed = [d \in Dirs |-> {}]
  /\ crashes = 0

Balanced(d) == ~OnlyMove(d) /\ file_mode[d] = "BALANCER" /\ protocol[d] # "FTP"

(* The task of the operation thread t runs: its file and its destination.  *)
File(t) == file[grp[t]]
To(t) == IF Balanced(job[t]) THEN target[grp[t]] ELSE idx[t]
FromProtocol(t) == protocol[job[t]]
ToProtocol(t) == to_protocol[job[t]][To(t)]

At(t, stage) == pc[t] = "op" /\ op[t].stage = stage

-----------------------------------------------------------------------------
(* Faulty variants of definitions below, as in Scanner.                    *)

(* No transfer looks at the result of a download or an upload.             *)
CheckedNowhere(t) == FALSE

(* The source is removed even when the rename failed.                      *)
RenameAndRemove(t) ==
  /\ At(t, "begin") /\ OnlyMove(job[t])
  /\ FromProtocol(t) = "DIR" /\ ToProtocol(t) = "DIR"
  /\ \E ok \in Outcomes :
       LET done == ok /\ src[job[t]][File(t)] = "present"
       IN /\ src' = [src EXCEPT ![job[t]][File(t)] = "gone"]
          /\ dst' = IF done THEN [dst EXCEPT ![job[t]][To(t)][File(t)] = "full"] ELSE dst
          /\ op' = [op EXCEPT ![t] = [NoOp EXCEPT !.stage = "done", !.status = done]]
  /\ UNCHANGED <<vars, file, target, seen, failed, crashes>>

(* A listing that succeeds may have left out files.                        *)
MoverScanEndEarly(t, ok) ==
  /\ ScanEnd(t, ok)
  /\ seen' = [seen EXCEPT ![t] = {}]
  /\ UNCHANGED <<fileVars, file, target, op, failed, crashes>>

(* The round robin runs one past the last destination.                     *)
MoverProcessFilePast(t, g) ==
  /\ ProcessFile(t, g)
  /\ \E f \in seen[t] :
       /\ file' = [file EXCEPT ![g] = f]
       /\ seen' = [seen EXCEPT ![t] = @ \ {f}]
  /\ IF Balanced(job[t])
       THEN \E k \in 1..(to_size[job[t]] + 1) : target' = [target EXCEPT ![g] = k]
       ELSE UNCHANGED target
  /\ UNCHANGED <<fileVars, op, failed, crashes>>

(* A failed transfer is not counted as an error.                           *)
MoverCountDownSilent(t) ==
  /\ CountDown(t)
  /\ op[t].stage = "done"
  /\ op' = [op EXCEPT ![t] = NoOp]
  /\ UNCHANGED <<fileVars, file, target, seen, failed, crashes>>

-----------------------------------------------------------------------------
(* The transfers that look at the result of a download or an upload: all   *)
(* but those of s3_worker.cpp and ftp_to_s3.                               *)
Checked(t) ==
  FromProtocol(t) # "S3" /\ ~(FromProtocol(t) = "FTP" /\ ToProtocol(t) = "S3")

(* What follows the last download or upload: a checked failure returns     *)
(* false, a move removes the source, a copy returns true.                  *)
After(t, ok) ==
  CASE ~ok /\ Checked(t)  -> [NoOp EXCEPT !.stage = "done"]
    [] (ok \/ ~Checked(t)) /\ OnlyMove(job[t]) -> [NoOp EXCEPT !.stage = "remove"]
    [] OTHER -> [NoOp EXCEPT !.stage = "done", !.status = TRUE]

Transfer(t, o) ==
  /\ op' = [op EXCEPT ![t] = o]
  /\ UNCHANGED <<vars, file, target, seen, failed, crashes>>

-----------------------------------------------------------------------------
(* The file system, the FTP server and the S3 service, as the code uses    *)
(* them.                                                                   *)

(* Opening a file for writing, or STOR, empties it: whoever was writing it *)
(* no longer leaves it whole.                                              *)
Truncate(t, o) ==
  /\ dst' = [dst EXCEPT ![job[t]][To(t)][File(t)] = "bad"]
  /\ op' = [u \in Threads |->
       IF u = t THEN o
       ELSE IF /\ pc[u] = "op" /\ job[u] = job[t]
               /\ File(u) = File(t) /\ To(u) = To(t)
         THEN [op[u] EXCEPT !.clean = FALSE]
         ELSE op[u]]
  /\ UNCHANGED <<vars, src, file, target, seen, failed, crashes>>

(* A file that another thread is uploading is open without the permission  *)
(* to delete it: on Windows its removal fails.                             *)
Held(d, f, t) ==
  /\ protocol[d] = "DIR"
  /\ \E u \in Threads \ {t} :
       /\ pc[u] = "op" /\ job[u] = d /\ File(u) = f
       /\ op[u].body = "src" /\ ToProtocol(u) # "DIR"

Removal(d, f, t) == IF Held(d, f, t) THEN {FALSE} ELSE Outcomes

SourceAfter(d, f, ok) == IF ok THEN [src EXCEPT ![d][f] = "gone"] ELSE src

(* Another version of the file makes every other copy of it bad: what is   *)
(* at the destinations, and what transfers have read.                      *)
Outdated(o) ==
  [o EXCEPT !.clean = FALSE, !.body = IF @ = "none" THEN "none" ELSE "bad"]

(* A file arrives in a source directory, whole.                            *)
Arrive(d, f) ==
  /\ src[d][f] = "absent" \/ Rearrive
  /\ src' = [src EXCEPT ![d][f] = "present"]
  /\ dst' = [dst EXCEPT ![d] = [k \in Index \ {0} |->
               [@[k] EXCEPT ![f] = IF @ = "absent" THEN @ ELSE "bad"]]]
  /\ op' = [t \in Threads |->
       IF pc[t] = "op" /\ job[t] = d /\ File(t) = f THEN Outdated(op[t]) ELSE op[t]]
  /\ UNCHANGED <<vars, file, target, seen, failed, crashes>>

-----------------------------------------------------------------------------
(* The steps of a transfer *)

(* fs_to_fs of a move: the file is renamed, or an exception is caught.     *)
Rename(t) ==
  /\ At(t, "begin") /\ OnlyMove(job[t])
  /\ FromProtocol(t) = "DIR" /\ ToProtocol(t) = "DIR"
  /\ \E ok \in Outcomes :
       LET done == ok /\ src[job[t]][File(t)] = "present"
       IN /\ src' = SourceAfter(job[t], File(t), done)
          /\ dst' = IF done THEN [dst EXCEPT ![job[t]][To(t)][File(t)] = "full"] ELSE dst
          /\ Transfer(t, [NoOp EXCEPT !.stage = "done", !.status = done])

(* fs_to_fs of a copy, fs_to_ftp and fs_to_s3 open the source.  A missing  *)
(* file ends the first two; file_upload to S3 goes on with a stream that   *)
(* is not open.                                                            *)
OpenSource(t) ==
  /\ At(t, "begin") /\ FromProtocol(t) = "DIR"
  /\ ~(OnlyMove(job[t]) /\ ToProtocol(t) = "DIR")
  /\ Transfer(t,
       CASE src[job[t]][File(t)] = "present" -> [NoOp EXCEPT !.stage = "body", !.body = "src"]
         [] src[job[t]][File(t)] # "present" /\ ToProtocol(t) = "S3"
              -> [NoOp EXCEPT !.stage = "body"]
         [] OTHER -> [NoOp EXCEPT !.stage = "done"])
  /\ UNCHANGED fileVars

(* A directory, a temporary file, the destination file or a curl handle    *)
(* cannot be created: the transfer returns false.                          *)
LocalFailure(t) ==
  /\ At(t, "begin") /\ FALSE \in Outcomes
  /\ ~(FromProtocol(t) = "DIR" /\ ToProtocol(t) = "S3")
  /\ Transfer(t, [NoOp EXCEPT !.stage = "done"])
  /\ UNCHANGED fileVars

(* A download opens what it writes: the destination when it is a           *)
(* directory, else a temporary file.  The source found at this moment may  *)
(* still be read when it is removed later.                                 *)
BeginGet(t) ==
  /\ At(t, "begin") /\ FromProtocol(t) # "DIR"
  /\ LET o == [NoOp EXCEPT !.stage = "get",
                 !.body = IF src[job[t]][File(t)] = "present" THEN "src" ELSE "none"]
     IN IF ToProtocol(t) = "DIR"
          THEN Truncate(t, o)
          ELSE Transfer(t, o) /\ UNCHANGED fileVars

(* The download ends.  What was asked too late, or failed, leaves the      *)
(* destination as it is, and the temporary file without the file.          *)
EndGet(t, ok) ==
  /\ At(t, "get")
  /\ UNCHANGED src
  /\ IF ToProtocol(t) = "DIR"
       THEN /\ dst' = IF ok /\ op[t].clean
                        THEN [dst EXCEPT ![job[t]][To(t)][File(t)] = "full"]
                        ELSE dst
            /\ Transfer(t, After(t, ok))
       ELSE /\ UNCHANGED dst
            /\ Transfer(t, IF ~ok /\ Checked(t)
                             THEN After(t, ok)
                             ELSE [NoOp EXCEPT !.stage = "body",
                                               !.body = IF ok /\ op[t].body = "src"
                                                          THEN "full" ELSE "bad"])

(* An upload to FTP, or the copy of a local file, starts to write the      *)
(* destination, or gets no connection.                                     *)
BeginPut(t) ==
  /\ At(t, "body") /\ ToProtocol(t) # "S3"
  /\ \/ Truncate(t, [op[t] EXCEPT !.stage = "put", !.clean = TRUE])
     \/ /\ FALSE \in Outcomes
        /\ Transfer(t, After(t, FALSE))
        /\ UNCHANGED fileVars

(* It has written what it read, or fails half-way.                         *)
EndPut(t, ok) ==
  /\ At(t, "put")
  /\ dst' = IF ok /\ op[t].clean /\ op[t].body \in {"src", "full"}
              THEN [dst EXCEPT ![job[t]][To(t)][File(t)] = "full"]
              ELSE dst
  /\ Transfer(t, After(t, ok))
  /\ UNCHANGED src

(* PutObject replaces the object at once, with whatever its body holds: a  *)
(* stream that is not open may be refused or taken for an empty file.      *)
PutObject(t, ok) ==
  /\ At(t, "body") /\ ToProtocol(t) = "S3"
  /\ dst' = IF ok
              THEN [dst EXCEPT ![job[t]][To(t)][File(t)] =
                      IF op[t].body \in {"src", "full"} THEN "full" ELSE "bad"]
              ELSE dst
  /\ Transfer(t, After(t, ok))
  /\ UNCHANGED src

(* A move removes the source.  Only the transfers of a local file return   *)
(* what the removal returned.                                              *)
RemoveMoved(t) ==
  /\ At(t, "remove")
  /\ \E ok \in Removal(job[t], File(t), t) :
       /\ src' = SourceAfter(job[t], File(t), ok)
       /\ Transfer(t, [NoOp EXCEPT !.stage = "done",
                         !.status = ok \/ FromProtocol(t) # "DIR"])
  /\ UNCHANGED dst

TransferStep(t) ==
  \/ Rename(t)
  \/ OpenSource(t)
  \/ LocalFailure(t)
  \/ BeginGet(t)
  \/ \E ok \in IF op[t].body = "none" THEN {FALSE} ELSE Outcomes : EndGet(t, ok)
  \/ BeginPut(t)
  \/ \E ok \in Outcomes : EndPut(t, ok) \/ PutObject(t, ok)
  \/ RemoveMoved(t)
-----------------------------------------------------------------------------
(* The handlers of module Scanner and what they do to the files            *)

(* The files found are those that are there when the listing starts; one   *)
(* that is removed before the listing reaches it may still be handed out.  *)
MoverScanStart(t, d) ==
  /\ ScanStart(t, d)
  /\ seen' = [seen EXCEPT ![t] = {f \in Files : src[d][f] = "present"}]
  /\ UNCHANGED <<fileVars, file, target, op, failed, crashes>>

MoverProcessFile(t, g) ==
  /\ ProcessFile(t, g)
  /\ \E f \in seen[t] :
       /\ file' = [file EXCEPT ![g] = f]
       /\ seen' = [seen EXCEPT ![t] = @ \ {f}]
  /\ IF Balanced(job[t])
       THEN \E k \in 1..to_size[job[t]] : target' = [target EXCEPT ![g] = k]
       ELSE UNCHANGED target
  /\ UNCHANGED <<fileVars, op, failed, crashes>>

(* A listing that succeeds has handed out every file that is still there   *)
(* (bound: as far as there are slots).                                     *)
MoverScanEnd(t, ok) ==
  /\ ScanEnd(t, ok)
  /\ ok => \/ \A f \in seen[t] : src[job[t]][f] # "present"
           \/ \A s \in Slots : \E i \in Index : at[<<job[t], s>>][i] # "none"
  /\ seen' = [seen EXCEPT ![t] = {}]
  /\ UNCHANGED <<fileVars, file, target, op, failed, crashes>>

MoverTakeHandler(t, g, i) ==
  /\ TakeHandler(t, g, i)
  /\ op' = [op EXCEPT ![t] = IF i = 0 THEN NoOp ELSE [NoOp EXCEPT !.stage = "begin"]]
  /\ UNCHANGED <<fileVars, file, target, seen, failed, crashes>>

(* The transfer has returned its status, which monitor[d] counts.          *)
MoverCountDown(t) ==
  /\ CountDown(t)
  /\ op[t].stage = "done"
  /\ failed' = IF op[t].status
                 THEN failed
                 ELSE [failed EXCEPT ![job[t]] = @ \union {File(t)}]
  /\ op' = [op EXCEPT ![t] = NoOp]
  /\ UNCHANGED <<fileVars, file, target, seen, crashes>>

(* delete_file removes the source and ignores the result.                  *)
MoverFinishHandler(t) ==
  /\ FinishHandler(t)
  /\ IF pc[t] = "delete"
       THEN \E ok \in Removal(job[t], File(t), t) :
              src' = SourceAfter(job[t], File(t), ok)
       ELSE UNCHANGED src
  /\ UNCHANGED <<dst, file, target, seen, op, failed, crashes>>

(* The other steps of a handler do nothing to the files.                   *)
MoverOther(t) ==
  /\ \/ PostOperation(t)
     \/ LastOperation(t)
     \/ CheckCompletion(t)
     \/ ExpiresAfter(t)
     \/ AsyncWait(t)
  /\ UNCHANGED moverVars

(* The process is killed and started again: only the files survive.        *)
Restart ==
  /\ crashes < MaxCrashes
  /\ crashes' = crashes + 1
  /\ pc' = [t \in Threads |-> "idle"]
  /\ job' = [t \in Threads |-> None]
  /\ grp' = [t \in Threads |-> None]
  /\ idx' = [t \in Threads |-> 0]
  /\ left' = [t \in Threads |-> 0]
  /\ kind' = [t \in Threads |-> "scan"]
  /\ at' = [g \in Groups |-> [i \in Index |-> "none"]]
  /\ pending_operations' = [g \in Groups |-> 0]
  /\ active_tasks' = [d \in Dirs |-> 0]
  /\ is_run' = [d \in Dirs |-> FALSE]
  /\ waiting' = [d \in Dirs |-> NoWait]
  /\ ready' = [d \in Dirs |-> [NoWait EXCEPT !["scan"] = 1]]
  /\ file' = [g \in Groups |-> None]
  /\ target' = [g \in Groups |-> 0]
  /\ seen' = [t \in Threads |-> {}]
  /\ op' = [t \in Threads |-> NoOp]
  /\ failed' = [d \in Dirs |-> {}]
  /\ UNCHANGED fileVars

-----------------------------------------------------------------------------
MoverHandlerStep(t) ==
  \/ \E g \in Groups : MoverProcessFile(t, g)
  \/ \E ok \in ScanResults : MoverScanEnd(t, ok)
  \/ TransferStep(t)
  \/ MoverCountDown(t)
  \/ MoverFinishHandler(t)
  \/ MoverOther(t)

MoverNext ==
  \/ \E t \in Threads :
       \/ MoverHandlerStep(t)
       \/ \E d \in Dirs : \/ MoverScanStart(t, d)
                          \/ TakeRecheck(t, d) /\ UNCHANGED moverVars
       \/ \E g \in Groups, i \in Index : MoverTakeHandler(t, g, i)
  \/ \E d \in Dirs : TimerExpires(d) /\ UNCHANGED moverVars
  \/ \E d \in Dirs, f \in Files : Arrive(d, f)
  \/ Restart

MoverSpec == MoverInit /\ [][MoverNext]_allVars

(* The fairness of Scanner, for the composed steps.                        *)
MoverFairness ==
  /\ \A t \in Threads : WF_allVars(MoverHandlerStep(t))
  /\ \A d \in Dirs : WF_allVars(TimerExpires(d) /\ UNCHANGED moverVars)
  /\ \A d \in Dirs : SF_allVars(\E t \in Threads : MoverScanStart(t, d))
  /\ \A d \in Dirs :
       SF_allVars(\E t \in Threads : TakeRecheck(t, d) /\ UNCHANGED moverVars)
  /\ \A g \in Groups, i \in Index :
       SF_allVars(\E t \in Threads : MoverTakeHandler(t, g, i))

MoverFairSpec == MoverSpec /\ MoverFairness
-----------------------------------------------------------------------------
(* Properties *)

(* The file is whole where its directory's mode sends it.                  *)
Delivered(d, f) ==
  IF Balanced(d) THEN \E k \in 1..to_size[d] : dst[d][k][f] = "full"
                 ELSE \A k \in 1..to_size[d] : dst[d][k][f] = "full"

(* A file of a directory with one destination is never lost: it is in the  *)
(* source until its destination holds the whole of it, whatever fails and  *)
(* wherever the process is killed.  Only some pairs of protocols keep this *)
(* when scans overlap; with several destinations nothing promises it.      *)
NoLoss ==
  \A d \in Dirs, f \in Files :
    OnlyMove(d) /\ src[d][f] = "gone" => Delivered(d, f)

(* Between two kills, a file that left the source without reaching a       *)
(* destination is one of which process_file counted a failed transfer, or  *)
(* of which a transfer is still at work.                                   *)
LossReported ==
  \A d \in Dirs, f \in Files :
    src[d][f] = "gone" /\ ~Delivered(d, f) =>
      \/ f \in failed[d]
      \/ \E t \in Threads : pc[t] = "op" /\ job[t] = d /\ File(t) = f

(* A file that arrived is in the end at its destination and no longer in   *)
(* the source.                                                             *)
Moved ==
  \A d \in Dirs, f \in Files :
    src[d][f] = "present" ~> (src[d][f] = "gone" /\ Delivered(d, f))
=============================================================================

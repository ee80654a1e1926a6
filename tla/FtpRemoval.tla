----------------------------- MODULE FtpRemoval -----------------------------
(***************************************************************************)
(* The removal of files from the FTP server a listing has found them on    *)
(* (FtpWorker::remove of ftp_worker.cpp).  Module Mover says when a        *)
(* removal happens; here any file handed out may be removed, once.         *)
(***************************************************************************)
EXTENDS FtpSource

VARIABLES
  present,   \* the files that are on the server
  result     \* result[f]: what remove returned for f, None before

removalVars == <<listingVars, present, result>>

RemovalInit ==
  /\ Init
  /\ present = Files
  /\ result = [f \in Files |-> None]

-----------------------------------------------------------------------------
(* DELE is sent in the folder of the file, with the escaped name: a        *)
(* command is no URL, and the server takes it literally.                   *)
Command(f) == Escape(name[f])

Named(f, command) == {g \in present : parent[g] = parent[f] /\ name[g] = command}

Due(f) == conf.protocol = "FTP" /\ calls[f] # <<>> /\ result[f] = None

(* The server carries out a command that names a file.                     *)
RemoveDone(f) ==
  /\ Due(f) /\ Named(f, Command(f)) # {}
  /\ present' = present \ Named(f, Command(f))
  /\ result' = [result EXCEPT ![f] = TRUE]
  /\ UNCHANGED listingVars

(* The request fails, or the server refuses a command that names no file.  *)
RemoveRefused(f) ==
  /\ Due(f) /\ (FALSE \in Outcomes \/ Named(f, Command(f)) = {})
  /\ result' = [result EXCEPT ![f] = FALSE]
  /\ UNCHANGED <<listingVars, present>>

RemovalNext ==
  \/ ListingNext /\ UNCHANGED <<present, result>>
  \/ \E f \in Files : RemoveDone(f) \/ RemoveRefused(f)

RemovalSpec == RemovalInit /\ [][RemovalNext]_removalVars
-----------------------------------------------------------------------------
(* Properties *)

(* "The command that removes the file" (ftp_worker.cpp:397, in Russian):   *)
(* where no request fails, the file that remove was called for is gone     *)
(* when remove returns, and no other is.                                   *)
RemovesTheFile ==
  FALSE \notin Outcomes => present = {f \in Files : result[f] = None}
=============================================================================

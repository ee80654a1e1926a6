----------------------------- MODULE FtpSource -----------------------------
(***************************************************************************)
(* The URLs with which a listing of FTP asks for its folders               *)
(* (ftp_worker.cpp: fixSlashesInURL, recursiv_list_FTP).                   *)
(*                                                                         *)
(* A path or a name is a sequence of tokens: "/", " ", "%", or a run of    *)
(* characters that need no escape; a URL holds escapes, too.  A name with  *)
(* the text "%20" is "%" followed by "20".                                 *)
(***************************************************************************)
EXTENDS Listing

CONSTANTS
  Token,         \* the tokens of paths and names
  source_path,   \* dir.from.path: it ends with a slash (main.cpp:37)
  folder_name    \* folder_name[d]: the name of folder d

Escapes == {"%2F", "%20", "%25"}

ASSUME FtpAssumption ==
  /\ {"/", " ", "%"} \subseteq Token /\ Token \intersect Escapes = {}
  /\ source_path \in Seq(Token)
  /\ source_path # <<>> /\ source_path[Len(source_path)] = "/"
  /\ folder_name \in [Folders -> Seq(Token)]
  /\ name \in [Files -> Seq(Token)]

-----------------------------------------------------------------------------
(* Faulty variants of the definitions below, as in Scanner.                *)

(* The slashes stay escaped.                                               *)
SlashesEscaped(u) == u

-----------------------------------------------------------------------------
(* Names and URLs *)

(* curl_easy_escape, with the tokens that occur.                           *)
Escaped(c) ==
  CASE c = "/" -> "%2F" [] c = " " -> "%20" [] c = "%" -> "%25" [] OTHER -> c

Escape(s) == [i \in DOMAIN s |-> Escaped(s[i])]

(* The first loop makes every "%2F" a slash and ends with pos = npos, from *)
(* where the second loop, over double slashes, finds nothing.              *)
fixSlashesInURL(u) == [i \in DOMAIN u |-> IF u[i] = "%2F" THEN "/" ELSE u[i]]

(* What a server makes of the escapes.                                     *)
Decoded(c) ==
  CASE c = "%2F" -> "/" [] c = "%20" -> " " [] c = "%25" -> "%" [] OTHER -> c

Decode(u) == [i \in DOMAIN u |-> Decoded(u[i])]

(* subfolder: a recursive call appends the name of the folder and a slash. *)
subfolder[d \in Folders \union {Root}] ==
  IF d = Root THEN source_path ELSE subfolder[parent[d]] \o folder_name[d] \o <<"/">>

ListUrl(d) == fixSlashesInURL(Escape(subfolder[d])) \o <<"*">>

(* A wildcard request: what follows the last bare slash is the pattern,    *)
(* what precedes it the folder.                                            *)
LastSlash(u) ==
  CHOOSE i \in 0..Len(u) : /\ i = 0 \/ u[i] = "/"
                           /\ \A j \in (i + 1)..Len(u) : u[j] # "/"

AskedFolder(u) == Decode(SubSeq(u, 1, LastSlash(u)))
AskedPattern(u) == SubSeq(u, LastSlash(u) + 1, Len(u))

-----------------------------------------------------------------------------
(* Properties *)

(* The URL of a folder that is listed asks the server for every entry of   *)
(* that folder, whatever characters its name holds.                        *)
AsksForFolder ==
  conf.protocol = "FTP" =>
    \A d \in Folders \union {Root} :
      front = d \/ (d = Root /\ st = "start") =>
        /\ AskedFolder(ListUrl(d)) = subfolder[d]
        /\ AskedPattern(ListUrl(d)) = <<"*">>
=============================================================================

------------------------------ MODULE Listing ------------------------------
(***************************************************************************)
(* One listing of a source: scaner_dirs (filesystem_worker.cpp),           *)
(* scaner_FTP with recursiv_list_FTP (ftp_worker.cpp) and scaner_S3        *)
(* (s3_worker.cpp), from the check of the mask to the returned status.     *)
(* For each file it calls func, process_file of module Scanner, with the   *)
(* group of transfers the directory's mode asks for.                       *)
(*                                                                         *)
(* Abstracted: the order of the entries of a folder, of the objects of a   *)
(* page and of the nested folders (any); names and patterns (what matches  *)
(* and what a rewrite yields are constants); the client set-up.  The       *)
(* source does not change while it is listed: module Mover covers that.    *)
(***************************************************************************)
EXTENDS Integers, Sequences, FiniteSets

CONSTANTS
  Files, Folders,  \* the regular files and the folders below the source
  parent,          \* parent[e]: the folder e lies in
  above,           \* above[e]: that folder and the folders it lies in
  name,            \* name[f]: the file name of f, its own in its folder
  Matching,        \* the names that match the mask of the source
  Masks,           \* the masks a destination may have, None without one
  rewritten,       \* rewritten[m][n]: what RE2::Replace makes of name n
  Configs,         \* the configurations, see Config
  Outcomes,        \* what a request or a step of an iterator may return
  Root, None

FileMode == {"COPY", "BALANCER", "ONLY_MOVE"}
Protocol == {"DIR", "FTP", "S3"}
Names == DOMAIN rewritten[None]

(* The parameters a listing reads: TaskParams with the masks of its        *)
(* destinations in their order, and whether the source holds nothing yet.  *)
Config == [protocol : Protocol, recursiv : BOOLEAN, file_mode : FileMode,
           mask : {"none", "valid", "invalid"}, to : Seq(Masks),
           empty : BOOLEAN]

Entries == Files \union Folders

ASSUME ListingAssumption ==
  /\ IsFiniteSet(Entries) /\ Files \intersect Folders = {}
  /\ Root \notin Entries /\ None \notin Entries \union {Root}
  /\ parent \in [Entries -> Folders \union {Root}]
  /\ above \in [Entries -> SUBSET (Folders \union {Root})]
  /\ \A e \in Entries :
       /\ parent[e] \in above[e] /\ e \notin above[e]
       /\ above[e] = {parent[e]} \union
            (IF parent[e] = Root THEN {} ELSE above[parent[e]])
       /\ \A d \in above[e] \ {Root} : above[d] \subseteq above[e]
       /\ Root \in above[e]
       /\ \A d \in above[e] :
            \E c \in (above[e] \union {e}) \ {Root} : parent[c] = d
  /\ None \in Masks /\ Matching \subseteq Names
  /\ rewritten \in [Masks -> [Names -> Names]]
  /\ name \in [Files -> Names]
  /\ \A f, g \in Files : f # g /\ parent[f] = parent[g] => name[f] # name[g]
  /\ Configs \subseteq Config
  /\ Outcomes \subseteq BOOLEAN /\ TRUE \in Outcomes

VARIABLES
  conf,        \* the configuration of the directory
  st,          \* how far the listing is, or what it returned
  todo,        \* entries found and not reached yet
  front,       \* the entry the loop is at
  enter,       \* recursion pending: whether the iterator enters a folder
  rest,        \* objects of the bucket that no page has shown yet
  round_robin, \* the index that rotates the destinations
  calls,       \* calls[f]: the groups func was called with for f
  unlisted     \* folders found whose content was not listed

found == <<todo, front, enter, rest>>
listingVars == <<conf, st, found, round_robin, calls, unlisted>>

(* "trap" stands for undefined behaviour: a remainder modulo zero, or      *)
(* disable_recursion_pending of an end iterator.                           *)
Returned == {"true", "false", "trap"}
St == {"start", "page", "list"} \union Returned

Op == [to : Nat \ {0}, name : Names, folder : Folders \union {Root}]
Group == [mode : FileMode, ops : Seq(Op)]

ListingTypeOK ==
  /\ conf \in Configs
  /\ st \in St
  /\ todo \subseteq Entries
  /\ front \in Entries \union {None}
  /\ enter \in BOOLEAN
  /\ rest \subseteq Files
  /\ round_robin \in 0..Len(conf.to)
  /\ \A f \in Files : \A i \in DOMAIN calls[f] :
       calls[f][i].mode \in FileMode /\ \A o \in DOMAIN calls[f][i].ops :
         /\ calls[f][i].ops[o] \in Op
         /\ calls[f][i].ops[o].to \in DOMAIN conf.to
  /\ unlisted \subseteq Folders

Init ==
  /\ conf \in Configs
  /\ st = "start"
  /\ todo = {} /\ front = None /\ enter = TRUE /\ rest = {}
  /\ round_robin = 0
  /\ calls = [f \in Files |-> <<>>]
  /\ unlisted = {}

-----------------------------------------------------------------------------
(* Files and groups *)

Contents(d) == IF conf.empty THEN {} ELSE {e \in Entries : parent[e] = d}

(* A bucket has no folders: the keys below the prefix, or with a delimiter *)
(* those directly below it.                                                *)
Objects == IF conf.empty THEN {}
           ELSE {f \in Files : conf.recursiv \/ parent[f] = Root}

Matches(f) == conf.mask = "none" \/ name[f] \in Matching

(* replace_filename: the name n for a destination with mask m.             *)
Replaced(n, m) == IF conf.mask = "none" THEN n ELSE rewritten[m][n]

Size == Len(conf.to)
Balancer == Size # 1 /\ conf.file_mode = "BALANCER"

-----------------------------------------------------------------------------
(* Faulty variants of the definitions below, as in Scanner.                *)

(* Every listing balances the way that of FTP does.                        *)
RotationOfAll == Size

(* The index is not advanced.                                              *)
SameIndex(n) == round_robin

(* The index goes on past the last destination.                            *)
IndexPast(n) == round_robin + n

(* Each file starts one destination after the file before it started.      *)
TurnByOne(n) == IF n = 0 THEN round_robin ELSE (round_robin % Size) + 1

(* The token of the last page is not taken over.                           *)
TokenKept == conf.protocol # "S3"

(* The continuation token is not sent: every page is the first one.        *)
PageFromStart(page) ==
  /\ page \subseteq Objects
  /\ page = {} => rest = {}
  /\ rest' = rest \ page

(* The loop over the pages ends after the first.                           *)
NoMorePages == TRUE

-----------------------------------------------------------------------------
(* The destinations of the next group.  Only the listing of FTP pushes all *)
(* the destinations of a balanced file.                                    *)
Rotation == IF conf.protocol = "FTP" THEN Size ELSE 1

Dests ==
  IF Balancer THEN [i \in 1..Rotation |-> ((round_robin + i - 1) % Size) + 1]
              ELSE [i \in 1..Size |-> i]

NextIndex(n) == IF n = 0 THEN round_robin ELSE ((round_robin + n - 1) % Size) + 1

(* replace_filename changes relative_path in place: each name is computed  *)
(* from the one before it.                                                 *)
NamesFor(f, dests) ==
  LET names[i \in 0..Len(dests)] ==
        IF i = 0 THEN name[f] ELSE Replaced(names[i - 1], conf.to[dests[i]])
  IN names

GroupOf(f, dests, names) ==
  [mode |-> IF Size = 1 THEN "ONLY_MOVE"
            ELSE IF Balancer /\ Size > 0 THEN "BALANCER" ELSE "COPY",
   ops |-> [i \in DOMAIN dests |->
              [to |-> dests[i], name |-> names[i], folder |-> parent[f]]]]

-----------------------------------------------------------------------------
(* The loops *)

Return(status) ==
  /\ st' = status
  /\ UNCHANGED <<conf, found, round_robin, calls, unlisted>>

(* A mask that is no regular expression ends the listing at once.          *)
InvalidMask ==
  /\ st = "start" /\ conf.mask = "invalid"
  /\ Return("false")

Disabled == conf.protocol = "DIR" /\ ~conf.recursiv

(* The iterator of the source is made, and told not to enter the folder it *)
(* may be at: it must not be at the end.  On FTP the entries of the source *)
(* are requested and fill the queue; where there is none, the request says *)
(* that no file was found.                                                 *)
NotFound == conf.protocol = "FTP" /\ Contents(Root) = {}

OpenSource ==
  /\ st = "start" /\ conf.mask # "invalid" /\ conf.protocol # "S3"
  /\ \/ (FALSE \in Outcomes \/ NotFound) /\ Return("false")
     \/ Disabled /\ Contents(Root) = {} /\ Return("trap")
     \/ /\ ~(Disabled /\ Contents(Root) = {}) /\ ~NotFound
        /\ st' = "list"
        /\ todo' = Contents(Root)
        /\ enter' = ~Disabled
        /\ UNCHANGED <<conf, front, rest, round_robin, calls, unlisted>>

(* The request of the first page is prepared.                              *)
OpenBucket ==
  /\ st = "start" /\ conf.mask # "invalid" /\ conf.protocol = "S3"
  /\ st' = "page"
  /\ rest' = Objects
  /\ UNCHANGED <<conf, todo, front, enter, round_robin, calls, unlisted>>

(* A page shows some of the objects not shown yet, and a token for the     *)
(* next page while there are more.                                         *)
Page(page) ==
  /\ page \subseteq rest
  /\ page = {} => rest = {}
  /\ rest' = rest \ page

NextPage ==
  /\ st = "page"
  /\ \/ FALSE \in Outcomes /\ Return("false")
     \/ /\ \E page \in SUBSET Files : Page(page) /\ todo' = page
        /\ st' = "list"
        /\ UNCHANGED <<conf, front, enter, round_robin, calls, unlisted>>

(* The loop comes to its next entry; an iterator may throw.                *)
NextEntry ==
  /\ st = "list" /\ front = None
  /\ \/ \E e \in todo :
          /\ front' = e
          /\ todo' = todo \ {e}
          /\ UNCHANGED <<conf, st, enter, rest, round_robin, calls, unlisted>>
     \/ conf.protocol = "DIR" /\ FALSE \in Outcomes /\ Return("false")

(* A file that does not match is passed over.  On FTP continue leaves it   *)
(* at the front of the queue: the loop repeats this for ever.              *)
PassFile ==
  /\ st = "list" /\ front \in Files /\ ~Matches(front)
  /\ conf.protocol # "FTP"
  /\ front' = None
  /\ enter' = TRUE
  /\ UNCHANGED <<conf, st, todo, rest, round_robin, calls, unlisted>>

(* Any other file is handed to func.  A balanced one without a destination *)
(* takes a remainder modulo zero, except on FTP, where nothing is pushed.  *)
HandOut ==
  /\ st = "list" /\ front \in Files /\ Matches(front)
  /\ IF Balancer /\ Size = 0 /\ conf.protocol # "FTP"
       THEN Return("trap")
       ELSE /\ calls' = [calls EXCEPT ![front] =
                 Append(@, GroupOf(front, Dests, NamesFor(front, Dests)))]
            /\ round_robin' = IF Balancer THEN NextIndex(Rotation) ELSE round_robin
            /\ front' = None
            /\ enter' = TRUE
            /\ UNCHANGED <<conf, st, todo, rest, unlisted>>

(* The iterator enters a folder unless recursion was disabled, which holds *)
(* for the first entry only.  On FTP a folder is listed by a recursive     *)
(* call whose result is ignored.                                           *)
Folder ==
  /\ st = "list" /\ front \in Folders
  /\ LET entered == IF conf.protocol = "DIR" THEN enter ELSE conf.recursiv
     IN \/ /\ entered
           /\ todo' = todo \union Contents(front)
           /\ UNCHANGED unlisted
        \/ /\ ~entered \/ (conf.protocol = "FTP" /\ FALSE \in Outcomes)
           /\ unlisted' = unlisted \union {front}
           /\ UNCHANGED todo
  /\ front' = None
  /\ enter' = TRUE
  /\ UNCHANGED <<conf, st, rest, round_robin, calls>>

(* A folder of a directory cannot be opened: the iterator throws.          *)
FolderFails ==
  /\ st = "list" /\ front \in Folders
  /\ conf.protocol = "DIR" /\ enter /\ FALSE \in Outcomes
  /\ Return("false")

(* The continuation token is empty.                                        *)
LastPage == rest = {}

(* Nothing is left of the folders, or of the page.                         *)
Exhausted ==
  /\ st = "list" /\ todo = {} /\ front = None
  /\ Return(IF LastPage THEN "true" ELSE "page")

ListingNext ==
  \/ InvalidMask
  \/ OpenSource
  \/ OpenBucket
  \/ NextPage
  \/ NextEntry
  \/ PassFile
  \/ HandOut
  \/ Folder
  \/ FolderFails
  \/ Exhausted

ListingSpec == Init /\ [][ListingNext]_listingVars

(* The thread that runs the listing goes on with it.                       *)
ListingFairSpec == ListingSpec /\ WF_listingVars(ListingNext)
-----------------------------------------------------------------------------
(* Properties *)

(* Every file is handed to process_file at most once, over folders and     *)
(* pages, and only if it matches; without recursion a bucket or an FTP     *)
(* server gives only what lies directly in the source.                     *)
HandedOnce ==
  \A f \in Files : calls[f] # <<>> =>
    /\ Len(calls[f]) = 1
    /\ Matches(f)
    /\ conf.protocol # "DIR" /\ ~conf.recursiv => parent[f] = Root

(* A listing that returns true has handed out every matching file in its   *)
(* scope, but those below a folder whose own listing failed (FTP), or that *)
(* was the first entry of a directory listed without recursion: at most    *)
(* one folder, and none with recursion.                                    *)
CompleteWhenTrue ==
  st = "true" =>
    /\ \A f \in Files :
         \/ calls[f] # <<>>
         \/ conf.empty
         \/ ~Matches(f)
         \/ above[f] \intersect unlisted # {}
         \/ conf.protocol = "S3" /\ ~conf.recursiv /\ parent[f] # Root
    /\ conf.protocol = "DIR" =>
         Cardinality(unlisted) <= IF conf.recursiv THEN 0 ELSE 1

(* A file has one group, with the size and the mode that module Scanner    *)
(* gives the groups of a directory (GroupSize, OnlyMove); the operations   *)
(* go to different destinations.                                           *)
GroupAsScanner ==
  \A f \in Files : \A i \in DOMAIN calls[f] :
    LET g == calls[f][i] IN
      /\ Len(g.ops) = IF conf.file_mode = "BALANCER" /\ conf.protocol # "FTP"
                        THEN 1 ELSE Size
      /\ g.mode = "ONLY_MOVE" <=> Size = 1
      /\ \A j, k \in DOMAIN g.ops : j # k => g.ops[j].to # g.ops[k].to

(* The files that go to destination k.                                     *)
GivenTo(k) ==
  {f \in Files : \E i \in DOMAIN calls[f] : \E j \in DOMAIN calls[f][i].ops :
                   calls[f][i].ops[j].to = k}

(* A balanced directory gives its destinations the same number of files,   *)
(* but for one, at every moment of a listing.                              *)
Balanced ==
  conf.file_mode = "BALANCER" =>
    \A j, k \in DOMAIN conf.to : Cardinality(GivenTo(j)) <= Cardinality(GivenTo(k)) + 1

(* The name of f before its k-th destination.                              *)
NameBefore(f, ops, k) == IF k = 1 THEN name[f] ELSE ops[k - 1].name

(* Two files meet at one place of a destination only if some mask, of that *)
(* destination or of one before it in the group, merges two different      *)
(* names they had: names rewritten in place, in the order of the           *)
(* destinations, with an index that turns from file to file, do not        *)
(* collide by themselves.                                                  *)
NamesApart ==
  \A f, g \in Files : \A o \in DOMAIN calls[f], p \in DOMAIN calls[g] :
    LET u == calls[f][o].ops
        v == calls[g][p].ops
    IN \A i \in DOMAIN u, j \in DOMAIN v :
         f # g /\ u[i] = v[j] =>
           \E k \in 1..i :
             /\ NameBefore(f, u, k) # NameBefore(g, v, k)
             /\ Replaced(NameBefore(f, u, k), conf.to[u[k].to])
                  = Replaced(NameBefore(g, v, k), conf.to[u[k].to])

(* A file on FTP that does not match is at the front of the queue.         *)
StuckOnMask == conf.protocol = "FTP" /\ front \in Files /\ ~Matches(front)

(* Every listing comes to its end, but the one that meets on FTP a file    *)
(* that does not match: that one holds its thread for ever.                *)
ListingEnds == <>(st \in Returned \/ StuckOnMask)
=============================================================================

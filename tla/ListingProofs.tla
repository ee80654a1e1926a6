--------------------------- MODULE ListingProofs ---------------------------
(***************************************************************************)
(* Theorems about Listing, for every tree, bucket and configuration that   *)
(* satisfies ListingAssumption.  The inductive invariant relates what the  *)
(* loop has still to reach to what it has handed out.                      *)
(***************************************************************************)
EXTENDS Listing, FiniteSetTheorems, TLAPS

(* What the loop has found and not dealt with yet.                         *)
Live == todo \union {e \in Entries : e = front}

(* calls is a function on the files; the other types the proofs need.      *)
LType ==
  /\ conf \in Configs
  /\ st \in St
  /\ todo \subseteq Entries
  /\ front \in Entries \union {None}
  /\ rest \subseteq Files
  /\ calls = [f \in Files |-> calls[f]]
  /\ unlisted \subseteq Folders

(* Nothing has been found before the source is opened, and nothing is left *)
(* of a page when the next one is asked for.                               *)
LStart ==
  /\ st = "start" => Live = {} /\ rest = {} /\ \A f \in Files : calls[f] = <<>>
  /\ st = "page" => Live = {} /\ conf.protocol = "S3"
  /\ st \in {"start", "page"} => front = None

(* A bucket yields files only, and nothing else has pages.                 *)
LBucket ==
  /\ conf.protocol = "S3" => Live \subseteq Files
  /\ conf.protocol # "S3" => rest = {}

(* What is live, and what no page has shown, has not been handed out.      *)
LFresh ==
  /\ front \notin todo
  /\ rest \intersect Live = {}
  /\ \A f \in Files : f \in Live \/ f \in rest => calls[f] = <<>>

(* Nothing below a folder that is live was found before that folder is     *)
(* entered.                                                                *)
LTree ==
  \A d \in Folders, e \in Entries :
    d \in Live /\ d \in above[e] =>
      /\ e \notin Live
      /\ e \in Files => calls[e] = <<>>

(* Without recursion, a bucket or an FTP server shows the top only.        *)
LScope ==
  conf.protocol # "DIR" /\ ~conf.recursiv =>
    \A e \in Entries : e \in Live \/ e \in rest => parent[e] = Root

LInv == LType /\ LStart /\ LBucket /\ LFresh /\ LTree /\ LScope /\ HandedOnce

-----------------------------------------------------------------------------
(* The facts about the tree that the proofs use.                           *)
LEMMA Tree ==
  /\ Files \intersect Folders = {} /\ Entries = Files \union Folders
  /\ Root \notin Entries /\ None \notin Entries
  /\ \A e \in Entries :
       /\ parent[e] \in Folders \union {Root}
       /\ parent[e] \in above[e]
       /\ e \notin above[e]
       /\ parent[e] = Root => above[e] = {Root}
       /\ parent[e] # Root => above[e] = {parent[e]} \union above[parent[e]]
       /\ \A d \in Folders : d \in above[e] => above[d] \subseteq above[e]
       /\ Root \in above[e]
       /\ \A d \in above[e] : d \in Folders \union {Root}
       /\ \A d \in above[e] :
            \/ parent[e] = d
            \/ \E c \in Folders : c \in above[e] /\ parent[c] = d
<1>1. ASSUME NEW e \in Entries
      PROVE  /\ parent[e] \in Folders \union {Root}
             /\ parent[e] \in above[e]
             /\ e \notin above[e]
             /\ parent[e] = Root => above[e] = {Root}
             /\ parent[e] # Root => above[e] = {parent[e]} \union above[parent[e]]
             /\ \A d \in Folders : d \in above[e] => above[d] \subseteq above[e]
             /\ Root \in above[e]
             /\ \A d \in above[e] : d \in Folders \union {Root}
             /\ \A d \in above[e] :
                  \/ parent[e] = d
                  \/ \E c \in Folders : c \in above[e] /\ parent[c] = d
  <2>1. parent \in [Entries -> Folders \union {Root}] /\ Root \notin Folders
    BY ListingAssumption DEF ListingAssumption, Entries
  <2>2. /\ parent[e] \in above[e] /\ e \notin above[e]
        /\ above[e] = {parent[e]} \union
             (IF parent[e] = Root THEN {} ELSE above[parent[e]])
        /\ \A d \in above[e] \ {Root} : above[d] \subseteq above[e]
        /\ Root \in above[e]
        /\ \A d \in above[e] :
             \E c \in (above[e] \union {e}) \ {Root} : parent[c] = d
    BY ListingAssumption DEF ListingAssumption
  <2>3. above[e] \subseteq Folders \union {Root}
    BY ListingAssumption DEF ListingAssumption
  <2> QED BY <2>1, <2>2, <2>3
<1> QED BY <1>1, ListingAssumption DEF ListingAssumption, Entries

(* The contents of a folder lie directly in it.                            *)
LEMMA ContentsOf ==
  ASSUME NEW d
  PROVE  Contents(d) \subseteq Entries /\ \A e \in Contents(d) : parent[e] = d
BY DEF Contents

LEMMA ListingInit == Init => LInv
<1> SUFFICES ASSUME Init PROVE LInv
  OBVIOUS
<1>1. Live = {}
  BY Tree DEF Init, Live
<1> QED BY <1>1, Tree DEF Init, LInv, LType, LStart, LBucket, LFresh, LTree, LScope, HandedOnce, St, Returned

-----------------------------------------------------------------------------
(* One lemma per step *)

(* The listing returns, or goes on to its next page.                       *)
LEMMA ReturnStep ==
  ASSUME LInv, NEW status \in Returned \union {"page"}, Return(status),
         status = "page" => Live = {} /\ front = None /\ conf.protocol = "S3"
  PROVE  LInv'
<1>1. Live' = Live
  BY DEF Live, Return, found
<1> QED BY <1>1 DEF LInv, LType, LStart, LBucket, LFresh, LTree, LScope, HandedOnce,
                    Return, found, Returned, St, Matches

(* The source is opened: its own entries become live.                      *)
LEMMA OpenStep ==
  ASSUME LInv, OpenSource
  PROVE  LInv'
<1>1. CASE Return("false") \/ Return("trap")
  BY <1>1, ReturnStep DEF Returned
<1>2. CASE /\ st' = "list"
           /\ todo' = Contents(Root)
           /\ UNCHANGED <<conf, front, rest, round_robin, calls, unlisted>>
  <2>1. /\ front = None /\ rest = {} /\ \A f \in Files : calls[f] = <<>>
        /\ conf.protocol # "S3" /\ st = "start"
    BY DEF OpenSource, LInv, LStart
  <2>2. Live' = Contents(Root)
    BY <1>2, <2>1, Tree, ContentsOf DEF Live
  <2>3. LType' /\ LStart' /\ LBucket' /\ HandedOnce'
    BY <1>2, <2>1, <2>2, ContentsOf, Tree
    DEF LInv, LType, LStart, LBucket, HandedOnce, St, Returned, Matches
  <2>4. LFresh'
    BY <1>2, <2>1, <2>2, ContentsOf, Tree DEF LInv, LType, LFresh
  <2>5. LTree'
    BY <1>2, <2>1, <2>2, ContentsOf, Tree DEF LTree
  <2>6. LScope'
    BY <1>2, <2>1, <2>2, ContentsOf, Tree DEF LScope
  <2> QED BY <2>3, <2>4, <2>5, <2>6 DEF LInv
<1> QED BY <1>1, <1>2 DEF OpenSource

(* The bucket is opened: its objects wait for their page.                  *)
LEMMA BucketStep ==
  ASSUME LInv, OpenBucket
  PROVE  LInv'
<1>1. /\ st = "start" /\ Live = {} /\ front = None
      /\ \A f \in Files : calls[f] = <<>>
  BY DEF OpenBucket, LInv, LStart
<1>2. Live' = Live
  BY DEF OpenBucket, Live
<1>3. rest' \subseteq Files /\ (~conf.recursiv => \A f \in rest' : parent[f] = Root)
  BY DEF OpenBucket, Objects
<1> QED BY <1>1, <1>2, <1>3, Tree
        DEF OpenBucket, LInv, LType, LStart, LBucket, LFresh, LTree, LScope,
            HandedOnce, St, Returned, Matches

(* A page arrives: its objects move from rest to todo.                     *)
LEMMA PageStep ==
  ASSUME LInv, NextPage
  PROVE  LInv'
<1>1. CASE Return("false")
  BY <1>1, ReturnStep DEF Returned
<1>2. CASE /\ \E page \in SUBSET Files : Page(page) /\ todo' = page
           /\ st' = "list"
           /\ UNCHANGED <<conf, front, enter, round_robin, calls, unlisted>>
  <2>1. PICK page \in SUBSET Files : Page(page) /\ todo' = page
    BY <1>2
  <2>2. Live = {} /\ front = None /\ conf.protocol = "S3"
    BY DEF NextPage, LInv, LStart
  <2>3. Live' = page /\ page \subseteq rest /\ rest' = rest \ page
    BY <1>2, <2>1, <2>2, Tree DEF Live, Page
  <2>4. LTree'
    BY <2>1, <2>3, Tree DEF LTree
  <2> QED BY <1>2, <2>1, <2>2, <2>3, <2>4, Tree
          DEF LInv, LType, LStart, LBucket, LFresh, LScope, HandedOnce,
              St, Returned, Matches
<1> QED BY <1>1, <1>2 DEF NextPage

(* The loop goes to an entry that is live and stays so.                    *)
LEMMA EntryStep ==
  ASSUME LInv, NextEntry
  PROVE  LInv'
<1>1. CASE Return("false")
  BY <1>1, ReturnStep DEF Returned
<1>2. CASE \E e \in todo :
             /\ front' = e
             /\ todo' = todo \ {e}
             /\ UNCHANGED <<conf, st, enter, rest, round_robin, calls, unlisted>>
  <2>1. PICK e \in todo : front' = e /\ todo' = todo \ {e}
    BY <1>2
  <2>2. front = None /\ todo \subseteq Entries /\ st = "list"
    BY DEF NextEntry, LInv, LType
  <2>3. Live' = Live
    BY <2>1, <2>2, Tree DEF Live
  <2> QED BY <1>2, <2>1, <2>2, <2>3, Tree
          DEF LInv, LType, LStart, LBucket, LFresh, LTree, LScope, HandedOnce, Matches
<1> QED BY <1>1, <1>2 DEF NextEntry

(* The entry the loop is at is dealt with: it is no longer live.           *)
LEMMA FrontLeft ==
  ASSUME LInv, front \in Entries, front' = None, todo' = todo
  PROVE  Live' = Live \ {front} /\ front \in Live /\ Live' = todo
BY Tree DEF Live, LInv, LType, LFresh

(* A file that does not match is passed over.                              *)
LEMMA PassStep ==
  ASSUME LInv, PassFile
  PROVE  LInv'
<1>1. front \in Entries /\ front' = None /\ todo' = todo /\ st = "list"
  BY Tree DEF PassFile
<1>2. Live' = Live \ {front}
  BY <1>1, FrontLeft
<1> QED BY <1>1, <1>2, Tree
        DEF PassFile, LInv, LType, LStart, LBucket, LFresh, LTree, LScope, HandedOnce, Matches

(* A file is handed out: it was fresh, and no live folder is above it.     *)
LEMMA HandOutStep ==
  ASSUME LInv, HandOut
  PROVE  LInv'
<1>1. CASE Return("trap")
  BY <1>1, ReturnStep DEF Returned
<1>2. CASE /\ calls' = [calls EXCEPT ![front] =
                Append(@, GroupOf(front, Dests, NamesFor(front, Dests)))]
           /\ front' = None
           /\ UNCHANGED <<conf, st, todo, rest, unlisted>>
  <2> DEFINE g == GroupOf(front, Dests, NamesFor(front, Dests))
  <2> HIDE DEF g
  <2>1. front \in Files /\ front \in Entries /\ Matches(front) /\ st = "list"
    BY Tree DEF HandOut
  <2>2. Live' = Live \ {front} /\ front \in Live
    BY <1>2, <2>1, FrontLeft
  <2>3. calls[front] = <<>> /\ calls = [f \in Files |-> calls[f]]
    BY <2>1, <2>2 DEF LInv, LFresh, LType
  <2>4. calls'[front] = <<g>> /\ \A f \in Files \ {front} : calls'[f] = calls[f]
    BY <1>2, <2>1, <2>3 DEF g
  <2>5. LType'
    BY <1>2, <2>1, <2>3, Tree DEF LInv, LType
  <2>6. LStart' /\ LBucket' /\ LScope'
    BY <1>2, <2>1, <2>2, Tree DEF LInv, LStart, LBucket, LScope
  <2>7. LFresh'
    BY <1>2, <2>1, <2>2, <2>4, Tree DEF LInv, LType, LFresh
  <2>8. LTree'
    BY <2>1, <2>2, <2>4, Tree DEF LInv, LTree
  <2>9. HandedOnce'
    <3>1. Len(<<g>>) = 1
      OBVIOUS
    <3>2. conf.protocol # "DIR" /\ ~conf.recursiv => parent[front] = Root
      BY <2>1, <2>2 DEF LInv, LScope
    <3> QED BY <1>2, <2>1, <2>4, <3>1, <3>2 DEF LInv, HandedOnce, Matches
  <2> QED BY <2>5, <2>6, <2>7, <2>8, <2>9 DEF LInv
<1> QED BY <1>1, <1>2 DEF HandOut

(* A folder is entered: its contents become live.  None of them was, and   *)
(* what is below a live folder stays apart from what is live.              *)
LEMMA FolderStep ==
  ASSUME LInv, Folder
  PROVE  LInv'
<1>1. /\ front \in Folders /\ front \in Entries /\ front' = None /\ st = "list"
      /\ UNCHANGED <<conf, st, rest, round_robin, calls>>
      /\ unlisted' \subseteq Folders
  BY Tree DEF Folder, LInv, LType
<1>2. CASE todo' = todo
  <2>1. Live' = Live \ {front}
    BY <1>1, <1>2, FrontLeft
  <2>2. LType'
    BY <1>1, <1>2 DEF LInv, LType
  <2>3. LStart' /\ LBucket' /\ LScope'
    BY <1>1, <2>1 DEF LInv, LStart, LBucket, LScope
  <2>4. LFresh'
    BY <1>1, <1>2, <2>1, Tree DEF LInv, LFresh, LType
  <2>5. LTree'
    BY <1>1, <2>1 DEF LInv, LTree
  <2>6. HandedOnce'
    BY <1>1 DEF LInv, HandedOnce, Matches
  <2> QED BY <2>2, <2>3, <2>4, <2>5, <2>6 DEF LInv
<1>3. CASE /\ todo' = todo \union Contents(front)
           /\ IF conf.protocol = "DIR" THEN enter ELSE conf.recursiv
  <2> DEFINE C == Contents(front)
  <2>1. C \subseteq Entries /\ \A e \in C : parent[e] = front
    BY ContentsOf
  <2>2. front \in Live /\ front # Root /\ front \notin todo /\ todo \subseteq Entries
    BY <1>1, Tree DEF LInv, LType, LFresh, Live
  <2>3. Live = todo \union {front} /\ Live' = todo \union C
    BY <1>1, <1>3, <2>1, <2>2, Tree DEF Live
  <2>4. \A e \in C : /\ e \notin Live
                     /\ front \in above[e]
                     /\ e \in Files => calls[e] = <<>>
    BY <1>1, <2>1, <2>2, Tree DEF LInv, LTree
  <2>5. conf.protocol # "S3" /\ rest = {}
    BY <1>1, <2>2, Tree DEF LInv, LBucket
  <2>6. LType' /\ LStart' /\ LBucket' /\ HandedOnce'
    BY <1>1, <1>3, <2>1, <2>2, <2>5, Tree
    DEF LInv, LType, LStart, LBucket, HandedOnce, Matches
  <2>7. LFresh'
    BY <1>1, <1>3, <2>1, <2>2, <2>3, <2>4, <2>5, Tree DEF LInv, LFresh
  <2>8. LScope'
    BY <1>1, <1>3, <2>3, <2>5 DEF LScope
  <2>9. LTree'
    <3> SUFFICES ASSUME NEW d \in Folders, NEW e \in Entries,
                        d \in todo \union C, d \in above[e]
                 PROVE  e \notin todo \union C /\ (e \in Files => calls[e] = <<>>)
      BY <1>1, <2>3 DEF LTree
    <3>1. CASE d \in todo
      <4>1. e \notin Live /\ (e \in Files => calls[e] = <<>>)
        BY <2>3, <3>1 DEF LInv, LTree
      <4>2. d \notin above[front] /\ d # front
        BY <1>1, <2>2, <2>3, <3>1 DEF LInv, LTree
      <4>3. parent[e] # front
        BY <2>2, <4>2, Tree
      <4> QED BY <2>1, <2>3, <4>1, <4>3
    <3>2. CASE d \in C
      <4>1. front \in above[d] /\ front \notin above[front] /\ d # front
        BY <1>1, <2>4, <3>2, <2>2, Tree
      <4>2. front \in above[e]
        BY <4>1, Tree
      <4>3. e \notin Live /\ (e \in Files => calls[e] = <<>>)
        BY <1>1, <2>2, <4>2 DEF LInv, LTree
      <4>4. parent[e] # front
        <5>1. d \notin above[front]
          BY <1>1, <4>1, Tree
        <5> QED BY <2>2, <4>1, <5>1, Tree
      <4> QED BY <2>1, <2>3, <4>3, <4>4
    <3> QED BY <3>1, <3>2
  <2> QED BY <2>6, <2>7, <2>8, <2>9 DEF LInv
<1> QED BY <1>2, <1>3 DEF Folder

-----------------------------------------------------------------------------
(* Theorems *)

LEMMA ListingStep == LInv /\ [ListingNext]_listingVars => LInv'
<1> SUFFICES ASSUME LInv, [ListingNext]_listingVars PROVE LInv'
  OBVIOUS
<1>1. CASE UNCHANGED listingVars
  BY <1>1 DEF listingVars, found, LInv, LType, LStart, LBucket, LFresh, LTree,
              LScope, HandedOnce, Live, Matches
<1>2. CASE InvalidMask
  BY <1>2, ReturnStep DEF InvalidMask, Returned
<1>3. CASE FolderFails
  BY <1>3, ReturnStep DEF FolderFails, Returned
<1>4. CASE Exhausted
  <2>1. Live = {} /\ front = None /\ (~LastPage => conf.protocol = "S3")
    BY <1>4, Tree DEF Exhausted, LastPage, Live, LInv, LBucket
  <2>2. PICK status \in {"true", "page"} :
          Return(status) /\ (status = "page" => ~LastPage)
    BY <1>4 DEF Exhausted
  <2> QED BY <2>1, <2>2, ReturnStep DEF Returned
<1> QED BY <1>1, <1>2, <1>3, <1>4, OpenStep, BucketStep, PageStep, EntryStep,
           PassStep, HandOutStep, FolderStep DEF ListingNext

(* Every file is handed to process_file at most once in one listing, and   *)
(* only if it matches the mask and lies in the scope of the source.        *)
THEOREM HandedAtMostOnce == ListingSpec => []HandedOnce
<1>1. LInv => HandedOnce
  BY DEF LInv
<1> QED BY <1>1, ListingInit, ListingStep, PTL DEF ListingSpec

-----------------------------------------------------------------------------
(* Completeness *)

(* Where a file is on its way to being handed out.                         *)
Pending(f) ==
  \/ f \in Live \/ f \in rest
  \/ \E d \in Folders : d \in Live /\ d \in above[f]

(* What CompleteWhenTrue accepts of a file.                                *)
Settled(f) ==
  \/ calls[f] # <<>>
  \/ conf.empty
  \/ ~Matches(f)
  \/ above[f] \intersect unlisted # {}
  \/ conf.protocol = "S3" /\ ~conf.recursiv /\ parent[f] # Root

(* Until the listing has failed, every file is pending or settled.         *)
LCover ==
  st \in {"page", "list", "true"} => \A f \in Files : Settled(f) \/ Pending(f)

LDone == st = "true" => Live = {} /\ rest = {}

(* Only the first entry of a directory may be passed over.                 *)
LUnlisted ==
  /\ enter \in BOOLEAN
  /\ st = "start" => unlisted = {}
  /\ conf.protocol = "DIR" /\ (conf.recursiv \/ ~enter) => unlisted = {}
  /\ conf.protocol = "DIR" /\ conf.recursiv => enter
  /\ conf.protocol = "DIR" => \E d \in Folders \union {Root} : unlisted \subseteq {d}

CInv == LInv /\ LCover /\ LDone /\ LUnlisted

LEMMA CInvImplies == CInv => CompleteWhenTrue
<1> SUFFICES ASSUME CInv, st = "true"
             PROVE  /\ \A f \in Files : Settled(f)
                    /\ conf.protocol = "DIR" =>
                         Cardinality(unlisted) <= IF conf.recursiv THEN 0 ELSE 1
  BY DEF CompleteWhenTrue, Settled
<1>1. \A f \in Files : Settled(f)
  BY DEF CInv, LCover, LDone, Pending
<1>2. ASSUME conf.protocol = "DIR"
      PROVE  Cardinality(unlisted) <= IF conf.recursiv THEN 0 ELSE 1
  <2>1. CASE unlisted = {}
    BY <2>1, FS_EmptySet
  <2>2. CASE unlisted # {}
    <3>1. PICK d : unlisted = {d}
      BY <1>2, <2>2 DEF CInv, LUnlisted
    <3>2. Cardinality(unlisted) = 1
      BY <3>1, FS_Singleton
    <3> QED BY <1>2, <2>2, <3>2 DEF CInv, LUnlisted
  <2> QED BY <2>1, <2>2
<1> QED BY <1>1, <1>2

LEMMA CompleteInit == Init => CInv
BY ListingInit, Tree DEF Init, CInv, LCover, LDone, LUnlisted

(* The listing returns, or goes on to its next page.                       *)
LEMMA ReturnCovers ==
  ASSUME CInv, NEW status \in Returned \union {"page"}, Return(status),
         status \in {"page", "true"} => st = "list" /\ Live = {},
         status = "true" => rest = {}
  PROVE  (LCover /\ LDone /\ LUnlisted)'
<1>1. Live' = Live /\ \A f \in Files : (Pending(f)' <=> Pending(f)) /\ (Settled(f)' <=> Settled(f))
  BY DEF Live, Return, found, Pending, Settled, Matches
<1>2. LCover'
  BY <1>1 DEF CInv, LCover, Return, Returned
<1> QED BY <1>1, <1>2 DEF CInv, LDone, LUnlisted, Return, found, Returned

LEMMA OpenCovers ==
  ASSUME CInv, OpenSource
  PROVE  (LCover /\ LDone /\ LUnlisted)'
<1>1. CASE Return("false") \/ Return("trap")
  BY <1>1, ReturnCovers DEF Returned
<1>2. CASE /\ st' = "list"
           /\ todo' = Contents(Root)
           /\ enter' = ~Disabled
           /\ UNCHANGED <<conf, front, rest, round_robin, calls, unlisted>>
  <2>1. st = "start" /\ front = None /\ unlisted = {}
    BY DEF OpenSource, CInv, LInv, LStart, LUnlisted
  <2>2. Live' = Contents(Root)
    BY <1>2, <2>1, Tree, ContentsOf DEF Live
  <2>3. ASSUME NEW f \in Files, ~conf.empty
        PROVE  Pending(f)'
    <3>1. Contents(Root) = {e \in Entries : parent[e] = Root}
      BY <2>3 DEF Contents
    <3>2. \/ parent[f] = Root
          \/ \E c \in Folders : c \in above[f] /\ parent[c] = Root
      BY Tree
    <3> QED BY <2>2, <3>1, <3>2, Tree DEF Pending
  <2>4. LCover'
    BY <1>2, <2>3 DEF LCover, Settled
  <2>5. LUnlisted'
    BY <1>2, <2>1 DEF LUnlisted, Disabled
  <2> QED BY <1>2, <2>4, <2>5 DEF LDone
<1> QED BY <1>1, <1>2 DEF OpenSource

LEMMA BucketCovers ==
  ASSUME CInv, OpenBucket
  PROVE  (LCover /\ LDone /\ LUnlisted)'
<1>1. ASSUME NEW f \in Files
      PROVE  Settled(f)' \/ Pending(f)'
  BY DEF OpenBucket, Objects, Settled, Pending
<1>2. LCover'
  BY <1>1 DEF LCover
<1> QED BY <1>2 DEF OpenBucket, CInv, LDone, LUnlisted

LEMMA PageCovers ==
  ASSUME CInv, NextPage
  PROVE  (LCover /\ LDone /\ LUnlisted)'
<1>1. CASE Return("false")
  BY <1>1, ReturnCovers DEF Returned
<1>2. CASE /\ \E page \in SUBSET Files : Page(page) /\ todo' = page
           /\ st' = "list"
           /\ UNCHANGED <<conf, front, enter, round_robin, calls, unlisted>>
  <2>1. PICK page \in SUBSET Files : Page(page) /\ todo' = page
    BY <1>2
  <2>2. st = "page" /\ Live = {}
    BY DEF NextPage, CInv, LInv, LStart
  <2>3. page \subseteq Live' /\ rest = page \union rest'
    BY <2>1, Tree DEF Live, Page
  <2>4. ASSUME NEW f \in Files
        PROVE  Settled(f)' \/ Pending(f)'
    <3>1. Settled(f) \/ Pending(f)
      BY <2>2 DEF CInv, LCover
    <3>2. Settled(f) => Settled(f)'
      BY <1>2 DEF Settled, Matches
    <3> QED BY <2>2, <2>3, <3>1, <3>2 DEF Pending
  <2>5. LCover'
    BY <2>4 DEF LCover
  <2> QED BY <1>2, <2>5 DEF CInv, LDone, LUnlisted
<1> QED BY <1>1, <1>2 DEF NextPage

LEMMA EntryCovers ==
  ASSUME CInv, NextEntry
  PROVE  (LCover /\ LDone /\ LUnlisted)'
<1>1. CASE Return("false")
  BY <1>1, ReturnCovers DEF Returned
<1>2. CASE \E e \in todo :
             /\ front' = e
             /\ todo' = todo \ {e}
             /\ UNCHANGED <<conf, st, enter, rest, round_robin, calls, unlisted>>
  <2>1. PICK e \in todo : front' = e /\ todo' = todo \ {e}
    BY <1>2
  <2>2. front = None /\ todo \subseteq Entries /\ st = "list"
    BY DEF NextEntry, CInv, LInv, LType
  <2>3. Live' = Live
    BY <2>1, <2>2, Tree DEF Live
  <2>4. LCover'
    BY <1>2, <2>2, <2>3 DEF CInv, LCover, Settled, Pending, Matches
  <2> QED BY <1>2, <2>2, <2>4 DEF CInv, LDone, LUnlisted
<1> QED BY <1>1, <1>2 DEF NextEntry

(* A file the loop leaves is settled; the others are where they were.      *)
LEMMA FileCovers ==
  ASSUME CInv, st = "list", st' = "list", NEW e \in Files, e = front, Settled(e)',
         front' = None, todo' = todo, enter' = TRUE,
         UNCHANGED <<conf, rest, unlisted>>,
         \A f \in Files \ {e} : calls'[f] = calls[f]
  PROVE  (LCover /\ LDone /\ LUnlisted)'
<1>1. front \in Entries /\ front \notin Folders
  BY Tree
<1>2. Live' = Live \ {e}
  BY <1>1, FrontLeft DEF CInv
<1>3. ASSUME NEW f \in Files \ {e}
      PROVE  (Settled(f) \/ Pending(f)) => (Settled(f) \/ Pending(f))'
  BY <1>1, <1>2 DEF Settled, Pending, Matches
<1>4. LCover'
  BY <1>3 DEF CInv, LCover
<1> QED BY <1>4 DEF CInv, LDone, LUnlisted

LEMMA PassCovers ==
  ASSUME CInv, PassFile
  PROVE  (LCover /\ LDone /\ LUnlisted)'
<1>1. PICK e \in Files : e = front /\ ~Matches(e)
  BY DEF PassFile
<1>2. Settled(e)'
  BY <1>1 DEF PassFile, Settled, Matches
<1> QED BY <1>1, <1>2, FileCovers DEF PassFile

LEMMA HandOutCovers ==
  ASSUME CInv, HandOut
  PROVE  (LCover /\ LDone /\ LUnlisted)'
<1>1. CASE Return("trap")
  BY <1>1, ReturnCovers DEF Returned
<1>2. CASE /\ calls' = [calls EXCEPT ![front] =
                Append(@, GroupOf(front, Dests, NamesFor(front, Dests)))]
           /\ front' = None /\ enter' = TRUE
           /\ UNCHANGED <<conf, st, todo, rest, unlisted>>
  <2> DEFINE g == GroupOf(front, Dests, NamesFor(front, Dests))
  <2> HIDE DEF g
  <2>1. front \in Files /\ front \in Entries /\ st = "list"
    BY Tree DEF HandOut
  <2>2. calls[front] = <<>> /\ calls = [f \in Files |-> calls[f]]
    BY <2>1 DEF CInv, LInv, LFresh, LType, Live
  <2>3. calls'[front] = <<g>> /\ \A f \in Files \ {front} : calls'[f] = calls[f]
    BY <1>2, <2>1, <2>2 DEF g
  <2>4. PICK e \in Files : e = front
    BY <2>1
  <2>5. Settled(e)'
    <3>1. calls'[e] # <<>>
      BY <2>3, <2>4
    <3> QED BY <3>1 DEF Settled
  <2> QED BY <1>2, <2>1, <2>3, <2>4, <2>5, FileCovers
<1> QED BY <1>1, <1>2 DEF HandOut

(* Below a folder that is entered every file is pending again: it lies in  *)
(* the folder or below one of its folders.                                 *)
LEMMA FolderCovers ==
  ASSUME CInv, Folder
  PROVE  (LCover /\ LDone /\ LUnlisted)'
<1>1. /\ front \in Folders /\ front \in Entries /\ front \notin Files
      /\ front' = None /\ enter' = TRUE /\ st = "list"
      /\ UNCHANGED <<conf, st, rest, calls>>
  BY Tree DEF Folder
<1>2. Live = todo \union {front} /\ todo \subseteq Live' /\ todo \subseteq todo'
  BY <1>1 DEF Live, CInv, LInv, LType, Folder
<1>3. unlisted \subseteq unlisted'
  BY DEF Folder
<1>4. ASSUME NEW f \in Files
      PROVE  (Settled(f) \/ Pending(f))'
  <2>1. Settled(f) \/ Pending(f)
    BY <1>1 DEF CInv, LCover
  <2>2. CASE Settled(f)
    BY <1>1, <1>3, <2>2 DEF Settled, Matches
  <2>3. CASE Pending(f) /\ front \notin above[f]
    BY <1>1, <1>2, <2>3 DEF Pending
  <2>4. CASE front \in above[f]
    <3>1. CASE front \in unlisted'
      BY <2>4, <3>1 DEF Settled
    <3>2. CASE todo' = todo \union Contents(front) /\ ~conf.empty
      <4>1. Contents(front) = {e \in Entries : parent[e] = front}
        BY <3>2 DEF Contents
      <4>2. \/ parent[f] = front
            \/ \E c \in Folders : c \in above[f] /\ parent[c] = front
        BY <2>4, Tree
      <4>3. Contents(front) \subseteq Live'
        BY <3>2 DEF Live
      <4> QED BY <4>1, <4>2, <4>3, Tree DEF Pending
    <3>3. CASE conf.empty
      BY <1>1, <3>3 DEF Settled
    <3> QED BY <3>1, <3>2, <3>3 DEF Folder
  <2> QED BY <2>1, <2>2, <2>3, <2>4
<1>5. LCover'
  BY <1>4 DEF LCover
<1>6. LUnlisted'
  <2>1. CASE conf.protocol = "DIR" /\ enter
    BY <1>1, <2>1 DEF Folder, CInv, LUnlisted
  <2>2. CASE conf.protocol = "DIR" /\ ~enter
    <3>1. unlisted' = {front} /\ ~conf.recursiv
      BY <1>1, <2>2 DEF Folder, CInv, LUnlisted
    <3> QED BY <1>1, <2>2, <3>1 DEF LUnlisted
  <2>3. CASE conf.protocol # "DIR"
    BY <1>1, <2>3 DEF LUnlisted
  <2> QED BY <2>1, <2>2, <2>3
<1> QED BY <1>1, <1>5, <1>6 DEF LDone

LEMMA CompleteStep == CInv /\ [ListingNext]_listingVars => CInv'
<1> SUFFICES ASSUME CInv, [ListingNext]_listingVars
             PROVE  (LCover /\ LDone /\ LUnlisted)'
  BY ListingStep DEF CInv
<1>1. CASE UNCHANGED listingVars
  BY <1>1 DEF listingVars, found, CInv, LCover, LDone, LUnlisted, Settled,
              Pending, Live, Matches
<1>2. CASE InvalidMask
  BY <1>2, ReturnCovers DEF InvalidMask, Returned
<1>3. CASE FolderFails
  BY <1>3, ReturnCovers DEF FolderFails, Returned
<1>4. CASE Exhausted
  <2>1. Live = {} /\ st = "list"
    BY <1>4, Tree DEF Exhausted, Live
  <2>2. PICK status \in {"true", "page"} :
          Return(status) /\ (status = "true" => rest = {})
    BY <1>4 DEF Exhausted, LastPage
  <2> QED BY <2>1, <2>2, ReturnCovers DEF Returned
<1> QED BY <1>1, <1>2, <1>3, <1>4, OpenCovers, BucketCovers, PageCovers, EntryCovers,
           PassCovers, HandOutCovers, FolderCovers DEF ListingNext

(* A listing that returns true has handed out every matching file in its   *)
(* scope, but those below a nested FTP folder whose request failed and     *)
(* below the first entry of a directory listed without recursion.          *)
THEOREM CompleteListing == ListingSpec => []CompleteWhenTrue
BY CompleteInit, CompleteStep, CInvImplies, PTL DEF ListingSpec

-----------------------------------------------------------------------------
(* The groups *)

LEMMA Modulo ==
  ASSUME NEW n \in Nat \ {0}, NEW x \in Nat, x < 2 * n
  PROVE  x % n = IF x < n THEN x ELSE x - n
OBVIOUS

LEMMA Remainder ==
  ASSUME NEW n \in Nat \ {0}, NEW x \in Nat
  PROVE  x % n \in 0..(n - 1)
OBVIOUS

(* What GroupAsScanner says of one group.                                  *)
AsScanner(g) ==
  /\ Len(g.ops) = IF conf.file_mode = "BALANCER" /\ conf.protocol # "FTP"
                    THEN 1 ELSE Size
  /\ g.mode = "ONLY_MOVE" <=> Size = 1
  /\ \A j, k \in DOMAIN g.ops : j # k => g.ops[j].to # g.ops[k].to

(* The rotation names distinct destinations, as many as Scanner expects.   *)
LEMMA RotatedDests ==
  ASSUME Size \in Nat, round_robin \in 0..Size,
         ~(Balancer /\ Size = 0 /\ conf.protocol # "FTP")
  PROVE  \E n \in Nat :
           /\ DOMAIN Dests = 1..n
           /\ n = IF conf.file_mode = "BALANCER" /\ conf.protocol # "FTP"
                    THEN 1 ELSE Size
           /\ \A j, k \in 1..n : j # k => Dests[j] # Dests[k]
<1>1. CASE ~Balancer
  <2>1. Dests = [i \in 1..Size |-> i]
    BY <1>1 DEF Dests
  <2>2. Size = IF conf.file_mode = "BALANCER" /\ conf.protocol # "FTP" THEN 1 ELSE Size
    BY <1>1 DEF Balancer
  <2> QED BY <2>1, <2>2
<1>2. CASE Balancer
  <2> DEFINE dest(i) == ((round_robin + i - 1) % Size) + 1
  <2>1. Dests = [i \in 1..Rotation |-> dest(i)]
    BY <1>2 DEF Dests
  <2>2. Rotation = IF conf.file_mode = "BALANCER" /\ conf.protocol # "FTP" THEN 1 ELSE Size
    BY <1>2 DEF Rotation, Balancer
  <2>3. ASSUME NEW j \in 1..Rotation, NEW k \in 1..Rotation, j # k
        PROVE  dest(j) # dest(k)
    <3>1. Rotation = Size /\ Size > 0
      BY <2>3 DEF Rotation
    <3>2. \A i \in 1..Size : /\ round_robin + i - 1 \in Nat
                              /\ round_robin + i - 1 < 2 * Size
                              /\ Size \in Nat \ {0}
      BY <3>1
    <3>3. \A i \in 1..Size :
            dest(i) = IF round_robin + i - 1 < Size THEN round_robin + i
                                                    ELSE round_robin + i - Size
      <4> SUFFICES ASSUME NEW i \in 1..Size
                   PROVE  dest(i) = IF round_robin + i - 1 < Size
                                      THEN round_robin + i ELSE round_robin + i - Size
        OBVIOUS
      <4> DEFINE x == round_robin + i - 1
      <4>1. x \in Nat /\ x < 2 * Size /\ Size \in Nat \ {0}
        BY <3>2
      <4>2. x % Size = IF x < Size THEN x ELSE x - Size
        <5> HIDE DEF x
        <5> QED BY ONLY <4>1, Modulo
      <4> QED BY <4>1, <4>2
    <3> QED BY <2>3, <3>1, <3>3
  <2>4. Rotation \in Nat
    BY DEF Rotation
  <2> QED BY <2>1, <2>2, <2>3, <2>4
<1> QED BY <1>1, <1>2

LEMMA GroupShape ==
  ASSUME Size \in Nat, round_robin \in 0..Size,
         ~(Balancer /\ Size = 0 /\ conf.protocol # "FTP"), NEW f, NEW names
  PROVE  AsScanner(GroupOf(f, Dests, names))
<1> DEFINE g == GroupOf(f, Dests, names)
<1>1. PICK n \in Nat :
        /\ DOMAIN Dests = 1..n
        /\ n = IF conf.file_mode = "BALANCER" /\ conf.protocol # "FTP"
                 THEN 1 ELSE Size
        /\ \A j, k \in 1..n : j # k => Dests[j] # Dests[k]
  BY RotatedDests
<1>2. g.ops = [i \in 1..n |->
                 [to |-> Dests[i], name |-> names[i], folder |-> parent[f]]]
  BY <1>1 DEF GroupOf
<1>3. Len(g.ops) = n
  BY <1>2
<1>4. g.mode = "ONLY_MOVE" <=> Size = 1
  BY DEF GroupOf, Balancer
<1>5. \A j, k \in DOMAIN g.ops : j # k => g.ops[j].to # g.ops[k].to
  BY <1>1, <1>2
<1> HIDE DEF g
<1> QED BY <1>1, <1>3, <1>4, <1>5 DEF AsScanner, g

GInv == LInv /\ round_robin \in 0..Size /\ GroupAsScanner

LEMMA SizeNat == LInv => Size \in Nat
<1> SUFFICES ASSUME conf \in Configs PROVE Size \in Nat
  BY DEF LInv, LType
<1>1. conf.to \in Seq(Masks)
  BY ListingAssumption DEF ListingAssumption, Config
<1> QED BY <1>1 DEF Size

LEMMA GroupInit == Init => GInv
<1> SUFFICES ASSUME Init PROVE GInv
  OBVIOUS
<1>1. LInv /\ Size \in Nat
  BY ListingInit, SizeNat
<1>2. \A f \in Files : DOMAIN calls[f] = {}
  BY DEF Init
<1> QED BY <1>1, <1>2 DEF Init, GInv, GroupAsScanner

(* The index stays below the number of destinations, or reaches it.        *)
LEMMA IndexStep ==
  ASSUME Size \in Nat, round_robin \in 0..Size,
         ~(Balancer /\ Size = 0 /\ conf.protocol # "FTP"), Balancer
  PROVE  NextIndex(Rotation) \in 0..Size
<1>1. CASE Size = 0
  BY <1>1 DEF NextIndex, Rotation
<1>2. CASE Size # 0
  <2>1. Rotation \in Nat \ {0} /\ round_robin + Rotation - 1 \in Nat
    BY <1>2 DEF Rotation
  <2>2. (round_robin + Rotation - 1) % Size \in 0..(Size - 1)
    BY <1>2, <2>1, Remainder
  <2> QED BY <1>2, <2>1, <2>2 DEF NextIndex
<1> QED BY <1>1, <1>2

LEMMA GroupStep == GInv /\ [ListingNext]_listingVars => GInv'
<1> SUFFICES ASSUME GInv, [ListingNext]_listingVars
             PROVE  (round_robin \in 0..Size /\ GroupAsScanner)'
  BY ListingStep DEF GInv
<1>1. CASE UNCHANGED <<conf, round_robin, calls>>
  BY <1>1 DEF GInv, GroupAsScanner, Size
<1>2. CASE HandOut /\ ~UNCHANGED <<conf, round_robin, calls>>
  <2> DEFINE g == GroupOf(front, Dests, NamesFor(front, Dests))
  <2>1. /\ ~(Balancer /\ Size = 0 /\ conf.protocol # "FTP")
        /\ calls' = [calls EXCEPT ![front] = Append(@, g)]
        /\ round_robin' = IF Balancer THEN NextIndex(Rotation) ELSE round_robin
        /\ conf' = conf /\ front \in Files /\ front \in Entries
    BY <1>2, Tree DEF HandOut, Return
  <2>2. Size \in Nat /\ Size' = Size /\ round_robin \in 0..Size
    BY <2>1, SizeNat DEF GInv, Size
  <2>3. round_robin' \in 0..Size
    BY <2>1, <2>2, IndexStep
  <2>4. AsScanner(g)
    BY <2>1, <2>2, GroupShape
  <2> HIDE DEF g
  <2>5. calls[front] = <<>> /\ calls = [f \in Files |-> calls[f]]
    BY <2>1 DEF GInv, LInv, LFresh, LType, Live
  <2>6. calls'[front] = <<g>> /\ \A f \in Files \ {front} : calls'[f] = calls[f]
    BY <2>1, <2>5
  <2>7. ASSUME NEW f \in Files, NEW i \in DOMAIN calls'[f]
        PROVE  AsScanner(calls'[f][i])
    <3>1. CASE f = front
      BY <2>4, <2>6, <2>7, <3>1
    <3>2. CASE f # front
      BY <2>6, <2>7, <3>2 DEF GInv, GroupAsScanner, AsScanner
    <3> QED BY <3>1, <3>2
  <2>8. GroupAsScanner'
    BY <2>1, <2>2, <2>7 DEF GroupAsScanner, AsScanner
  <2> QED BY <2>2, <2>3, <2>8
<1> QED BY <1>1, <1>2 DEF listingVars, ListingNext, InvalidMask, OpenSource, OpenBucket,
           NextPage, NextEntry, PassFile, Folder, FolderFails, Exhausted, Return

(* A group has the size and the mode that module Scanner gives the groups  *)
(* of its directory, and its operations go to different destinations,      *)
(* wherever the round robin stands.                                        *)
THEOREM GroupsAsScanner == ListingSpec => []GroupAsScanner
<1>1. GInv => GroupAsScanner
  BY DEF GInv
<1> QED BY <1>1, GroupInit, GroupStep, PTL DEF ListingSpec
=============================================================================

----------------------------- MODULE NameProofs -----------------------------
(***************************************************************************)
(* More theorems about Listing: to whom a balanced directory gives its     *)
(* files, and under which names; and about FtpSource: what the names of    *)
(* folders ask of the server.                                              *)
(*                                                                         *)
(* Every group is GroupOf of a sequence of destinations, and its names are *)
(* the recursive function of NamesFor.  What that function and subfolder   *)
(* compute is shown with a least counterexample, from the well-founded     *)
(* order of Nat: of the destination, and of the depth of the folder.       *)
(***************************************************************************)
EXTENDS ListingProofs, FtpSource, WellFoundedInduction

-----------------------------------------------------------------------------
(* The names of a group                                                    *)

LEMMA LeastNatural ==
  ASSUME NEW T, T \subseteq Nat, T # {}
  PROVE  \E x \in T : \A y \in T : ~(y < x)
<1> DEFINE R == OpToRel(<, Nat)
<1>1. IsWellFoundedOn(R, Nat)
  BY NatLessThanWellFounded, Zenon
<1> HIDE DEF R
<1>2. \E x \in T : \A y \in T : <<y, x>> \notin R
  BY <1>1, WFMin
<1>3. \A x, y \in T : y < x => <<y, x>> \in R
  BY DEF R, OpToRel
<1> QED BY <1>2, <1>3

(* The recursive function of NamesFor is the function its text describes.  *)
LEMMA NamesUnfold ==
  ASSUME NEW f, NEW dests, Len(dests) \in Nat
  PROVE  NamesFor(f, dests) =
           [i \in 0..Len(dests) |->
              IF i = 0 THEN name[f]
              ELSE Replaced(NamesFor(f, dests)[i - 1], conf.to[dests[i]])]
<1> DEFINE Is(h, n) == h = [i \in 0..n |-> IF i = 0 THEN name[f]
                                           ELSE Replaced(h[i - 1], conf.to[dests[i]])]
           P(n) == \E h : Is(h, n)
<1>1. P(0)
  <2> DEFINE g == [i \in 0..0 |-> name[f]]
  <2>1. Is(g, 0)
    OBVIOUS
  <2> QED BY <2>1
<1>2. ASSUME NEW n \in Nat, P(n)
      PROVE  P(n + 1)
  <2>1. PICK h : Is(h, n)
    BY <1>2
  <2> DEFINE g == [i \in 0..(n + 1) |-> IF i <= n THEN h[i]
                                        ELSE Replaced(h[n], conf.to[dests[n + 1]])]
  <2>2. \A i \in 0..n : h[i] = IF i = 0 THEN name[f]
                               ELSE Replaced(h[i - 1], conf.to[dests[i]])
    BY <2>1
  <2>3. \A i \in 0..n : g[i] = h[i]
    OBVIOUS
  <2>4. g[n + 1] = Replaced(h[n], conf.to[dests[n + 1]])
    OBVIOUS
  <2> HIDE DEF g
  <2>5. ASSUME NEW i \in 0..(n + 1)
        PROVE  g[i] = IF i = 0 THEN name[f] ELSE Replaced(g[i - 1], conf.to[dests[i]])
    <3>1. CASE i \in 0..n
      <4>1. i = 0 \/ i - 1 \in 0..n
        BY <3>1
      <4> QED BY <2>2, <2>3, <3>1, <4>1
    <3>2. CASE i = n + 1
      BY <2>3, <2>4, <3>2
    <3> QED BY <3>1, <3>2
  <2>6. Is(g, n + 1)
    BY <2>5 DEF g
  <2> QED BY <2>6
<1>3. P(Len(dests))
  <2> HIDE DEF P
  <2> SUFFICES ASSUME {n \in Nat : ~P(n)} # {} PROVE FALSE
    OBVIOUS
  <2>1. PICK x \in Nat : ~P(x) /\ \A y \in Nat : ~P(y) => ~(y < x)
    <3> DEFINE T == {n \in Nat : ~P(n)}
    <3>1. T \subseteq Nat /\ T # {}
      OBVIOUS
    <3> HIDE DEF T
    <3>2. \E x \in T : \A y \in T : ~(y < x)
      BY <3>1, LeastNatural
    <3> QED BY <3>2 DEF T
  <2>2. x # 0 /\ x - 1 \in Nat /\ x - 1 < x
    BY <1>1, <2>1
  <2>3. P((x - 1) + 1)
    BY <1>2, <2>1, <2>2
  <2> QED BY <2>1, <2>2, <2>3
<1>4. PICK h : Is(h, Len(dests))
  BY <1>3
<1>5. NamesFor(f, dests) = CHOOSE g : Is(g, Len(dests))
  BY DEF NamesFor
<1> QED BY <1>4, <1>5

(* Each name is made from the one before it.                               *)
LEMMA NameStep ==
  ASSUME NEW f, NEW dests, Len(dests) \in Nat
  PROVE  /\ NamesFor(f, dests)[0] = name[f]
         /\ \A i \in 1..Len(dests) :
              NamesFor(f, dests)[i] =
                Replaced(NamesFor(f, dests)[i - 1], conf.to[dests[i]])
<1> DEFINE h == NamesFor(f, dests)
<1>1. h = [i \in 0..Len(dests) |->
             IF i = 0 THEN name[f] ELSE Replaced(h[i - 1], conf.to[dests[i]])]
  BY NamesUnfold
<1> HIDE DEF h
<1>2. h[0] = name[f] /\ \A i \in 1..Len(dests) : h[i] = Replaced(h[i - 1], conf.to[dests[i]])
  BY <1>1
<1> QED BY <1>2 DEF h

(* A property that the name of the file has, and that every rewrite keeps, *)
(* holds of each name; the property is the membership in a set S of pairs  *)
(* of an index and a name.                                                 *)
LEMMA NamesInduction ==
  ASSUME NEW n \in Nat, NEW h, NEW S, <<0, h[0]>> \in S,
         \A i \in 1..n : <<i - 1, h[i - 1]>> \in S => <<i, h[i]>> \in S
  PROVE  \A i \in 0..n : <<i, h[i]>> \in S
<1> SUFFICES ASSUME {i \in 0..n : <<i, h[i]>> \notin S} # {} PROVE FALSE
  OBVIOUS
<1>1. PICK x \in 0..n : <<x, h[x]>> \notin S /\ \A y \in 0..n : <<y, h[y]>> \notin S => ~(y < x)
  <2> DEFINE T == {i \in 0..n : <<i, h[i]>> \notin S}
  <2>1. T \subseteq Nat /\ T # {}
    OBVIOUS
  <2> HIDE DEF T
  <2>2. \E x \in T : \A y \in T : ~(y < x)
    BY <2>1, LeastNatural
  <2> QED BY <2>2 DEF T
<1>2. x \in 1..n /\ x - 1 \in 0..n /\ x - 1 < x
  BY <1>1
<1> QED BY <1>1, <1>2
-----------------------------------------------------------------------------
(* The destinations of a group                                             *)

Rotates == Balancer /\ conf.protocol # "FTP"

(* A group of f goes to one destination, or to each in its order.          *)
Handed(f, g) ==
  \E d \in Seq(1..Size) :
    /\ g = GroupOf(f, d, NamesFor(f, d))
    /\ IF Rotates THEN Len(d) = 1 ELSE d = [i \in 1..Size |-> i]

AllHanded == \A f \in Files : \A i \in DOMAIN calls[f] : Handed(f, calls[f][i])

(* The listing of FTP always turns the rotation once around.               *)
FullTurns == Balancer /\ ~Rotates => round_robin \in {0, Size}

HInv == CInv /\ GInv /\ FullTurns /\ AllHanded

LEMMA HandedInit == Init => HInv
<1> SUFFICES ASSUME Init PROVE HInv
  OBVIOUS
<1>1. round_robin = 0 /\ \A f \in Files : DOMAIN calls[f] = {}
  BY DEF Init
<1> QED BY <1>1, CompleteInit, GroupInit DEF HInv, AllHanded, FullTurns

LEMMA HandedKept ==
  ASSUME conf' = conf, NEW f, NEW g, Handed(f, g)
  PROVE  Handed(f, g)'
<1>1. Size' = Size /\ (Balancer' <=> Balancer) /\ (Rotates' <=> Rotates)
  BY DEF Size, Balancer, Rotates
<1>2. PICK d \in Seq(1..Size) :
        /\ g = GroupOf(f, d, NamesFor(f, d))
        /\ IF Rotates THEN Len(d) = 1 ELSE d = [i \in 1..Size |-> i]
  BY DEF Handed
<1>3. NamesFor(f, d)' = NamesFor(f, d)
  BY DEF NamesFor, Replaced
<1>4. GroupOf(f, d, NamesFor(f, d))' = GroupOf(f, d, NamesFor(f, d))
  BY <1>1, <1>3 DEF GroupOf
<1> QED BY <1>1, <1>2, <1>4 DEF Handed

(* The destinations the loop takes for its next group.                     *)
LEMMA DestsTaken ==
  ASSUME HInv, ~(Balancer /\ Size = 0 /\ conf.protocol # "FTP")
  PROVE  /\ Dests \in Seq(1..Size)
         /\ Rotates => /\ Len(Dests) = 1
                       /\ Dests[1] = IF round_robin < Size THEN round_robin + 1 ELSE 1
         /\ ~Rotates => Dests = [i \in 1..Size |-> i]
<1>1. Size \in Nat /\ round_robin \in 0..Size
  BY SizeNat DEF HInv, GInv
<1>2. CASE ~Balancer
  BY <1>1, <1>2 DEF Dests, Rotates
<1>3. CASE Rotates
  <2>1. Size \in Nat \ {0} /\ round_robin < 2 * Size
    BY <1>1, <1>3 DEF Rotates
  <2>2. round_robin % Size = IF round_robin < Size THEN round_robin ELSE round_robin - Size
    <3>1. round_robin \in Nat
      BY <1>1
    <3> QED BY ONLY <2>1, <3>1, Modulo
  <2>3. Dests = [i \in 1..1 |-> ((round_robin + i - 1) % Size) + 1]
    BY <1>3 DEF Dests, Rotates, Rotation
  <2>4. Dests[1] = (round_robin % Size) + 1 /\ DOMAIN Dests = 1..1
    BY <1>1, <2>3
  <2>5. PICK c \in 1..Size : Dests[1] = c /\ c = IF round_robin < Size THEN round_robin + 1
                                                                    ELSE 1
    BY <1>1, <2>1, <2>2, <2>4
  <2>6. Dests = <<c>>
    BY <2>3, <2>5
  <2>7. <<c>> \in Seq(1..Size) /\ Len(<<c>>) = 1 /\ <<c>>[1] = c
    OBVIOUS
  <2> QED BY <1>3, <2>5, <2>6, <2>7
<1>4. CASE Balancer /\ ~Rotates
  <2>1. Dests = [i \in 1..Size |-> ((round_robin + i - 1) % Size) + 1]
    BY <1>4 DEF Dests, Rotates, Rotation
  <2>2. ASSUME NEW i \in 1..Size
        PROVE  ((round_robin + i - 1) % Size) + 1 = i
    <3> DEFINE x == round_robin + i - 1
    <3>1. round_robin \in {0, Size} /\ Size \in Nat \ {0}
      BY <1>1, <1>4 DEF HInv, FullTurns, Rotates, Balancer
    <3>2. x \in Nat /\ x < 2 * Size /\ (x = i - 1 \/ x = Size + i - 1)
      BY <3>1
    <3>3. x % Size = i - 1
      <4> HIDE DEF x
      <4>1. x % Size = IF x < Size THEN x ELSE x - Size
        BY ONLY <3>1, <3>2, Modulo
      <4> QED BY <3>1, <3>2, <4>1
    <3> QED BY <3>3
  <2>3. Dests = [i \in 1..Size |-> i]
    BY <2>1, <2>2
  <2>4. [i \in 1..Size |-> i] \in Seq(1..Size)
    BY <1>1
  <2> QED BY <1>4, <2>3, <2>4
<1> QED BY <1>2, <1>3, <1>4 DEF Rotates

(* A step that hands nothing out leaves the groups alone.                  *)
LEMMA QuietListing ==
  ASSUME [ListingNext]_listingVars
  PROVE  (HandOut /\ st' = "list") \/ UNCHANGED <<conf, round_robin, calls>>
BY DEF ListingNext, listingVars, InvalidMask, OpenSource, OpenBucket, NextPage, NextEntry,
       PassFile, HandOut, Folder, FolderFails, Exhausted, Return

(* A step that hands a file out gives it the group of these destinations.  *)
LEMMA HandOutGroup ==
  ASSUME HInv, HandOut, st' = "list"
  PROVE  /\ ~(Balancer /\ Size = 0 /\ conf.protocol # "FTP")
         /\ front \in Files /\ calls[front] = <<>> /\ conf' = conf
         /\ calls'[front] = <<GroupOf(front, Dests, NamesFor(front, Dests))>>
         /\ \A f \in Files \ {front} : calls'[f] = calls[f]
         /\ round_robin' = IF Balancer THEN NextIndex(Rotation) ELSE round_robin
<1> DEFINE g == GroupOf(front, Dests, NamesFor(front, Dests))
<1>1. /\ ~(Balancer /\ Size = 0 /\ conf.protocol # "FTP")
      /\ calls' = [calls EXCEPT ![front] = Append(@, g)]
      /\ round_robin' = IF Balancer THEN NextIndex(Rotation) ELSE round_robin
      /\ conf' = conf /\ front \in Files /\ front \in Entries
  BY Tree DEF HandOut, Return
<1> HIDE DEF g
<1>2. calls[front] = <<>> /\ calls = [f \in Files |-> calls[f]]
  BY <1>1 DEF HInv, GInv, LInv, LFresh, LType, Live
<1>3. calls'[front] = <<g>> /\ \A f \in Files \ {front} : calls'[f] = calls[f]
  BY <1>1, <1>2
<1> QED BY <1>1, <1>2, <1>3 DEF g

LEMMA HandedStep == HInv /\ [ListingNext]_listingVars => HInv'
<1> SUFFICES ASSUME HInv, [ListingNext]_listingVars
             PROVE  FullTurns' /\ AllHanded'
  BY CompleteStep, GroupStep DEF HInv
<1>1. CASE UNCHANGED <<conf, round_robin, calls>>
  <2>1. ASSUME NEW f \in Files, NEW i \in DOMAIN calls'[f], NEW g, g = calls'[f][i]
        PROVE  Handed(f, g)'
    BY <1>1, <2>1, HandedKept DEF HInv, AllHanded
  <2>2. AllHanded'
    BY <2>1 DEF AllHanded
  <2> QED BY <1>1, <2>2 DEF HInv, FullTurns, Balancer, Rotates, Size
<1>2. CASE HandOut /\ st' = "list"
  <2>1. /\ ~(Balancer /\ Size = 0 /\ conf.protocol # "FTP")
        /\ front \in Files /\ calls[front] = <<>> /\ conf' = conf
        /\ calls'[front] = <<GroupOf(front, Dests, NamesFor(front, Dests))>>
        /\ \A f \in Files \ {front} : calls'[f] = calls[f]
        /\ round_robin' = IF Balancer THEN NextIndex(Rotation) ELSE round_robin
    BY <1>2, HandOutGroup
  <2>2. PICK e \in Files : e = front
    BY <2>1
  <2>3. PICK g : g = GroupOf(front, Dests, NamesFor(front, Dests))
    OBVIOUS
  <2>4. Handed(e, g)
    BY <2>1, <2>2, <2>3, DestsTaken DEF Handed
  <2>5. ASSUME NEW f \in Files, NEW i \in DOMAIN calls'[f], NEW h, h = calls'[f][i]
        PROVE  Handed(f, h)'
    <3>1. CASE f = e
      <4>1. calls'[f] = <<g>>
        BY <2>1, <2>2, <2>3, <3>1
      <4>2. h = g
        BY <2>5, <4>1
      <4> QED BY <2>1, <2>4, <3>1, <4>2, HandedKept
    <3>2. CASE f # e
      <4>1. calls'[f] = calls[f]
        BY <2>1, <2>2, <3>2
      <4>2. Handed(f, h)
        BY <2>5, <4>1 DEF HInv, AllHanded
      <4> QED BY <2>1, <4>2, HandedKept
    <3> QED BY <3>1, <3>2
  <2>6. AllHanded'
    BY <2>5 DEF AllHanded
  <2>7. Balancer /\ ~Rotates => round_robin' \in {0, Size}
    <3> SUFFICES ASSUME Balancer, ~Rotates PROVE round_robin' \in {0, Size}
      OBVIOUS
    <3>1. Size \in Nat /\ round_robin \in {0, Size} /\ Rotation = Size
      BY SizeNat DEF HInv, GInv, FullTurns, Rotates, Rotation
    <3>2. CASE Size = 0
      BY <2>1, <3>1, <3>2 DEF NextIndex
    <3>3. CASE Size # 0
      <4> DEFINE x == round_robin + Size - 1
      <4>1. Size \in Nat \ {0} /\ x \in Nat /\ x < 2 * Size
            /\ (x = Size - 1 \/ x = 2 * Size - 1)
        BY <3>1, <3>3
      <4>2. x % Size = Size - 1
        <5> HIDE DEF x
        <5>1. x % Size = IF x < Size THEN x ELSE x - Size
          BY ONLY <4>1, Modulo
        <5> QED BY <4>1, <5>1
      <4> QED BY <2>1, <3>1, <3>3, <4>2 DEF NextIndex
    <3> QED BY <3>2, <3>3
  <2> QED BY <2>1, <2>6, <2>7 DEF FullTurns, Balancer, Rotates, Size
<1> QED BY <1>1, <1>2, QuietListing

(* The operations of a group of f for the destinations d.                  *)
GroupIs(f, g, d) ==
  /\ g.mode \in FileMode
  /\ IF Rotates THEN Len(d) = 1 ELSE d = [i \in 1..Size |-> i]
  /\ DOMAIN g.ops = 1..Len(d) /\ Len(d) \in Nat
  /\ \A i \in 1..Len(d) :
       g.ops[i] = [to |-> d[i], name |-> NamesFor(f, d)[i], folder |-> parent[f]]

LEMMA HandedOps ==
  ASSUME NEW f, NEW g, Handed(f, g)
  PROVE  \E d \in Seq(1..Size) : GroupIs(f, g, d)
<1>1. PICK d \in Seq(1..Size) :
        /\ g = GroupOf(f, d, NamesFor(f, d))
        /\ IF Rotates THEN Len(d) = 1 ELSE d = [i \in 1..Size |-> i]
  BY DEF Handed
<1>2. g.ops = [i \in DOMAIN d |->
                 [to |-> d[i], name |-> NamesFor(f, d)[i], folder |-> parent[f]]]
  BY <1>1 DEF GroupOf
<1>3. DOMAIN d = 1..Len(d) /\ Len(d) \in Nat
  BY <1>1
<1>4. g.mode \in FileMode
  BY <1>1 DEF GroupOf, FileMode
<1> QED BY <1>1, <1>2, <1>3, <1>4 DEF GroupIs

-----------------------------------------------------------------------------
(* Types *)

(* A rewrite yields names.                                                 *)
LEMMA HandedNames ==
  ASSUME conf \in Configs, NEW f \in Files, NEW d \in Seq(1..Size)
  PROVE  \A i \in 0..Len(d) : NamesFor(f, d)[i] \in Names
<1> DEFINE h == NamesFor(f, d)
           S == (0..Len(d)) \X Names
<1>1. conf.to \in Seq(Masks) /\ Size \in Nat /\ name[f] \in Names
      /\ \A m \in Masks, n \in Names : rewritten[m][n] \in Names
  BY ListingAssumption DEF ListingAssumption, Config, Size
<1>2. Len(d) \in Nat /\ \A i \in 1..Len(d) : conf.to[d[i]] \in Masks
  BY <1>1 DEF Size
<1>3. h[0] = name[f] /\ \A i \in 1..Len(d) : h[i] = Replaced(h[i - 1], conf.to[d[i]])
  BY <1>2, NameStep
<1> HIDE DEF h
<1>4. <<0, h[0]>> \in S
  BY <1>1, <1>2, <1>3
<1>5. ASSUME NEW i \in 1..Len(d), <<i - 1, h[i - 1]>> \in S
      PROVE  <<i, h[i]>> \in S
  <2>1. PICK m \in Masks, n \in Names : m = conf.to[d[i]] /\ n = h[i - 1]
    BY <1>2, <1>5
  <2>2. h[i] = Replaced(n, m)
    BY <1>3, <2>1
  <2>3. h[i] \in Names
    BY <1>1, <2>1, <2>2 DEF Replaced
  <2> QED BY <1>2, <2>3
<1>6. \A i \in 0..Len(d) : <<i, h[i]>> \in S
  <2> HIDE DEF S
  <2> QED BY <1>2, <1>4, <1>5, NamesInduction
<1> QED BY <1>6 DEF h

(* The state of a listing, and every operation it hands out, has its type. *)
THEOREM ListingTypes == ListingSpec => []ListingTypeOK
<1>1. HInv => ListingTypeOK
  <2> SUFFICES ASSUME HInv PROVE ListingTypeOK
    OBVIOUS
  <2>1. /\ conf \in Configs /\ st \in St /\ todo \subseteq Entries
        /\ front \in Entries \union {None} /\ enter \in BOOLEAN /\ rest \subseteq Files
        /\ round_robin \in 0..Size /\ unlisted \subseteq Folders
    BY DEF HInv, CInv, GInv, LInv, LType, LUnlisted
  <2>2. conf.to \in Seq(Masks) /\ DOMAIN conf.to = 1..Size /\ Size \in Nat
        /\ conf.file_mode \in FileMode
    BY <2>1, ListingAssumption DEF ListingAssumption, Config, Size
  <2>3. ASSUME NEW f \in Files, NEW i \in DOMAIN calls[f], NEW g, g = calls[f][i]
        PROVE  g.mode \in FileMode /\ \A o \in DOMAIN g.ops :
                 g.ops[o] \in Op /\ g.ops[o].to \in DOMAIN conf.to
    <3>1. PICK d \in Seq(1..Size) : GroupIs(f, g, d)
      BY <2>3, HandedOps DEF HInv, AllHanded
    <3>2. \A o \in 1..Len(d) : NamesFor(f, d)[o] \in Names /\ d[o] \in 1..Size
      <4>1. \A o \in 0..Len(d) : NamesFor(f, d)[o] \in Names
        BY <2>1, HandedNames
      <4>2. \A o \in 1..Len(d) : o \in 0..Len(d) /\ d[o] \in 1..Size
        BY <2>2
      <4> QED BY <4>1, <4>2
    <3>3. parent[f] \in Folders \union {Root}
      BY Tree
    <3>4. g.mode \in FileMode
      BY <3>1 DEF GroupIs
    <3>5. ASSUME NEW o \in DOMAIN g.ops
          PROVE  g.ops[o] \in Op /\ g.ops[o].to \in DOMAIN conf.to
      <4>1. o \in 1..Len(d) /\ o \in Nat /\ d[o] \in Nat \ {0}
            /\ g.ops[o] = [to |-> d[o], name |-> NamesFor(f, d)[o], folder |-> parent[f]]
        BY <2>2, <3>1, <3>2, <3>5 DEF GroupIs
      <4> QED BY <2>2, <3>2, <3>3, <4>1 DEF Op
    <3> QED BY <3>4, <3>5
  <2> QED BY <2>1, <2>3 DEF ListingTypeOK, Size
<1> QED BY <1>1, HandedInit, HandedStep, PTL DEF ListingSpec

-----------------------------------------------------------------------------
(* Names apart *)

(* Two files of one folder get one name for a destination only where a     *)
(* mask makes their two names one.                                         *)
LEMMA FirstMerge ==
  ASSUME NEW f \in Files, NEW g \in Files, f # g, parent[f] = parent[g],
         NEW d, Len(d) \in Nat, NEW i \in 1..Len(d),
         NamesFor(f, d)[i] = NamesFor(g, d)[i]
  PROVE  \E k \in 1..i : /\ NamesFor(f, d)[k - 1] # NamesFor(g, d)[k - 1]
                         /\ NamesFor(f, d)[k] = NamesFor(g, d)[k]
<1> DEFINE a == NamesFor(f, d)
           b == NamesFor(g, d)
           T == {n \in 0..i : a[n] = b[n]}
<1>1. a[0] # b[0]
  BY NameStep, ListingAssumption DEF ListingAssumption
<1>2. i \in T /\ T \subseteq Nat /\ 0 \notin T
  BY <1>1
<1>3. \A n \in T : n \in 0..i /\ a[n] = b[n]
  OBVIOUS
<1>4. \A n \in 0..i : a[n] = b[n] => n \in T
  OBVIOUS
<1> HIDE DEF a, b, T
<1>5. PICK k \in T : \A n \in T : ~(n < k)
  BY <1>2, LeastNatural
<1>6. k \in 1..i /\ k - 1 \in 0..i /\ k - 1 < k
  BY <1>2, <1>3, <1>5
<1>7. a[k - 1] # b[k - 1] /\ a[k] = b[k]
  BY <1>3, <1>4, <1>5, <1>6
<1> QED BY <1>6, <1>7 DEF a, b

(* The names NamesApart speaks of are those of NamesFor.                   *)
LEMMA NameOfGroup ==
  ASSUME NEW f, NEW g, NEW d \in Seq(1..Size), GroupIs(f, g, d), NEW k \in 1..Len(d)
  PROVE  /\ g.ops[k].to = d[k]
         /\ NameBefore(f, g.ops, k) = NamesFor(f, d)[k - 1]
         /\ Replaced(NameBefore(f, g.ops, k), conf.to[g.ops[k].to]) = NamesFor(f, d)[k]
<1> DEFINE h == NamesFor(f, d)
<1>1. Len(d) \in Nat /\ \A i \in 1..Len(d) :
        g.ops[i] = [to |-> d[i], name |-> h[i], folder |-> parent[f]]
  BY DEF GroupIs
<1>2. h[0] = name[f] /\ \A i \in 1..Len(d) : h[i] = Replaced(h[i - 1], conf.to[d[i]])
  BY <1>1, NameStep
<1> HIDE DEF h
<1>3. \A i \in 1..Len(d) : g.ops[i].to = d[i] /\ g.ops[i].name = h[i]
  <2> SUFFICES ASSUME NEW i \in 1..Len(d) PROVE g.ops[i].to = d[i] /\ g.ops[i].name = h[i]
    OBVIOUS
  <2>1. g.ops[i] = [to |-> d[i], name |-> h[i], folder |-> parent[f]]
    BY <1>1
  <2> QED BY <2>1
<1>4. NameBefore(f, g.ops, k) = h[k - 1]
  <2>1. CASE k = 1
    BY <1>2, <2>1 DEF NameBefore
  <2>2. CASE k # 1
    <3>1. k - 1 \in 1..Len(d)
      BY <1>1, <2>2
    <3> QED BY <1>3, <2>2, <3>1 DEF NameBefore
  <2> QED BY <2>1, <2>2
<1> QED BY <1>2, <1>3, <1>4 DEF h

(* Two files meet at one place of a destination only where a mask merges   *)
(* two names: for every number and order of destinations, wherever the     *)
(* index stands and however often a name is rewritten in place.  The chain *)
(* of rewrites is the same for both files, as every group but those of one *)
(* operation takes the destinations in their order (Handed).               *)
THEOREM NamesStayApart == ListingSpec => []NamesApart
<1>1. HInv => NamesApart
  <2> SUFFICES ASSUME HInv, NEW f \in Files, NEW g \in Files, f # g,
                      NEW o \in DOMAIN calls[f], NEW p \in DOMAIN calls[g],
                      NEW u, u = calls[f][o], NEW v, v = calls[g][p],
                      NEW i \in DOMAIN u.ops, NEW j \in DOMAIN v.ops,
                      u.ops[i] = v.ops[j]
               PROVE  \E k \in 1..i :
                        /\ NameBefore(f, u.ops, k) # NameBefore(g, v.ops, k)
                        /\ Replaced(NameBefore(f, u.ops, k), conf.to[u.ops[k].to])
                             = Replaced(NameBefore(g, v.ops, k), conf.to[u.ops[k].to])
    BY DEF NamesApart
  <2>1. Size \in Nat /\ Handed(f, u) /\ Handed(g, v)
    BY SizeNat DEF HInv, AllHanded, GInv
  <2>2. PICK d \in Seq(1..Size) : GroupIs(f, u, d)
    BY <2>1, HandedOps
  <2>3. PICK e \in Seq(1..Size) : GroupIs(g, v, e)
    BY <2>1, HandedOps
  <2>4. i \in 1..Len(d) /\ j \in 1..Len(e) /\ Len(d) \in Nat
    BY <2>2, <2>3 DEF GroupIs
  <2>5. /\ d[i] = e[j] /\ parent[f] = parent[g]
        /\ NamesFor(f, d)[i] = NamesFor(g, e)[j]
    <3>1. [to |-> d[i], name |-> NamesFor(f, d)[i], folder |-> parent[f]]
            = [to |-> e[j], name |-> NamesFor(g, e)[j], folder |-> parent[g]]
      BY <2>2, <2>3, <2>4 DEF GroupIs
    <3> QED BY <3>1
  <2>6. d = e /\ i = j
    <3>1. CASE Rotates
      <4>1. i = 1 /\ j = 1 /\ d = <<d[1]>> /\ e = <<e[1]>>
        BY <2>2, <2>3, <2>4, <3>1 DEF GroupIs
      <4> QED BY <2>5, <4>1
    <3>2. CASE ~Rotates
      <4>1. d = [k \in 1..Size |-> k] /\ e = [k \in 1..Size |-> k]
        BY <2>2, <2>3, <3>2 DEF GroupIs
      <4>2. Len(d) = Size /\ Len(e) = Size
        BY <2>1, <4>1
      <4> QED BY <2>4, <2>5, <4>1, <4>2
    <3> QED BY <3>1, <3>2
  <2>7. PICK k \in 1..i : /\ NamesFor(f, d)[k - 1] # NamesFor(g, d)[k - 1]
                         /\ NamesFor(f, d)[k] = NamesFor(g, d)[k]
    <3>1. NamesFor(f, d)[i] = NamesFor(g, d)[i]
      BY <2>5, <2>6
    <3> QED BY <2>4, <2>5, <3>1, FirstMerge
  <2>8. k \in 1..Len(d)
    BY <2>4
  <2>9. /\ u.ops[k].to = d[k]
        /\ NameBefore(f, u.ops, k) = NamesFor(f, d)[k - 1]
        /\ Replaced(NameBefore(f, u.ops, k), conf.to[u.ops[k].to]) = NamesFor(f, d)[k]
    BY <2>2, <2>8, NameOfGroup
  <2>10. /\ v.ops[k].to = d[k]
         /\ NameBefore(g, v.ops, k) = NamesFor(g, d)[k - 1]
         /\ Replaced(NameBefore(g, v.ops, k), conf.to[v.ops[k].to]) = NamesFor(g, d)[k]
    BY <2>3, <2>6, <2>8, NameOfGroup
  <2> QED BY <2>7, <2>9, <2>10
<1> QED BY <1>1, HandedInit, HandedStep, PTL DEF ListingSpec

-----------------------------------------------------------------------------
(* The balance *)

(* The destinations up to the index have one file more than the others.    *)
Levelled ==
  Rotates => \E q \in Nat : \A k \in 1..Size :
    Cardinality(GivenTo(k)) = IF k <= round_robin THEN q + 1 ELSE q

BInv == HInv /\ Levelled

LEMMA FilesFinite ==
  ASSUME NEW T, T \subseteq Files
  PROVE  IsFiniteSet(T) /\ Cardinality(T) \in Nat
<1>1. IsFiniteSet(Files)
  BY FS_Subset, ListingAssumption DEF ListingAssumption, Entries
<1> QED BY <1>1, FS_Subset, FS_CardinalityType

LEMMA BalanceInit == Init => BInv
<1> SUFFICES ASSUME Init PROVE Levelled
  BY HandedInit DEF BInv
<1>1. round_robin = 0 /\ \A k \in 1..Size : GivenTo(k) = {}
  BY DEF Init, GivenTo
<1>2. Size \in Nat
  BY ListingInit, SizeNat
<1>3. \A k \in 1..Size : Cardinality(GivenTo(k)) = IF k <= round_robin THEN 0 + 1 ELSE 0
  BY <1>1, <1>2, FS_EmptySet
<1>4. 0 \in Nat
  OBVIOUS
<1> QED BY <1>3, <1>4 DEF Levelled

LEMMA BalanceStep == BInv /\ [ListingNext]_listingVars => BInv'
<1> SUFFICES ASSUME BInv, [ListingNext]_listingVars PROVE Levelled'
  BY HandedStep DEF BInv
<1>1. CASE UNCHANGED <<conf, round_robin, calls>>
  <2>1. \A k : GivenTo(k)' = GivenTo(k)
    BY <1>1 DEF GivenTo
  <2>2. Size' = Size /\ (Rotates' <=> Rotates)
    BY <1>1 DEF Rotates, Balancer, Size
  <2> QED BY <1>1, <2>1, <2>2 DEF BInv, Levelled
<1>2. CASE HandOut /\ st' = "list" /\ Rotates
  <2> DEFINE g == GroupOf(front, Dests, NamesFor(front, Dests))
  <2>1. HInv /\ Size \in Nat /\ round_robin \in 0..Size
    BY SizeNat DEF BInv, HInv, GInv
  <2>2. /\ ~(Balancer /\ Size = 0 /\ conf.protocol # "FTP") /\ conf' = conf
        /\ front \in Files /\ calls[front] = <<>> /\ calls'[front] = <<g>>
        /\ \A f \in Files \ {front} : calls'[f] = calls[f]
        /\ round_robin' = NextIndex(1) /\ Size # 0
    BY <1>2, <2>1, HandOutGroup DEF Rotates, Rotation
  <2>3. PICK c : c = IF round_robin < Size THEN round_robin + 1 ELSE 1
    OBVIOUS
  <2>4. DOMAIN g.ops = {1} /\ g.ops[1].to = c
    BY <1>2, <2>1, <2>2, <2>3, DestsTaken DEF GroupOf
  <2>5. round_robin' = c /\ c \in 1..Size
    <3>1. round_robin \in Nat /\ Size \in Nat \ {0} /\ round_robin < 2 * Size
      BY <2>1, <2>2
    <3>2. round_robin % Size = IF round_robin < Size THEN round_robin ELSE round_robin - Size
      BY ONLY <3>1, Modulo
    <3> QED BY <2>1, <2>2, <2>3, <3>1, <3>2 DEF NextIndex
  <2> HIDE DEF g
  <2>6. ASSUME NEW k \in 1..Size
        PROVE  GivenTo(k)' = IF k = c THEN GivenTo(k) \union {front} ELSE GivenTo(k)
    <3>1. \A f \in Files : (\E i \in DOMAIN calls'[f] : \E j \in DOMAIN calls'[f][i].ops :
                              calls'[f][i].ops[j].to = k)
             <=> IF f = front THEN k = c
                 ELSE \E i \in DOMAIN calls[f] : \E j \in DOMAIN calls[f][i].ops :
                              calls[f][i].ops[j].to = k
      BY <2>2, <2>4
    <3>2. front \notin GivenTo(k)
      BY <2>2 DEF GivenTo
    <3> QED BY <2>2, <3>1, <3>2 DEF GivenTo
  <2>7. ASSUME NEW k \in 1..Size
        PROVE  Cardinality(GivenTo(k))' =
                 IF k = c THEN Cardinality(GivenTo(k)) + 1 ELSE Cardinality(GivenTo(k))
    <3>1. front \notin GivenTo(k) /\ IsFiniteSet(GivenTo(k))
      BY <2>2, FilesFinite DEF GivenTo
    <3> QED BY <2>6, <3>1, FS_AddElement
  <2>8. PICK q \in Nat : \A k \in 1..Size :
          Cardinality(GivenTo(k)) = IF k <= round_robin THEN q + 1 ELSE q
    BY <1>2 DEF BInv, Levelled
  <2>9. CASE round_robin < Size
    <3>1. \A k \in 1..Size :
            Cardinality(GivenTo(k))' = IF k <= round_robin' THEN q + 1 ELSE q
      BY <2>1, <2>3, <2>5, <2>7, <2>8, <2>9
    <3> QED BY <2>2, <3>1 DEF Levelled, Size
  <2>10. CASE round_robin = Size
    <3>1. PICK r \in Nat : r = q + 1
      OBVIOUS
    <3>2. \A k \in 1..Size :
            Cardinality(GivenTo(k))' = IF k <= round_robin' THEN r + 1 ELSE r
      BY <2>1, <2>3, <2>5, <2>7, <2>8, <2>10, <3>1
    <3> QED BY <2>2, <3>2 DEF Levelled, Size
  <2> QED BY <2>1, <2>9, <2>10
<1>3. CASE HandOut /\ st' = "list" /\ ~Rotates
  <2>1. conf' = conf
    BY <1>3, HandOutGroup DEF BInv
  <2> QED BY <1>3, <2>1 DEF Levelled, Rotates, Balancer, Size
<1> QED BY <1>1, <1>2, <1>3, QuietListing

(* Without the rotation every handed file goes to every destination.       *)
LEMMA GivenToAll ==
  ASSUME HInv, ~Rotates, NEW k \in 1..Size
  PROVE  GivenTo(k) = {f \in Files : DOMAIN calls[f] # {}}
<1>1. ASSUME NEW f \in Files, NEW i \in DOMAIN calls[f], NEW g, g = calls[f][i]
      PROVE  \E j \in DOMAIN g.ops : g.ops[j].to = k
  <2>1. Size \in Nat /\ Handed(f, g)
    BY <1>1, SizeNat DEF HInv, GInv, AllHanded
  <2>2. PICK d \in Seq(1..Size) : GroupIs(f, g, d)
    BY <2>1, HandedOps
  <2>3. d = [j \in 1..Size |-> j]
    BY <2>2 DEF GroupIs
  <2>4. Len(d) = Size /\ d[k] = k
    BY <2>1, <2>3
  <2>5. k \in DOMAIN g.ops
        /\ g.ops[k] = [to |-> d[k], name |-> NamesFor(f, d)[k], folder |-> parent[f]]
    BY <2>2, <2>4 DEF GroupIs
  <2> QED BY <2>4, <2>5
<1> QED BY <1>1 DEF GivenTo

(* A balanced directory gives its destinations the same number of files,   *)
(* but for one, whatever their number.                                     *)
THEOREM EvenlyBalanced == ListingSpec => []Balanced
<1>1. BInv => Balanced
  <2> SUFFICES ASSUME BInv, NEW j \in DOMAIN conf.to, NEW k \in DOMAIN conf.to
               PROVE  Cardinality(GivenTo(j)) <= Cardinality(GivenTo(k)) + 1
    BY DEF Balanced
  <2>1. HInv /\ conf \in Configs
    BY DEF BInv, HInv, GInv, LInv, LType
  <2>2. j \in 1..Size /\ k \in 1..Size
    BY <2>1, ListingAssumption DEF ListingAssumption, Config, Size
  <2>3. Cardinality(GivenTo(j)) \in Nat /\ Cardinality(GivenTo(k)) \in Nat
    BY FilesFinite DEF GivenTo
  <2>4. CASE Rotates
    BY <2>2, <2>4 DEF BInv, Levelled
  <2>5. CASE ~Rotates
    <3>1. GivenTo(j) = GivenTo(k)
      BY <2>1, <2>2, <2>5, GivenToAll
    <3> QED BY <2>3, <3>1
  <2> QED BY <2>4, <2>5
<1> QED BY <1>1, BalanceInit, BalanceStep, PTL DEF ListingSpec
-----------------------------------------------------------------------------
(* The URLs of folders                                                     *)

(* The tokens of a URL.                                                    *)
UrlToken == Token \union Escapes \union {"*"}

(* A token in a URL whose slashes are restored.                            *)
InUrl(c) == IF c = "/" THEN "/" ELSE Escaped(c)

LEMMA TokensInUrl ==
  ASSUME NEW c \in Token
  PROVE  /\ Escaped(c) = "%2F" <=> c = "/"
         /\ InUrl(c) \in UrlToken /\ (InUrl(c) = "/" <=> c = "/")
         /\ Decoded(InUrl(c)) = c
<1>1. c \notin Escapes
  BY FtpAssumption DEF FtpAssumption
<1>2. /\ c = "/" => Escaped(c) = "%2F"
      /\ c = " " => Escaped(c) = "%20"
      /\ c = "%" => Escaped(c) = "%25"
      /\ c \notin {"/", " ", "%"} => Escaped(c) = c
  BY Zenon DEF Escaped
<1>3. /\ Decoded("%20") = " " /\ Decoded("%25") = "%"
      /\ c \notin Escapes => Decoded(c) = c
  BY Zenon DEF Decoded, Escapes
<1>4. CASE c = "/"
  BY <1>1, <1>2, <1>3, <1>4 DEF InUrl, UrlToken, Escapes
<1>5. CASE c = " "
  BY <1>2, <1>3, <1>5 DEF InUrl, UrlToken, Escapes
<1>6. CASE c = "%"
  BY <1>2, <1>3, <1>6 DEF InUrl, UrlToken, Escapes
<1>7. CASE c \notin {"/", " ", "%"}
  BY <1>1, <1>2, <1>3, <1>7 DEF InUrl, UrlToken, Escapes
<1> QED BY <1>4, <1>5, <1>6, <1>7

LEMMA UrlTokens ==
  ASSUME NEW s \in Seq(Token)
  PROVE  fixSlashesInURL(Escape(s)) = [i \in DOMAIN s |-> InUrl(s[i])]
<1>1. \A i \in DOMAIN s : s[i] \in Token
  OBVIOUS
<1>2. DOMAIN Escape(s) = DOMAIN s /\ \A i \in DOMAIN s : Escape(s)[i] = Escaped(s[i])
  BY DEF Escape
<1>3. ASSUME NEW i \in DOMAIN s
      PROVE  (IF Escape(s)[i] = "%2F" THEN "/" ELSE Escape(s)[i]) = InUrl(s[i])
  BY <1>1, <1>2, TokensInUrl DEF InUrl
<1> QED BY <1>2, <1>3 DEF fixSlashesInURL

(* The pattern of a request for a path that ends in a slash begins after it. *)
LEMMA LastSlashFound ==
  ASSUME NEW u \in Seq(UrlToken), NEW n \in Nat, n # 0, Len(u) = n + 1,
         u[n] = "/", u[n + 1] = "*"
  PROVE  LastSlash(u) = n
<1>1. n \in 0..Len(u) /\ (n = 0 \/ u[n] = "/")
  OBVIOUS
<1>2. \A j \in (n + 1)..Len(u) : u[j] # "/"
  <2> TAKE j \in (n + 1)..Len(u)
  <2>1. j = n + 1
    OBVIOUS
  <2> QED BY <2>1
<1>3. ASSUME NEW i \in 0..Len(u), i = 0 \/ u[i] = "/",
             \A j \in (i + 1)..Len(u) : u[j] # "/"
      PROVE  i = n
  <2>1. CASE i < n
    <3>1. n \in (i + 1)..Len(u)
      BY <2>1
    <3> QED BY <1>3, <3>1
  <2>2. CASE i > n
    <3>1. i = n + 1
      BY <2>2
    <3> QED BY <1>3, <3>1
  <2> QED BY <2>1, <2>2
<1> QED BY <1>1, <1>2, <1>3 DEF LastSlash

LEMMA Appended ==
  ASSUME NEW T, NEW v \in Seq(T), NEW c \in T
  PROVE  /\ v \o <<c>> \in Seq(T) /\ Len(v \o <<c>>) = Len(v) + 1
         /\ (v \o <<c>>)[Len(v) + 1] = c
         /\ \A i \in 1..Len(v) : (v \o <<c>>)[i] = v[i]
<1>1. <<c>> \in Seq(T) /\ Len(<<c>>) = 1 /\ <<c>>[1] = c
  OBVIOUS
<1> QED BY <1>1

LEMMA Single ==
  ASSUME NEW T, NEW p \in Seq(T), Len(p) = 1
  PROVE  p = <<p[1]>>
OBVIOUS

(* The path of a folder.                                                   *)
FolderPath(s) == s \in Seq(Token) /\ s # <<>> /\ s[Len(s)] = "/"

(* A request for a path asks the server for every entry of that folder.    *)
LEMMA UrlAsks ==
  ASSUME NEW s, FolderPath(s), NEW u, u = fixSlashesInURL(Escape(s)) \o <<"*">>
  PROVE  AskedFolder(u) = s /\ AskedPattern(u) = <<"*">>
<1> DEFINE n == Len(s)
           v == [i \in DOMAIN s |-> InUrl(s[i])]
<1>1. /\ s \in Seq(Token) /\ n \in Nat /\ n # 0 /\ n \in 1..n /\ s[n] = "/"
      /\ DOMAIN s = 1..n /\ \A i \in 1..n : s[i] \in Token
  BY DEF FolderPath
<1>2. "*" \in UrlToken
  BY DEF UrlToken
<1>3. u = v \o <<"*">>
  BY <1>1, UrlTokens
<1> HIDE DEF n
<1>4. v \in Seq(UrlToken) /\ Len(v) = n /\ \A i \in 1..n : v[i] = InUrl(s[i])
  <2>1. \A i \in 1..n : InUrl(s[i]) \in UrlToken
    BY <1>1, TokensInUrl
  <2>2. v = [i \in 1..n |-> InUrl(s[i])]
    BY <1>1
  <2> HIDE DEF v
  <2>3. v \in [1..n -> UrlToken]
    BY <2>1, <2>2
  <2> QED BY <1>1, <2>2, <2>3
<1> HIDE DEF v
<1>5. /\ u \in Seq(UrlToken) /\ Len(u) = n + 1 /\ u[n + 1] = "*"
      /\ \A i \in 1..n : u[i] = v[i]
  <2> DEFINE w == v \o <<"*">>
  <2>1. /\ w \in Seq(UrlToken) /\ Len(w) = Len(v) + 1 /\ w[Len(v) + 1] = "*"
        /\ \A i \in 1..Len(v) : w[i] = v[i]
    BY <1>2, <1>4, Appended
  <2>2. u = w
    BY <1>3
  <2> HIDE DEF w
  <2> QED BY <1>4, <2>1, <2>2
<1>6. \A i \in 1..n : u[i] = InUrl(s[i])
  BY <1>4, <1>5
<1>7. u[n] = "/"
  BY <1>1, <1>6, TokensInUrl
<1>8. LastSlash(u) = n
  BY <1>1, <1>5, <1>7, LastSlashFound
<1>9. AskedPattern(u) = <<"*">>
  <2> DEFINE p == SubSeq(u, n + 1, Len(u))
  <2>1. p \in Seq(UrlToken) /\ Len(p) = 1 /\ p[1] = u[n + 1]
    BY <1>1, <1>5
  <2> HIDE DEF p
  <2>2. p = <<p[1]>>
    BY <2>1, Single
  <2> QED BY <1>5, <1>8, <2>1, <2>2 DEF AskedPattern, p
<1>10. AskedFolder(u) = s
  <2> DEFINE q == SubSeq(u, 1, n)
  <2>1. DOMAIN q = 1..n /\ \A i \in 1..n : q[i] = u[i]
    BY <1>1, <1>5
  <2> HIDE DEF q
  <2>2. \A i \in 1..n : Decoded(q[i]) = s[i]
    BY <1>1, <1>6, <2>1, TokensInUrl
  <2>3. Decode(q) = [i \in 1..n |-> s[i]]
    BY <2>1, <2>2 DEF Decode
  <2>4. s = [i \in 1..n |-> s[i]]
    BY <1>1
  <2> QED BY <1>8, <2>3, <2>4 DEF AskedFolder, q
<1> QED BY <1>9, <1>10

-----------------------------------------------------------------------------
(* The paths of folders                                                    *)

Nodes == Folders \union {Root}

(* How many folders a folder lies in.                                      *)
Depth(d) == IF d = Root THEN 0 ELSE Cardinality(above[d])

LEMMA DepthStep ==
  ASSUME NEW d \in Folders
  PROVE  /\ d # Root /\ parent[d] \in Nodes
         /\ Depth(d) \in Nat /\ Depth(parent[d]) \in Nat
         /\ Depth(d) = Depth(parent[d]) + 1
<1>1. /\ d \in Entries /\ d # Root /\ parent[d] \in Nodes
      /\ above[d] = {parent[d]} \union (IF parent[d] = Root THEN {} ELSE above[parent[d]])
  BY ListingAssumption DEF ListingAssumption, Entries, Nodes
<1>2. IsFiniteSet(Nodes)
  <2>1. IsFiniteSet(Folders)
    BY FS_Subset, ListingAssumption DEF ListingAssumption, Entries
  <2> QED BY <2>1, FS_AddElement DEF Nodes
<1>3. \A e \in Folders : IsFiniteSet(above[e]) /\ Cardinality(above[e]) \in Nat
  <2>1. \A e \in Folders : above[e] \subseteq Nodes
    BY ListingAssumption DEF ListingAssumption, Entries, Nodes
  <2> QED BY <1>2, <2>1, FS_Subset, FS_CardinalityType
<1>4. CASE parent[d] = Root
  <2>1. above[d] = {Root}
    BY <1>1, <1>4
  <2>2. Cardinality(above[d]) = 1
    BY <2>1, FS_Singleton
  <2> QED BY <1>1, <1>4, <2>2 DEF Depth
<1>5. CASE parent[d] # Root
  <2> DEFINE p == parent[d]
  <2>1. p \in Folders /\ p \notin above[p]
    BY <1>1, <1>5, ListingAssumption DEF ListingAssumption, Entries, Nodes
  <2>2. above[d] = above[p] \union {p}
    BY <1>1, <1>5
  <2>3. Cardinality(above[d]) = Cardinality(above[p]) + 1
    BY <1>3, <2>1, <2>2, FS_AddElement
  <2> QED BY <1>1, <1>3, <1>5, <2>1, <2>3 DEF Depth
<1> QED BY <1>4, <1>5

(* A set that holds of the root, and of a folder when it holds of the one  *)
(* the folder lies in, holds of all.                                       *)
LEMMA TreeInduction ==
  ASSUME NEW S, Root \in S, \A d \in Folders : parent[d] \in S => d \in S
  PROVE  Nodes \subseteq S
<1> SUFFICES ASSUME NEW b \in Folders, b \notin S PROVE FALSE
  BY DEF Nodes
<1> DEFINE T == {n \in Nat : \E d \in Folders : d \notin S /\ Depth(d) = n}
<1>1. T \subseteq Nat /\ T # {}
  BY DepthStep
<1>2. \A n \in T : \E d \in Folders : d \notin S /\ Depth(d) = n
  OBVIOUS
<1>3. \A d \in Folders : d \notin S => Depth(d) \in T
  BY DepthStep
<1> HIDE DEF T
<1>4. PICK x \in T : \A y \in T : ~(y < x)
  BY <1>1, LeastNatural
<1>5. PICK d \in Folders : d \notin S /\ Depth(d) = x
  BY <1>2, <1>4
<1>6. parent[d] \notin S /\ parent[d] \in Nodes /\ Depth(parent[d]) < x
  BY <1>5, DepthStep
<1>7. parent[d] \in Folders
  BY <1>6 DEF Nodes
<1> QED BY <1>3, <1>4, <1>6, <1>7

(* The recursive function subfolder is the function its text describes.    *)
LEMMA SubfolderUnfold ==
  subfolder = [d \in Nodes |->
    IF d = Root THEN source_path ELSE subfolder[parent[d]] \o folder_name[d] \o <<"/">>]
<1> DEFINE To(n) == {d \in Nodes : Depth(d) <= n}
           Path(h, d) == IF d = Root THEN source_path
                         ELSE h[parent[d]] \o folder_name[d] \o <<"/">>
           Is(h, D) == h = [d \in D |-> Path(h, d)]
           P(n) == \E h : Is(h, To(n))
<1>1. \A d \in Nodes : /\ Depth(d) \in Nat
                       /\ d # Root => d \in Folders /\ parent[d] \in Nodes
                                      /\ Depth(d) = Depth(parent[d]) + 1
  BY DepthStep DEF Nodes, Depth
<1>2. P(0)
  <2> DEFINE g == [d \in To(0) |-> source_path]
  <2>1. \A d \in To(0) : d = Root
    BY <1>1 DEF Nodes
  <2>2. \A d \in To(0) : Path(g, d) = source_path
    BY <2>1
  <2> HIDE DEF Path, To
  <2>3. Is(g, To(0))
    BY <2>2
  <2> QED BY <2>3
<1>3. ASSUME NEW n \in Nat, P(n)
      PROVE  P(n + 1)
  <2>1. PICK h : Is(h, To(n))
    BY <1>3
  <2> DEFINE g == [d \in To(n + 1) |-> IF d \in To(n) THEN h[d] ELSE Path(h, d)]
  <2>2. To(n) \subseteq To(n + 1)
    BY <1>1
  <2>3. \A d \in To(n + 1) : d # Root => parent[d] \in To(n)
    BY <1>1
  <2>4. \A d \in To(n) : h[d] = Path(h, d)
    <3> HIDE DEF Path, To
    <3> QED BY <2>1
  <2>5. \A d \in To(n + 1) : g[d] = IF d \in To(n) THEN h[d] ELSE Path(h, d)
    <3> HIDE DEF Path, To
    <3> QED OBVIOUS
  <2>6. g = [d \in To(n + 1) |-> g[d]]
    <3> HIDE DEF Path, To
    <3> QED OBVIOUS
  <2> HIDE DEF g
  <2>7. \A d \in To(n + 1) : g[d] = Path(h, d)
    <3> HIDE DEF Path, To
    <3> QED BY <2>4, <2>5
  <2>8. \A d \in To(n + 1) : Path(g, d) = Path(h, d)
    <3> TAKE d \in To(n + 1)
    <3>1. d # Root => g[parent[d]] = h[parent[d]]
      <4> HIDE DEF To
      <4> QED BY <2>2, <2>3, <2>5
    <3> QED BY <3>1
  <2> HIDE DEF Path, To
  <2>9. Is(g, To(n + 1))
    BY <2>6, <2>7, <2>8
  <2> QED BY <2>9
<1>4. \A n \in Nat : P(n)
  <2> HIDE DEF P
  <2> DEFINE T == {n \in Nat : ~P(n)}
  <2> SUFFICES ASSUME T # {} PROVE FALSE
    OBVIOUS
  <2>1. T \subseteq Nat /\ \A n \in Nat : n \in T <=> ~P(n)
    OBVIOUS
  <2> HIDE DEF T
  <2>2. PICK x \in T : \A y \in T : ~(y < x)
    BY <2>1, LeastNatural
  <2>3. x # 0 /\ x - 1 \in Nat /\ x - 1 < x
    BY <1>2, <2>1, <2>2
  <2>4. P((x - 1) + 1)
    BY <1>3, <2>1, <2>2, <2>3
  <2> QED BY <2>1, <2>2, <2>3, <2>4
<1>5. PICK n \in Nat : To(n) = Nodes
  <2>1. IsFiniteSet(Folders) /\ \A d \in Folders : above[d] \subseteq Nodes
    BY FS_Subset, ListingAssumption DEF ListingAssumption, Entries, Nodes
  <2>2. IsFiniteSet(Nodes) /\ Cardinality(Nodes) \in Nat
    BY <2>1, FS_AddElement, FS_CardinalityType DEF Nodes
  <2>3. \A d \in Folders : Cardinality(above[d]) <= Cardinality(Nodes)
    BY <2>1, <2>2, FS_Subset
  <2>4. \A d \in Nodes : Depth(d) <= Cardinality(Nodes)
    BY <2>2, <2>3 DEF Depth, Nodes
  <2> QED BY <2>2, <2>4
<1>6. PICK h : Is(h, Nodes)
  <2> HIDE DEF To, Path
  <2> QED BY <1>4, <1>5
<1>7. subfolder = CHOOSE g : Is(g, Nodes)
  BY DEF subfolder, Nodes
<1> HIDE DEF Path
<1> USE DEF Is
<1>8. Is(subfolder, Nodes)
  BY <1>6, <1>7
<1> QED BY <1>8 DEF Path

LEMMA PathExtended ==
  ASSUME NEW s, FolderPath(s), NEW n \in Seq(Token)
  PROVE  FolderPath(s \o n \o <<"/">>)
<1> DEFINE r == s \o n
<1>1. "/" \in Token
  BY FtpAssumption DEF FtpAssumption
<1>2. r \in Seq(Token) /\ Len(r) \in Nat
  BY DEF FolderPath
<1> HIDE DEF r
<1> DEFINE q == r \o <<"/">>
<1>3. q \in Seq(Token) /\ Len(q) = Len(r) + 1 /\ q[Len(r) + 1] = "/"
  BY <1>1, <1>2, Appended
<1> HIDE DEF q
<1>4. q # <<>> /\ q[Len(q)] = "/"
  BY <1>2, <1>3
<1> QED BY <1>3, <1>4 DEF FolderPath, q, r

LEMMA FolderPaths == \A d \in Nodes : FolderPath(subfolder[d])
<1> DEFINE S == {d \in Nodes : FolderPath(subfolder[d])}
<1>1. /\ subfolder[Root] = source_path
      /\ \A d \in Folders : subfolder[d] = subfolder[parent[d]] \o folder_name[d] \o <<"/">>
  <2> DEFINE p(d) == IF d = Root THEN source_path
                     ELSE subfolder[parent[d]] \o folder_name[d] \o <<"/">>
  <2>1. Root \in Nodes /\ \A d \in Folders : d \in Nodes /\ d # Root
    BY DepthStep DEF Nodes
  <2>2. \A d \in Nodes : subfolder[d] = p(d)
    <3> HIDE DEF p
    <3>1. subfolder = [d \in Nodes |-> p(d)]
      BY SubfolderUnfold DEF p
    <3> QED BY <3>1
  <2> QED BY <2>1, <2>2
<1>2. Root \in S
  BY <1>1, FtpAssumption DEF FtpAssumption, FolderPath, Nodes
<1>3. ASSUME NEW d \in Folders, parent[d] \in S
      PROVE  d \in S
  <2>1. folder_name[d] \in Seq(Token)
    BY FtpAssumption DEF FtpAssumption
  <2>2. FolderPath(subfolder[parent[d]] \o folder_name[d] \o <<"/">>)
    BY <1>3, <2>1, PathExtended
  <2> QED BY <1>1, <2>2 DEF Nodes
<1> HIDE DEF S
<1>4. Nodes \subseteq S
  BY <1>2, <1>3, TreeInduction
<1> QED BY <1>4 DEF S

(* For every tree and every name, the URL of a folder asks the server for  *)
(* every entry of that folder: what is escaped of a path is the path again *)
(* (recursiv_list_FTP and fixSlashesInURL).                                *)
THEOREM FoldersAskedFor == ListingSpec => []AsksForFolder
<1>1. ASSUME NEW d \in Nodes
      PROVE  AskedFolder(ListUrl(d)) = subfolder[d] /\ AskedPattern(ListUrl(d)) = <<"*">>
  BY FolderPaths, UrlAsks DEF ListUrl
<1>2. AsksForFolder
  BY <1>1 DEF AsksForFolder, Nodes
<1> QED BY <1>2, PTL
=============================================================================

------------------------------ MODULE MCMover ------------------------------
(* Instances of Mover for TLC.                                             *)
EXTENDS Mover, TLC

CONSTANTS d1, d2, d3

(* One destination, a move; two, a copy.                                   *)
MoveTo == [d \in Dirs |-> 1]
TwoTo == [d \in Dirs |-> 2]
Copy == [d \in Dirs |-> "COPY"]

From(p) == [d \in Dirs |-> p]
FromDir == From("DIR")
FromFtp == From("FTP")
To1(p) == [d \in Dirs |-> [k \in Index \ {0} |-> p]]
ToDir == To1("DIR")
ToFtp == To1("FTP")
ToS3 == To1("S3")
ToDirFtp == [d \in Dirs |-> [k \in Index \ {0} |-> IF k = 1 THEN "DIR" ELSE "FTP"]]

(* Side by side: two moves whose download and upload are checked, and a    *)
(* balanced directory.                                                     *)
SideTo == [d \in Dirs |-> IF d = d3 THEN 2 ELSE 1]
SideMode == [d \in Dirs |-> IF d = d3 THEN "BALANCER" ELSE "COPY"]
SideFrom == [d \in Dirs |-> IF d = d2 THEN "FTP" ELSE "DIR"]
SideDestinations ==
  [d \in Dirs |-> [k \in Index \ {0} |-> IF d = d1 \/ k = 2 THEN "S3" ELSE "DIR"]]

Symmetry == Permutations(Threads) \union Permutations(Slots) \union Permutations(Files)
=============================================================================

----------------------------- MODULE MCScanner -----------------------------
(* Instances of Scanner for TLC.                                           *)
EXTENDS Scanner, TLC

CONSTANTS d1, d2

(* The files of d1 are copied to two destinations; d2, where an instance   *)
(* has it, was configured without one.                                     *)
CopyTo == [d \in Dirs |-> IF d = d1 THEN 2 ELSE 0]
CopyMode == [d \in Dirs |-> "COPY"]
FromDir == [d \in Dirs |-> "DIR"]

Symmetry == Permutations(Threads) \union Permutations(Slots)
=============================================================================

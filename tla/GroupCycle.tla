----------------------------- MODULE GroupCycle -----------------------------
(***************************************************************************)
(* What process_file and delete_file promise of the groups of a listing,   *)
(* without threads, queue or counters: the transfers of a group return in  *)
(* any order, each once; only then is the source removed, or, when the     *)
(* transfer itself moved it, left alone; and only then is the group gone.  *)
(***************************************************************************)
EXTENDS Integers

CONSTANTS
  Group,   \* the groups
  size,    \* size[g]: transfers of group g
  move     \* move[g]: its transfer removes the source itself

VARIABLES
  phase,       \* phase[g]: unused, transferring, being removed
  unreturned   \* transfers of g that have not returned

cycleVars == <<phase, unreturned>>

CycleTypeOK ==
  /\ phase \in [Group -> {"unused", "transfer", "remove"}]
  /\ unreturned \in [Group -> SUBSET Int]

CycleInit ==
  /\ phase = [g \in Group |-> "unused"]
  /\ unreturned = [g \in Group |-> {}]

Begin(g) ==
  /\ phase[g] = "unused"
  /\ phase' = [phase EXCEPT ![g] = "transfer"]
  /\ unreturned' = [unreturned EXCEPT ![g] = 1..size[g]]

Return(g, i) ==
  /\ i \in unreturned[g]
  /\ unreturned' = [unreturned EXCEPT ![g] = @ \ {i}]
  /\ UNCHANGED phase

LastReturned(g) ==
  /\ phase[g] = "transfer"
  /\ unreturned[g] = {}
  /\ phase' = [phase EXCEPT ![g] = IF move[g] THEN "unused" ELSE "remove"]
  /\ UNCHANGED unreturned

Removed(g) ==
  /\ phase[g] = "remove"
  /\ phase' = [phase EXCEPT ![g] = "unused"]
  /\ UNCHANGED unreturned

CycleNext ==
  \E g \in Group :
    \/ Begin(g)
    \/ \E i \in unreturned[g] : Return(g, i)
    \/ LastReturned(g)
    \/ Removed(g)

CycleSpec == CycleInit /\ [][CycleNext]_cycleVars
=============================================================================

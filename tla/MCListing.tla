----------------------------- MODULE MCListing -----------------------------
(* Instances of FtpSource, and with it of Listing, for TLC.                *)
EXTENDS FtpSource, TLC

CONSTANTS D, E, F, a1, b1, c1, a2, b2, call, star, prefix

(* The source holds the folders D and E, D the folder F; names come twice. *)
TreeParent ==
  [e \in {D, E, a1, b1} |-> Root] @@ [e \in {F, a2} |-> D] @@ (c1 :> E) @@ (b2 :> F)

Above ==
  LET up[e \in Entries] ==
        {parent[e]} \union IF parent[e] = Root THEN {} ELSE up[parent[e]]
  IN up

Tokens == {"/", " ", "%", "20", "2F", "test", "x", "a", "c", "d",
           ".bin", ".txt", ".call", ".*"}

SourcePath == <<"/", "test", "/">>

(* Two of the names hold what an escape is made of.                        *)
FolderName == (D :> <<"d", " ", "d">>) @@ (E :> <<"%", "20">>) @@ (F :> <<"%", "2F", "d">>)

(* The names x...xa.bin, a prefix of three at most, and what becomes of    *)
(* them: no list of destinations below makes a longer one.                 *)
Prefixed(n, ending) == [i \in 1..n |-> "x"] \o <<"a", ending>>

Bin == {Prefixed(n, ".bin") : n \in 0..3}

TreeName ==
  [f \in {a1, a2} |-> Prefixed(0, ".bin")] @@ [f \in {b1, b2} |-> Prefixed(1, ".bin")]
    @@ (c1 :> <<"c", ".txt">>)

AllNames == Bin \union {Prefixed(n, ".call") : n \in 0..3} \union {<<"c", ".txt">>, <<".*">>}

(* The mask "(.*\\.)(bin)" of main.cpp:56, with the destination masks      *)
(* "\\1call" and ".*": a rewrite is no pattern, so the second one is the   *)
(* same name for every file.  The third, "x\\0", makes a name that the     *)
(* next destination may rewrite again, and that another file may have.     *)
Rewrite ==
  [m \in {None, call, star, prefix} |-> [n \in AllNames |->
     IF n \notin Bin THEN n
     ELSE CASE m = call -> Prefixed(Len(n) - 2, ".call")
            [] m = star -> <<".*">>
            [] m = prefix /\ Len(n) < 5 -> <<"x">> \o n
            [] OTHER -> n]]

(* Every protocol with every kind of group: no destination, one, several;  *)
(* masks that leave alone, merge, or rewrite again what was rewritten.     *)
Destinations == {<<>>, <<None>>, <<call>>, <<prefix, None>>, <<call, star>>,
                 <<prefix, prefix>>, <<None, prefix, call>>}

ListingConfigs ==
  [protocol : Protocol, recursiv : BOOLEAN, file_mode : {"COPY", "BALANCER"},
   mask : {"none", "valid"}, to : Destinations, empty : {FALSE}]
  \union
  [protocol : Protocol, recursiv : BOOLEAN, file_mode : {"COPY"},
   mask : {"none", "invalid"}, to : {<<None>>}, empty : BOOLEAN]
=============================================================================

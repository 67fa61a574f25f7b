----------------------------- MODULE MCBootstrap -----------------------------
(***************************************************************************)
(* TLC instance of Bootstrap: the three programs start on one new file,    *)
(* or one of an earlier version, seeded with a proxy that brings a group   *)
(* of two targets, all with generated ids as in                            *)
(* configs/config.example.json, and a redirect with an id of its own; or   *)
(* with a proxy whose group has an id in the file; or with one whose       *)
(* second target has.                                                      *)
(***************************************************************************)
EXTENDS Bootstrap

CONSTANTS p1, p2, p3

MCKind == [p \in Process |-> CASE p = p1 -> "admin" [] p = p2 -> "gateway" [] OTHER -> "server"]

MCUsername == [p \in Process |-> "admin"]

MCSeedFile ==
    {<<[group |-> TRUE, targets |-> 2, fixed |-> FALSE, named |-> {}],
       [group |-> FALSE, targets |-> 0, fixed |-> TRUE, named |-> {}]>>,
     <<[group |-> TRUE, targets |-> 1, fixed |-> TRUE, named |-> {}]>>,
     <<[group |-> TRUE, targets |-> 2, fixed |-> FALSE, named |-> {2}]>>}
=============================================================================

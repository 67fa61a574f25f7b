----------------------------- MODULE MCAdminApi -----------------------------
(***************************************************************************)
(* TLC instance of AdminApi: two clients, two accounts (two programs that  *)
(* start together with different bootstrap names make two), a group and    *)
(* its target.                                                             *)
(***************************************************************************)
EXTENDS AdminApi, TLC

CONSTANTS p1, u1, u2, ann, bob, x, y, g, t

MCFirstAccount ==
    [u \in User |-> IF u = u1 THEN [name |-> ann, password |-> x]
                    ELSE [name |-> bob, password |-> x]]

MCGroupOf == [i \in Item |-> IF i = t THEN g ELSE NoItem]

\* Clients differ in nothing; the run has no liveness.
ClientSymmetry == Permutations(Client)
=============================================================================

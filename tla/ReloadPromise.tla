---------------------------- MODULE ReloadPromise ----------------------------
(***************************************************************************)
(* What a configuration reload promises, without saying how the store is   *)
(* read: the router it installs has exactly the routes that were listed    *)
(* when it began, each with its group as it was at one moment of the       *)
(* reload and its targets as they were at one moment of the reload.        *)
(*                                                                         *)
(* It does not promise that these moments are the same: see               *)
(* ServedPairsExisted in HotReloadHistory.                                 *)
(***************************************************************************)
EXTENDS RuntimeConfig

VARIABLES
    running,      \* the gateway process exists
    active,       \* the router
    refreshing,   \* a reload is in progress
    moments       \* the tables at every moment of that reload, from its start

promiseVars == <<routes, groups, targets, running, active, refreshing, moments>>

Now == [routes |-> routes, groups |-> groups, targets |-> targets, first |-> FALSE]

Init == ~running /\ active = {} /\ refreshing = FALSE /\ moments = {}

\* The tables change; a reload in progress may read before or after.
Change ==
    /\ moments' = IF refreshing THEN moments \cup {Now'} ELSE moments
    /\ UNCHANGED <<running, active, refreshing>>

Start ==
    /\ running' = TRUE
    /\ UNCHANGED <<routes, groups, targets, active, refreshing, moments>>

Begin ==
    /\ running
    /\ ~refreshing
    /\ refreshing' = TRUE
    /\ moments' = {[Now EXCEPT !.first = TRUE]}
    /\ UNCHANGED <<routes, groups, targets, running, active>>

\* The ways the listed route r may have been read.
Readings(r) ==
    LET row == (CHOOSE m \in moments : m.first).routes[r]
    IN  {ReadRoute(r, row, g.groups, t.targets) : g \in moments, t \in moments}

Listed == EnabledIn((CHOOSE m \in moments : m.first).routes)

\* Every listed route is active as one of its readings says, or left out
\* because one of its readings cannot be activated.
Refresh ==
    /\ refreshing
    /\ \A e \in active' : e.id \in Listed
    /\ \A r \in Listed :
          \E rt \in Readings(r) : {e \in active' : e.id = r} = RouterNew({rt})
    /\ refreshing' = FALSE
    /\ moments' = {}
    /\ UNCHANGED <<routes, groups, targets, running>>

\* A reload that fails changes nothing.
GiveUp ==
    /\ refreshing' = FALSE
    /\ moments' = {}
    /\ UNCHANGED <<routes, groups, targets, running, active>>

\* Only the end of the process takes the router away.
Stop ==
    /\ running' = FALSE
    /\ active' = {}
    /\ refreshing' = FALSE
    /\ moments' = {}
    /\ UNCHANGED <<routes, groups, targets>>

Next == Change \/ Start \/ Begin \/ Refresh \/ GiveUp \/ Stop

Spec == Init /\ [][Next]_promiseVars
=============================================================================

-------------------------- MODULE HotReloadHistory --------------------------
(***************************************************************************)
(* HotReload with one history variable: the tables at every moment of the  *)
(* load in progress.  It constrains no step; the properties that compare   *)
(* the router with what the store held while it was read are stated here.  *)
(***************************************************************************)
EXTENDS HotReload

VARIABLE moments

historyVars == <<vars, moments>>

Promise == INSTANCE ReloadPromise WITH running <- proc # "down", refreshing <- loading

InitH == Init /\ moments = {}

\* Kept by every step from its effect on the load.
Remember ==
    moments' =
        CASE ~loading'            -> {}
          [] loading' /\ ~loading -> {[Promise!Now EXCEPT !.first = TRUE]}
          [] OTHER                -> moments \cup {Promise!Now'}

SpecH == InitH /\ [][Next /\ Remember]_historyVars /\ WF_historyVars(LoadStep /\ Remember)

-----------------------------------------------------------------------------
(* Properties *)

\* The loader, statement by statement, implements the promise of a reload:
\* no listed route is lost, none is invented, and each is as the store had
\* it at some moment of the load.
KeepsPromise == Promise!Spec

\* A reload sends requests only to targets that were enabled, not unhealthy
\* and at that very URL at some moment while it was reading.
FitAt(m, d) ==
    /\ m.targets[d.target] # NoRow
    /\ m.targets[d.target].enabled
    /\ m.targets[d.target].health # "unhealthy"
    /\ m.targets[d.target].url = d.url

ServedTargetsWereFit ==
    [][\A e \in active' \ active : e.row.type = "proxy" =>
          \A d \in e.dests : \E m \in moments : FitAt(m, d)]_historyVars

\* The route r sends requests to target t at its URL, as the tables of m say.
ServesAt(m, r, t) ==
    /\ m.routes[r] # NoRow
    /\ m.routes[r].enabled
    /\ m.routes[r].type = "proxy"
    /\ m.targets[t] # NoRow
    /\ m.targets[t].group = m.routes[r].group
    /\ m.groups[m.routes[r].group] # "unsupported"
    /\ FitAt(m, [target |-> t, url |-> m.targets[t].url])
    /\ m.targets[t].url # NoUrl

\* A route and target that were good during a whole load are served after
\* it: other routes, bad ones included, cannot keep them out.
GoodRoutesServed ==
    [][Reload =>
          \A r \in RouteId, t \in TargetId :
             (\A m \in moments : ServesAt(m, r, t)) =>
                \E e \in active' : e.id = r /\ \E d \in e.dests : d.target = t]_historyVars

\* Requests see no half-made update (API_GATEWAY_DEVELOPMENT_PLAN.md:924):
\* a router sends a route's requests only where the tables of one moment
\* said they go.  The loader reads the route and its targets at different
\* moments, so it does not hold.
ServedPairsExisted ==
    [][\A e \in active' \ active : e.row.type = "proxy" =>
          \A d \in e.dests : \E m \in moments :
             ServesAt(m, e.id, d.target) /\ FitAt(m, d)]_historyVars
=============================================================================

---------------------------- MODULE RuntimeConfig ----------------------------
(***************************************************************************)
(* What the data plane makes of the stored configuration: the runtime      *)
(* routes LoadConfig reads, and the active routes router.New builds from   *)
(* them with loadbalance.NewPicker.  Operators only.                       *)
(*                                                                         *)
(* The router keeps its routes sorted by priority; here it is a set of     *)
(* entries that carry their priority.  The picking order inside a picker   *)
(* is left to module LoadBalance: here it is the set it can pick from.     *)
(***************************************************************************)
EXTENDS ConfigStore

LoadedTarget == [id : TargetId, row : TargetRow]

\* A runtime route: the route's row, the strategy of its group (NoRow when
\* it has no group to read) and the group's targets.
RuntimeRoute ==
    [id : RouteId, row : RouteRow, strategy : Strategy \cup {NoRow},
     targets : SUBSET LoadedTarget]

\* Where an active route can send a request.  A redirect's destinations are
\* no rows of upstream_targets.
Destination == [target : TargetId \cup {NoRow}, url : Url]

ActiveRoute == [id : RouteId, row : RouteRow, dests : SUBSET Destination]

\* Only these routes have a group to read from the store.
NeedsGroup(row) == row.type = "proxy" /\ row.group # NoGroup

\* What SELECT ... WHERE group_id = g returns from the table ts.
TargetsIn(ts, g) ==
    {[id |-> t, row |-> ts[t]] :
        t \in {u \in TargetId : ts[u] # NoRow /\ ts[u].group = g}}

\* The runtime route read for r when its group row comes from the table gs
\* and its targets from the table ts.
ReadRoute(r, row, gs, ts) ==
    [id       |-> r,
     row      |-> row,
     strategy |-> IF NeedsGroup(row) THEN gs[row.group] ELSE NoRow,
     targets  |-> IF NeedsGroup(row) THEN TargetsIn(ts, row.group) ELSE {}]

\* Faulty variant: the health status is ignored.
UsableAnyHealth(row) == row.enabled /\ row.url # NoUrl

\* The targets NewPicker keeps.
Usable(row) == row.enabled /\ row.url # NoUrl /\ row.health # "unhealthy"

\* Faulty variant: the targets are not filtered.
DestinationsUnfiltered(rt) ==
    IF rt.row.type = "proxy"
    THEN {[target |-> x.id, url |-> x.row.url] : x \in rt.targets}
    ELSE {[target |-> NoRow, url |-> u] : u \in rt.row.redirect}

Destinations(rt) ==
    IF rt.row.type = "proxy"
    THEN {[target |-> x.id, url |-> x.row.url] :
             x \in {y \in rt.targets : Usable(y.row)}}
    ELSE {[target |-> NoRow, url |-> u] : u \in rt.row.redirect}

\* Faulty variant: a route without a usable target is activated.
ActivatesEmpty(rt) ==
    /\ rt.row.enabled
    /\ rt.row.type \in {"proxy", "redirect"}
    /\ rt.row.type = "proxy" => rt.strategy # "unsupported"

\* router.New activates a route or skips it, never fails for one.
Activates(rt) ==
    /\ rt.row.enabled
    /\ rt.row.type \in {"proxy", "redirect"}
    /\ rt.row.type = "proxy" => rt.strategy # "unsupported"
    /\ Destinations(rt) # {}

\* Faulty variant: one route that cannot be activated fails the whole build.
RouterNewAllOrNothing(rts) ==
    IF \A x \in rts : Activates(x)
    THEN {[id |-> rt.id, row |-> rt.row, dests |-> Destinations(rt)] : rt \in rts}
    ELSE {}

RouterNew(rts) ==
    {[id |-> rt.id, row |-> rt.row, dests |-> Destinations(rt)] :
        rt \in {x \in rts : Activates(x)}}

\* The routes with a row that is enabled in the table rs.
EnabledIn(rs) == {r \in RouteId : rs[r] # NoRow /\ rs[r].enabled}

\* The router one gets from tables that do not change while they are read.
RouterOf(rs, gs, ts) ==
    RouterNew({ReadRoute(r, rs[r], gs, ts) : r \in EnabledIn(rs)})
=============================================================================

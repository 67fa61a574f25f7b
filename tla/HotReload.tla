------------------------------ MODULE HotReload ------------------------------
(***************************************************************************)
(* The gateway process and its configuration: start-up load, periodic      *)
(* reload (reloadSQLiteConfig), Store.LoadConfig statement by statement,   *)
(* Gateway.Reload, and a crash.  Admin requests and health checks change   *)
(* the tables between any two statements of a load: the admin API may run  *)
(* in another process on the same file, and in the same process it shares  *)
(* the connection statement by statement.                                  *)
(***************************************************************************)
EXTENDS RuntimeConfig

CONSTANT AutoDisableThreshold

ASSUME ThresholdAssumption == AutoDisableThreshold \in Nat

VARIABLES
    proc,      \* the gateway process: down, starting or serving
    loading,   \* a LoadConfig is in progress
    todo,      \* enabled rows ListRoutes returned and the loop has not reached
    found,     \* the group row GetUpstreamGroup has just read, with its route
    loaded,    \* the runtime routes read so far
    active     \* the router requests are matched against

loadVars   == <<loading, todo, found, loaded>>
reloadVars == <<proc, loading, todo, found, loaded, active>>
vars       == <<storeVars, reloadVars>>

Nothing == [r \in RouteId |-> NoRow]

GroupFound == [route : RouteId, strategy : Strategy]

ReloadTypeOK ==
    /\ proc \in {"down", "starting", "serving"}
    /\ loading \in BOOLEAN
    /\ todo \in [RouteId -> RouteRow \cup {NoRow}]
    /\ found \in GroupFound \cup {NoRow}
    /\ loaded \in SUBSET RuntimeRoute
    /\ active \in SUBSET ActiveRoute

TypeOK == StoreTypeOK /\ ReloadTypeOK

Init ==
    /\ StoreTypeOK
    /\ ForeignKeysHold
    /\ posting = NoPost
    /\ proc = "down"
    /\ loading = FALSE
    /\ todo = Nothing
    /\ found = NoRow
    /\ loaded = {}
    /\ active = {}

EndLoad ==
    /\ loading' = FALSE
    /\ todo' = Nothing
    /\ found' = NoRow
    /\ loaded' = {}

-----------------------------------------------------------------------------
(* LoadConfig *)

StartProcess ==
    /\ proc = "down"
    /\ proc' = "starting"
    /\ UNCHANGED <<storeVars, loadVars, active>>

\* At start-up, or when the ticker fires: a tick that fires during a load
\* waits for it, the ticker keeps one.
ListRoutes ==
    /\ proc # "down"
    /\ ~loading
    /\ loading' = TRUE
    /\ todo' = [r \in RouteId |-> IF r \in EnabledIn(routes) THEN routes[r] ELSE NoRow]
    /\ UNCHANGED <<storeVars, proc, found, loaded, active>>

\* The loop reaches r: no route of a higher priority is left.
Reaches(r) ==
    /\ loading
    /\ found = NoRow
    /\ todo[r] # NoRow
    /\ \A q \in RouteId : todo[q] # NoRow => todo[q].priority <= todo[r].priority

\* A redirect, a route of another type or a proxy without a group: no
\* statement is needed.
LoadPlainRoute(r) ==
    /\ Reaches(r)
    /\ ~NeedsGroup(todo[r])
    /\ loaded' = loaded \cup {ReadRoute(r, todo[r], groups, targets)}
    /\ todo' = [todo EXCEPT ![r] = NoRow]
    /\ UNCHANGED <<storeVars, proc, loading, found, active>>

\* Faulty variant: a missing group row is not noticed.
LoadGroupRowUnchecked(r) ==
    /\ Reaches(r)
    /\ NeedsGroup(todo[r])
    /\ found' = [route |-> r, strategy |-> groups[todo[r].group]]
    /\ UNCHANGED <<storeVars, proc, loading, todo, loaded, active>>

\* GetUpstreamGroup, first statement.
LoadGroupRow(r) ==
    /\ Reaches(r)
    /\ NeedsGroup(todo[r])
    /\ groups[todo[r].group] # NoRow
    /\ found' = [route |-> r, strategy |-> groups[todo[r].group]]
    /\ UNCHANGED <<storeVars, proc, loading, todo, loaded, active>>

\* GetUpstreamGroup, second statement: ListUpstreamTargets.
LoadTargets ==
    /\ loading
    /\ found # NoRow
    /\ loaded' = loaded \cup
         {[id |-> found.route, row |-> todo[found.route], strategy |-> found.strategy,
           targets |-> TargetsIn(targets, todo[found.route].group)]}
    /\ todo' = [todo EXCEPT ![found.route] = NoRow]
    /\ found' = NoRow
    /\ UNCHANGED <<storeVars, proc, loading, active>>

\* New router, swapped in under the write lock.  At start-up this is
\* NewWithRequestLogStore, then the server listens.
Reload ==
    /\ loading
    /\ todo = Nothing
    /\ found = NoRow
    /\ active' = RouterNew(loaded)
    /\ proc' = "serving"
    /\ EndLoad
    /\ UNCHANGED storeVars

\* Faulty variant: a failed load leaves the gateway without routes.
FailLoadClearing ==
    /\ proc' = IF proc = "starting" THEN "down" ELSE proc
    /\ active' = {}
    /\ EndLoad
    /\ UNCHANGED storeVars

\* LoadConfig returns an error: a running gateway warns and keeps what it
\* has, a starting one exits.
FailLoad ==
    /\ proc' = IF proc = "starting" THEN "down" ELSE proc
    /\ EndLoad
    /\ UNCHANGED <<storeVars, active>>

\* The group was deleted since ListRoutes: sql.ErrNoRows fails the load.
GroupMissing(r) ==
    /\ Reaches(r)
    /\ NeedsGroup(todo[r])
    /\ groups[todo[r].group] = NoRow
    /\ FailLoad

\* A statement fails: the file stays locked past busy_timeout, an I/O error.
StoreError ==
    /\ loading
    /\ FailLoad

\* The process is stopped or dies; its router and load die with it.
Crash ==
    /\ proc # "down"
    /\ proc' = "down"
    /\ active' = {}
    /\ EndLoad
    /\ UNCHANGED storeVars

-----------------------------------------------------------------------------
LoadStep ==
    \/ ListRoutes
    \/ \E r \in RouteId : LoadPlainRoute(r) \/ LoadGroupRow(r) \/ GroupMissing(r)
    \/ LoadTargets
    \/ Reload

HealthStatement ==
    \E t \in TargetId :
        \/ RecordUpstreamTargetHealthCheck(t, "healthy", FALSE, AutoDisableThreshold)
        \/ RecordUpstreamTargetHealthCheck(t, "unhealthy", TRUE, AutoDisableThreshold)

StoreStep == (AdminStatement \/ HealthStatement) /\ UNCHANGED reloadVars

Next == StoreStep \/ StartProcess \/ LoadStep \/ StoreError \/ Crash

\* The reload goroutine is always scheduled again and its ticker fires.
Fairness == WF_vars(LoadStep)

Spec == Init /\ [][Next]_vars /\ Fairness

-----------------------------------------------------------------------------
\* An active route can always send a request somewhere, no route is active
\* twice, and only a serving process has active routes: the branch of
\* handleProxy that answers 502 for an empty picker is never taken.
ActiveUsable ==
    /\ \A e \in active : e.row.enabled /\ e.dests # {}
    /\ \A e, f \in active : e.id = f.id => e = f
    /\ active # {} => proc = "serving"

\* Once the tables stop changing, a gateway that stays up comes to serve
\* exactly what they say, whatever the loads in between read or failed on.
EventuallyCurrent ==
    <>[](proc = "serving") => <>[](active = RouterOf(routes, groups, targets))
=============================================================================

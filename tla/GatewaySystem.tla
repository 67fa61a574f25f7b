---------------------------- MODULE GatewaySystem ----------------------------
(***************************************************************************)
(* The all-in-one server (cmd/server): admin requests, the reload loop and *)
(* the health checker work on the same tables in one process, and requests *)
(* follow the router the reload loop installs.  HotReload and HealthCheck  *)
(* keep their own actions; this module says which of them share a step.    *)
(***************************************************************************)
EXTENDS HotReload

CONSTANTS NoProbe, NoDraft, BlankUrl

VARIABLES up, checking, left, probed, draft

Checker == INSTANCE HealthCheck

ASSUME SystemAssumption ==
    /\ BlankUrl \subseteq Url
    /\ NoProbe \notin Checker!Probe
    /\ NoDraft \notin [id : TargetId, doc : TargetDoc]

checkVars  == <<checking, left, probed>>
pageVars   == <<up, draft>>
systemVars == <<vars, checkVars, pageVars>>

SystemTypeOK == TypeOK /\ Checker!HealthTypeOK

SystemInit == Init /\ Checker!Init

\* The checker is started once the first router is in place.
Check ==
    /\ proc = "serving"
    /\ Checker!CheckStep
    /\ UNCHANGED reloadVars

LoadConfiguration ==
    /\ LoadStep
    /\ UNCHANGED <<checkVars, pageVars>>

StartServer ==
    /\ StartProcess
    /\ UNCHANGED <<checkVars, pageVars>>

\* An admin request of the API, or the page that edits a target.
Administer ==
    \/ AdminStatement /\ UNCHANGED <<reloadVars, checkVars, pageVars>>
    \/ Checker!AdminStep /\ UNCHANGED reloadVars

StoreFails ==
    \/ StoreError /\ UNCHANGED <<checkVars, pageVars>>
    \/ Checker!RecordFails /\ UNCHANGED reloadVars

\* Router, load and round die together; the tables are what is left.
ServerDies ==
    /\ Crash
    /\ checking' = FALSE
    /\ left' = {}
    /\ probed' = NoProbe
    /\ UNCHANGED pageVars

UpstreamChanges ==
    /\ \E u \in Url : Checker!UpstreamChanges(u)
    /\ UNCHANGED reloadVars

SystemNext ==
    \/ Check \/ LoadConfiguration \/ StartServer
    \/ Administer \/ StoreFails \/ ServerDies \/ UpstreamChanges

\* The reload loop and the checker are goroutines of their own.
SystemSpec ==
    /\ SystemInit /\ [][SystemNext]_systemVars
    /\ WF_systemVars(LoadConfiguration)
    /\ WF_systemVars(Check)

-----------------------------------------------------------------------------
(* Properties *)

StaysUp == <>[](proc = "serving")

\* Requests stop going to an upstream that stays down: checker, table and
\* reload loop together take it out of every route.
DownTargetLeavesRotation ==
    StaysUp =>
        \A t \in TargetId :
            <>[]Checker!IsDown(t) =>
                <>[](\A e \in active : \A d \in e.dests : d.target # t)

\* An enabled target that stays up comes to be served by every enabled route
\* of its group, also after it was marked unhealthy or the process died.
WantedBy(r, t) ==
    /\ r \in EnabledIn(routes)
    /\ NeedsGroup(routes[r])
    /\ groups[routes[r].group] # "unsupported"
    /\ Checker!IsUp(t)
    /\ targets[t].group = routes[r].group

UpTargetServed ==
    StaysUp =>
        \A r \in RouteId, t \in TargetId :
            <>[]WantedBy(r, t) =>
                <>[](\E e \in active : e.id = r /\ \E d \in e.dests : d.target = t)

=============================================================================

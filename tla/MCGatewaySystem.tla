--------------------------- MODULE MCGatewaySystem ---------------------------
(***************************************************************************)
(* TLC instance of GatewaySystem: one route over one group with two        *)
(* targets, one of the URLs blank, and at most MaxEvents admin steps,      *)
(* store errors, crashes and upstream changes.                             *)
(***************************************************************************)
EXTENDS GatewaySystem, TLC

CONSTANTS r1, g1, t1, t2, u1, u2, blank, MaxEvents

VARIABLE events

Proxy(g) == [enabled |-> TRUE, type |-> "proxy", priority |-> 1, group |-> g, redirect |-> {}]

MCRouteInput == {Proxy(g1), Proxy(NoGroup)}

MCTargetInput == {[url |-> u2, enabled |-> TRUE, health |-> "unknown", failures |-> 0]}

Target(u) == [group |-> g1, url |-> u, enabled |-> TRUE, health |-> "healthy", failures |-> 0]

MCInit ==
    /\ routes = (r1 :> Proxy(g1))
    /\ groups = (g1 :> "round-robin")
    /\ targets \in {t1 :> Target(u1) @@ t2 :> Target(u2), t1 :> Target(u1) @@ t2 :> NoRow}
    /\ posting = NoPost
    /\ proc = "down" /\ loading = FALSE /\ todo = Nothing
    /\ found = NoRow /\ loaded = {} /\ active = {}
    /\ up = [u \in Url |-> u # blank]
    /\ checking = FALSE /\ left = {} /\ probed = NoProbe /\ draft = NoDraft
    /\ events = 0

Event ==
    /\ events < MaxEvents
    /\ events' = events + 1
    /\ Administer \/ StoreFails \/ ServerDies \/ UpstreamChanges

OwnStep == (Check \/ LoadConfiguration \/ StartServer) /\ UNCHANGED events

MCNext == Event \/ OwnStep

mcVars == <<systemVars, events>>

MCSpec ==
    /\ MCInit /\ [][MCNext]_mcVars
    /\ WF_mcVars(LoadConfiguration /\ UNCHANGED events)
    /\ WF_mcVars(Check /\ UNCHANGED events)
=============================================================================

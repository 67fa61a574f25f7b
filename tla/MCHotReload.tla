----------------------------- MODULE MCHotReload -----------------------------
(***************************************************************************)
(* TLC instance of HotReloadHistory: two routes, groups and targets, at    *)
(* most MaxEdits statements of admins and health checks and MaxFaults      *)
(* store errors and crashes.  The gateway's own steps are not bounded.     *)
(***************************************************************************)
EXTENDS HotReloadHistory, TLC

CONSTANTS r1, r2, g1, g2, t1, t2, u1, u2, MaxEdits, MaxFaults

VARIABLES edits, faults

Proxy(g, p) == [enabled |-> TRUE, type |-> "proxy", priority |-> p, group |-> g, redirect |-> {}]
Redirect(us) == [enabled |-> TRUE, type |-> "redirect", priority |-> 1, group |-> NoGroup, redirect |-> us]

MCRouteInput ==
    {Proxy(g1, 2), Proxy(g2, 1), Redirect({u2}), [Redirect({}) EXCEPT !.type = "other"]}

Doc(u, e, h, f) == [url |-> u, enabled |-> e, health |-> h, failures |-> f]

MCTargetInput == {Doc(u1, TRUE, "unknown", 0), Doc(NoUrl, TRUE, "healthy", 0), Doc(u2, FALSE, "unhealthy", 1)}

\* A populated file, and one whose last group and route are not there yet.
Full ==
    /\ routes = (r1 :> Proxy(g1, 2) @@ r2 :> Proxy(g2, 1))
    /\ groups = (g1 :> "round-robin" @@ g2 :> "round-robin")
    /\ targets = (t1 :> TargetOf(g1, Doc(u1, TRUE, "healthy", 0)) @@ t2 :> TargetOf(g2, Doc(u2, TRUE, "unhealthy", 1)))

Partial ==
    /\ routes = (r1 :> Proxy(g1, 2) @@ r2 :> NoRow)
    /\ groups = (g1 :> "round-robin" @@ g2 :> NoRow)
    /\ targets = (t1 :> TargetOf(g1, Doc(u1, TRUE, "unknown", 0)) @@ t2 :> NoRow)

MCInit ==
    /\ Full \/ Partial
    /\ posting = NoPost
    /\ proc = "down" /\ loading = FALSE /\ todo = Nothing
    /\ found = NoRow /\ loaded = {} /\ active = {}
    /\ moments = {}
    /\ edits = 0 /\ faults = 0

Edit ==
    /\ edits < MaxEdits
    /\ edits' = edits + 1
    /\ StoreStep
    /\ Remember
    /\ UNCHANGED faults

Fault ==
    /\ faults < MaxFaults
    /\ faults' = faults + 1
    /\ StoreError \/ Crash
    /\ Remember
    /\ UNCHANGED edits

OwnStep == (StartProcess \/ LoadStep) /\ Remember /\ UNCHANGED <<edits, faults>>

MCNext == Edit \/ Fault \/ OwnStep

mcVars == <<historyVars, edits, faults>>

\* The reload goroutine is scheduled again and its ticker fires.
MCSpec ==
    MCInit /\ [][MCNext]_mcVars /\ WF_mcVars(LoadStep /\ Remember /\ UNCHANGED <<edits, faults>>)
=============================================================================

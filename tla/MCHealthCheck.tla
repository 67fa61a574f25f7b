---------------------------- MODULE MCHealthCheck ----------------------------
(***************************************************************************)
(* TLC instance of HealthHistory: one group with two targets, two URLs and *)
(* a blank one, and at most MaxDisturbances things that change around the  *)
(* checker.                                                                *)
(***************************************************************************)
EXTENDS HealthHistory, TLC

CONSTANTS g1, t1, t2, u1, u2, blank, MaxDisturbances

VARIABLE disturbances

MCTargetInput ==
    {[url |-> u2, enabled |-> TRUE, health |-> "unknown", failures |-> 0]}

MCInit ==
    /\ routes = <<>>
    /\ groups = (g1 :> "round-robin")
    /\ targets = (t1 :> [group |-> g1, url |-> u1, enabled |-> TRUE, health |-> "unknown", failures |-> 0]
               @@ t2 :> NoRow)
    /\ posting = NoPost
    /\ up \in [Url -> BOOLEAN] /\ ~up[blank]
    /\ checking = FALSE /\ left = {} /\ probed = NoProbe /\ draft = NoDraft
    /\ streak = [t \in TargetId |-> 0] /\ tainted = {} /\ failedAt = {}
    /\ disturbances = 0

Disturbed ==
    /\ disturbances < MaxDisturbances
    /\ disturbances' = disturbances + 1
    /\ Disturbance
    /\ Remember

OwnStep == CheckStep /\ Remember /\ UNCHANGED disturbances

MCNext == Disturbed \/ OwnStep

mcVars == <<historyVars, disturbances>>

MCSpec == MCInit /\ [][MCNext]_mcVars /\ WF_mcVars(OwnStep)
=============================================================================

---------------------------- MODULE HealthHistory ----------------------------
(***************************************************************************)
(* HealthCheck with history variables: what the probes really found, which *)
(* the failure count in the table is meant to stand for.                   *)
(***************************************************************************)
EXTENDS HealthCheck

VARIABLES
    streak,   \* failed probes of a target since its last healthy one, up to
              \* the threshold
    tainted,  \* targets whose count a client set, or whose result was lost
    failedAt  \* the targets and URLs that ever failed a probe

historyVars == <<healthVars, streak, tainted, failedAt>>

InitH ==
    /\ Init
    /\ streak = [t \in TargetId |-> 0]
    /\ tainted = {t \in TargetId : targets[t] # NoRow /\ targets[t].failures > 0}
    /\ failedAt = {}

\* A probe has ended in this step.
Probed == probed = NoProbe /\ probed' # NoProbe

\* The step replaced the row's count by a client's, or dropped a result.
Taints(t) ==
    \/ ~CheckStep /\ targets'[t] # targets[t] /\ targets'[t] # NoRow
    \/ RecordFails /\ probed.id = t
    \/ ~CheckStep /\ probed # NoProbe /\ probed' = NoProbe /\ probed.id = t

\* The streak after a probe of t that found status.
Extended(t, status) ==
    IF status = "healthy" THEN 0
    ELSE IF streak[t] < AutoDisableThreshold THEN streak[t] + 1 ELSE streak[t]

Remember ==
    /\ streak' = [t \in TargetId |->
          IF Probed /\ probed'.id = t THEN Extended(t, probed'.status)
          ELSE IF targets'[t] = NoRow THEN 0 ELSE streak[t]]
    /\ tainted' = tainted \cup {t \in TargetId : Taints(t)}
    /\ failedAt' = IF Probed /\ probed'.status = "unhealthy"
                   THEN failedAt \cup {<<probed'.id, probed'.row.url>>} ELSE failedAt

SpecH == InitH /\ [][Next /\ Remember]_historyVars /\ WF_historyVars(CheckStep /\ Remember)

-----------------------------------------------------------------------------
(* Properties *)

\* The checker disables t in this step.
Disables(t) ==
    /\ RecordCheck
    /\ targets[t] # NoRow
    /\ targets[t].enabled
    /\ ~targets'[t].enabled

\* The checker disables a target only after as many consecutive failed probes
\* as the threshold says, unless a client set its count or a result of its
\* was lost.
DisabledAfterThreshold ==
    [][\A t \in TargetId :
          Disables(t) /\ t \notin tainted => streak[t] >= AutoDisableThreshold]_historyVars

\* "After 3 failed checks the target is automatically disabled"
\* (README.md:120): at the least, what is disabled has failed a check.  The
\* result is recorded by id, so it does not hold of a URL just saved.
DisabledUrlFailed ==
    [][\A t \in TargetId :
          Disables(t) /\ HasUrl(targets[t]) =>
             <<t, targets[t].url>> \in failedAt]_historyVars
=============================================================================

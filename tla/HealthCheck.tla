----------------------------- MODULE HealthCheck -----------------------------
(***************************************************************************)
(* The health checker (internal/health) against the upstream_targets table *)
(* and against what changes while a round of it runs: upstreams that go up *)
(* and down, an admin who saves the copy of a target a page loaded earlier,*)
(* targets added and deleted, a store that refuses a write, a restart.     *)
(*                                                                         *)
(* A round lists the targets once and then probes and records them one by  *)
(* one; a probe takes up to two requests of up to the client's timeout, so *)
(* anything can happen between the listing, the probe and the record.      *)
(***************************************************************************)
EXTENDS ConfigStore

CONSTANTS
    AutoDisableThreshold,  \* 0: never disable
    BlankUrl,              \* the URLs of blanks alone, which nothing answers
    NoProbe, NoDraft

ASSUME HealthAssumption ==
    /\ AutoDisableThreshold \in Nat
    /\ BlankUrl \subseteq Url
    /\ NoProbe \notin [id : TargetId, row : TargetRow, status : Health]
    /\ NoDraft \notin [id : TargetId, doc : TargetDoc]

VARIABLES
    up,        \* which URLs answer a probe in time with a status below 500
    checking,  \* a round is running
    left,      \* the listed targets the round has not reached
    probed,    \* the target just probed, as it was listed, and the result
    draft      \* the copy of a target an admin's page holds

checkVars  == <<checking, left, probed>>
healthVars == <<storeVars, up, checkVars, draft>>

Listed == [id : TargetId, row : TargetRow]
Probe  == [id : TargetId, row : TargetRow, status : Health]

HealthTypeOK ==
    /\ StoreTypeOK
    /\ up \in [Url -> BOOLEAN]
    /\ checking \in BOOLEAN
    /\ left \in SUBSET Listed
    /\ probed \in Probe \cup {NoProbe}
    /\ draft \in [id : TargetId, doc : TargetDoc] \cup {NoDraft}

Init ==
    /\ StoreTypeOK
    /\ ForeignKeysHold
    /\ posting = NoPost
    /\ up \in [Url -> BOOLEAN] /\ \A u \in BlankUrl : ~up[u]
    /\ checking = FALSE
    /\ left = {}
    /\ probed = NoProbe
    /\ draft = NoDraft

-----------------------------------------------------------------------------
(* CheckOnce *)

\* The checker trims the URL before it looks whether there is one.  A picker
\* does not (RuntimeConfig!Usable): a URL of blanks is one to it.
HasUrl(row) == row.url \notin BlankUrl \cup {NoUrl}

\* Faulty variant: a target found unhealthy is not probed again.
CheckableHealthy(row) ==
    row # NoRow /\ row.enabled /\ HasUrl(row) /\ row.health # "unhealthy"

\* Only enabled targets with a URL are probed.
Checkable(row) == row # NoRow /\ row.enabled /\ HasUrl(row)

ListAllUpstreamTargets ==
    /\ ~checking
    /\ checking' = TRUE
    /\ left' = {[id |-> t, row |-> targets[t]] : t \in {u \in TargetId : Checkable(targets[u])}}
    /\ UNCHANGED <<storeVars, up, probed, draft>>

ProbeTarget(x) ==
    /\ checking
    /\ probed = NoProbe
    /\ x \in left
    /\ left' = left \ {x}
    /\ probed' = [id |-> x.id, row |-> x.row,
                  status |-> IF up[x.row.url] THEN "healthy" ELSE "unhealthy"]
    /\ UNCHANGED <<storeVars, up, checking, draft>>

\* Faulty variant: the failure count is not looked at.
NothingToRecordIfHealthy(p) == p.status = "healthy" /\ p.row.health = "healthy"

\* A healthy target that was listed as healthy, with no failure, is left alone.
NothingToRecord(p) ==
    p.status = "healthy" /\ p.row.health = "healthy" /\ p.row.failures = 0

SkipRecord ==
    /\ probed # NoProbe
    /\ NothingToRecord(probed) \/ targets[probed.id] = NoRow
    /\ probed' = NoProbe
    /\ UNCHANGED <<storeVars, up, checking, left, draft>>

\* Faulty variant: the row is written back as it was listed.
RecordListedRow ==
    /\ probed # NoProbe
    /\ ~NothingToRecord(probed)
    /\ targets[probed.id] # NoRow
    /\ targets' = [targets EXCEPT ![probed.id] =
                      Checked(probed.row, probed.status, probed.status = "unhealthy",
                              AutoDisableThreshold)]
    /\ probed' = NoProbe
    /\ UNCHANGED <<routes, groups, posting, up, checking, left, draft>>

\* By id alone: the row may have another URL, or be disabled, by now.
RecordCheck ==
    /\ probed # NoProbe
    /\ ~NothingToRecord(probed)
    /\ RecordUpstreamTargetHealthCheck(probed.id, probed.status,
            probed.status = "unhealthy", AutoDisableThreshold)
    /\ probed' = NoProbe
    /\ UNCHANGED <<up, checking, left, draft>>

EndRound ==
    /\ checking
    /\ left = {}
    /\ probed = NoProbe
    /\ checking' = FALSE
    /\ UNCHANGED <<storeVars, up, left, probed, draft>>

CheckStep ==
    \/ ListAllUpstreamTargets
    \/ \E x \in left : ProbeTarget(x)
    \/ SkipRecord
    \/ RecordCheck
    \/ EndRound

-----------------------------------------------------------------------------
(* What goes wrong around it *)

\* The UPDATE fails: the result is dropped and the round goes on.
RecordFails ==
    /\ probed # NoProbe
    /\ ~NothingToRecord(probed)
    /\ probed' = NoProbe
    /\ UNCHANGED <<storeVars, up, checking, left, draft>>

\* The process restarts: the round is gone, the table stays.
RestartChecker ==
    /\ checking
    /\ checking' = FALSE
    /\ left' = {}
    /\ probed' = NoProbe
    /\ UNCHANGED <<storeVars, up, draft>>

UpstreamChanges(u) ==
    /\ u \notin BlankUrl
    /\ up' = [up EXCEPT ![u] = ~@]
    /\ UNCHANGED <<storeVars, checkVars, draft>>

-----------------------------------------------------------------------------
(* The admin's page *)

DocOf(row) ==
    [url |-> row.url, enabled |-> row.enabled, health |-> row.health, failures |-> row.failures]

\* The page loads a target.
OpenTarget(t) ==
    /\ targets[t] # NoRow
    /\ draft' = [id |-> t, doc |-> DocOf(targets[t])]
    /\ UNCHANGED <<storeVars, up, checkVars>>

\* It is saved with another URL, switch or status.  The whole document goes
\* back, with the failure count as it was when the page loaded it.
SaveTarget(u, enabled, health) ==
    /\ draft # NoDraft
    /\ UpdateUpstreamTarget(draft.id,
          [draft.doc EXCEPT !.url = u, !.enabled = enabled, !.health = health])
    /\ draft' = NoDraft
    /\ UNCHANGED <<up, checkVars>>

AddTarget(t, g, doc) ==
    /\ CreateUpstreamTarget(t, g, doc)
    /\ UNCHANGED <<up, checkVars, draft>>

RemoveTarget(t) ==
    /\ DeleteUpstreamTarget(t)
    /\ UNCHANGED <<up, checkVars, draft>>

AdminStep ==
    \/ \E t \in TargetId : OpenTarget(t) \/ RemoveTarget(t)
    \/ \E u \in Url \cup {NoUrl}, enabled \in BOOLEAN, health \in Health :
          SaveTarget(u, enabled, health)
    \/ \E t \in TargetId, g \in GroupId, doc \in TargetInput : AddTarget(t, g, doc)

Disturbance ==
    \/ AdminStep
    \/ RecordFails
    \/ RestartChecker
    \/ \E u \in Url : UpstreamChanges(u)

Next == CheckStep \/ Disturbance

\* The checker's goroutine is scheduled and its ticker fires.
Spec == Init /\ [][Next]_healthVars /\ WF_healthVars(CheckStep)

-----------------------------------------------------------------------------
(* Properties *)

\* Whatever an admin changed since the round listed its targets, a check
\* writes back none of what it listed: it adds or removes no target, moves
\* none, changes no URL and never enables one an admin has disabled.
ChecksKeepAdminEdits ==
    [][CheckStep =>
          \A t \in TargetId :
             \/ targets[t] = NoRow /\ targets'[t] = NoRow
             \/ /\ targets[t] # NoRow /\ targets'[t] # NoRow
                /\ targets'[t].group = targets[t].group
                /\ targets'[t].url = targets[t].url
                /\ targets'[t].enabled => targets[t].enabled]_healthVars

\* A target with a URL to probe, which does not answer.
IsDown(t) == targets[t] # NoRow /\ HasUrl(targets[t]) /\ ~up[targets[t].url]

IsUp(t) ==
    /\ targets[t] # NoRow /\ HasUrl(targets[t])
    /\ targets[t].enabled
    /\ up[targets[t].url]

\* A target that stays down ends up disabled, even when results were lost or
\* a page wrote an old document over them (README.md:120).
DownTargetsDisabled ==
    AutoDisableThreshold > 0 =>
        \A t \in TargetId :
            <>[]IsDown(t) => <>[](targets[t] # NoRow /\ ~targets[t].enabled)

\* An enabled target that stays up ends up healthy with no failure counted,
\* whatever stale results and documents were written before.
UpTargetsRecover ==
    \A t \in TargetId :
        <>[]IsUp(t) =>
            <>[](targets[t] # NoRow /\ targets[t].health = "healthy" /\ targets[t].failures = 0)
=============================================================================

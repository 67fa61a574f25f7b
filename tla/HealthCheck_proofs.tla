-------------------------- MODULE HealthCheck_proofs --------------------------
(***************************************************************************)
(* The health checker for any targets, URLs and threshold: the types, what *)
(* a check may never change, and why the count in the table, which is      *)
(* written by id and read a round earlier, still stands for the number of  *)
(* failed probes of a target nobody else has touched.                      *)
(***************************************************************************)
EXTENDS HealthHistory, ConfigStore_proofs

HInv == HealthTypeOK /\ ForeignKeysHold

USE HealthAssumption, StoreAssumption DEF HealthAssumption, StoreAssumption

LEMMA StoreOfHealth == HInv <=> StoreInv /\ HealthTypeOK
BY DEF HInv, StoreInv, HealthTypeOK

LEMMA CheckStepKeeps == ASSUME HInv, CheckStep PROVE HInv'
<1> USE DEF HInv, HealthTypeOK
<1>1. CASE ListAllUpstreamTargets
  <2>1. left' \in SUBSET Listed
    BY <1>1 DEF ListAllUpstreamTargets, Checkable, Listed, StoreTypeOK
  <2> QED BY <1>1, <2>1 DEF ListAllUpstreamTargets, storeVars, StoreTypeOK, ForeignKeysHold
<1>2. ASSUME NEW x \in left, ProbeTarget(x) PROVE HInv'
  <2>1. x.id \in TargetId /\ x.row \in TargetRow
    BY DEF Listed
  <2>2. probed' \in Probe
    BY <1>2, <2>1 DEF ProbeTarget, Probe, Health
  <2> QED BY <1>2, <2>2 DEF ProbeTarget, storeVars, StoreTypeOK, ForeignKeysHold
<1>3. CASE SkipRecord
  BY <1>3 DEF SkipRecord, storeVars, StoreTypeOK, ForeignKeysHold
<1>4. CASE RecordCheck
  <2>1. probed.id \in TargetId /\ probed.status \in Health /\ (probed.status = "unhealthy") \in BOOLEAN
    BY <1>4 DEF RecordCheck, Probe
  <2>2. StoreInv'
    BY <1>4, <2>1, StoreOfHealth, CheckStatement DEF RecordCheck
  <2> QED BY <1>4, <2>2 DEF RecordCheck, StoreInv
<1>5. CASE EndRound
  BY <1>5 DEF EndRound, storeVars, StoreTypeOK, ForeignKeysHold
<1> QED BY <1>1, <1>2, <1>3, <1>4, <1>5 DEF CheckStep

LEMMA DisturbanceKeeps == ASSUME HInv, Disturbance PROVE HInv'
<1> USE DEF HInv, HealthTypeOK
<1>1. ASSUME NEW t \in TargetId, OpenTarget(t) PROVE HInv'
  <2>1. targets[t] \in TargetRow
    BY <1>1 DEF OpenTarget, StoreTypeOK
  <2>2. DocOf(targets[t]) \in TargetDoc
    BY <2>1 DEF DocOf, TargetRow, TargetDoc
  <2> QED BY <1>1, <2>2 DEF OpenTarget, storeVars, checkVars, StoreTypeOK, ForeignKeysHold
<1>2. ASSUME NEW t \in TargetId, RemoveTarget(t) PROVE HInv'
  <2>1. StoreInv'
    BY <1>2, StoreOfHealth, TargetDeleted DEF RemoveTarget
  <2> QED BY <1>2, <2>1 DEF RemoveTarget, checkVars, StoreInv
<1>3. ASSUME NEW u \in Url \cup {NoUrl}, NEW enabled \in BOOLEAN, NEW health \in Health,
             SaveTarget(u, enabled, health)
      PROVE  HInv'
  <2> DEFINE doc == [draft.doc EXCEPT !.url = u, !.enabled = enabled, !.health = health]
  <2>1. draft.id \in TargetId /\ draft.doc \in TargetDoc
    BY <1>3 DEF SaveTarget
  <2>2. doc \in TargetDoc
    BY <2>1 DEF TargetDoc
  <2>3. UpdateUpstreamTarget(draft.id, doc)
    BY <1>3 DEF SaveTarget
  <2> HIDE DEF doc
  <2>4. StoreInv'
    BY <2>1, <2>2, <2>3, StoreOfHealth, TargetUpdated
  <2> QED BY <1>3, <2>4 DEF SaveTarget, checkVars, StoreInv
<1>4. ASSUME NEW t \in TargetId, NEW g \in GroupId, NEW doc \in TargetInput, AddTarget(t, g, doc)
      PROVE  HInv'
  <2>1. StoreInv'
    BY <1>4, StoreOfHealth, TargetCreated DEF AddTarget
  <2> QED BY <1>4, <2>1 DEF AddTarget, checkVars, StoreInv
<1>5. CASE RecordFails \/ RestartChecker \/ \E u \in Url : UpstreamChanges(u)
  BY <1>5 DEF RecordFails, RestartChecker, UpstreamChanges, storeVars, checkVars,
              StoreTypeOK, ForeignKeysHold
<1> QED BY <1>1, <1>2, <1>3, <1>4, <1>5 DEF Disturbance, AdminStep

LEMMA StepKeeps == HInv /\ [Next]_healthVars => HInv'
<1> SUFFICES ASSUME HInv, [Next]_healthVars PROVE HInv' OBVIOUS
<1>1. CASE UNCHANGED healthVars
  BY <1>1 DEF HInv, HealthTypeOK, healthVars, storeVars, checkVars, StoreTypeOK, ForeignKeysHold
<1> QED BY <1>1, CheckStepKeeps, DisturbanceKeeps DEF Next

LEMMA InitKeeps == Init => HInv
BY DEF Init, HInv, HealthTypeOK, Listed

\* The round, the page and the tables keep their types, and every target stays
\* in an existing group, whatever is saved, deleted or lost while a round runs.
THEOREM HealthTypes == Spec => [](HealthTypeOK /\ ForeignKeysHold)
<1> QED BY InitKeeps, StepKeeps, PTL DEF Spec, HInv

\* One step of the checker leaves every target's group and URL, adds and
\* removes none, and enables none.
LEMMA CheckStepKeepsEdits ==
    ASSUME HInv, CheckStep, NEW t \in TargetId
    PROVE  \/ targets[t] = NoRow /\ targets'[t] = NoRow
           \/ /\ targets[t] # NoRow /\ targets'[t] # NoRow
              /\ targets'[t].group = targets[t].group
              /\ targets'[t].url = targets[t].url
              /\ targets'[t].enabled => targets[t].enabled
<1>1. CASE targets' = targets
  BY <1>1
<1>2. CASE RecordCheck
  <2> DEFINE row == Checked(targets[t], probed.status, probed.status = "unhealthy",
                            AutoDisableThreshold)
  <2>1. /\ targets \in [TargetId -> TargetRow \cup {NoRow}]
        /\ probed.status \in Health /\ (probed.status = "unhealthy") \in BOOLEAN
    BY <1>2 DEF RecordCheck, Probe, HInv, HealthTypeOK, StoreTypeOK
  <2>2. CASE t = probed.id
    <3>1. targets[t] \in TargetRow /\ targets'[t] = row
      BY <1>2, <2>1, <2>2 DEF RecordCheck, RecordUpstreamTargetHealthCheck
    <3>2. /\ row \in TargetRow /\ row.group = targets[t].group
          /\ row.url = targets[t].url /\ (row.enabled => targets[t].enabled)
      <4>1. PICK failed \in BOOLEAN : failed = (probed.status = "unhealthy")
        OBVIOUS
      <4>2. row = Checked(targets[t], probed.status, failed, AutoDisableThreshold)
        BY <4>1, Zenon
      <4> HIDE DEF row
      <4> QED BY <2>1, <3>1, <4>2, CheckedType
    <3> HIDE DEF row
    <3> QED BY <3>1, <3>2
  <2>3. CASE t # probed.id
    BY <1>2, <2>1, <2>3 DEF RecordCheck, RecordUpstreamTargetHealthCheck
  <2> QED BY <2>2, <2>3
<1>3. targets' = targets \/ RecordCheck
  BY DEF CheckStep, ListAllUpstreamTargets, ProbeTarget, SkipRecord, EndRound, storeVars
<1> QED BY <1>1, <1>2, <1>3

\* What an admin changed since the round began survives the checks of the
\* round, for any threshold and any documents.
THEOREM EditsSurvive == Spec => ChecksKeepAdminEdits
<1>1. HInv /\ [Next]_healthVars =>
        [CheckStep =>
          \A t \in TargetId :
             \/ targets[t] = NoRow /\ targets'[t] = NoRow
             \/ /\ targets[t] # NoRow /\ targets'[t] # NoRow
                /\ targets'[t].group = targets[t].group
                /\ targets'[t].url = targets[t].url
                /\ targets'[t].enabled => targets[t].enabled]_healthVars
  BY CheckStepKeepsEdits
<1> QED BY <1>1, InitKeeps, StepKeeps, PTL DEF Spec, ChecksKeepAdminEdits

-----------------------------------------------------------------------------
(* The count stands for failed probes *)

\* A count of n failures, as far as a streak can show it.
Shown(n) == IF n < AutoDisableThreshold THEN n ELSE AutoDisableThreshold

Clean(t) == t \notin tainted /\ targets[t] # NoRow

\* A round has every target once, and the one probed is not to come again.
Once ==
    /\ \A x, y \in left : x.id = y.id => x = y
    /\ probed # NoProbe => checking /\ \A x \in left : x.id # probed.id

\* Of a target nobody else has touched, what the round has listed is still
\* the count in the table, and the probes that failed in a row are as many,
\* the one that has not been recorded included.
Counted(t) ==
    Clean(t) =>
        /\ \A x \in left : x.id = t => x.row.failures = targets[t].failures
        /\ IF probed # NoProbe /\ probed.id = t
           THEN /\ probed.row.failures = targets[t].failures
                /\ probed.status = "unhealthy" => Shown(targets[t].failures + 1) <= streak[t]
           ELSE Shown(targets[t].failures) <= streak[t]

KInv ==
    /\ HInv
    /\ streak \in [TargetId -> 0..AutoDisableThreshold]
    /\ Once
    /\ \A t \in TargetId : Counted(t)

LEMMA InitCounted == InitH => KInv
<1> SUFFICES ASSUME InitH PROVE KInv OBVIOUS
<1>1. HInv
  BY InitKeeps DEF InitH
<1>2. ASSUME NEW t \in TargetId PROVE Counted(t)
  <2> SUFFICES ASSUME Clean(t) PROVE Counted(t)
    BY DEF Counted
  <2>1. targets[t].failures = 0
    BY DEF InitH, Clean, Init, StoreTypeOK, TargetRow
  <2> QED BY <2>1 DEF InitH, Init, Counted, Shown
<1> QED BY <1>1, <1>2 DEF InitH, Init, KInv, Once

\* What surrounds the checker takes no probe back and starts none.
LEMMA DisturbanceShape ==
    ASSUME Disturbance
    PROVE  /\ left' \subseteq left
           /\ (probed' = probed /\ checking' = checking) \/ probed' = NoProbe
BY DEF Disturbance, AdminStep, OpenTarget, RemoveTarget, SaveTarget, AddTarget, RecordFails,
       RestartChecker, UpstreamChanges, checkVars

LEMMA DisturbanceCounted ==
    ASSUME KInv, Disturbance, ~CheckStep, Remember
    PROVE  KInv'
<1>1. HInv'
  BY DisturbanceKeeps DEF KInv
<1>2. /\ left' \subseteq left /\ ~Probed
      /\ (probed' = probed /\ checking' = checking) \/ probed' = NoProbe
  BY DisturbanceShape DEF Probed
<1>3. streak' = [t \in TargetId |-> IF targets'[t] = NoRow THEN 0 ELSE streak[t]]
  BY <1>2 DEF Remember
<1>4. streak' \in [TargetId -> 0..AutoDisableThreshold]
  BY <1>3 DEF KInv
<1>5. Once'
  BY <1>2 DEF KInv, Once
<1>6. ASSUME NEW t \in TargetId PROVE Counted(t)'
  <2> SUFFICES ASSUME Clean(t)' PROVE Counted(t)'
    BY DEF Counted
  <2>1. t \notin tainted /\ ~Taints(t) /\ targets'[t] # NoRow
    BY DEF Clean, Remember
  <2>2. targets'[t] = targets[t] /\ streak'[t] = streak[t]
    BY <1>3, <2>1 DEF Taints
  <2>3. Counted(t) /\ Clean(t)
    BY <2>1, <2>2 DEF KInv, Clean
  <2>4. probed # NoProbe /\ probed.id = t => probed' = probed
    BY <1>2, <2>1 DEF Taints
  <2> QED BY <1>2, <2>2, <2>3, <2>4 DEF Counted, Shown
<1> QED BY <1>1, <1>4, <1>5, <1>6 DEF KInv

LEMMA CheckStepCounted ==
    ASSUME KInv, CheckStep, Remember
    PROVE  KInv'
<1>1. HInv'
  BY CheckStepKeeps DEF KInv
<1>2. tainted \subseteq tainted'
  BY DEF Remember
<1>3. /\ AutoDisableThreshold \in Nat
      /\ \A t \in TargetId : targets[t] # NoRow => targets[t] \in TargetRow /\ targets[t].failures \in Nat
      /\ \A t \in TargetId : streak[t] \in 0..AutoDisableThreshold
      /\ probed # NoProbe => probed \in Probe
  BY DEF KInv, HInv, HealthTypeOK, StoreTypeOK, TargetRow
<1>4. ASSUME ~Probed
      PROVE  /\ streak' = [t \in TargetId |-> IF targets'[t] = NoRow THEN 0 ELSE streak[t]]
             /\ streak' \in [TargetId -> 0..AutoDisableThreshold]
  BY <1>3, <1>4 DEF Remember
<1>5. CASE ListAllUpstreamTargets
  <2>1. /\ left' = {[id |-> u, row |-> targets[u]] : u \in {v \in TargetId : Checkable(targets[v])}}
        /\ targets' = targets /\ probed' = probed /\ ~checking /\ ~Probed
    BY <1>5 DEF ListAllUpstreamTargets, storeVars, Probed
  <2>2. probed = NoProbe
    BY <2>1 DEF KInv, Once
  <2>3. Once'
    BY <2>1, <2>2 DEF Once
  <2>4. ASSUME NEW t \in TargetId PROVE Counted(t)'
    <3>1. Counted(t) /\ (Clean(t)' => Clean(t) /\ streak'[t] = streak[t])
      BY <1>2, <1>4, <2>1 DEF KInv, Clean
    <3>2. \A x \in left' : x.id = t => x.row = targets[t]
      BY <2>1
    <3> QED BY <2>1, <2>2, <3>1, <3>2 DEF Counted, Shown
  <2> QED BY <1>1, <1>4, <2>1, <2>3, <2>4 DEF KInv
<1>6. ASSUME NEW x \in left, ProbeTarget(x) PROVE KInv'
  <2> DEFINE status == IF up[x.row.url] THEN "healthy" ELSE "unhealthy"
             p == [id |-> x.id, row |-> x.row, status |-> status]
  <2>1. /\ probed = NoProbe /\ probed' = p /\ left' = left \ {x} /\ targets' = targets
        /\ checking /\ checking' = checking
    BY <1>6 DEF ProbeTarget, storeVars
  <2>2. x.id \in TargetId /\ p \in Probe
    BY DEF KInv, HInv, HealthTypeOK, Listed, Probe, Health
  <2>3. /\ p.id = x.id /\ p.row = x.row /\ p.status = status
        /\ status \in {"healthy", "unhealthy"} /\ p # NoProbe
    BY <2>2 DEF Probe
  <2> HIDE DEF p, status
  <2>4. /\ Probed
        /\ streak' = [t \in TargetId |-> IF x.id = t THEN Extended(t, status)
                                         ELSE IF targets[t] = NoRow THEN 0 ELSE streak[t]]
    BY <2>1, <2>3 DEF Probed, Remember
  <2>5. streak' \in [TargetId -> 0..AutoDisableThreshold]
    <3>1. \A t \in TargetId : Extended(t, status) \in 0..AutoDisableThreshold
      BY <1>3 DEF Extended
    <3> QED BY <1>3, <2>4, <3>1
  <2>6. Once'
    BY <2>1, <2>3 DEF KInv, Once
  <2>7. ASSUME NEW t \in TargetId, Clean(t)' PROVE Counted(t)'
    <3>1. Counted(t) /\ Clean(t)
      BY <1>2, <2>1, <2>7 DEF KInv, Clean
    <3>2. CASE t = x.id
      <4>1. /\ x.row.failures = targets[t].failures /\ Shown(targets[t].failures) <= streak[t]
            /\ targets[t].failures \in Nat /\ streak[t] \in 0..AutoDisableThreshold
        BY <1>3, <2>1, <3>1, <3>2 DEF Counted, Clean
      <4>2. streak'[t] = Extended(t, status)
        BY <2>4, <3>2
      <4>3. status = "unhealthy" => Shown(targets[t].failures + 1) <= streak'[t]
        BY <1>3, <4>1, <4>2 DEF Extended, Shown
      <4>4. \A y \in left' : y.id # t
        BY <2>1, <2>6, <2>3, <3>2 DEF Once
      <4> QED BY <2>1, <2>3, <3>2, <4>1, <4>3, <4>4 DEF Counted, Shown
    <3>3. CASE t # x.id
      <4>1. streak'[t] = streak[t]
        BY <2>4, <3>1, <3>3 DEF Clean
      <4> QED BY <2>1, <2>3, <3>1, <3>3, <4>1 DEF Counted, Shown
    <3> QED BY <3>2, <3>3
  <2>8. \A t \in TargetId : Counted(t)'
    BY <2>7 DEF Counted
  <2> QED BY <1>1, <2>5, <2>6, <2>8 DEF KInv
<1>7. CASE SkipRecord
  <2>1. /\ probed # NoProbe /\ probed' = NoProbe /\ left' = left /\ targets' = targets /\ ~Probed
        /\ (probed.status = "healthy" /\ probed.row.failures = 0) \/ targets[probed.id] = NoRow
    BY <1>7 DEF SkipRecord, NothingToRecord, storeVars, Probed
  <2>2. Once'
    BY <2>1 DEF KInv, Once
  <2>3. ASSUME NEW t \in TargetId PROVE Counted(t)'
    <3> SUFFICES ASSUME Clean(t)' PROVE Counted(t)'
      BY DEF Counted
    <3>1. Counted(t) /\ Clean(t) /\ streak'[t] = streak[t] /\ streak[t] \in 0..AutoDisableThreshold
      BY <1>2, <1>3, <1>4, <2>1 DEF KInv, Clean
    <3>2. Shown(targets[t].failures) <= streak[t]
      BY <1>3, <2>1, <3>1 DEF Counted, Clean, Shown
    <3> QED BY <2>1, <3>1, <3>2 DEF Counted, Shown
  <2> QED BY <1>1, <1>4, <2>1, <2>2, <2>3 DEF KInv
<1>8. CASE RecordCheck
  <2> DEFINE i == probed.id
             failed == probed.status = "unhealthy"
             row == Checked(targets[i], probed.status, failed, AutoDisableThreshold)
  <2>1. /\ probed # NoProbe /\ probed' = NoProbe /\ left' = left /\ ~Probed
        /\ targets[i] # NoRow /\ targets' = [targets EXCEPT ![i] = row]
    BY <1>8 DEF RecordCheck, RecordUpstreamTargetHealthCheck, Probed
  <2>2. i \in TargetId /\ targets[i] \in TargetRow /\ targets[i].failures \in Nat
        /\ targets \in [TargetId -> TargetRow \cup {NoRow}]
    BY <1>3, <2>1 DEF Probe, KInv, HInv, HealthTypeOK, StoreTypeOK
  <2>3. row.failures = IF failed THEN targets[i].failures + 1 ELSE 0
    BY <2>2 DEF Checked, TargetRow
  <2> HIDE DEF row
  <2>4. targets'[i] = row /\ \A t \in TargetId \ {i} : targets'[t] = targets[t]
    BY <2>1, <2>2
  <2> HIDE DEF i
  <2>5. Once'
    BY <2>1 DEF KInv, Once
  <2>6. ASSUME NEW t \in TargetId, Clean(t)' PROVE Counted(t)'
    <3>1. CASE t = i
      <4>1. Counted(t) /\ Clean(t)
        BY <1>2, <2>1, <2>6, <3>1 DEF KInv, Clean
      <4>2. failed => Shown(targets[t].failures + 1) <= streak[t]
        BY <2>1, <3>1, <4>1 DEF Counted, i
      <4>3. streak'[t] = streak[t] /\ streak[t] \in 0..AutoDisableThreshold
        BY <1>3, <1>4, <2>1, <2>6 DEF Clean
      <4>4. targets'[t].failures = IF failed THEN targets[t].failures + 1 ELSE 0
        BY <2>3, <2>4, <3>1
      <4>5. \A x \in left' : x.id # t
        BY <2>1, <3>1 DEF KInv, Once, i
      <4>6. Shown(targets'[t].failures) <= streak'[t]
        BY <1>3, <4>2, <4>3, <4>4 DEF Shown
      <4> QED BY <2>1, <4>5, <4>6 DEF Counted, Shown
    <3>2. CASE t # i
      <4>1. Counted(t) /\ Clean(t) /\ targets'[t] = targets[t] /\ streak'[t] = streak[t]
        BY <1>2, <1>4, <2>1, <2>4, <2>6, <3>2 DEF KInv, Clean
      <4> QED BY <2>1, <3>2, <4>1 DEF Counted, Shown, i
    <3> QED BY <3>1, <3>2
  <2>7. \A t \in TargetId : Counted(t)'
    BY <2>6 DEF Counted
  <2> QED BY <1>1, <1>4, <2>1, <2>5, <2>7 DEF KInv
<1>9. CASE EndRound
  <2>1. /\ probed = NoProbe /\ probed' = probed /\ left' = left /\ targets' = targets /\ ~Probed
    BY <1>9 DEF EndRound, storeVars, Probed
  <2>2. Once'
    BY <2>1 DEF KInv, Once
  <2>3. ASSUME NEW t \in TargetId PROVE Counted(t)'
    <3>1. Counted(t) /\ (Clean(t)' => Clean(t) /\ streak'[t] = streak[t])
      BY <1>2, <1>4, <2>1 DEF KInv, Clean
    <3> QED BY <2>1, <3>1 DEF Counted, Shown
  <2> QED BY <1>1, <1>4, <2>1, <2>2, <2>3 DEF KInv
<1> QED BY <1>5, <1>6, <1>7, <1>8, <1>9 DEF CheckStep

LEMMA StepCounted == KInv /\ [Next /\ Remember]_historyVars => KInv'
<1> SUFFICES ASSUME KInv, [Next /\ Remember]_historyVars PROVE KInv' OBVIOUS
<1>1. CASE Next /\ Remember
  BY <1>1, CheckStepCounted, DisturbanceCounted DEF Next
<1>2. CASE UNCHANGED historyVars
  <2>1. HInv'
    BY <1>2, StepKeeps DEF historyVars, KInv
  <2>2. Once' /\ (\A t \in TargetId : Counted(t)') /\ streak' = streak
    BY <1>2 DEF historyVars, healthVars, checkVars, storeVars, KInv, Once, Counted, Clean, Shown
  <2> QED BY <2>1, <2>2 DEF KInv
<1> QED BY <1>1, <1>2

\* A target nobody else has touched is disabled only by as many failed probes
\* in a row as the threshold says.
LEMMA DisabledCounted ==
    ASSUME KInv, NEW t \in TargetId, Disables(t), t \notin tainted
    PROVE  streak[t] >= AutoDisableThreshold
<1> DEFINE failed == probed.status = "unhealthy"
           T == AutoDisableThreshold
<1>1. /\ targets[t] \in TargetRow /\ targets[t].failures \in Nat /\ T \in Nat
      /\ streak[t] \in 0..T /\ targets \in [TargetId -> TargetRow \cup {NoRow}]
  BY DEF Disables, KInv, HInv, HealthTypeOK, StoreTypeOK, TargetRow
<1>2. /\ probed # NoProbe
      /\ targets' = [targets EXCEPT ![probed.id] =
                        Checked(targets[probed.id], probed.status, failed, T)]
  BY DEF Disables, RecordCheck, RecordUpstreamTargetHealthCheck
<1>3. probed.id = t /\ targets'[t] = Checked(targets[t], probed.status, failed, T)
  BY <1>1, <1>2 DEF Disables
<1>4. failed /\ targets[t].failures + 1 >= T
  BY <1>1, <1>3 DEF Disables, Checked, TargetRow
<1>5. Counted(t) /\ Clean(t)
  BY DEF KInv, Clean, Disables
<1> QED BY <1>1, <1>2, <1>3, <1>4, <1>5 DEF Counted, Shown

\* Although results are recorded by id, a round after the row was read, and
\* saved documents, lost results and restarts come between: a target is
\* disabled only after as many failed checks in a row as the threshold says,
\* unless its count was set by a client or a result was lost.
THEOREM DisabledOnlyCounted == SpecH => DisabledAfterThreshold
<1>1. KInv /\ [Next /\ Remember]_historyVars =>
        [\A t \in TargetId :
            Disables(t) /\ t \notin tainted => streak[t] >= AutoDisableThreshold]_historyVars
  BY DisabledCounted
<1> QED BY <1>1, InitCounted, StepCounted, PTL DEF SpecH, DisabledAfterThreshold
=============================================================================

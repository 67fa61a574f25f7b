-------------------------- MODULE ConfigStore_proofs --------------------------
(***************************************************************************)
(* Every statement on the configuration tables keeps their types and the   *)
(* foreign keys, for any sets of keys and any documents.                   *)
(***************************************************************************)
EXTENDS ConfigStore, TLAPS

StoreInv == StoreTypeOK /\ ForeignKeysHold

\* A target document becomes a row of the group it is stored under.
LEMMA TargetOfType ==
    ASSUME NEW g \in GroupId, NEW doc \in TargetDoc
    PROVE  TargetOf(g, doc) \in TargetRow /\ TargetOf(g, doc).group = g
BY DEF TargetOf, TargetDoc, TargetRow

\* A recorded check leaves a row of the same group and URL, and never
\* enables it.
LEMMA CheckedType ==
    ASSUME NEW row \in TargetRow, NEW status \in Health, NEW failed \in BOOLEAN,
           NEW threshold \in Nat
    PROVE  /\ Checked(row, status, failed, threshold) \in TargetRow
           /\ Checked(row, status, failed, threshold).group = row.group
           /\ Checked(row, status, failed, threshold).url = row.url
           /\ Checked(row, status, failed, threshold).enabled => row.enabled
<1> DEFINE count == IF failed THEN row.failures + 1 ELSE 0
           on == row.enabled /\ ~(threshold > 0 /\ failed /\ count >= threshold)
<1>1. count \in Nat /\ on \in BOOLEAN
  BY DEF TargetRow
<1>2. Checked(row, status, failed, threshold) =
        [row EXCEPT !.health = status, !.failures = count, !.enabled = on]
  BY DEF Checked
<1> HIDE DEF count
<1>3. on => row.enabled
  OBVIOUS
<1> HIDE DEF on
<1> QED
  BY <1>1, <1>2, <1>3 DEF TargetRow

\* Statements on routes.
LEMMA RouteWritten ==
    ASSUME StoreInv, NEW r \in RouteId, NEW doc \in RouteInput,
           CreateRoute(r, doc) \/ UpdateRoute(r, doc)
    PROVE  StoreInv'
<1>1. doc \in RouteRow /\ MayReference(doc.group)
  BY StoreAssumption DEF CreateRoute, UpdateRoute
<1> QED
  BY <1>1, StoreAssumption
  DEF CreateRoute, UpdateRoute, StoreInv, StoreTypeOK, ForeignKeysHold, MayReference

LEMMA RouteSwitched ==
    ASSUME StoreInv, NEW r \in RouteId, NEW enabled \in BOOLEAN, SetRouteEnabled(r, enabled)
    PROVE  StoreInv'
<1>1. /\ routes[r] \in RouteRow
      /\ routes' = [routes EXCEPT ![r] = [routes[r] EXCEPT !.enabled = enabled]]
  BY DEF SetRouteEnabled, StoreInv, StoreTypeOK
<1>2. /\ [routes[r] EXCEPT !.enabled = enabled] \in RouteRow
      /\ [routes[r] EXCEPT !.enabled = enabled].group = routes[r].group
  BY <1>1 DEF RouteRow
<1> QED
  BY <1>1, <1>2 DEF SetRouteEnabled, StoreInv, StoreTypeOK, ForeignKeysHold

LEMMA RouteDeleted ==
    ASSUME StoreInv, NEW r \in RouteId, DeleteRoute(r)
    PROVE  StoreInv'
BY DEF DeleteRoute, StoreInv, StoreTypeOK, ForeignKeysHold

\* Statements on groups.  Deleting a group takes its targets along and
\* detaches its routes.
LEMMA GroupCreated ==
    ASSUME StoreInv, NEW g \in GroupId, NEW strategy \in Strategy, NEW ts \in SUBSET TargetId,
           CreateUpstreamGroup(g, strategy, ts)
    PROVE  StoreInv'
<1>1. posting' \in Post \cup {NoPost}
  BY DEF CreateUpstreamGroup, Post
<1> QED
  BY <1>1, StoreAssumption DEF CreateUpstreamGroup, StoreInv, StoreTypeOK, ForeignKeysHold

LEMMA GroupUpdated ==
    ASSUME StoreInv, NEW g \in GroupId, NEW strategy \in Strategy,
           UpdateUpstreamGroup(g, strategy)
    PROVE  StoreInv'
BY StoreAssumption DEF UpdateUpstreamGroup, StoreInv, StoreTypeOK, ForeignKeysHold

LEMMA GroupDeleted ==
    ASSUME StoreInv, NEW g \in GroupId, DeleteUpstreamGroup(g)
    PROVE  StoreInv'
<1> USE StoreAssumption
<1>1. \A r \in RouteId :
         /\ routes'[r] \in RouteRow \cup {NoRow}
         /\ routes'[r] # NoRow => routes'[r].group # g
         /\ routes'[r] # NoRow /\ routes'[r].group # NoGroup =>
               routes[r] # NoRow /\ routes'[r].group = routes[r].group
  BY DEF DeleteUpstreamGroup, DetachRoutes, StoreInv, StoreTypeOK, RouteRow
<1>2. \A t \in TargetId :
         /\ targets'[t] \in TargetRow \cup {NoRow}
         /\ targets'[t] # NoRow => targets'[t] = targets[t] /\ targets[t].group # g
  BY DEF DeleteUpstreamGroup, DropTargets, StoreInv, StoreTypeOK
<1>3. StoreTypeOK'
  BY <1>1, <1>2 DEF DeleteUpstreamGroup, DetachRoutes, DropTargets, StoreInv, StoreTypeOK
<1>4. \A h \in GroupId : h # g /\ groups[h] # NoRow => groups'[h] # NoRow
  BY DEF DeleteUpstreamGroup, StoreInv, StoreTypeOK
<1>5. \A r \in RouteId :
         routes'[r] # NoRow /\ routes'[r].group # NoGroup => groups'[routes'[r].group] # NoRow
  BY <1>1, <1>4 DEF StoreInv, StoreTypeOK, ForeignKeysHold, RouteRow
<1>6. \A t \in TargetId : targets'[t] # NoRow => groups'[targets'[t].group] # NoRow
  BY <1>2, <1>4 DEF StoreInv, StoreTypeOK, ForeignKeysHold, TargetRow
<1> QED
  BY <1>3, <1>5, <1>6 DEF StoreInv, ForeignKeysHold

\* Statements on targets.
LEMMA TargetInserted ==
    ASSUME StoreInv, NEW t \in TargetId, NEW doc \in TargetDoc, InsertGroupTarget(t, doc)
    PROVE  StoreInv'
<1>1. posting \in Post /\ posting.group \in GroupId
  BY DEF InsertGroupTarget, StoreInv, StoreTypeOK, Post
<1>2. posting' \in Post \cup {NoPost}
  BY <1>1 DEF InsertGroupTarget, Post
<1>3. /\ TargetOf(posting.group, doc) \in TargetRow
      /\ TargetOf(posting.group, doc).group = posting.group
  BY <1>1, TargetOfType
<1> QED
  BY <1>1, <1>2, <1>3 DEF InsertGroupTarget, StoreInv, StoreTypeOK, ForeignKeysHold

LEMMA TargetCreated ==
    ASSUME StoreInv, NEW t \in TargetId, NEW g \in GroupId, NEW doc \in TargetDoc,
           CreateUpstreamTarget(t, g, doc)
    PROVE  StoreInv'
BY TargetOfType DEF CreateUpstreamTarget, StoreInv, StoreTypeOK, ForeignKeysHold

LEMMA TargetUpdated ==
    ASSUME StoreInv, NEW t \in TargetId, NEW doc \in TargetDoc, UpdateUpstreamTarget(t, doc)
    PROVE  StoreInv'
<1>1. targets[t] \in TargetRow /\ targets[t].group \in GroupId
  BY DEF UpdateUpstreamTarget, StoreInv, StoreTypeOK, TargetRow
<1>2. /\ TargetOf(targets[t].group, doc) \in TargetRow
      /\ TargetOf(targets[t].group, doc).group = targets[t].group
  BY <1>1, TargetOfType
<1> QED
  BY <1>1, <1>2 DEF UpdateUpstreamTarget, StoreInv, StoreTypeOK, ForeignKeysHold

LEMMA TargetDeleted ==
    ASSUME StoreInv, NEW t \in TargetId, DeleteUpstreamTarget(t)
    PROVE  StoreInv'
BY DEF DeleteUpstreamTarget, StoreInv, StoreTypeOK, ForeignKeysHold

\* The health checker's statement.
LEMMA CheckStatement ==
    ASSUME StoreInv, NEW t \in TargetId, NEW status \in Health, NEW failed \in BOOLEAN,
           NEW threshold \in Nat,
           RecordUpstreamTargetHealthCheck(t, status, failed, threshold)
    PROVE  StoreInv'
<1>1. targets[t] \in TargetRow
  BY DEF RecordUpstreamTargetHealthCheck, StoreInv, StoreTypeOK
<1>2. /\ Checked(targets[t], status, failed, threshold) \in TargetRow
      /\ Checked(targets[t], status, failed, threshold).group = targets[t].group
  BY <1>1, CheckedType
<1> QED
  BY <1>1, <1>2 DEF RecordUpstreamTargetHealthCheck, StoreInv, StoreTypeOK, ForeignKeysHold

\* Whatever statement an admin request executes, the tables keep their types
\* and every reference in them names an existing row.
THEOREM AdminKeepsStore ==
    ASSUME StoreInv, AdminStatement
    PROVE  StoreInv'
<1>1. ASSUME NEW r \in RouteId, NEW doc \in RouteInput,
             CreateRoute(r, doc) \/ UpdateRoute(r, doc)
      PROVE  StoreInv'
  BY <1>1, RouteWritten
<1>2. ASSUME NEW r \in RouteId, NEW enabled \in BOOLEAN, SetRouteEnabled(r, enabled)
      PROVE  StoreInv'
  BY <1>2, RouteSwitched
<1>3. ASSUME NEW r \in RouteId, DeleteRoute(r)
      PROVE  StoreInv'
  BY <1>3, RouteDeleted
<1>4. ASSUME NEW g \in GroupId, NEW strategy \in Strategy, NEW ts \in SUBSET TargetId,
             CreateUpstreamGroup(g, strategy, ts)
      PROVE  StoreInv'
  BY <1>4, GroupCreated
<1>5. ASSUME NEW g \in GroupId, NEW strategy \in Strategy, UpdateUpstreamGroup(g, strategy)
      PROVE  StoreInv'
  BY <1>5, GroupUpdated
<1>6. ASSUME NEW g \in GroupId, DeleteUpstreamGroup(g)
      PROVE  StoreInv'
  BY <1>6, GroupDeleted
<1>7. ASSUME NEW t \in TargetId, NEW doc \in TargetInput, InsertGroupTarget(t, doc)
      PROVE  StoreInv'
  BY <1>7, TargetInserted, StoreAssumption
<1>8. ASSUME NEW t \in TargetId, NEW g \in GroupId, NEW doc \in TargetInput,
             CreateUpstreamTarget(t, g, doc)
      PROVE  StoreInv'
  BY <1>8, TargetCreated, StoreAssumption
<1>9. ASSUME NEW t \in TargetId, NEW doc \in TargetInput, UpdateUpstreamTarget(t, doc)
      PROVE  StoreInv'
  BY <1>9, TargetUpdated, StoreAssumption
<1>10. ASSUME NEW t \in TargetId, DeleteUpstreamTarget(t)
       PROVE  StoreInv'
  BY <1>10, TargetDeleted
<1>11. CASE AbandonPost
  BY <1>11 DEF AbandonPost, StoreInv, StoreTypeOK, ForeignKeysHold
<1> QED
  BY <1>1, <1>2, <1>3, <1>4, <1>5, <1>6, <1>7, <1>8, <1>9, <1>10, <1>11 DEF AdminStatement
=============================================================================

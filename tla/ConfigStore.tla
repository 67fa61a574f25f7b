----------------------------- MODULE ConfigStore -----------------------------
(***************************************************************************)
(* The configuration tables of internal/store: routes, upstream_groups and *)
(* upstream_targets in one SQLite file.  A statement runs atomically (the  *)
(* pool has a single connection and SQLite locks the file), a store method *)
(* made of several statements does not: each is a step of its own here.    *)
(*                                                                         *)
(* Left out: names, rewrite rules, mapping rules, weights and timestamps.  *)
(* The order of routes with the same priority is by created_at in the      *)
(* code and is left open here.                                             *)
(***************************************************************************)
EXTENDS Integers, FiniteSets

CONSTANTS
    RouteId, GroupId, TargetId,   \* primary keys
    Url,                          \* non-empty target URLs
    NoUrl,                        \* the empty URL, which the API accepts
    NoGroup,                      \* upstream_group_id IS NULL
    NoRow,                        \* the row does not exist
    NoPost,                       \* no group creation is in progress
    Priority,                     \* route priorities in use
    RouteInput,                   \* route documents the admin API receives
    TargetInput                   \* target documents the admin API receives

VARIABLES routes, groups, targets, posting

storeVars == <<routes, groups, targets, posting>>

RouteType == {"proxy", "redirect", "other"}
\* The supported strategies differ in module LoadBalance only.
Strategy  == {"round-robin", "unsupported"}
Health    == {"unknown", "healthy", "unhealthy"}

\* redirect: the URLs a picker made of the redirect document would hold.  It
\* is empty when the document is missing, names an unsupported strategy or
\* has no usable target: the document is opaque JSON to the store.
RouteRow ==
    [enabled : BOOLEAN, type : RouteType, priority : Priority,
     group : GroupId \cup {NoGroup}, redirect : SUBSET Url]

TargetDoc ==
    [url : Url \cup {NoUrl}, enabled : BOOLEAN, health : Health, failures : Nat]

TargetRow ==
    [group : GroupId, url : Url \cup {NoUrl}, enabled : BOOLEAN,
     health : Health, failures : Nat]

Post == [group : GroupId, left : SUBSET TargetId]

ASSUME StoreAssumption ==
    /\ RouteInput \subseteq RouteRow
    /\ TargetInput \subseteq TargetDoc
    /\ NoRow \notin RouteRow \cup TargetRow \cup Strategy
    /\ NoPost \notin Post
    /\ NoGroup \notin GroupId
    /\ NoUrl \notin Url

StoreTypeOK ==
    /\ routes  \in [RouteId -> RouteRow \cup {NoRow}]
    /\ groups  \in [GroupId -> Strategy \cup {NoRow}]
    /\ targets \in [TargetId -> TargetRow \cup {NoRow}]
    /\ posting \in Post \cup {NoPost}

\* What the FOREIGN KEY clauses of the schema keep true: a route names an
\* existing group or none, and a target belongs to an existing group.
ForeignKeysHold ==
    /\ \A r \in RouteId :
          routes[r] # NoRow /\ routes[r].group # NoGroup
             => groups[routes[r].group] # NoRow
    /\ \A t \in TargetId :
          targets[t] # NoRow => groups[targets[t].group] # NoRow

\* PRAGMA foreign_keys is on: a row may name g only while g exists.
MayReference(g) == g # NoGroup => groups[g] # NoRow

-----------------------------------------------------------------------------
(* Routes *)

CreateRoute(r, doc) ==
    /\ routes[r] = NoRow
    /\ MayReference(doc.group)
    /\ routes' = [routes EXCEPT ![r] = doc]
    /\ UNCHANGED <<groups, targets, posting>>

UpdateRoute(r, doc) ==
    /\ routes[r] # NoRow
    /\ MayReference(doc.group)
    /\ routes' = [routes EXCEPT ![r] = doc]
    /\ UNCHANGED <<groups, targets, posting>>

SetRouteEnabled(r, enabled) ==
    /\ routes[r] # NoRow
    /\ routes' = [routes EXCEPT ![r].enabled = enabled]
    /\ UNCHANGED <<groups, targets, posting>>

DeleteRoute(r) ==
    /\ routes[r] # NoRow
    /\ routes' = [routes EXCEPT ![r] = NoRow]
    /\ UNCHANGED <<groups, targets, posting>>

-----------------------------------------------------------------------------
(* Groups.  CreateUpstreamGroup inserts the group row and then its targets *)
(* one statement at a time, without a transaction.                         *)

CreateUpstreamGroup(g, strategy, ts) ==
    /\ posting = NoPost
    /\ groups[g] = NoRow
    /\ groups' = [groups EXCEPT ![g] = strategy]
    /\ posting' = IF ts = {} THEN NoPost ELSE [group |-> g, left |-> ts]
    /\ UNCHANGED <<routes, targets>>

TargetOf(g, doc) ==
    [group |-> g, url |-> doc.url, enabled |-> doc.enabled,
     health |-> doc.health, failures |-> doc.failures]

InsertGroupTarget(t, doc) ==
    /\ posting # NoPost
    /\ t \in posting.left
    /\ targets[t] = NoRow
    /\ groups[posting.group] # NoRow
    /\ targets' = [targets EXCEPT ![t] = TargetOf(posting.group, doc)]
    /\ posting' = IF posting.left = {t} THEN NoPost
                  ELSE [posting EXCEPT !.left = @ \ {t}]
    /\ UNCHANGED <<routes, groups>>

\* A target's INSERT fails (its id is taken, the group was deleted meanwhile,
\* the client went away or the process died): what was inserted stays.
AbandonPost ==
    /\ posting # NoPost
    /\ posting' = NoPost
    /\ UNCHANGED <<routes, groups, targets>>

UpdateUpstreamGroup(g, strategy) ==
    /\ groups[g] # NoRow
    /\ groups' = [groups EXCEPT ![g] = strategy]
    /\ UNCHANGED <<routes, targets, posting>>

\* Faulty variant: deleting a group leaves the routes that name it alone.
DetachNothing(g) == routes

\* ON DELETE SET NULL
DetachRoutes(g) ==
    [r \in RouteId |->
        IF routes[r] # NoRow /\ routes[r].group = g
        THEN [routes[r] EXCEPT !.group = NoGroup]
        ELSE routes[r]]

\* Faulty variant: deleting a group leaves its targets behind.
DropNothing(g) == targets

\* ON DELETE CASCADE
DropTargets(g) ==
    [t \in TargetId |->
        IF targets[t] # NoRow /\ targets[t].group = g THEN NoRow ELSE targets[t]]

DeleteUpstreamGroup(g) ==
    /\ groups[g] # NoRow
    /\ groups' = [groups EXCEPT ![g] = NoRow]
    /\ routes' = DetachRoutes(g)
    /\ targets' = DropTargets(g)
    /\ UNCHANGED posting

-----------------------------------------------------------------------------
(* Targets *)

CreateUpstreamTarget(t, g, doc) ==
    /\ targets[t] = NoRow
    /\ groups[g] # NoRow
    /\ targets' = [targets EXCEPT ![t] = TargetOf(g, doc)]
    /\ UNCHANGED <<routes, groups, posting>>

\* The client's document replaces every column but the group: health_status
\* and consecutive_failures included.
UpdateUpstreamTarget(t, doc) ==
    /\ targets[t] # NoRow
    /\ targets' = [targets EXCEPT ![t] = TargetOf(targets[t].group, doc)]
    /\ UNCHANGED <<routes, groups, posting>>

DeleteUpstreamTarget(t) ==
    /\ targets[t] # NoRow
    /\ targets' = [targets EXCEPT ![t] = NoRow]
    /\ UNCHANGED <<routes, groups, posting>>

\* Faulty variants: a success takes one failure off instead of all; the
\* threshold is reached one failure early; only the failure that changes the
\* status is counted.
CheckedDecaying(row, status, failed, threshold) ==
    [row EXCEPT !.health = status,
                !.failures = IF failed THEN @ + 1 ELSE @ - 1,
                !.enabled = @ /\ ~(threshold > 0 /\ failed /\ row.failures + 1 >= threshold)]

CheckedEarly(row, status, failed, threshold) ==
    [row EXCEPT !.health = status,
                !.failures = IF failed THEN @ + 1 ELSE 0,
                !.enabled = @ /\ ~(threshold > 0 /\ failed /\ row.failures + 2 >= threshold)]

CheckedOnChange(row, status, failed, threshold) ==
    LET count == CASE ~failed -> 0
                   [] failed /\ row.health = "unhealthy" -> row.failures
                   [] OTHER -> row.failures + 1
    IN  [row EXCEPT !.health = status,
                    !.failures = count,
                    !.enabled = @ /\ ~(threshold > 0 /\ failed /\ count >= threshold)]

\* The row one health check leaves: the failure is counted in SQL on the
\* row's present count, and the count that reaches the threshold disables.
Checked(row, status, failed, threshold) ==
    LET count == IF failed THEN row.failures + 1 ELSE 0
    IN  [row EXCEPT !.health = status,
                    !.failures = count,
                    !.enabled = @ /\ ~(threshold > 0 /\ failed /\ count >= threshold)]

RecordUpstreamTargetHealthCheck(t, status, failed, threshold) ==
    /\ targets[t] # NoRow
    /\ targets' = [targets EXCEPT ![t] = Checked(targets[t], status, failed, threshold)]
    /\ UNCHANGED <<routes, groups, posting>>

-----------------------------------------------------------------------------
\* One statement of an admin request.
AdminStatement ==
    \/ \E r \in RouteId, doc \in RouteInput :
          CreateRoute(r, doc) \/ UpdateRoute(r, doc)
    \/ \E r \in RouteId, enabled \in BOOLEAN : SetRouteEnabled(r, enabled)
    \/ \E r \in RouteId : DeleteRoute(r)
    \/ \E g \in GroupId, strategy \in Strategy :
          \/ \E ts \in SUBSET TargetId : CreateUpstreamGroup(g, strategy, ts)
          \/ UpdateUpstreamGroup(g, strategy)
    \/ \E t \in TargetId, doc \in TargetInput :
          \/ InsertGroupTarget(t, doc)
          \/ \E g \in GroupId : CreateUpstreamTarget(t, g, doc)
          \/ UpdateUpstreamTarget(t, doc)
    \/ AbandonPost
    \/ \E g \in GroupId : DeleteUpstreamGroup(g)
    \/ \E t \in TargetId : DeleteUpstreamTarget(t)
=============================================================================

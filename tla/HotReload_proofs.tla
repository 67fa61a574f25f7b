--------------------------- MODULE HotReload_proofs ---------------------------
(***************************************************************************)
(* For any routes, groups, targets and documents, whatever interleaving of *)
(* admin requests, health checks, loads, failures and crashes: the tables  *)
(* keep their references, every active route can send a request, and the   *)
(* loader, statement by statement, implements the promise of a reload.     *)
(* The last part proves the same of the all-in-one server, with the health *)
(* checker and the admin page as they are.                                 *)
(***************************************************************************)
EXTENDS GatewaySystem, HotReloadHistory, ConfigStore_proofs

\* The group row in hand belongs to a row still to be loaded; a row is loaded
\* at most once; only a process loads, and nothing is kept between loads.
LoadOK ==
    /\ found # NoRow => loading /\ todo[found.route] # NoRow
    /\ \A x \in loaded : todo[x.id] = NoRow
    /\ \A x, y \in loaded : x.id = y.id => x = y
    /\ loading => proc # "down"
    /\ ~loading => loaded = {}

IInv == TypeOK /\ ForeignKeysHold /\ LoadOK /\ ActiveUsable

\* A change of the tables that keeps them well formed and moves no target to
\* another group: all a load has to reckon with.
TableStep ==
    /\ StoreInv'
    /\ \A t \in TargetId : targets[t] # NoRow /\ targets'[t] # NoRow
                              => targets'[t].group = targets[t].group
    /\ UNCHANGED reloadVars

\* What may happen to the gateway process and its tables.
AnyStep == TableStep \/ StartProcess \/ LoadStep \/ StoreError \/ Crash

-----------------------------------------------------------------------------
\* What a load reads is a runtime route.
LEMMA ReadRouteType ==
    ASSUME StoreTypeOK, NEW r \in RouteId, NEW row \in RouteRow, ~NeedsGroup(row)
    PROVE  /\ ReadRoute(r, row, groups, targets) \in RuntimeRoute
           /\ ReadRoute(r, row, groups, targets).id = r
BY DEF ReadRoute, RuntimeRoute

LEMMA TargetsInType ==
    ASSUME StoreTypeOK, NEW g
    PROVE  TargetsIn(targets, g) \subseteq LoadedTarget
BY DEF TargetsIn, LoadedTarget, StoreTypeOK

\* A picker's destinations have a URL.
LEMMA DestinationsType ==
    ASSUME NEW rt \in RuntimeRoute
    PROVE  Destinations(rt) \subseteq Destination
<1>1. CASE rt.row.type = "proxy"
  <2>1. \A x \in rt.targets : Usable(x.row) => x.id \in TargetId /\ x.row.url \in Url
    BY DEF RuntimeRoute, LoadedTarget, TargetRow, Usable
  <2> QED
    BY <1>1, <2>1 DEF Destinations, Destination
<1>2. CASE rt.row.type # "proxy"
  <2>1. rt.row.redirect \subseteq Url
    BY DEF RuntimeRoute, RouteRow
  <2> QED
    BY <1>2, <2>1 DEF Destinations, Destination
<1> QED
  BY <1>1, <1>2

\* The router made of runtime routes with distinct ids has distinct ids, and
\* every route of it is enabled and has a destination.
LEMMA RouterNewUsable ==
    ASSUME NEW rts \in SUBSET RuntimeRoute,
           \A x, y \in rts : x.id = y.id => x = y
    PROVE  /\ RouterNew(rts) \in SUBSET ActiveRoute
           /\ \A e \in RouterNew(rts) : e.row.enabled /\ e.dests # {}
           /\ \A e, f \in RouterNew(rts) : e.id = f.id => e = f
<1>1. \A rt \in rts : /\ rt.id \in RouteId /\ rt.row \in RouteRow
                      /\ Destinations(rt) \subseteq Destination
  BY DestinationsType DEF RuntimeRoute
<1>2. \A e \in RouterNew(rts) : \E rt \in rts :
         Activates(rt) /\ e = [id |-> rt.id, row |-> rt.row, dests |-> Destinations(rt)]
  BY DEF RouterNew
<1>3. RouterNew(rts) \in SUBSET ActiveRoute
  BY <1>1, <1>2 DEF ActiveRoute
<1>4. \A e \in RouterNew(rts) : e.row.enabled /\ e.dests # {}
  BY <1>2 DEF Activates
<1>5. \A e, f \in RouterNew(rts) : e.id = f.id => e = f
  <2> SUFFICES ASSUME NEW e \in RouterNew(rts), NEW f \in RouterNew(rts), e.id = f.id
               PROVE  e = f
    OBVIOUS
  <2>1. PICK x \in rts : e = [id |-> x.id, row |-> x.row, dests |-> Destinations(x)]
    BY <1>2
  <2>2. PICK y \in rts : f = [id |-> y.id, row |-> y.row, dests |-> Destinations(y)]
    BY <1>2
  <2>3. x = y
    BY <2>1, <2>2
  <2> QED
    BY <2>1, <2>2, <2>3
<1> QED
  BY <1>3, <1>4, <1>5

-----------------------------------------------------------------------------
LEMMA Initially == Init => IInv
<1> SUFFICES ASSUME Init PROVE IInv
  OBVIOUS
<1>1. ReloadTypeOK
  BY DEF Init, ReloadTypeOK, Nothing
<1> QED
  BY <1>1 DEF Init, IInv, TypeOK, LoadOK, ActiveUsable

\* No statement moves a target to another group.
LEMMA GroupStays ==
    ASSUME IInv, StoreStep, NEW t \in TargetId,
           targets[t] # NoRow, targets'[t] # NoRow
    PROVE  targets'[t].group = targets[t].group
<1>1. targets \in [TargetId -> TargetRow \cup {NoRow}]
  BY DEF IInv, TypeOK, StoreTypeOK
<1>2. ASSUME NEW u \in TargetId, NEW doc, UpdateUpstreamTarget(u, doc)
      PROVE  targets'[t].group = targets[t].group
  BY <1>1, <1>2 DEF UpdateUpstreamTarget, TargetOf
<1>3. ASSUME NEW u \in TargetId, NEW row, targets[u] = NoRow, targets' = [targets EXCEPT ![u] = row]
      PROVE  targets'[t].group = targets[t].group
  BY <1>1, <1>3
<1>4. CASE AdminStatement
  <2>1. ASSUME NEW g, DeleteUpstreamGroup(g) PROVE targets'[t].group = targets[t].group
    BY <1>1, <2>1 DEF DeleteUpstreamGroup, DropTargets
  <2>2. ASSUME NEW u \in TargetId, DeleteUpstreamTarget(u) PROVE targets'[t].group = targets[t].group
    BY <1>1, <2>2 DEF DeleteUpstreamTarget
  <2>3. ASSUME NEW u \in TargetId, NEW g, NEW doc,
               InsertGroupTarget(u, doc) \/ CreateUpstreamTarget(u, g, doc)
        PROVE  targets'[t].group = targets[t].group
    BY <1>3, <2>3 DEF InsertGroupTarget, CreateUpstreamTarget
  <2>4. CASE UNCHANGED targets
    BY <2>4
  <2> QED BY <1>2, <1>4, <2>1, <2>2, <2>3, <2>4
      DEF AdminStatement, CreateRoute, UpdateRoute, SetRouteEnabled, DeleteRoute,
          CreateUpstreamGroup, UpdateUpstreamGroup, AbandonPost
<1>5. CASE HealthStatement
  <2>1. ASSUME NEW u \in TargetId, NEW status \in Health, NEW failed \in BOOLEAN,
               RecordUpstreamTargetHealthCheck(u, status, failed, AutoDisableThreshold)
        PROVE  targets'[t].group = targets[t].group
    <3>1. targets[u] \in TargetRow
      BY <1>1, <2>1 DEF RecordUpstreamTargetHealthCheck
    <3>2. Checked(targets[u], status, failed, AutoDisableThreshold).group = targets[u].group
      BY <3>1, CheckedType, ThresholdAssumption
    <3> QED BY <1>1, <2>1, <3>2 DEF RecordUpstreamTargetHealthCheck
  <2>2. "healthy" \in Health /\ "unhealthy" \in Health
    BY DEF Health
  <2> QED BY <1>5, <2>1, <2>2 DEF HealthStatement
<1> QED BY <1>4, <1>5 DEF StoreStep

\* The statements of an admin and of the health checker are such changes.
LEMMA StoreStepTables ==
    ASSUME IInv, StoreStep
    PROVE  TableStep
<1>1. StoreInv
  BY DEF IInv, TypeOK, StoreInv
<1>2. ASSUME AdminStatement PROVE StoreInv'
  BY <1>1, <1>2, AdminKeepsStore
<1>3. ASSUME NEW t \in TargetId, NEW status \in Health, NEW failed \in BOOLEAN,
             RecordUpstreamTargetHealthCheck(t, status, failed, AutoDisableThreshold)
      PROVE  StoreInv'
  BY <1>1, <1>3, CheckStatement, ThresholdAssumption
<1>4. StoreInv'
  <2>1. CASE AdminStatement
    BY <2>1, <1>2
  <2>2. CASE HealthStatement
    <3>1. "healthy" \in Health /\ "unhealthy" \in Health
      BY DEF Health
    <3> QED
      BY <2>2, <3>1, <1>3 DEF HealthStatement
  <2>3. AdminStatement \/ HealthStatement
    BY DEF StoreStep
  <2> QED
    BY <2>1, <2>2, <2>3
<1>5. UNCHANGED reloadVars
  BY DEF StoreStep
<1> QED
  BY <1>4, <1>5, GroupStays DEF TableStep

LEMMA NextIsAny ==
    ASSUME IInv, Next
    PROVE  AnyStep
BY StoreStepTables DEF Next, AnyStep

\* They touch no variable of the gateway process.
LEMMA TableStepOK ==
    ASSUME IInv, TableStep
    PROVE  IInv'
BY DEF TableStep, StoreInv, IInv, TypeOK, ReloadTypeOK, LoadOK, ActiveUsable, reloadVars

\* A step of the gateway that leaves the tables alone keeps their invariant.
LEMMA TablesKept ==
    ASSUME IInv, UNCHANGED storeVars
    PROVE  StoreTypeOK' /\ ForeignKeysHold'
BY DEF IInv, TypeOK, storeVars, StoreTypeOK, ForeignKeysHold

\* A load that ends leaves nothing to load.
LEMMA LoadEnded ==
    ASSUME EndLoad
    PROVE  /\ loading' \in BOOLEAN /\ todo' \in [RouteId -> RouteRow \cup {NoRow}]
           /\ found' \in GroupFound \cup {NoRow} /\ loaded' \in SUBSET RuntimeRoute
           /\ LoadOK'
BY DEF EndLoad, Nothing, LoadOK

LEMMA LoadPlainRouteOK ==
    ASSUME IInv, NEW r \in RouteId, LoadPlainRoute(r)
    PROVE  IInv'
<1> DEFINE rt == ReadRoute(r, todo[r], groups, targets)
<1>1. todo[r] \in RouteRow /\ ~NeedsGroup(todo[r])
  BY DEF LoadPlainRoute, Reaches, IInv, TypeOK, ReloadTypeOK
<1>2. rt \in RuntimeRoute /\ rt.id = r
  BY <1>1, ReadRouteType DEF IInv, TypeOK
<1>3. /\ loaded' = loaded \cup {rt} /\ todo' = [todo EXCEPT ![r] = NoRow]
      /\ found = NoRow /\ loading /\ todo[r] # NoRow
      /\ UNCHANGED <<storeVars, proc, loading, found, active>>
  BY DEF LoadPlainRoute, Reaches
<1> HIDE DEF rt
<1>4. ReloadTypeOK'
  BY <1>2, <1>3 DEF IInv, TypeOK, ReloadTypeOK
<1>5. LoadOK'
  BY <1>2, <1>3 DEF IInv, TypeOK, ReloadTypeOK, LoadOK, RuntimeRoute
<1>6. ActiveUsable'
  BY <1>3 DEF IInv, ActiveUsable
<1> QED
  BY <1>3, <1>4, <1>5, <1>6, TablesKept DEF IInv, TypeOK

LEMMA LoadGroupRowOK ==
    ASSUME IInv, NEW r \in RouteId, LoadGroupRow(r)
    PROVE  IInv'
<1>1. todo[r] \in RouteRow /\ todo[r].group \in GroupId
  BY DEF LoadGroupRow, Reaches, NeedsGroup, IInv, TypeOK, ReloadTypeOK, RouteRow
<1>2. groups[todo[r].group] \in Strategy
  BY <1>1 DEF LoadGroupRow, IInv, TypeOK, StoreTypeOK
<1>3. found' \in GroupFound /\ found'.route = r
  BY <1>2 DEF LoadGroupRow, GroupFound
<1>4. ReloadTypeOK' /\ LoadOK' /\ ActiveUsable'
  BY <1>3 DEF LoadGroupRow, Reaches, IInv, TypeOK, ReloadTypeOK, LoadOK, ActiveUsable
<1>5. UNCHANGED storeVars
  BY DEF LoadGroupRow
<1> QED
  BY <1>4, <1>5, TablesKept DEF IInv, TypeOK

LEMMA LoadTargetsOK ==
    ASSUME IInv, LoadTargets
    PROVE  IInv'
<1> DEFINE r == found.route
           rt == [id |-> r, row |-> todo[r], strategy |-> found.strategy,
                  targets |-> TargetsIn(targets, todo[r].group)]
<1>1. r \in RouteId /\ found.strategy \in Strategy /\ todo[r] \in RouteRow /\ loading
  BY DEF LoadTargets, IInv, TypeOK, ReloadTypeOK, LoadOK, GroupFound
<1>2. TargetsIn(targets, todo[r].group) \subseteq LoadedTarget
  BY TargetsInType DEF IInv, TypeOK
<1>3. rt \in RuntimeRoute /\ rt.id = r
  BY <1>1, <1>2 DEF RuntimeRoute
<1>4. /\ loaded' = loaded \cup {rt} /\ todo' = [todo EXCEPT ![r] = NoRow]
      /\ found' = NoRow /\ todo[r] # NoRow
      /\ UNCHANGED <<storeVars, proc, loading, active>>
  BY DEF LoadTargets, IInv, LoadOK
<1> HIDE DEF rt, r
<1>5. ReloadTypeOK'
  BY <1>1, <1>3, <1>4 DEF IInv, TypeOK, ReloadTypeOK
<1>6. LoadOK'
  BY <1>1, <1>3, <1>4 DEF IInv, TypeOK, ReloadTypeOK, LoadOK, RuntimeRoute
<1>7. ActiveUsable'
  BY <1>4 DEF IInv, ActiveUsable
<1> QED
  BY <1>4, <1>5, <1>6, <1>7, TablesKept DEF IInv, TypeOK

\* The router is only made of rows that were loaded once.
LEMMA ReloadOK ==
    ASSUME IInv, Reload
    PROVE  IInv'
<1>1. loaded \in SUBSET RuntimeRoute /\ \A x, y \in loaded : x.id = y.id => x = y
  BY DEF IInv, TypeOK, ReloadTypeOK, LoadOK
<1>2. /\ active' \in SUBSET ActiveRoute
      /\ \A e \in active' : e.row.enabled /\ e.dests # {}
      /\ \A e, f \in active' : e.id = f.id => e = f
  BY <1>1, RouterNewUsable DEF Reload
<1>3. proc' = "serving" /\ EndLoad /\ UNCHANGED storeVars
  BY DEF Reload
<1>4. ReloadTypeOK' /\ LoadOK'
  BY <1>2, <1>3, LoadEnded DEF ReloadTypeOK
<1>5. ActiveUsable'
  BY <1>2, <1>3 DEF ActiveUsable
<1> QED
  BY <1>3, <1>4, <1>5, TablesKept DEF IInv, TypeOK

LEMMA FailLoadOK ==
    ASSUME IInv, FailLoad
    PROVE  IInv'
<1>1. EndLoad /\ UNCHANGED storeVars /\ active' = active
      /\ proc' = IF proc = "starting" THEN "down" ELSE proc
  BY DEF FailLoad
<1>2. ReloadTypeOK' /\ LoadOK'
  BY <1>1, LoadEnded DEF IInv, TypeOK, ReloadTypeOK
<1>3. ActiveUsable'
  BY <1>1 DEF IInv, ActiveUsable
<1> QED
  BY <1>1, <1>2, <1>3, TablesKept DEF IInv, TypeOK

LEMMA OtherStepsOK ==
    ASSUME IInv, StartProcess \/ ListRoutes \/ Crash
    PROVE  IInv'
<1>1. CASE StartProcess
  <2>1. ReloadTypeOK' /\ LoadOK' /\ ActiveUsable'
    BY <1>1 DEF StartProcess, loadVars, IInv, TypeOK, ReloadTypeOK, LoadOK, ActiveUsable
  <2> QED
    BY <1>1, <2>1, TablesKept DEF StartProcess, IInv, TypeOK
<1>2. CASE ListRoutes
  <2>1. todo' \in [RouteId -> RouteRow \cup {NoRow}]
    BY <1>2 DEF ListRoutes, IInv, TypeOK, StoreTypeOK
  <2>2. found = NoRow
    BY <1>2 DEF ListRoutes, IInv, LoadOK
  <2>3. loaded = {}
    BY <1>2 DEF ListRoutes, IInv, LoadOK
  <2>4. ReloadTypeOK' /\ LoadOK' /\ ActiveUsable'
    BY <1>2, <2>1, <2>2, <2>3 DEF ListRoutes, IInv, TypeOK, ReloadTypeOK, LoadOK, ActiveUsable
  <2> QED
    BY <1>2, <2>4, TablesKept DEF ListRoutes, IInv, TypeOK
<1>3. CASE Crash
  <2>1. EndLoad /\ proc' = "down" /\ active' = {}
    BY <1>3 DEF Crash
  <2>2. ReloadTypeOK' /\ LoadOK'
    BY <2>1, LoadEnded DEF ReloadTypeOK
  <2>3. ActiveUsable'
    BY <2>1 DEF ActiveUsable
  <2> QED
    BY <1>3, <2>2, <2>3, TablesKept DEF Crash, IInv, TypeOK
<1> QED
  BY <1>1, <1>2, <1>3

LEMMA AnyStepOK == IInv /\ [AnyStep]_vars => IInv'
<1> SUFFICES ASSUME IInv, [AnyStep]_vars PROVE IInv'
  OBVIOUS
<1>1. CASE TableStep
  BY <1>1, TableStepOK
<1>2. CASE StartProcess \/ ListRoutes \/ Crash
  BY <1>2, OtherStepsOK
<1>3. ASSUME NEW r \in RouteId, LoadPlainRoute(r) PROVE IInv'
  BY <1>3, LoadPlainRouteOK
<1>4. ASSUME NEW r \in RouteId, LoadGroupRow(r) PROVE IInv'
  BY <1>4, LoadGroupRowOK
<1>5. ASSUME NEW r \in RouteId, GroupMissing(r) PROVE IInv'
  BY <1>5, FailLoadOK DEF GroupMissing
<1>6. CASE LoadTargets
  BY <1>6, LoadTargetsOK
<1>7. CASE Reload
  BY <1>7, ReloadOK
<1>8. CASE StoreError
  BY <1>8, FailLoadOK DEF StoreError
<1>9. CASE UNCHANGED vars
  BY <1>9 DEF vars, storeVars, reloadVars, IInv, TypeOK, StoreTypeOK, ReloadTypeOK,
     ForeignKeysHold, LoadOK, ActiveUsable
<1> QED
  BY <1>1, <1>2, <1>3, <1>4, <1>5, <1>6, <1>7, <1>8, <1>9 DEF AnyStep, LoadStep

\* Every step keeps the inductive invariant.
THEOREM Inductive == IInv /\ [Next]_vars => IInv'
BY AnyStepOK, NextIsAny

\* In every reachable state of the gateway and its store, for any instance.
THEOREM Invariant == Spec => []IInv
BY Initially, Inductive, PTL DEF Spec

\* Type correctness.
THEOREM TypeCorrect == Spec => []TypeOK
<1>1. IInv => TypeOK
  BY DEF IInv
<1> QED
  BY <1>1, Invariant, PTL

\* No interleaving of admin requests, checks, loads and crashes leaves a
\* route or a target that names a group which does not exist.
THEOREM References == Spec => []ForeignKeysHold
<1>1. IInv => ForeignKeysHold
  BY DEF IInv
<1> QED
  BY <1>1, Invariant, PTL

\* Every route requests are matched against can send them somewhere, whatever
\* the store held and however the load that made it interleaved.
THEOREM RoutesUsable == Spec => []ActiveUsable
<1>1. IInv => ActiveUsable
  BY DEF IInv
<1> QED
  BY <1>1, Invariant, PTL

-----------------------------------------------------------------------------
(* The promise of a reload *)

Moment ==
    [routes : [RouteId -> RouteRow \cup {NoRow}], groups : [GroupId -> Strategy \cup {NoRow}],
     targets : [TargetId -> TargetRow \cup {NoRow}], first : BOOLEAN]

\* The moment the load in progress began.
First == CHOOSE m \in moments : m.first

IsFirst(f) == f \in moments /\ f.first /\ \A m \in moments : m.first => m = f

\* The history has one first moment, and the present one.
MomentsKept ==
    /\ moments \in SUBSET Moment
    /\ ~loading => moments = {}
    /\ loading => IsFirst(First)
    /\ loading => \E m \in moments : m.routes = routes /\ m.groups = groups /\ m.targets = targets

\* While a target exists it stays in its group.
GroupsKept ==
    \A t \in TargetId : (\A m \in moments : m.targets[t] # NoRow) =>
        \A m, n \in moments : m.targets[t].group = n.targets[t].group

\* What is still to be read and what has been read are the rows that were
\* listed, the latter with a group and targets of some moments of the load.
ReadSoFar ==
    loading =>
      /\ \A r \in RouteId :
            IF r \in EnabledIn(First.routes)
            THEN todo[r] = First.routes[r] \/ (todo[r] = NoRow /\ \E rt \in loaded : rt.id = r)
            ELSE todo[r] = NoRow
      /\ \A rt \in loaded :
            /\ rt.id \in EnabledIn(First.routes)
            /\ \E g, t \in moments :
                  rt = ReadRoute(rt.id, First.routes[rt.id], g.groups, t.targets)
      /\ found # NoRow =>
            /\ NeedsGroup(todo[found.route])
            /\ \E g \in moments : found.strategy = g.groups[todo[found.route].group]

MInv == IInv /\ MomentsKept /\ GroupsKept /\ ReadSoFar

\* What the promise is proved from.
History == InitH /\ [][AnyStep /\ Remember]_historyVars

-----------------------------------------------------------------------------
\* The first moment is the one that is chosen.
LEMMA FirstIs ==
    ASSUME NEW f, IsFirst(f)
    PROVE  First = f
BY DEF IsFirst, First

\* A load that goes on adds the present moment to its history.
LEMMA MomentAdded ==
    ASSUME MInv, IInv', loading, loading', Remember
    PROVE  /\ moments' = moments \cup {Promise!Now'}
           /\ First' = First /\ MomentsKept'
<1>1. moments' = moments \cup {Promise!Now'}
  BY DEF Remember
<1>2. Promise!Now' \in Moment /\ Promise!Now'.first = FALSE
  BY DEF Promise!Now, Moment, IInv, TypeOK, StoreTypeOK
<1>3. IsFirst(First)'
  <2>1. IsFirst(First)
    BY DEF MInv, MomentsKept
  <2>2. First \in moments' /\ First.first /\ \A m \in moments' : m.first => m = First
    BY <1>1, <1>2, <2>1 DEF IsFirst
  <2>3. (CHOOSE m \in moments' : m.first) = First
    BY <2>2
  <2> QED BY <2>2, <2>3 DEF IsFirst, First
<1>4. First' = First
  <2>1. IsFirst(First)
    BY DEF MInv, MomentsKept
  <2>2. First \in moments' /\ First.first /\ \A m \in moments' : m.first => m = First
    BY <1>1, <1>2, <2>1 DEF IsFirst
  <2> QED BY <2>2 DEF First
<1>5. \E m \in moments' : m.routes = routes' /\ m.groups = groups' /\ m.targets = targets'
  <2> DEFINE now == Promise!Now'
  <2>1. now \in moments'
    BY <1>1
  <2>2. now.routes = routes' /\ now.groups = groups' /\ now.targets = targets'
    BY DEF Promise!Now
  <2> HIDE DEF now
  <2> QED BY <2>1, <2>2
<1>6. MomentsKept'
  BY <1>1, <1>2, <1>3, <1>5 DEF MInv, MomentsKept
<1> QED BY <1>1, <1>4, <1>6

LEMMA GroupsStay ==
    ASSUME MInv, MomentsKept', loading, TableStep \/ UNCHANGED targets,
           moments' = moments \cup {Promise!Now'}
    PROVE  GroupsKept'
<1>1. PICK n \in moments : n.targets = targets
  BY DEF MInv, MomentsKept
<1>2. Promise!Now'.targets = targets'
  BY DEF Promise!Now
<1> SUFFICES ASSUME NEW t \in TargetId, \A m \in moments' : m.targets[t] # NoRow
             PROVE  \A m \in moments' : m.targets[t].group = n.targets[t].group
  BY DEF GroupsKept
<1>3. \A m \in moments : m.targets[t].group = n.targets[t].group
  BY <1>1 DEF MInv, GroupsKept
<1>4. targets'[t].group = targets[t].group
  BY <1>1, <1>2 DEF TableStep
<1> QED BY <1>1, <1>2, <1>3, <1>4
-----------------------------------------------------------------------------
(* Every step keeps what is known of the history *)

\* A route that is read: it was listed, and its group and targets are those
\* of moments of the load.
LEMMA RowRead ==
    ASSUME MInv, MomentsKept', loading, loading', First' = First,
           moments' = moments \cup {Promise!Now'},
           NEW r \in RouteId, todo[r] # NoRow, NEW rt, rt.id = r,
           todo' = [todo EXCEPT ![r] = NoRow], loaded' = loaded \cup {rt},
           found' = NoRow,
           \E g, t \in moments : rt = ReadRoute(r, todo[r], g.groups, t.targets)
    PROVE  ReadSoFar'
<1>1. r \in EnabledIn(First.routes) /\ todo[r] = First.routes[r]
  BY DEF MInv, ReadSoFar
<1>2. todo'[r] = NoRow /\ \A q \in RouteId \ {r} : todo'[q] = todo[q]
  BY DEF MInv, IInv, TypeOK, ReloadTypeOK
<1>3. ASSUME NEW q \in RouteId
      PROVE  IF q \in EnabledIn(First.routes)
             THEN todo'[q] = First.routes[q] \/ (todo'[q] = NoRow /\ \E x \in loaded' : x.id = q)
             ELSE todo'[q] = NoRow
  <2>1. CASE q = r
    BY <1>1, <1>2, <2>1
  <2>2. CASE q # r
    BY <1>2, <2>2 DEF MInv, ReadSoFar
  <2> QED BY <2>1, <2>2
<1>4. ASSUME NEW x \in loaded'
      PROVE  /\ x.id \in EnabledIn(First.routes)
             /\ \E g, t \in moments' : x = ReadRoute(x.id, First.routes[x.id], g.groups, t.targets)
  <2>1. CASE x = rt
    BY <1>1, <2>1
  <2>2. CASE x \in loaded
    BY <2>2 DEF MInv, ReadSoFar
  <2> QED BY <2>1, <2>2
<1> QED BY <1>3, <1>4 DEF ReadSoFar

\* The load goes on, but reads nothing.
LEMMA NothingRead ==
    ASSUME MInv, loading, loading', First' = First,
           moments' = moments \cup {Promise!Now'}, UNCHANGED <<todo, loaded>>,
           found' # NoRow =>
              /\ NeedsGroup(todo[found'.route])
              /\ \E g \in moments : found'.strategy = g.groups[todo[found'.route].group]
    PROVE  ReadSoFar'
BY DEF MInv, ReadSoFar

LEMMA PlainM ==
    ASSUME MInv, IInv', Remember, NEW r \in RouteId, LoadPlainRoute(r)
    PROVE  MInv'
<1> DEFINE rt == ReadRoute(r, todo[r], groups, targets)
<1>1. /\ loading /\ loading' /\ found' = NoRow /\ targets' = targets /\ todo[r] # NoRow
      /\ todo' = [todo EXCEPT ![r] = NoRow] /\ loaded' = loaded \cup {rt}
  BY DEF LoadPlainRoute, Reaches, storeVars
<1>2. moments' = moments \cup {Promise!Now'} /\ First' = First /\ MomentsKept'
  BY <1>1, MomentAdded
<1>3. GroupsKept'
  BY <1>1, <1>2, GroupsStay
<1>4. rt.id = r
  BY DEF ReadRoute
<1>5. \E g, t \in moments : rt = ReadRoute(r, todo[r], g.groups, t.targets)
  BY <1>1 DEF MInv, MomentsKept
<1> HIDE DEF rt
<1>6. ReadSoFar'
  BY <1>1, <1>2, <1>4, <1>5, RowRead
<1> QED BY <1>2, <1>3, <1>6 DEF MInv

LEMMA GroupRowM ==
    ASSUME MInv, IInv', Remember, NEW r \in RouteId, LoadGroupRow(r)
    PROVE  MInv'
<1>1. /\ loading /\ loading' /\ UNCHANGED <<targets, todo, loaded>> /\ NeedsGroup(todo[r])
      /\ found' = [route |-> r, strategy |-> groups[todo[r].group]]
  BY DEF LoadGroupRow, Reaches, storeVars
<1>2. moments' = moments \cup {Promise!Now'} /\ First' = First /\ MomentsKept'
  BY <1>1, MomentAdded
<1>3. GroupsKept'
  BY <1>1, <1>2, GroupsStay
<1>4. \E g \in moments : found'.strategy = g.groups[todo[found'.route].group]
  BY <1>1 DEF MInv, MomentsKept
<1>5. ReadSoFar'
  BY <1>1, <1>2, <1>4, NothingRead
<1> QED BY <1>2, <1>3, <1>5 DEF MInv

LEMMA TargetsM ==
    ASSUME MInv, IInv', Remember, LoadTargets
    PROVE  MInv'
<1> DEFINE r == found.route
           rt == [id |-> r, row |-> todo[r], strategy |-> found.strategy,
                  targets |-> TargetsIn(targets, todo[r].group)]
<1>1. /\ loading /\ loading' /\ found # NoRow /\ found' = NoRow /\ targets' = targets
      /\ todo' = [todo EXCEPT ![r] = NoRow] /\ loaded' = loaded \cup {rt}
  BY DEF LoadTargets, storeVars
<1>2. moments' = moments \cup {Promise!Now'} /\ First' = First /\ MomentsKept'
  BY <1>1, MomentAdded
<1>3. GroupsKept'
  BY <1>1, <1>2, GroupsStay
<1>4. r \in RouteId /\ todo[r] # NoRow /\ NeedsGroup(todo[r])
  BY <1>1 DEF MInv, IInv, TypeOK, ReloadTypeOK, LoadOK, ReadSoFar, GroupFound
<1>5. PICK g \in moments : found.strategy = g.groups[todo[r].group]
  BY <1>1 DEF MInv, ReadSoFar
<1>6. PICK t \in moments : t.targets = targets
  BY <1>1 DEF MInv, MomentsKept
<1>7. rt.id = r /\ rt = ReadRoute(r, todo[r], g.groups, t.targets)
  BY <1>4, <1>5, <1>6 DEF ReadRoute
<1> HIDE DEF rt, r
<1>8. ReadSoFar'
  BY <1>1, <1>2, <1>4, <1>7, RowRead
<1> QED BY <1>2, <1>3, <1>8 DEF MInv

LEMMA BeginM ==
    ASSUME MInv, IInv', Remember, ListRoutes
    PROVE  MInv'
<1> DEFINE f == [Promise!Now EXCEPT !.first = TRUE]
<1>1. /\ ~loading /\ loading' /\ UNCHANGED <<routes, groups, targets, found, loaded>>
      /\ todo' = [r \in RouteId |-> IF r \in EnabledIn(routes) THEN routes[r] ELSE NoRow]
  BY DEF ListRoutes, storeVars
<1>2. moments' = {f}
  BY <1>1 DEF Remember
<1>3. /\ f.routes = routes /\ f.groups = groups /\ f.targets = targets /\ f.first
      /\ f \in Moment
  BY DEF Promise!Now, Moment, MInv, IInv, TypeOK, StoreTypeOK
<1> HIDE DEF f
<1>4. f \in moments' /\ f.first /\ \A m \in moments' : m.first => m = f
  BY <1>2, <1>3
<1>5. First' = f
  BY <1>2, <1>3 DEF First
<1>6. MomentsKept'
  BY <1>1, <1>2, <1>3, <1>4, <1>5 DEF MomentsKept, IsFirst
<1>7. GroupsKept'
  BY <1>2 DEF GroupsKept
<1>8. found' = NoRow /\ loaded' = {}
  BY <1>1 DEF MInv, IInv, LoadOK
<1>9. ReadSoFar'
  BY <1>1, <1>3, <1>5, <1>8 DEF ReadSoFar
<1> QED BY <1>6, <1>7, <1>9 DEF MInv

\* Nothing is known of a load that has ended.
LEMMA EndM ==
    ASSUME MInv, IInv', Remember, ~loading'
    PROVE  MInv'
<1>1. moments' = {}
  BY DEF Remember
<1> QED BY <1>1 DEF MInv, MomentsKept, GroupsKept, ReadSoFar

LEMMA StoreM ==
    ASSUME MInv, IInv', Remember, TableStep
    PROVE  MInv'
<1>1. UNCHANGED <<loading, todo, found, loaded>>
  BY DEF TableStep, reloadVars
<1>2. CASE ~loading
  BY <1>1, <1>2, EndM
<1>3. CASE loading
  <2>1. moments' = moments \cup {Promise!Now'} /\ First' = First /\ MomentsKept'
    BY <1>1, <1>3, MomentAdded
  <2>2. GroupsKept'
    BY <1>3, <2>1, GroupsStay
  <2>3. ReadSoFar'
    BY <1>1, <1>3, <2>1, NothingRead DEF MInv, ReadSoFar
  <2> QED BY <2>1, <2>2, <2>3 DEF MInv
<1> QED BY <1>2, <1>3

LEMMA StepM == MInv /\ [AnyStep /\ Remember]_historyVars => MInv'
<1> SUFFICES ASSUME MInv, [AnyStep /\ Remember]_historyVars PROVE MInv'
  OBVIOUS
<1>1. CASE UNCHANGED historyVars
  <2>1. UNCHANGED vars /\ moments' = moments /\ UNCHANGED <<routes, groups, targets, loading, todo, found, loaded>>
    BY <1>1 DEF historyVars, vars, storeVars, reloadVars
  <2>2. IInv'
    BY <2>1, AnyStepOK DEF MInv
  <2>3. First' = First
    BY <2>1 DEF First
  <2>4. MomentsKept' /\ GroupsKept'
    BY <2>1, <2>3 DEF MInv, MomentsKept, GroupsKept, IsFirst
  <2>5. ReadSoFar'
    BY <2>1, <2>3 DEF MInv, ReadSoFar
  <2> QED BY <2>2, <2>4, <2>5 DEF MInv
<1>2. CASE AnyStep /\ Remember
  <2>1. IInv'
    BY <1>2, AnyStepOK DEF MInv
  <2>2. CASE TableStep
    BY <1>2, <2>1, <2>2, StoreM
  <2>3. CASE ListRoutes
    BY <1>2, <2>1, <2>3, BeginM
  <2>4. ASSUME NEW r \in RouteId, LoadPlainRoute(r) PROVE MInv'
    BY <1>2, <2>1, <2>4, PlainM
  <2>5. ASSUME NEW r \in RouteId, LoadGroupRow(r) PROVE MInv'
    BY <1>2, <2>1, <2>5, GroupRowM
  <2>6. CASE LoadTargets
    BY <1>2, <2>1, <2>6, TargetsM
  <2>7. CASE ~loading'
    BY <1>2, <2>1, <2>7, EndM
  <2>8. CASE StartProcess
    BY <2>7, <2>8 DEF StartProcess, loadVars, MInv, IInv, LoadOK
  <2>9. CASE Reload \/ StoreError \/ Crash
    BY <2>7, <2>9 DEF Reload, StoreError, Crash, FailLoad, EndLoad
  <2>10. ASSUME NEW r \in RouteId, GroupMissing(r) PROVE MInv'
    BY <2>7, <2>10 DEF GroupMissing, FailLoad, EndLoad
  <2> QED BY <1>2, <2>2, <2>3, <2>4, <2>5, <2>6, <2>8, <2>9, <2>10 DEF AnyStep, LoadStep
<1> QED BY <1>1, <1>2

LEMMA InitM == InitH => MInv
<1> SUFFICES ASSUME InitH PROVE MInv
  OBVIOUS
<1>1. IInv /\ ~loading /\ moments = {}
  BY Initially DEF InitH, Init
<1> QED BY <1>1 DEF MInv, MomentsKept, GroupsKept, ReadSoFar
-----------------------------------------------------------------------------
(* The refinement *)

\* The promise is stated with the operators of the loader.
LEMMA SameOperators ==
    /\ \A rs : Promise!EnabledIn(rs) = EnabledIn(rs)
    /\ \A r, row, gs, ts : Promise!ReadRoute(r, row, gs, ts) = ReadRoute(r, row, gs, ts)
    /\ \A rts : Promise!RouterNew(rts) = RouterNew(rts)
<1>1. \A rs : Promise!EnabledIn(rs) = EnabledIn(rs)
  BY DEF Promise!EnabledIn, EnabledIn
<1>2. \A ts, g : Promise!TargetsIn(ts, g) = TargetsIn(ts, g)
  BY DEF Promise!TargetsIn, TargetsIn
<1>3. \A row : Promise!NeedsGroup(row) = NeedsGroup(row)
  BY DEF Promise!NeedsGroup, NeedsGroup
<1>4. \A r, row, gs, ts : Promise!ReadRoute(r, row, gs, ts) = ReadRoute(r, row, gs, ts)
  BY <1>2, <1>3 DEF Promise!ReadRoute, ReadRoute
<1>5. \A row : Promise!Usable(row) = Usable(row)
  BY DEF Promise!Usable, Usable
<1>6. \A rt : Promise!Destinations(rt) = Destinations(rt)
  BY <1>5 DEF Promise!Destinations, Destinations
<1>7. \A rt : Promise!Activates(rt) = Activates(rt)
  BY <1>6 DEF Promise!Activates, Activates
<1>8. \A rts : Promise!RouterNew(rts) = RouterNew(rts)
  BY <1>6, <1>7 DEF Promise!RouterNew, RouterNew
<1> QED BY <1>1, <1>4, <1>8

\* The loader's router is one of those the promise allows.
LEMMA ReloadRefines ==
    ASSUME MInv, Reload, Remember
    PROVE  Promise!Refresh
<1>1. /\ loading /\ todo = Nothing /\ active' = RouterNew(loaded) /\ ~loading' /\ proc' = "serving"
      /\ UNCHANGED <<routes, groups, targets>>
  BY DEF Reload, EndLoad, storeVars
<1>2. moments' = {} /\ proc # "down"
  BY <1>1 DEF Remember, MInv, IInv, LoadOK
<1>3. Promise!Listed = EnabledIn(First.routes)
  BY SameOperators DEF Promise!Listed, First
<1>4. \A e \in active' : \E rt \in loaded : e.id = rt.id
  BY <1>1 DEF RouterNew
<1>5. \A e \in active' : e.id \in Promise!Listed
  BY <1>1, <1>3, <1>4 DEF MInv, ReadSoFar
<1>6. ASSUME NEW r \in Promise!Listed
      PROVE  \E rt \in Promise!Readings(r) : {e \in active' : e.id = r} = RouterNew({rt})
  <2>1. r \in RouteId /\ r \in EnabledIn(First.routes) /\ First.routes[r] # NoRow
    BY <1>3 DEF EnabledIn
  <2>2. PICK rt \in loaded : rt.id = r
    BY <1>1, <2>1 DEF MInv, ReadSoFar, Nothing
  <2>3. rt \in Promise!Readings(r)
    <3>1. \E g, t \in moments : rt = ReadRoute(r, First.routes[r], g.groups, t.targets)
      BY <1>1, <2>2 DEF MInv, ReadSoFar
    <3>2. Promise!Readings(r) = {ReadRoute(r, First.routes[r], g.groups, t.targets) : g \in moments, t \in moments}
      BY SameOperators DEF Promise!Readings, First
    <3> QED BY <3>1, <3>2
  <2>4. \A x \in loaded : x.id = r => x = rt
    BY <2>2 DEF MInv, IInv, LoadOK
  <2>5. {e \in active' : e.id = r} = RouterNew({rt})
    BY <1>1, <2>2, <2>4 DEF RouterNew
  <2> QED BY <2>3, <2>5
<1> QED BY <1>1, <1>2, <1>5, <1>6, SameOperators, SMTT(30) DEF Promise!Refresh

\* A load that ends without a router changes nothing, or the process ends.
LEMMA FailRefines ==
    ASSUME MInv, FailLoad \/ Crash, Remember
    PROVE  Promise!GiveUp \/ Promise!Stop
<1>1. ~loading' /\ loading' = FALSE /\ moments' = {} /\ UNCHANGED <<routes, groups, targets>>
  BY DEF FailLoad, Crash, EndLoad, Remember, storeVars
<1>2. CASE proc' = "down"
  <2>1. active' = {}
    BY <1>2 DEF FailLoad, Crash, MInv, IInv, ActiveUsable
  <2> QED BY <1>1, <1>2, <2>1 DEF Promise!Stop
<1>3. CASE proc' # "down"
  <2>1. proc' = proc /\ active' = active
    BY <1>3 DEF FailLoad, Crash
  <2> QED BY <1>1, <1>3, <2>1 DEF Promise!GiveUp
<1> QED BY <1>2, <1>3

\* Other statements read the tables or change them.
LEMMA ChangeRefines ==
    ASSUME MInv, Remember, UNCHANGED <<proc, active, loading>>
    PROVE  Promise!Change
BY DEF Remember, Promise!Change, MInv, MomentsKept

LEMMA StepRefines ==
    ASSUME MInv, [AnyStep /\ Remember]_historyVars
    PROVE  [Promise!Next]_Promise!promiseVars
<1>1. CASE UNCHANGED historyVars
  BY <1>1 DEF historyVars, vars, storeVars, reloadVars, Promise!promiseVars
<1>2. CASE AnyStep /\ Remember
  <2>1. CASE TableStep
    BY <1>2, <2>1, ChangeRefines DEF TableStep, reloadVars, Promise!Next
  <2>2. CASE StartProcess
    <3>1. ~loading /\ moments = {} /\ moments' = {}
      BY <1>2, <2>2 DEF StartProcess, loadVars, MInv, IInv, LoadOK, MomentsKept, Remember
    <3> QED BY <2>2, <3>1 DEF StartProcess, loadVars, storeVars, Promise!Start, Promise!Next
  <2>3. CASE ListRoutes
    <3>1. moments' = {[Promise!Now EXCEPT !.first = TRUE]}
      BY <1>2, <2>3 DEF ListRoutes, Remember
    <3> QED BY <2>3, <3>1 DEF ListRoutes, storeVars, Promise!Begin, Promise!Next
  <2>4. ASSUME NEW r \in RouteId, LoadPlainRoute(r) \/ LoadGroupRow(r)
        PROVE  Promise!Next
    BY <1>2, <2>4, ChangeRefines DEF LoadPlainRoute, LoadGroupRow, Promise!Next
  <2>5. CASE LoadTargets
    BY <1>2, <2>5, ChangeRefines DEF LoadTargets, Promise!Next
  <2>6. CASE Reload
    BY <1>2, <2>6, ReloadRefines DEF Promise!Next
  <2>7. CASE StoreError \/ Crash
    BY <1>2, <2>7, FailRefines DEF StoreError, Promise!Next
  <2>8. ASSUME NEW r \in RouteId, GroupMissing(r) PROVE Promise!Next
    BY <1>2, <2>8, FailRefines DEF GroupMissing, Promise!Next
  <2> QED BY <1>2, <2>1, <2>2, <2>3, <2>4, <2>5, <2>6, <2>7, <2>8 DEF AnyStep, LoadStep
<1> QED BY <1>1, <1>2

LEMMA HistoryKeepsPromise == History => KeepsPromise
<1>1. InitH => Promise!Init
  BY DEF InitH, Init, Promise!Init
<1> QED BY <1>1, InitM, StepM, StepRefines, PTL DEF History, KeepsPromise, Promise!Spec

-----------------------------------------------------------------------------
(* What the refinement says of targets *)

\* The destinations of a router are those of a route that was read.
LEMMA RouterRead ==
    ASSUME MInv, Reload, NEW e \in active'
    PROVE  \E g, t \in moments :
              LET rt == ReadRoute(e.id, e.row, g.groups, t.targets)
              IN  e.dests = Destinations(rt)
<1>1. PICK rt \in loaded : e = [id |-> rt.id, row |-> rt.row, dests |-> Destinations(rt)]
  BY DEF Reload, RouterNew
<1>2. PICK g \in moments, t \in moments :
         rt = ReadRoute(rt.id, First.routes[rt.id], g.groups, t.targets)
  BY DEF Reload, MInv, ReadSoFar
<1>3. rt = ReadRoute(e.id, e.row, g.groups, t.targets)
  BY <1>1, <1>2 DEF ReadRoute
<1> QED BY <1>1, <1>3

\* Only a reload makes routes active.
LEMMA OnlyReload ==
    ASSUME [AnyStep /\ Remember]_historyVars, ~Reload
    PROVE  active' \subseteq active
BY DEF historyVars, vars, storeVars, reloadVars, AnyStep, LoadStep, TableStep, StartProcess, ListRoutes,
       LoadPlainRoute, LoadGroupRow, LoadTargets, GroupMissing, StoreError, FailLoad, Crash

LEMMA HistoryTargetsFit == History => ServedTargetsWereFit
<1> DEFINE Fit == \A e \in active' \ active : e.row.type = "proxy" =>
                     \A d \in e.dests : \E m \in moments : FitAt(m, d)
<1>1. ASSUME MInv, [AnyStep /\ Remember]_historyVars, Reload PROVE Fit
  <2> SUFFICES ASSUME NEW e \in active', e.row.type = "proxy", NEW d \in e.dests
               PROVE  \E m \in moments : FitAt(m, d)
    OBVIOUS
  <2>1. PICK g \in moments, m \in moments :
           e.dests = Destinations(ReadRoute(e.id, e.row, g.groups, m.targets))
    BY <1>1, RouterRead
  <2>2. PICK x \in TargetsIn(m.targets, e.row.group) :
           Usable(x.row) /\ d = [target |-> x.id, url |-> x.row.url]
    BY <2>1 DEF Destinations, ReadRoute
  <2>3. m.targets[x.id] # NoRow /\ x.row = m.targets[x.id]
    BY <2>2 DEF TargetsIn
  <2> QED BY <2>2, <2>3 DEF FitAt, Usable
<1>2. ASSUME [AnyStep /\ Remember]_historyVars, ~Reload PROVE Fit
  BY <1>2, OnlyReload
<1>3. MInv /\ [AnyStep /\ Remember]_historyVars => Fit
  BY <1>1, <1>2
<1>4. Fit => [Fit]_historyVars
  OBVIOUS
<1> QED BY <1>3, InitM, StepM, PTL DEF History, ServedTargetsWereFit

\* A route and target that were good at every moment of a load are read well.
LEMMA GoodRead ==
    ASSUME MInv, Reload, NEW r \in RouteId, NEW t \in TargetId,
           \A m \in moments : ServesAt(m, r, t)
    PROVE  \E rt \in loaded : rt.id = r /\ Activates(rt) /\ \E d \in Destinations(rt) : d.target = t
<1> DEFINE row == First.routes[r]
           G == row.group
<1>1. loading /\ todo = Nothing /\ IsFirst(First) /\ moments \subseteq Moment
  BY DEF Reload, MInv, MomentsKept
<1>2. First \in moments /\ row # NoRow /\ row.enabled /\ row.type = "proxy" /\ r \in EnabledIn(First.routes)
  BY <1>1 DEF IsFirst, ServesAt, EnabledIn
<1>3. ASSUME NEW m \in moments
      PROVE  /\ m.targets[t] \in TargetRow /\ m.targets[t].group = G /\ m.routes[r].group = G
             /\ m.groups[G] # "unsupported" /\ Usable(m.targets[t]) /\ m.targets[t] # NoRow
  <2>1. \A n \in moments : n.targets[t] # NoRow /\ n.targets[t].group = n.routes[r].group
    BY DEF ServesAt
  <2>2. m.targets[t].group = G
    BY <1>2, <2>1 DEF MInv, GroupsKept
  <2>3. m.targets[t] \in TargetRow
    BY <1>1, <2>1 DEF Moment
  <2> QED BY <2>1, <2>2, <2>3 DEF ServesAt, FitAt, Usable
<1>4. PICK rt \in loaded : rt.id = r
  BY <1>1, <1>2 DEF MInv, ReadSoFar, Nothing
<1>5. PICK g \in moments, m \in moments : rt = ReadRoute(r, row, g.groups, m.targets)
  BY <1>1, <1>4 DEF MInv, ReadSoFar
<1>6. NeedsGroup(row)
  BY <1>2, <1>3, StoreAssumption DEF NeedsGroup, TargetRow
<1> HIDE DEF row
<1>7. rt.row = row /\ rt.strategy = g.groups[G] /\ rt.targets = TargetsIn(m.targets, G)
  BY <1>5, <1>6 DEF ReadRoute
<1>8. [id |-> t, row |-> m.targets[t]] \in rt.targets
  BY <1>3, <1>7 DEF TargetsIn
<1>9. [target |-> t, url |-> m.targets[t].url] \in Destinations(rt)
  <2> DEFINE x == [id |-> t, row |-> m.targets[t]]
  <2>1. x \in {y \in rt.targets : Usable(y.row)} /\ x.id = t /\ x.row = m.targets[t]
    BY <1>3, <1>8
  <2>2. rt.row.type = "proxy"
    BY <1>2, <1>7
  <2> HIDE DEF x
  <2> QED BY <2>1, <2>2 DEF Destinations
<1>10. Activates(rt)
  BY <1>2, <1>3, <1>7, <1>9 DEF Activates
<1> QED BY <1>4, <1>9, <1>10

LEMMA HistoryGoodServed == History => GoodRoutesServed
<1> DEFINE Good == Reload =>
              \A r \in RouteId, t \in TargetId :
                 (\A m \in moments : ServesAt(m, r, t)) =>
                    \E e \in active' : e.id = r /\ \E d \in e.dests : d.target = t
<1>1. MInv => Good
  <2> SUFFICES ASSUME MInv, Reload, NEW r \in RouteId, NEW t \in TargetId,
                      \A m \in moments : ServesAt(m, r, t)
               PROVE  \E e \in active' : e.id = r /\ \E d \in e.dests : d.target = t
    OBVIOUS
  <2>1. PICK rt \in loaded : rt.id = r /\ Activates(rt) /\ \E d \in Destinations(rt) : d.target = t
    BY GoodRead
  <2>2. [id |-> rt.id, row |-> rt.row, dests |-> Destinations(rt)] \in active'
    BY <2>1 DEF Reload, RouterNew
  <2> QED BY <2>1, <2>2
<1> QED BY <1>1, InitM, StepM, PTL DEF History, GoodRoutesServed

LEMMA LoaderHistory == SpecH => History
<1>1. MInv /\ [Next /\ Remember]_historyVars => [AnyStep /\ Remember]_historyVars
  BY NextIsAny DEF MInv
<1> QED BY <1>1, InitM, StepM, PTL DEF SpecH, History

\* What the router is after a reload is what the reload promises: exactly the
\* routes listed when it began, each as the store had it at some moment.
THEOREM LoaderKeepsPromise == SpecH => KeepsPromise
BY LoaderHistory, HistoryKeepsPromise, PTL

\* A reload sends requests only to targets that were enabled, not unhealthy and
\* at that URL at some moment while it was reading.
THEOREM TargetsWereFit == SpecH => ServedTargetsWereFit
BY LoaderHistory, HistoryTargetsFit, PTL

\* A route and target that were good during a whole reload are served after
\* it: no other route, and no change to another row, can keep them out.
THEOREM GoodRoutesKept == SpecH => GoodRoutesServed
BY LoaderHistory, HistoryGoodServed, PTL

-----------------------------------------------------------------------------
(* The all-in-one server *)

\* Types of the checker's own variables and of the admin page's.
CheckerOK ==
    /\ up \in [Url -> BOOLEAN]
    /\ checking \in BOOLEAN
    /\ left \in SUBSET [id : TargetId, row : TargetRow]
    /\ probed \in [id : TargetId, row : TargetRow, status : Health] \cup {NoProbe}
    /\ draft \in [id : TargetId, doc : TargetDoc] \cup {NoDraft}

SInv == IInv /\ CheckerOK

\* The checker writes the tables with the statements of the store.
LEMMA SameStatements ==
    /\ Checker!StoreTypeOK <=> StoreTypeOK
    /\ \A t, status, failed, threshold :
          Checker!RecordUpstreamTargetHealthCheck(t, status, failed, threshold)
             <=> RecordUpstreamTargetHealthCheck(t, status, failed, threshold)
    /\ \A t, doc : Checker!UpdateUpstreamTarget(t, doc) <=> UpdateUpstreamTarget(t, doc)
    /\ \A t, g, doc : Checker!CreateUpstreamTarget(t, g, doc) <=> CreateUpstreamTarget(t, g, doc)
    /\ \A t : Checker!DeleteUpstreamTarget(t) <=> DeleteUpstreamTarget(t)
<1>1. Checker!StoreTypeOK <=> StoreTypeOK
  BY DEF Checker!StoreTypeOK, StoreTypeOK, Checker!RouteRow, RouteRow, Checker!RouteType, RouteType,
     Checker!TargetRow, TargetRow, Checker!Strategy, Strategy, Checker!Health, Health,
     Checker!Post, Post
<1>2. \A row, status, failed, threshold :
         Checker!Checked(row, status, failed, threshold) = Checked(row, status, failed, threshold)
  BY DEF Checker!Checked, Checked
<1>3. \A g, doc : Checker!TargetOf(g, doc) = TargetOf(g, doc)
  BY DEF Checker!TargetOf, TargetOf
<1> QED
  BY <1>1, <1>2, <1>3
  DEF Checker!RecordUpstreamTargetHealthCheck, RecordUpstreamTargetHealthCheck,
      Checker!UpdateUpstreamTarget, UpdateUpstreamTarget,
      Checker!CreateUpstreamTarget, CreateUpstreamTarget,
      Checker!DeleteUpstreamTarget, DeleteUpstreamTarget

LEMMA SameTypes ==
    /\ Checker!TargetRow = TargetRow /\ Checker!TargetDoc = TargetDoc /\ Checker!Health = Health
    /\ Checker!Listed = [id : TargetId, row : TargetRow]
    /\ Checker!Probe = [id : TargetId, row : TargetRow, status : Health]
BY DEF Checker!TargetRow, TargetRow, Checker!TargetDoc, TargetDoc, Checker!Health, Health,
       Checker!Listed, Checker!Probe

LEMMA CheckerTypes == Checker!HealthTypeOK <=> StoreTypeOK /\ CheckerOK
BY SameTypes, SameStatements DEF Checker!HealthTypeOK, CheckerOK

\* A statement that changes one target changes the tables as TableStep says.
LEMMA TargetWritten ==
    ASSUME SInv, UNCHANGED reloadVars, NEW t \in TargetId,
           \/ \E doc \in TargetDoc : UpdateUpstreamTarget(t, doc)
           \/ \E g \in GroupId, doc \in TargetDoc : CreateUpstreamTarget(t, g, doc)
           \/ DeleteUpstreamTarget(t)
           \/ \E status \in Health, failed \in BOOLEAN :
                 RecordUpstreamTargetHealthCheck(t, status, failed, AutoDisableThreshold)
    PROVE  TableStep
<1>1. StoreInv /\ targets \in [TargetId -> TargetRow \cup {NoRow}]
  BY DEF SInv, IInv, TypeOK, StoreInv, StoreTypeOK
<1>2. ASSUME NEW doc \in TargetDoc, UpdateUpstreamTarget(t, doc) PROVE TableStep
  <2>1. StoreInv'
    BY <1>1, <1>2, TargetUpdated
  <2>2. ASSUME NEW u \in TargetId, targets[u] # NoRow PROVE targets'[u].group = targets[u].group
    BY <1>1, <1>2, <2>2 DEF UpdateUpstreamTarget, TargetOf
  <2> QED BY <2>1, <2>2 DEF TableStep
<1>3. ASSUME NEW g \in GroupId, NEW doc \in TargetDoc, CreateUpstreamTarget(t, g, doc)
      PROVE  TableStep
  <2>1. StoreInv'
    BY <1>1, <1>3, TargetCreated
  <2> QED BY <1>1, <1>3, <2>1 DEF TableStep, CreateUpstreamTarget
<1>4. CASE DeleteUpstreamTarget(t)
  <2>1. StoreInv'
    BY <1>1, <1>4, TargetDeleted
  <2> QED BY <1>1, <1>4, <2>1 DEF TableStep, DeleteUpstreamTarget
<1>5. ASSUME NEW status \in Health, NEW failed \in BOOLEAN,
             RecordUpstreamTargetHealthCheck(t, status, failed, AutoDisableThreshold)
      PROVE  TableStep
  <2>1. StoreInv'
    BY <1>1, <1>5, CheckStatement, ThresholdAssumption
  <2>2. Checked(targets[t], status, failed, AutoDisableThreshold).group = targets[t].group
    <3>1. targets[t] \in TargetRow
      BY <1>1, <1>5 DEF RecordUpstreamTargetHealthCheck
    <3> QED BY <3>1, CheckedType, ThresholdAssumption
  <2> QED BY <1>1, <1>5, <2>1, <2>2 DEF TableStep, RecordUpstreamTargetHealthCheck
<1> QED BY <1>2, <1>3, <1>4, <1>5

LEMMA TablesStay ==
    ASSUME SInv, UNCHANGED <<storeVars, reloadVars>>
    PROVE  TableStep
BY TablesKept DEF SInv, IInv, TypeOK, TableStep, StoreInv, storeVars

\* A check of the running server.  What it records may be long out of date:
\* the statement is one of the store all the same.
LEMMA CheckOK ==
    ASSUME SInv, Check
    PROVE  TableStep /\ CheckerOK'
<1> USE SameTypes DEF SInv, CheckerOK
<1>0. UNCHANGED reloadVars
  BY DEF Check
<1>1. CASE Checker!ListAllUpstreamTargets
  <2>1. TableStep
    BY <1>0, <1>1, TablesStay DEF Checker!ListAllUpstreamTargets, Checker!storeVars, storeVars
  <2>2. left' \in SUBSET [id : TargetId, row : TargetRow]
    BY <1>1 DEF Checker!ListAllUpstreamTargets, Checker!Checkable, IInv, TypeOK, StoreTypeOK
  <2> QED BY <1>1, <2>1, <2>2 DEF Checker!ListAllUpstreamTargets
<1>2. ASSUME NEW x \in left, Checker!ProbeTarget(x) PROVE TableStep /\ CheckerOK'
  <2>1. TableStep
    BY <1>0, <1>2, TablesStay DEF Checker!ProbeTarget, Checker!storeVars, storeVars
  <2>2. x.id \in TargetId /\ x.row \in TargetRow
    BY DEF SInv
  <2>3. probed' \in [id : TargetId, row : TargetRow, status : Health]
    BY <1>2, <2>2 DEF Checker!ProbeTarget, Health
  <2> QED BY <1>2, <2>1, <2>3 DEF Checker!ProbeTarget
<1>3. CASE Checker!SkipRecord
  <2>1. TableStep
    BY <1>0, <1>3, TablesStay DEF Checker!SkipRecord, Checker!storeVars, storeVars
  <2> QED BY <1>3, <2>1 DEF Checker!SkipRecord
<1>4. CASE Checker!RecordCheck
  <2>1. /\ probed.id \in TargetId /\ probed.status \in Health
        /\ (probed.status = "unhealthy") \in BOOLEAN
    BY <1>4 DEF Checker!RecordCheck, SInv
  <2>2. RecordUpstreamTargetHealthCheck(probed.id, probed.status,
            probed.status = "unhealthy", AutoDisableThreshold)
    BY <1>4, SameStatements DEF Checker!RecordCheck
  <2>3. TableStep
    BY <1>0, <2>1, <2>2, TargetWritten
  <2> QED BY <1>4, <2>3 DEF Checker!RecordCheck
<1>5. CASE Checker!EndRound
  <2>1. TableStep
    BY <1>0, <1>5, TablesStay DEF Checker!EndRound, Checker!storeVars, storeVars
  <2> QED BY <1>5, <2>1 DEF Checker!EndRound
<1> QED BY <1>1, <1>2, <1>3, <1>4, <1>5 DEF Check, Checker!CheckStep

\* The admin page writes back whatever document it holds.
LEMMA PageOK ==
    ASSUME SInv, Checker!AdminStep, UNCHANGED reloadVars
    PROVE  TableStep /\ CheckerOK'
<1> USE SameTypes DEF SInv, CheckerOK
<1>1. ASSUME NEW t \in TargetId, Checker!OpenTarget(t) PROVE TableStep /\ CheckerOK'
  <2>1. TableStep
    BY <1>1, TablesStay DEF Checker!OpenTarget, Checker!storeVars, storeVars
  <2>2. targets[t] \in TargetRow
    BY <1>1 DEF Checker!OpenTarget, IInv, TypeOK, StoreTypeOK
  <2>3. Checker!DocOf(targets[t]) \in TargetDoc
    BY <2>2 DEF Checker!DocOf, TargetRow, TargetDoc
  <2> QED BY <1>1, <2>1, <2>3 DEF Checker!OpenTarget, Checker!checkVars
<1>2. ASSUME NEW t \in TargetId, Checker!RemoveTarget(t) PROVE TableStep /\ CheckerOK'
  <2>1. TableStep
    BY <1>2, TargetWritten, SameStatements DEF Checker!RemoveTarget
  <2> QED BY <1>2, <2>1 DEF Checker!RemoveTarget, Checker!checkVars
<1>3. ASSUME NEW u \in Url \cup {NoUrl}, NEW enabled \in BOOLEAN, NEW health \in Health,
             Checker!SaveTarget(u, enabled, health)
      PROVE  TableStep /\ CheckerOK'
  <2> DEFINE doc == [draft.doc EXCEPT !.url = u, !.enabled = enabled, !.health = health]
  <2>1. draft.id \in TargetId /\ draft.doc \in TargetDoc
    BY <1>3 DEF Checker!SaveTarget, SInv
  <2>2. doc \in TargetDoc
    BY <2>1 DEF TargetDoc
  <2>3. UpdateUpstreamTarget(draft.id, doc)
    BY <1>3, SameStatements DEF Checker!SaveTarget
  <2> HIDE DEF doc
  <2>4. TableStep
    BY <2>1, <2>2, <2>3, TargetWritten
  <2> QED BY <1>3, <2>4 DEF Checker!SaveTarget, Checker!checkVars
<1>4. ASSUME NEW t \in TargetId, NEW g \in GroupId, NEW doc \in TargetInput,
             Checker!AddTarget(t, g, doc)
      PROVE  TableStep /\ CheckerOK'
  <2>1. TableStep
    BY <1>4, TargetWritten, SameStatements, StoreAssumption DEF Checker!AddTarget
  <2> QED BY <1>4, <2>1 DEF Checker!AddTarget, Checker!checkVars
<1> QED BY <1>1, <1>2, <1>3, <1>4 DEF Checker!AdminStep

\* Every step of the server is one of the gateway, or changes tables only, and
\* keeps the types of the checker and the page.
LEMMA SystemStep ==
    ASSUME SInv, SystemNext
    PROVE  AnyStep /\ SInv'
<1> USE DEF CheckerOK
<1>1. AnyStep /\ CheckerOK'
  <2>1. CASE Check
    BY <2>1, CheckOK DEF AnyStep
  <2>2. CASE LoadConfiguration \/ StartServer \/ (StoreError /\ UNCHANGED <<checkVars, pageVars>>)
    <3>1. AnyStep /\ UNCHANGED <<checkVars, pageVars>>
      BY <2>2 DEF AnyStep, LoadConfiguration, StartServer
    <3> QED BY <3>1 DEF SInv, checkVars, pageVars
  <2>3. CASE AdminStatement /\ UNCHANGED <<reloadVars, checkVars, pageVars>>
    <3>1. TableStep
      BY <2>3, StoreStepTables DEF SInv, StoreStep
    <3> QED BY <2>3, <3>1 DEF SInv, AnyStep, checkVars, pageVars
  <2>4. CASE Checker!AdminStep /\ UNCHANGED reloadVars
    BY <2>4, PageOK DEF AnyStep
  <2>5. CASE Checker!RecordFails /\ UNCHANGED reloadVars
    <3>1. TableStep
      BY <2>5, TablesStay DEF Checker!RecordFails, Checker!storeVars, storeVars
    <3> QED BY <2>5, <3>1 DEF Checker!RecordFails, SInv, AnyStep
  <2>6. CASE ServerDies
    <3>1. AnyStep
      BY <2>6 DEF AnyStep, ServerDies
    <3> QED BY <2>6, <3>1 DEF ServerDies, SInv, pageVars
  <2>7. CASE UpstreamChanges
    <3>1. PICK u \in Url : Checker!UpstreamChanges(u)
      BY <2>7 DEF UpstreamChanges
    <3>2. TableStep
      BY <2>7, <3>1, TablesStay DEF UpstreamChanges, Checker!UpstreamChanges, Checker!storeVars, storeVars
    <3> QED BY <3>1, <3>2 DEF Checker!UpstreamChanges, Checker!checkVars, SInv, AnyStep
  <2> QED BY <2>1, <2>2, <2>3, <2>4, <2>5, <2>6, <2>7 DEF SystemNext, Administer, StoreFails
<1> QED BY <1>1, AnyStepOK DEF SInv

\* The server's invariant.
LEMMA SystemKeeps == SInv /\ [SystemNext]_systemVars => SInv'
<1> SUFFICES ASSUME SInv, [SystemNext]_systemVars PROVE SInv'
  OBVIOUS
<1>1. CASE UNCHANGED systemVars
  <2>1. UNCHANGED vars /\ UNCHANGED storeVars /\ UNCHANGED <<up, checking, left, probed, draft>>
    BY <1>1 DEF systemVars, checkVars, pageVars, vars
  <2>2. IInv'
    BY <2>1, AnyStepOK DEF SInv
  <2> QED BY <2>1, <2>2 DEF SInv, CheckerOK
<1> QED BY <1>1, SystemStep

LEMMA SystemStarts == SystemInit => SInv
<1> SUFFICES ASSUME SystemInit PROVE SInv
  OBVIOUS
<1>1. IInv
  BY Initially DEF SystemInit
<1>2. CheckerOK
  BY DEF SystemInit, Checker!Init, CheckerOK
<1> QED BY <1>1, <1>2 DEF SInv

\* The tables, the load, the router, the round of checks and the admin page
\* stay well typed in the server, where all of them share the tables.
THEOREM SystemTypes == SystemSpec => []SystemTypeOK
<1>1. SInv => SystemTypeOK
  BY CheckerTypes DEF SInv, IInv, TypeOK, SystemTypeOK
<1> QED BY <1>1, SystemStarts, SystemKeeps, PTL DEF SystemSpec

\* In the server too no route or target names a missing group, and every
\* active route can send its requests somewhere.
THEOREM SystemRoutesUsable == SystemSpec => [](ForeignKeysHold /\ ActiveUsable)
<1>1. SInv => ForeignKeysHold /\ ActiveUsable
  BY DEF SInv, IInv
<1> QED BY <1>1, SystemStarts, SystemKeeps, PTL DEF SystemSpec

\* The checks of the running server change nothing an admin owns: they add and
\* remove no target, move none, leave its URL and enable none, however old the
\* listing they work from.
THEOREM SystemEditsSurvive == SystemSpec => Checker!ChecksKeepAdminEdits
<1> DEFINE Kept == Checker!CheckStep =>
                     \A t \in TargetId :
                        \/ targets[t] = NoRow /\ targets'[t] = NoRow
                        \/ /\ targets[t] # NoRow /\ targets'[t] # NoRow
                           /\ targets'[t].group = targets[t].group
                           /\ targets'[t].url = targets[t].url
                           /\ targets'[t].enabled => targets[t].enabled
<1>1. SInv => Kept
  <2> SUFFICES ASSUME SInv, Checker!CheckStep PROVE Kept
    OBVIOUS
  <2>1. targets \in [TargetId -> TargetRow \cup {NoRow}]
    BY DEF SInv, IInv, TypeOK, StoreTypeOK
  <2>2. CASE targets' = targets
    BY <2>2
  <2>3. CASE Checker!RecordCheck
    <3> DEFINE p == probed.id
    <3>1. p \in TargetId /\ probed.status \in Health /\ targets[p] # NoRow
      BY <2>3, SameTypes, SameStatements
      DEF Checker!RecordCheck, RecordUpstreamTargetHealthCheck, SInv, CheckerOK
    <3>2. PICK failed \in BOOLEAN : failed = (probed.status = "unhealthy")
      OBVIOUS
    <3>3. targets' = [targets EXCEPT ![p] =
                        Checked(targets[p], probed.status, failed, AutoDisableThreshold)]
      BY <2>3, <3>2, SameStatements, ZenonT(40)
      DEF Checker!RecordCheck, RecordUpstreamTargetHealthCheck
    <3> HIDE DEF p
    <3> DEFINE row == Checked(targets[p], probed.status, failed, AutoDisableThreshold)
    <3>4. /\ targets[p] \in TargetRow /\ row \in TargetRow /\ row.group = targets[p].group
          /\ row.url = targets[p].url /\ (row.enabled => targets[p].enabled)
      <4>1. targets[p] \in TargetRow
        BY <2>1, <3>1
      <4> QED BY <3>1, <4>1, CheckedType, ThresholdAssumption
    <3> HIDE DEF row
    <3>5. row # NoRow
      BY <3>4, StoreAssumption
    <3> QED BY <2>1, <3>1, <3>3, <3>4, <3>5 DEF row
  <2>4. targets' = targets \/ Checker!RecordCheck
    BY DEF Checker!CheckStep, Checker!ListAllUpstreamTargets, Checker!ProbeTarget,
           Checker!SkipRecord, Checker!EndRound, Checker!storeVars
  <2> QED BY <2>2, <2>3, <2>4
<1> QED BY <1>1, SystemStarts, SystemKeeps, PTL DEF SystemSpec, Checker!ChecksKeepAdminEdits

-----------------------------------------------------------------------------
(* The server keeps the promise of a reload *)

\* The server with the history of HotReloadHistory: the tables at every moment
\* of the load in progress.
SystemSpecH ==
    /\ SystemInit /\ moments = {}
    /\ [][SystemNext /\ Remember]_<<systemVars, moments>>

LEMMA SystemHistory == SystemSpecH => History
<1>1. SystemInit /\ moments = {} => InitH /\ SInv
  BY SystemStarts DEF SystemInit, InitH
<1>2. SInv /\ [SystemNext /\ Remember]_<<systemVars, moments>>
        => SInv' /\ [AnyStep /\ Remember]_historyVars
  <2> SUFFICES ASSUME SInv, [SystemNext /\ Remember]_<<systemVars, moments>>
               PROVE  SInv' /\ [AnyStep /\ Remember]_historyVars
    OBVIOUS
  <2>1. CASE SystemNext /\ Remember
    BY <2>1, SystemStep
  <2>2. CASE UNCHANGED <<systemVars, moments>>
    BY <2>2, SystemKeeps DEF systemVars, historyVars
  <2> QED BY <2>1, <2>2
<1> QED BY <1>1, <1>2, PTL DEF SystemSpecH, History

\* The promise of a reload holds in the server, where the checker's results
\* and the page's documents land between any two statements of a load.
THEOREM SystemKeepsPromise == SystemSpecH => KeepsPromise
BY SystemHistory, HistoryKeepsPromise, PTL

\* So does what follows from it: a reload sends requests only to targets that
\* were fit at some moment of it, ...
THEOREM SystemTargetsFit == SystemSpecH => ServedTargetsWereFit
BY SystemHistory, HistoryTargetsFit, PTL

\* ... and a route and target that were good during a whole reload are served
\* after it.
THEOREM SystemGoodRoutesKept == SystemSpecH => GoodRoutesServed
BY SystemHistory, HistoryGoodServed, PTL
=============================================================================

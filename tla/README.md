# Light API gateway: formal models

TLA+ modules for the gateway in `src/`: a small Go API gateway whose routes live in SQLite and are
edited over an admin API while the gateway runs. TLC checks the models on small instances; TLAPS
proves most of the safety properties for every instance (section 5 names the exceptions).

## 1. The system

Binaries: `cmd/server` (gateway, admin API, page and health checker in one process), `cmd/gateway`
(data plane, reload loop, checker), `cmd/admin` (admin API), `cmd/mock-api` (demo upstream). The
split processes share nothing but the SQLite file.

| Component | State | Operations |
|---|---|---|
| Configuration store (`internal/store`) | tables `routes`, `upstream_groups`, `upstream_targets` | one SQL statement at a time; one connection per process; no transactions anywhere |
| Hot reload (`reloadSQLiteConfig`, `Store.LoadConfig`, `Gateway.Reload`) | the load in progress; the router | list routes; per proxy route read group row, then targets; build and swap the router |
| Router construction (`router.New`, `loadbalance.NewPicker`) | active routes with their pickers | skip what cannot be activated, sort by priority |
| Load balancing (`internal/loadbalance`) | counter, credits, random source | `Next` per request |
| Health checker (`internal/health`) | a round: targets listed, not yet probed | list, probe (HEAD, GET after 405), record by id |
| Request handling (`internal/gateway`, `internal/rewrite`) | request number; a snapshot per request | match, pick, rewrite in place, proxy (the Director writes headers of its own) or redirect, map the response, log |
| Admin API (`internal/adminapi`, `internal/auth`) | accounts, tokens, audit entries; a secret per process unless one is configured | login, the account form, CRUD on configuration, audit and request logs |
| Page (`web-admin`) | drafts loaded from the API | whole documents sent back |
| Start-up | seed file | migrate, seed when there are no routes, bootstrap admin, first load, serve |

How they meet. Admin requests and the checker write the tables; the reload loop reads them every
few seconds into a new router; requests use the router they started with. Nothing notifies
anybody: everything is read again on a timer. What is hard is therefore

- *interleaving*: a load is 1 + 2n statements with edits between any two; a check round is a list
  and, seconds later per target, a probe and an UPDATE by id; a page holds a document for minutes
  and sends all of it back; a rename reads the account and later writes it whole;
- *failure*: a statement that fails past `busy_timeout`, a group gone since its route was listed,
  a process that dies between two statements of `CreateUpstreamGroup` or `SeedConfig`, a write
  that is committed before its audit entry;
- *sharing*: JSON objects and arrays that responses and the configuration hold in common;
- *liveness*: edits, failures and recoveries must reach the router, through two timers;
- *arithmetic*: a counter that wraps, credits that must sum to zero, a threshold.

What makes each part correct:

- store: references hold whatever is deleted in whatever order;
- reload: the router has exactly the listed routes that can be activated, each as the store had it
  during the load; a failed load changes nothing; edits take effect eventually;
- checker: never overwrites an admin's edit; counts consecutive failures; what stays down is
  disabled, what stays up recovers;
- pickers: even or weighted shares between two reloads (a reload starts them over: section 4);
- start-up: nothing half-seeded is visible, nothing is seeded twice by one program at a time, a
  start can be repeated, unless a seed that died has left an id of the file behind;
- requests: one configuration each, rewritten whole or not forwarded, one log row each if there is
  a log store;
- response mapping: a client gets what the rules say of its own upstream's response;
- admin API: one account per name, a saved form is how to log in, every audit entry is of one
  write, and a write without an entry is one of the exceptions listed in section 3;
- all together: an upstream that is probed and stays down leaves every route, and one that stays
  up is served.

`PROJECT.json` lists every hazard at its line with the properties that cover it.

## 2. Modules

| Module | Models | Main source |
|---|---|---|
| `ConfigStore` | the tables, one action per SQL statement | `store/routes.go`, `store/upstream.go`, `store/schema.go` |
| `RuntimeConfig` | from rows to active routes (operators only) | `store/config.go`, `router.New`, `NewPicker` |
| `HotReload` | process, loader, router; crash, store error | `cmd/server/main.go`, `gateway.go` |
| `HotReloadHistory` | `HotReload` with the tables at every moment of a load | properties only |
| `ReloadPromise` | abstract: what a reload promises | refined by `HotReload` (`KeepsPromise`) |
| `HealthCheck` | checker, upstreams, the page's stale draft | `health/checker.go`, `App.tsx` |
| `HealthHistory` | `HealthCheck` with what the probes really found | properties only |
| `GatewaySystem` | `HotReload` (extended) and `HealthCheck` (instantiated as `Checker`) on one store | `cmd/server/main.go` |
| `LoadBalance` | the pickers and their replacement | `loadbalance.go` |
| `Bootstrap` | start-up of the three programs on one file: added column, seed, bootstrap admin, first load | `store/schema.go`, `store/config.go`, `store/admin.go`, `cmd/*/main.go` |
| `AdminApi` | login, tokens, the account form, configuration handlers, audit log | `adminapi/server.go`, `store/admin.go`, `store/audit_logs.go`, `auth/*.go` |
| `RequestMatching` | the router's order, patterns, `Match` (operators only) | `router.go` |
| `JsonTree` | JSON documents as trees, and `Set` on them (operators only; used by the next two) | `jsonpath.go` |
| `GatewayRequest` | `ServeHTTP` over reloads and restarts, rewriting, the Director, request log | `gateway.go`, `rewrite.go`, `store/request_logs.go` |
| `ResponseMapping` | response mapping over a heap of shared maps and arrays | `mapping.go`, `jsonpath.go`, `applyResponseMapping` |
| `*_proofs` | theorems about `ConfigStore`, `HotReload` (with `ReloadPromise` and `GatewaySystem`), `HealthCheck`, `LoadBalance`, `Bootstrap`, `GatewayRequest` (with `RequestMatching`), `AdminApi`, `ResponseMapping` | |
| `MC*` | finite instances: initial tables, documents, bounds | |

Correspondence. A row is a record or `NoRow`. A store method with several statements is several
actions: `CreateUpstreamGroup` inserts the group and sets `posting`, `InsertGroupTarget` inserts
one target, `AbandonPost` is any failure in between. Foreign keys are the guard `MayReference` and
the operators `DetachRoutes` (ON DELETE SET NULL) and `DropTargets` (ON DELETE CASCADE). `todo`,
`found`, `loaded` are the loop of `ListEnabledRuntimeRoutes`: rows not reached, the group row just
read, routes read. `active` is the router: an entry per route with the set of destinations its
picker holds. The store is re-read in full by each load, so `active` depends on nothing but the
load that made it.

`GatewaySystem` says which actions of the two modules share a step: `Check` and `StoreFails` are
steps of the checker, `LoadConfiguration` of the loader, `StartServer` and `ServerDies` of the
process, which takes checker and loader down together; `Administer` is any admin request or the
page. Its tables are the one set of variables both modules use.

`LoadBalance`: `next` is the round-robin counter, a number below `Wrap` (2^64 in the code),
`current` the credits of the weighted picker; `served` and `last` are history. A pool is the
targets `NewPicker` has kept, `1..N`.

`Bootstrap`: `at[p]` is the statement program `p` runs next, `pos[p]` the entry of the seed file
it is at, `made[p]` the group it has created for it. A row carries its entry and a copy number: an
id that the file gives is always copy 0, a generated id is one not in use. The file may give the
ids of a route and its group (`fixed`) and of single targets (`named`): each such INSERT can meet
a row of that id. `column` says whether
`upstream_targets` has the column a file of an earlier version lacks; `ensureColumn` looks for it
in one statement and adds it in another, and a program that loses that race exits.

`AdminApi`: `req[c]` is the statement client `c`'s request is at with what its handler has read;
any other request, in this or another process, runs between two statements. A token is an account
and the secret it was signed with, which a process without a configured one makes up at each
start. `users` pairs a name with a hash, and of a hash only `VerifyPassword` says anything.
Configuration rows are ids here; `GroupOf` tells which rows a DELETE takes along. `changes`,
`broken` and `told` are history: the committed writes in order, those whose request met a fault or
a taken id afterwards, and the names and passwords an account may have by what its owner was
answered: one after a form that was saved, more after one that failed past its UPDATE, which is
answered with an error and has changed the account all the same, or after forms that overlap.

`GatewayRequest`: `req[q]` holds what the goroutine of a request holds: the snapshot (`cfg`,
`router`), the matched route, the request as rewritten so far (`now`), the answer. `logged` is the
table; a row also records the process's life, which only `NumbersUnique` reads. Headers and query
parameters are functions from names to values. A body is blank, a document, or one that cannot be
decoded; a `setJsonBody` rule decodes what it finds, grafts its value at its path (`JsonTree`) and
writes `Content-Type` where there is none. A rule without a name or of an unknown type, a path
that is refused and a body that cannot be decoded fail the request (`Unusable`). What an upstream
gets is `Sent`: the request as rewritten, after the Director has put its host and the two headers
`X-Forwarded-Host` and `X-Gateway-Route` in. `hop` are the headers `ReverseProxy` itself takes out
or writes. `logStore` is one of three: a store, none, or the nil `*store.Store` that `cmd/gateway`
passes without `-db`, which panics when a request is logged.

`ResponseMapping`: `heap` maps each JSON object to its members and each array's storage to its
cells. Either is named by its owner (a request, or `Config` for the value of a rule), the step
that made it and its place. An array is a Go slice, `<<Slice, cells, length>>`: there may be more
cells than the length, and `Opened` is the `append` loop of `setAt`, which fills that room in
place, whoever else uses it, and copies when there is none. `Descent` is `setAt` on its way in,
`Ascent` on its way back, where it assigns every container on the path. A rule is one step;
`Collide` is the Go runtime ending the process when two requests use one map (or cell) and one of
them writes. `Mapped` is what the rules mean on trees, where nothing is shared.

A URL of blanks is a URL to a picker and none to the checker, which trims it: `BlankUrl` in
`HealthCheck` and `GatewaySystem`.

Abstracted: names, match and rewrite rules, weights and time stamps in the tables; a redirect's
JSON is the set of URLs a picker made from it would hold (empty: it cannot be activated);
strategies are reduced to supported and unsupported outside `LoadBalance`; routes of equal
priority may be loaded in any order (the code orders them by `created_at`; `RequestMatching` takes
the list as it is). Paths are short sequences of characters, and a JSON path is a sequence of keys
and indexes. The limit on the size of a body is one of the reasons why it cannot be decoded. A
host is a name with a port or without. Unbounded failure counts stay unbounded in the modules; the instances bound what
feeds them.

Definitions marked "Faulty variant" are plausible bugs next to the definition they would replace;
no specification uses them. Each shows that a property can fail.

## 3. Runs

| Run | Instance | Shows |
|---|---|---|
| `reload` | 2 routes, 2 groups, 2 targets; 2 edits, 1 fault; 118 016 states | see below |
| `reload_torn` | the same | `ServedPairsExisted` does not hold |
| `health` | 2 targets, 2 URLs and a blank one, threshold 3; 4 disturbances; 272 623 states | see below |
| `health_stale_probe` | the same | `DisabledUrlFailed` does not hold |
| `system` | 1 route, 2 targets, 2 URLs and a blank one, threshold 2; 3 events; 408 724 states | liveness across both loops |
| `balance` | 3 targets, weights 1..4, a counter of 8 numbers, 18 picks per picker; 221 952 states | shares, and who is served |
| `bootstrap` | 3 programs, 3 seed files, new or earlier file, 1 crash, 2 deletions; 323 551 states | see below |
| `requests` | 2 requests, 4 configurations, 4 kinds of client, 3 kinds of log store, 1 reload, 1 restart; 348 505 states | see below |
| `mapping` | 2 requests, 18 mappings, 6 responses; 7 628 states | see below |
| `mapping_shared` | the same | `MapsOwnResponse` does not hold |
| `admin` | 2 clients, 2 accounts, a group and its target; 3 requests, 1 fault; 1 709 591 states | see below |
| `admin_rename` | the same | `RenameKeepsPassword` does not hold |

`reload`. `ForeignKeysHold`; `ActiveUsable`: no active route without destination, so the 502 for
an empty picker is unreachable; `KeepsPromise`: the loader implements `ReloadPromise`;
`ServedTargetsWereFit`: only targets that were enabled, not unhealthy and at that URL during the
load; `GoodRoutesServed`: other routes, bad ones included, never keep a good one out;
`EventuallyCurrent`: once edits stop, the router becomes exactly what the tables say.

`health`. `ChecksKeepAdminEdits`: recording by id touches nothing an admin owns and never enables;
`DisabledAfterThreshold`: a disabled target failed as many consecutive probes as the threshold,
unless a client wrote its count or one of its results was lost; `DownTargetsDisabled`,
`UpTargetsRecover`: stale documents and lost results delay, never prevent. The last two speak of
targets with a URL to probe: one of blanks never is.

`system`. `DownTargetLeavesRotation` and `UpTargetServed` combine both loops, for such targets too.
An automatically disabled target is not probed again (`UpTargetServed` speaks of enabled ones): re-enabling is the
admin's.

`balance`. `RoundRobinEven` bounds the difference by one plus the number of counter wraps: with 64
bits the wrap is out of reach, with 8 numbers it is exercised, and 8 is no multiple of 3.
`WeightedShare`: no target gets a whole pick more than its share, none falls further behind than
half a pick per other target, and each has exactly its share after a cycle. In a pool of three
that is less than a whole pick either way; in a larger one it is not: with the weights 1, 4, 35,
35 a target does fall a whole pick behind. `EveryTargetServed`: a reload starts the pickers over
however few requests came since the last one, and so takes their turn from the targets at the end
of a cycle. The property says that this is all it does: if there is again and again a picker that
lives for a cycle, no target is left out for ever. The condition is needed, and is one on the
traffic: with one request between any two reloads the first target gets them all.

`bootstrap`. `SeededRoutesWhole`: a seeded route appears after its group and all of its targets,
so a gateway that loads during a seed, or after it died, serves no half of a route.
`SeededTwiceOnlyByRace`: an entry is in the table twice only if two programs were seeding at once
(which does happen with generated ids). `AdminReady`, `SeedCompletes`. `RepeatedStartServes`:
whoever lost a race for a fixed id, for the admin's name or for the added column exits, and the
next start works. The exception is `Stranded`: there is a group without its route (a crash between
the two, or an admin who deleted the routes and not the group), and the file gives an id to the
group or to one of the targets in it. Every later start fails on that primary key: on the group's
at once, on the target's after it has made one more group of the same entry (`MaxGroups`).

`admin`. `UsernamesUnique`: that a name is free is asked in one statement and used in another; the
UNIQUE constraint settles the race. `AnswerHolds`: an account is as a form that was answered as
saved asked, or as one that wrote while that form was in progress, or as one that wrote and then
failed; a form that is refused, or fails before its UPDATE, changes nothing. The third case is
real: the UPDATE is committed, the account cannot be read again, and the client is answered 500
with its name and password changed (admin.go:112-124).
`ChangesAudited`: every write has one entry, every entry its write. The exceptions are spelled
out: a write in progress, one whose request met a fault, a taken id or a restart, and one whose
row was deleted before the handler read it back for its answer, which returns 404 and records
nothing.

`requests`. `RoutedToBest` compares order and patterns with what a reader of the configuration
expects, hosts compared with their port as the code does; `OneConfiguration`: route, rules and
target come from one load however many happen meanwhile. `ForwardedWhole`: a rule that fails
half-way keeps the request from the upstream; of each header and query parameter the upstream gets
what the last rule for it gave, and else what the client sent, except that `Content-Type` is
filled in by a rule on the body (`TypeKept`), that `X-Forwarded-Host` and `X-Gateway-Route` are the
gateway's whatever client and rules put there, and that nothing is said of `hop`. `BodyWhole`: a
value that a rule put into the body and no later rule touches is there, what the client sent and
no rule touches is there, and there is nothing else but the nulls that fill an array up; paths
nest, overlap and turn objects into arrays (`Touches`). `OneRowPerAnswer`: with a store an answer
has one row, except for an aborted response (the panic of `ReverseProxy` passes `logRequest` by)
and a failed insert, and without one there are no rows; `NumbersUnique`: within one life of the
process. The path in a row is the rewritten one.

`mapping`. `MapsAsWritten` and `RequestsShareNothing` hold for mappings that satisfy `AliasFree`:
no rule writes into an object an earlier rule placed, if that object is a rule's value or is read
by another rule too. Copying an object from the response and adding to the copy is covered.

### Bounds

One edit racing with a load at every position is what the reload properties are about; two edits
give the sequences that matter (delete a group and recreate it, detach and delete, disable and
edit), one fault the failed load or crash between them, and the gateway's own steps are unbounded,
so any number of loads follows. Two routes make one route the other's bystander. In `health`, four
disturbances allow open, save, upstream change and restart in one behaviour, against a threshold
of three. In `LoadBalance` 12 = 3 x 4 is the longest weight cycle, and 18 picks go beyond it and
twice around the counter. In `bootstrap` three programs give every pair of kinds, the crash falls
between any two statements, and two deletions can empty the table again; with a target id in the
file each failing start leaves one more group, so `MaxGroups` bounds how many there are when a
start begins. Two requests are enough where interference is pairwise; their four configurations
have rules that overlap on a header, on paths of the body and on what the gateway writes itself,
and rules that fail after others, and JSON paths are two steps long (`MaxDepth`, `MaxIndex`). The 18 mappings place, extend, replace and re-read objects and
arrays and fail at each kind of path; the array of three has room for a fourth member and none for
a fifth. In `admin`, two clients give every pair of overlapping requests, of which a rename and a
password change are one, and the third request or the fault falls between any two of their
statements. Clients are symmetric there and requests in `requests`, which check no liveness; no
other run uses symmetry.

### Fairness

Weak fairness on the loader's steps and on the checker's steps, each taken as one action: each is
a goroutine that loops on a `time.Ticker`, and its statements return or fail. Nothing is assumed
of admins, upstreams, errors or crashes; `EventuallyCurrent` and the system properties are
conditional on a process that stays up, since nothing in the repository restarts it. In
`LoadBalance` requests keep coming and the ticker keeps firing, in any proportion. In `Bootstrap` weak fairness on a
program's own steps includes that one that exited is started again, by an operator: the properties
say that this is enough. `GatewayRequest`, `ResponseMapping` and `AdminApi` have no liveness: an
upstream, or a client, may hang.

## 4. Findings

- *Torn reload* (`reload_torn`): r1 is listed as a proxy to g1; an admin changes r1 to a redirect
  and then adds t2 to g1; the load reads g1's targets and the router proxies r1 to t2. The next
  load repairs it. API_GATEWAY_DEVELOPMENT_PLAN.md:924 asks that requests see no half-made update.
- *Stale probe* (`health_stale_probe`): a failed probe of the old URL is recorded on the URL an
  admin has just saved, together with the old count the page carried over, and disables it.
- *Shared rule values* (`mapping_shared`): the mapping `{"name": x}` to `$`, then `$.user.name` to
  `$.name`. The first rule makes the configuration's own map the document, the second writes into
  it: a later response without a `user.name` is answered with the earlier one's. Two requests at a
  time write one map, which the Go runtime may punish by ending the process. The next reload heals
  it.
- *Rename puts the old password back* (`admin_rename`, adminapi/server.go:215): a form without a
  new password passes the hash it has read, and hashing takes long enough for another session to
  change the password in between. Both forms are answered as saved; the comment at
  store/admin.go:101 says that passing the existing hash leaves the password unchanged.

What else the models contain, where a property that holds has to make an exception:

- pickers start over with each reload, so with fewer requests per two seconds than a cycle has, the
  targets at its end get none (`EveryTargetServed`; plan:675 has requests distributed by turn or by
  weight);
- a stranded group blocks every later start (`RepeatedStartServes`);
- a form answered with an error may have changed the account (`AnswerHolds`);
- a write has no audit entry when its row is deleted before it is read back for the answer, when a
  target of a group is refused, or when the request meets a fault (`ChangesAudited`; plan:923 asks
  for auditing);
- a target with a URL of blanks is served and never probed (`DownTargetLeavesRotation`;
  README.md:120 has enabled targets probed);
- `cmd/gateway` without `-db` hands over a nil `*store.Store` that passes the check in `logRequest`:
  with `logRequests` on, as in configs/config.example.json, each answered request ends in a panic
  and its connection is dropped (`LogPanics`; the command is README.md:75's);
- a request whose upstream cannot be reached is logged without an error text (`Forward`; plan:800
  asks for it);
- a route for the host `localhost` does not take a request to `localhost:8080` (`Matches`; the
  example at plan:124-143 expects it to);
- a group that was half created is served with the targets it has (no property asks for more).

Here `plan` is API_GATEWAY_DEVELOPMENT_PLAN.md.

## 5. Proofs

Each proof module has one lemma per action for an inductive invariant, and the theorems follow
from it. Nothing is assumed but the `ASSUME`s of the modules: constants are distinct, documents
and configurations well typed, bounds natural numbers, `Request` finite.

`ConfigStore_proofs`: every statement keeps the types and the references of the tables
(`AdminKeepsStore`, and `CheckStatement` for the checker's UPDATE). The modules above the store
cite these instead of looking at statements again.

`HotReload_proofs` has three parts.

- *The gateway*: `TypeOK`, `ForeignKeysHold`, `ActiveUsable`. The last is not inductive: that no
  route is active twice depends on what the load has collected. `LoadOK` adds that the group row
  in hand belongs to a row still to be loaded, a row is loaded at most once and then is not in
  `todo`, nothing is kept between loads, only a live process loads.
- *The promise*: the refinement `KeepsPromise`, `ServedTargetsWereFit`, `GoodRoutesServed`. What
  a load has read is explained by moments of that load: the history has one first moment and the
  present one (`MomentsKept`), a target never changes its group while it exists (`GroupsKept`),
  and what is read or still to be read are the rows listed at the first moment, with a group and
  targets of some moments (`ReadSoFar`). A reload step maps to the abstract reload with these
  moments as witnesses, every other step to a change of the tables, a failed reload or a stutter.
- *The server*: all of the above again for `SystemSpec`, with `SystemTypeOK` and the checker's
  `ChecksKeepAdminEdits` (the three about the promise for `SystemSpecH`, the server with the same
  history variable). To share the argument, the first two parts are about `AnyStep`: a step of the
  process or loader, or any change of the tables that keeps types and references and moves no
  target to another group (`TableStep`). What an admin, the page and the checker do are such
  changes, even where the server can do more than the gateway alone: the page writes back
  documents that no configured input has, and a result is recorded long after its listing.
  `SystemStep` shows that every step of the server is an `AnyStep`.

`HealthCheck_proofs`: the types, `ChecksKeepAdminEdits`, and `DisabledAfterThreshold`: the count
in the table, written by id from what was read a round earlier, is for every target that nobody
else has touched what the round has listed, and no more than the probes that failed in a row, the
one in hand included (`Counted`); and a round has every target once (`Once`).

`LoadBalance_proofs`: `TypeOK`, `RoundRobinEven`, `WeightedShare`, for any pool, weights, counter
width and number of picks; this is where a bounded run says least. Neither share is inductive.
`RoundRobinInv` says which targets of the cycle have had their pick (`Ahead`), which is what makes
a wrap cost one pick and no more. `WeightedInv`: the credits sum to zero and
`current[i] = Picks * weight[i] - served[i] * Total`, and none is overdrawn by a whole pick. The
richest target of a raised pool has a positive credit, since the sum is `Total`; so the pick stays
above `-Total`, and what the others together can be overdrawn bounds how much one can be owed.
Lemmas about sums (`SumAdd`, `SumChange`, `SumAtLeast`) and quotients carry the arithmetic.

`Bootstrap_proofs`: `TypeOK`, `SeededRoutesWhole`, `SeededTwiceOnlyByRace`, `AdminReady`, for any
number of programs and any seed files. A program that fills a group is the only one to have it in
hand, and no route has it yet (`InHand`); without a race one program seeds, and it is past every
entry in the table (`OneSeeds`); generated ids are new because a finite set cannot hold one number
more than it has members (`NewCopyType`).

`GatewayRequest_proofs`, two invariants:

- `QInv` for `TypeOK`, `OneRowPerAnswer`, `NumbersUnique`: a number in hand is of this life and no
  other request or row of this life has it (`NumberInHand`), rows of this life are numbered and of
  no life to come (`RowsPast`), numbers taken are no more than the requests that took one
  (`Counted`).
- `HInv` for `RoutedToBest`, `OneConfiguration`, `ForwardedWhole`. `RouterIs`: the order the
  router is specified by exists (`Sortable`, inserting one route after the other), so the chosen
  one has its properties; `MatchIsBest`: the first route in it that matches is the one a reader of
  the configuration expects (`CoversIsMatch` for the patterns). `AppliedWhole`: after n rules
  without a failure each header and parameter is what the last rule for it says, by induction over
  n, with the content type that a rule on the body fills in (`TypeStep`); `DirectedWhole`: what the
  Director then writes. `Handled` says of each state of a request what of this holds already.

`AdminApi_proofs`: `TypeOK`, `UsernamesUnique`, `AnswerHolds`; and `ChangesAudited`, by `Trail` (a
request knows the change it has committed, which has no entry yet, and the rows it still has to
read back are there or were deleted since) and `Apart` (no two requests know one change).

`ResponseMapping_proofs`: `MappingTypes`, `MappingMeans`, `MappingShares`, for any rules, responses,
depth of documents and number of requests. A run can only try a list of mappings; what is shared
by which rule after which growth of a slice is a question about all of them. The parts:

- *Get and Set on a heap.* Documents are views of one heap, so a write can show anywhere.
  `Unshared` says that each container on the way to a path is at no other place of the document,
  `Apart` that the value set does not lead back to one. With these, `SetGet` says of every path
  what it shows after `SetAt`: at and below the path the value, on the way to it the opened
  containers, beside it what was there or the padding. In trees that is a graft (`DocumentSet`).
  The padding is where slices come in: `append` fills up with nulls, in the room a slice already
  has as in new cells (`OpenedIs`).
- *Types.* `TypeInv` keeps every reference of the heap, the rules' values and the roots of the
  requests valid, for any rules, those that share included: a write may change what a reference
  shows, and never leaves it dangling or a slice longer than its cells.
- *Origins.* Why `Unshared` and `Apart` hold is the point of the code. `Good` tells where each
  container of a request's document comes from, by its path alone: `setAt` or the request made it
  for that path, or the last rule that set something at the path or above copied it, and then it
  is at the matching path of the response or of the rule's value (`Origin`). One container can be
  at two places (two rules copy one object), but `AliasFree` keeps rules from writing into it: a
  container on the way of a rule was made for its place, or copied from a part of the response
  that no other rule reads (`OursOnWay`), and such a one is at one place (`OursOnce`). So a rule
  changes only what is the request's own, and the response still is what it was wherever a later
  rule looks. None is at a place and below it (`OriginOnce`), so `json.Marshal` meets no cycle
  (`GoingEncodable`).
- *Meaning.* The document so far is `Outcome` of the rules so far, since each rule grafts what it
  takes (`TakenIs`, `ApplyMeaning`); a request writes only into its own part of the heap and reads
  only that and the configuration's (`WritesOwn`, `ReadsOwn`), which nobody writes: no `Collide`.

`MapsAsWritten` speaks of what was sent and is nowhere near inductive; `IInv` is `TypeInv` and
`Meant`, which has all of the above for each request in progress. Both properties are about
mappings with `AliasFree`: `mapping_shared` shows one without it that fails. `MappingTypes` is about
any mapping.

Induction. The induction theorems of the library take an operator as a parameter, which the
provers cannot instantiate. Where a proof goes over the targets of a pool, the routes of a list,
the rules of a route or the members of a path, it uses `CountUp` (`LoadBalance_proofs`,
`ResponseMapping_proofs`), `WalkInduction` and `NatLeast` (`GatewayRequest_proofs`) instead, which
speak of sets and follow from `<` being well-founded on the natural numbers; recursive functions
are unfolded with the existence of their graphs (`UptoIs` and `AfterIs` of the modules about pools
and rules, `WalkIs`, `WayIs`, `OutIs`, `OutcomeThere` for the walks of the heap).

Only model-checked:

- `BodyWhole`;
- liveness and what needs ENABLED, which are out of the prover's reach: `EventuallyCurrent`,
  `DownTargetsDisabled`, `UpTargetsRecover`, `DownTargetLeavesRotation`, `UpTargetServed`,
  `EveryTargetServed`, `SeedCompletes`, `RepeatedStartServes`;
- the refutations of `ServedPairsExisted`, `DisabledUrlFailed`, `MapsOwnResponse` and
  `RenameKeepsPassword`, which are traces.

## 6. Not modelled

- Reading logs back with a limit, the debug and preview endpoints, the dispatch by path prefix,
  flags and shutdown: no state, or no state another step reads.
- Time stamps and what is ordered by them (the order of routes of equal priority is left open),
  durations, client addresses.
- The syntax of JSON paths: a path that is refused is `BadPath`.
- The expiry time of a token (a client may lose it at any moment) and cryptography.
- The store connection: one per process, so statements are atomic; foreign keys are on.
- The page's rendering, the embedded UI server, the mock API.

What a further step could take: route order by time stamp in `RuntimeConfig`; the parser of JSON
paths; what of `MapsAsWritten` remains for rules that do share.

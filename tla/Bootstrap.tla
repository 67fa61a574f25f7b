------------------------------ MODULE Bootstrap ------------------------------
(***************************************************************************)
(* Start-up of cmd/server, cmd/gateway and cmd/admin on one SQLite file:   *)
(* seeding of the routes table, the bootstrap admin, the first load.  The  *)
(* processes start in any order, at the same time, and die between any two *)
(* statements; someone starts them again.                                  *)
(*                                                                         *)
(* A generated id is a copy number not in use; an id given in the seed     *)
(* file is copy 0.  Of Migrate only the column that a file of an earlier   *)
(* version lacks is modelled: CREATE IF NOT EXISTS cannot go wrong.  A     *)
(* failing statement is a crash: main exits on the error.                  *)
(***************************************************************************)
EXTENDS Integers, FiniteSets, Sequences

CONSTANTS
    Process,
    Kind,         \* of each process: server, gateway or admin
    Username,     \* the bootstrap username each process is given
    SeedFile,     \* seed files: the routes of each, in order
    NoGroup,
    MaxCrashes,   \* bound: crashes of all processes
    MaxDeletes,   \* bound: routes deleted over the admin API
    MaxGroups     \* bound: groups there are when a process starts that will seed

\* group: the route brings a group of its own with so many targets.
\* fixed: the file gives the ids of the route and the group.
\* named: the targets whose ids the file gives; no two rows share an id.
SeedRow == [group : BOOLEAN, targets : Nat, fixed : BOOLEAN, named : SUBSET Nat]

ASSUME BootstrapAssumption ==
    /\ Kind \in [Process -> {"server", "gateway", "admin"}]
    /\ DOMAIN Username = Process
    /\ SeedFile \subseteq Seq(SeedRow) \ {<<>>}
    /\ NoGroup \notin [seed : Nat, copy : Nat]
    /\ MaxCrashes \in Nat /\ MaxDeletes \in Nat /\ MaxGroups \in Nat

VARIABLES
    seed,      \* the seed file all processes are given
    column,    \* upstream_targets has consecutive_failures
    at,        \* what each process does next
    pos,       \* the seed route each seeding process is at
    made,      \* the group it has created for that route
    routes, groups, targets,
    admins,    \* usernames of admin_users
    crashes, deletes,
    raced      \* history: two processes found the table empty and both seed

tables == <<routes, groups, targets, admins>>
vars   == <<seed, column, at, pos, made, tables, crashes, deletes, raced>>

Entry == 1..Len(seed)
Group == [seed : Entry, copy : Nat]
Route == [seed : Entry, copy : Nat, group : Group \cup {NoGroup}]

TypeOK ==
    /\ seed \in SeedFile /\ column \in BOOLEAN
    /\ at \in [Process -> {"down", "open", "altering", "counting", "seeding", "filling",
                           "admins", "naming", "creating", "loading", "serving"}]
    /\ pos \in [Process -> 0..Len(seed)]
    /\ made \in [Process -> Group \cup {NoGroup}]
    /\ routes \subseteq Route
    /\ groups \subseteq Group
    /\ \A t \in targets : t.group \in groups /\ t.nth \in Nat
    /\ admins \subseteq {Username[p] : p \in Process}
    /\ crashes \in 0..MaxCrashes /\ deletes \in 0..MaxDeletes
    /\ raced \in BOOLEAN

Init ==
    /\ seed \in SeedFile /\ column \in BOOLEAN
    /\ at = [p \in Process |-> "down"]
    /\ pos = [p \in Process |-> 0]
    /\ made = [p \in Process |-> NoGroup]
    /\ routes = {} /\ groups = {} /\ targets = {} /\ admins = {}
    /\ crashes = 0 /\ deletes = 0
    /\ raced = FALSE

\* p goes on to the statement next.
GoTo(p, next) == at' = [at EXCEPT ![p] = next]

\* p exits, or dies: what it has written stays.
Exit(p) ==
    /\ GoTo(p, "down")
    /\ pos' = [pos EXCEPT ![p] = 0]
    /\ made' = [made EXCEPT ![p] = NoGroup]

\* The copies of seed entry i among rows, and a new id.
Copies(i, rows) == {x.copy : x \in {y \in rows : y.seed = i}}

NewCopy(i, rows) ==
    IF seed[i].fixed THEN 0
    ELSE CHOOSE n \in 1..(Cardinality(rows) + 1) : n \notin Copies(i, rows)

\* INSERT fails on a primary key that is in use.
Inserts(i, rows) == NewCopy(i, rows) \notin Copies(i, rows)

Seeding(p) == at[p] \in {"seeding", "filling"}

\* cmd/gateway has no accounts, cmd/admin has no routes to serve.
AfterSeed(p) == IF Kind[p] = "gateway" THEN "loading" ELSE "admins"
AfterAdmin(p) == IF Kind[p] = "admin" THEN "serving" ELSE "loading"

-----------------------------------------------------------------------------
Start(p) ==
    /\ at[p] = "down"
    /\ routes # {} \/ Cardinality(groups) < MaxGroups
    /\ GoTo(p, "open")
    /\ UNCHANGED <<column, pos, made, tables, crashes, deletes, raced>>

\* ensureColumn: PRAGMA table_info, then ALTER TABLE.
InspectColumn(p) ==
    /\ at[p] = "open"
    /\ GoTo(p, IF column THEN "counting" ELSE "altering")
    /\ UNCHANGED <<column, pos, made, tables, crashes, deletes, raced>>

AddColumn(p) ==
    /\ at[p] = "altering"
    /\ ~column /\ column' = TRUE
    /\ GoTo(p, "counting")
    /\ UNCHANGED <<pos, made, tables, crashes, deletes, raced>>

\* Another process has added it meanwhile: duplicate column, exit.
ColumnConflict(p) ==
    /\ at[p] = "altering"
    /\ column
    /\ Exit(p)
    /\ UNCHANGED <<column, tables, crashes, deletes, raced>>

\* Faulty variant: a table with fewer routes than the file is seeded.
CountRoutesPartial(p) ==
    /\ at[p] = "counting"
    /\ IF Cardinality(routes) < Len(seed)
       THEN GoTo(p, "seeding") /\ pos' = [pos EXCEPT ![p] = 1]
       ELSE GoTo(p, AfterSeed(p)) /\ UNCHANGED pos
    /\ raced' = (raced \/ (routes = {} /\ \E q \in Process : Seeding(q)))
    /\ UNCHANGED <<column, made, tables, crashes, deletes>>

\* The table is seeded when it is empty.
CountRoutes(p) ==
    /\ at[p] = "counting"
    /\ IF routes = {}
       THEN GoTo(p, "seeding") /\ pos' = [pos EXCEPT ![p] = 1]
       ELSE GoTo(p, AfterSeed(p)) /\ UNCHANGED pos
    /\ raced' = (raced \/ (routes = {} /\ \E q \in Process : Seeding(q)))
    /\ UNCHANGED <<column, made, tables, crashes, deletes>>

\* CreateUpstreamGroup, the group's row.
NewGroup(p) == [seed |-> pos[p], copy |-> NewCopy(pos[p], groups)]

\* Faulty variant: the group's id is made from the route's name.
SeedGroupNamed(p) ==
    /\ at[p] = "seeding"
    /\ seed[pos[p]].group
    /\ [seed |-> pos[p], copy |-> 0] \notin groups
    /\ groups' = groups \cup {[seed |-> pos[p], copy |-> 0]}
    /\ made' = [made EXCEPT ![p] = [seed |-> pos[p], copy |-> 0]]
    /\ GoTo(p, "filling")
    /\ UNCHANGED <<column, pos, routes, targets, admins, crashes, deletes, raced>>

SeedGroup(p) ==
    /\ at[p] = "seeding"
    /\ seed[pos[p]].group
    /\ Inserts(pos[p], groups)
    /\ groups' = groups \cup {NewGroup(p)}
    /\ made' = [made EXCEPT ![p] = NewGroup(p)]
    /\ GoTo(p, "filling")
    /\ UNCHANGED <<column, pos, routes, targets, admins, crashes, deletes, raced>>

TargetsOf(g) == {t \in targets : t.group = g}

\* The target that p inserts next.
Filled(p) == Cardinality(TargetsOf(made[p]))
NewTarget(p) == [group |-> made[p], nth |-> Filled(p) + 1]

\* INSERT INTO upstream_targets fails on an id of the file's that is in use:
\* an earlier copy of the group has the target with that id.
TargetIdTaken(p) ==
    /\ Filled(p) + 1 \in seed[pos[p]].named
    /\ \E t \in targets : t.group.seed = pos[p] /\ t.nth = Filled(p) + 1

\* CreateUpstreamGroup, one target's row.
SeedTarget(p) ==
    /\ at[p] = "filling"
    /\ Filled(p) < seed[pos[p]].targets
    /\ ~TargetIdTaken(p)
    /\ targets' = targets \cup {NewTarget(p)}
    /\ UNCHANGED <<column, at, pos, made, routes, groups, admins, crashes, deletes, raced>>

\* Faulty variant: the route does not wait for its group's targets.
ReadyEarly(p) ==
    \/ at[p] = "seeding" /\ ~seed[pos[p]].group
    \/ at[p] = "filling"

\* The route's row can be inserted: its group is complete, if it has one.
Ready(p) ==
    \/ at[p] = "seeding" /\ ~seed[pos[p]].group
    \/ at[p] = "filling" /\ Cardinality(TargetsOf(made[p])) = seed[pos[p]].targets

\* Faulty variants: the loop stops one route early; it runs past the end.
AdvanceShort(p) ==
    /\ IF pos[p] + 1 < Len(seed)
       THEN GoTo(p, "seeding") /\ pos' = [pos EXCEPT ![p] = @ + 1]
       ELSE GoTo(p, AfterSeed(p)) /\ pos' = [pos EXCEPT ![p] = 0]
    /\ made' = [made EXCEPT ![p] = NoGroup]

AdvanceLong(p) ==
    /\ GoTo(p, "seeding")
    /\ pos' = [pos EXCEPT ![p] = @ + 1]
    /\ made' = [made EXCEPT ![p] = NoGroup]

\* The loop of SeedConfig.
Advance(p) ==
    /\ IF pos[p] < Len(seed)
       THEN GoTo(p, "seeding") /\ pos' = [pos EXCEPT ![p] = @ + 1]
       ELSE GoTo(p, AfterSeed(p)) /\ pos' = [pos EXCEPT ![p] = 0]
    /\ made' = [made EXCEPT ![p] = NoGroup]

SeedRoute(p) ==
    /\ Seeding(p)
    /\ Ready(p)
    /\ Inserts(pos[p], routes)
    /\ routes' = routes \cup
         {[seed |-> pos[p], copy |-> NewCopy(pos[p], routes), group |-> made[p]]}
    /\ Advance(p)
    /\ UNCHANGED <<column, groups, targets, admins, crashes, deletes, raced>>

\* An id of the file is taken: the process exits.
SeedConflict(p) ==
    /\ \/ at[p] = "seeding" /\ seed[pos[p]].group /\ ~Inserts(pos[p], groups)
       \/ at[p] = "filling" /\ Filled(p) < seed[pos[p]].targets /\ TargetIdTaken(p)
       \/ Seeding(p) /\ Ready(p) /\ ~Inserts(pos[p], routes)
    /\ Exit(p)
    /\ UNCHANGED <<column, tables, crashes, deletes, raced>>

CountAdmins(p) ==
    /\ at[p] = "admins"
    /\ GoTo(p, IF admins = {} THEN "naming" ELSE AfterAdmin(p))
    /\ UNCHANGED <<column, pos, made, tables, crashes, deletes, raced>>

\* Faulty variant: a missing account is taken for an existing one.
FindAdminTrusting(p) ==
    /\ at[p] = "naming"
    /\ GoTo(p, AfterAdmin(p))
    /\ UNCHANGED <<column, pos, made, tables, crashes, deletes, raced>>

\* EnsureAdminUser, GetAdminUserByUsername.
FindAdmin(p) ==
    /\ at[p] = "naming"
    /\ GoTo(p, IF Username[p] \in admins THEN AfterAdmin(p) ELSE "creating")
    /\ UNCHANGED <<column, pos, made, tables, crashes, deletes, raced>>

CreateAdmin(p) ==
    /\ at[p] = "creating"
    /\ Username[p] \notin admins
    /\ admins' = admins \cup {Username[p]}
    /\ GoTo(p, AfterAdmin(p))
    /\ UNCHANGED <<column, pos, made, routes, groups, targets, crashes, deletes, raced>>

\* Another process was faster: UNIQUE(username), the process exits.
AdminConflict(p) ==
    /\ at[p] = "creating"
    /\ Username[p] \in admins
    /\ Exit(p)
    /\ UNCHANGED <<column, tables, crashes, deletes, raced>>

\* The first LoadConfig; its statements are those of module HotReload.
Load(p) ==
    /\ at[p] = "loading"
    /\ GoTo(p, "serving")
    /\ UNCHANGED <<column, pos, made, tables, crashes, deletes, raced>>

Crash(p) ==
    /\ at[p] # "down"
    /\ crashes < MaxCrashes
    /\ crashes' = crashes + 1
    /\ Exit(p)
    /\ UNCHANGED <<column, tables, deletes, raced>>

DeleteRoute(r) ==
    /\ \E p \in Process : at[p] = "serving" /\ Kind[p] # "gateway"
    /\ deletes < MaxDeletes
    /\ deletes' = deletes + 1
    /\ routes' = routes \ {r}
    /\ UNCHANGED <<column, at, pos, made, groups, targets, admins, crashes, raced>>

Run(p) ==
    \/ Start(p)
    \/ InspectColumn(p) \/ AddColumn(p) \/ ColumnConflict(p)
    \/ CountRoutes(p)
    \/ SeedGroup(p) \/ SeedTarget(p) \/ SeedRoute(p) \/ SeedConflict(p)
    \/ CountAdmins(p) \/ FindAdmin(p) \/ CreateAdmin(p) \/ AdminConflict(p)
    \/ Load(p)

Next ==
    /\ UNCHANGED seed
    /\ \/ \E p \in Process : Run(p) \/ Crash(p)
       \/ \E r \in routes : DeleteRoute(r)

\* A process that is started runs on, and one that exited is started again.
Spec == Init /\ [][Next]_vars /\ \A p \in Process : WF_vars(UNCHANGED seed /\ Run(p))

-----------------------------------------------------------------------------
(* Properties *)

\* A seeded route is never visible before its group and all of the group's
\* targets, and shares the group with no other route: a gateway that loads
\* in the middle of a seed, or after it died, serves no half of a route.
SeededRoutesWhole ==
    /\ \A r \in routes : seed[r.seed].group =>
          r.group \in groups /\ Cardinality(TargetsOf(r.group)) = seed[r.seed].targets
    /\ \A r, s \in routes : r.group = s.group /\ r.group # NoGroup => r = s

\* However processes start, die and start again, no entry of the file is in
\* the table twice unless two processes seeded at the same time.
SeededTwiceOnlyByRace ==
    ~raced => \A r, s \in routes : r.seed = s.seed => r = s

\* Whoever serves the admin API has an account to log in with.
AdminReady ==
    \A p \in Process : at[p] = "serving" /\ Kind[p] # "gateway" => admins # {}

\* Unless a process dies or someone deletes, the whole file comes to be in
\* the table, however many processes start together.
SeedCompletes ==
    <>(\/ \A i \in Entry : Copies(i, routes) # {}
       \/ crashes > 0
       \/ deletes > 0)

\* There is no route, but a group with an id of the file's, or with a target
\* that has one, and nobody is about to insert its route: the process that was
\* has died, or an admin has deleted the routes and not the group.  No start
\* can insert that id again.
Stranded ==
    /\ routes = {}
    /\ \E g \in groups :
          /\ seed[g.seed].fixed \/ \E t \in TargetsOf(g) : t.nth \in seed[g.seed].named
          /\ \A p \in Process : made[p] # g

\* A start that failed, died half-way or lost a race succeeds when it is
\* repeated, also one that found an earlier version's file: what was left
\* behind blocks no later start, except a stranded group.
RepeatedStartServes ==
    \A p \in Process : <>[](at[p] = "serving") \/ <>[]Stranded
=============================================================================

--------------------------- MODULE Bootstrap_proofs ---------------------------
(***************************************************************************)
(* Start-up for any processes, any seed file and any number of crashes: no *)
(* route is visible before it is whole, and no seed entry is there twice   *)
(* unless two processes seeded at once.                                    *)
(***************************************************************************)
EXTENDS Bootstrap, FiniteSetTheorems, TLAPS

USE BootstrapAssumption DEF BootstrapAssumption

\* The rows of seed entry i are no fewer than their copy numbers.
LEMMA CopiesFinite ==
    ASSUME NEW i, NEW rows, IsFiniteSet(rows)
    PROVE  IsFiniteSet(Copies(i, rows)) /\ Cardinality(Copies(i, rows)) <= Cardinality(rows)
<1> DEFINE S == {y \in rows : y.seed = i}
           T == {x.copy : x \in S}
           f == [x \in S |-> x.copy]
<1>1. IsFiniteSet(S) /\ Cardinality(S) <= Cardinality(rows) /\ Cardinality(S) \in Nat
      /\ Cardinality(rows) \in Nat
  BY FS_Subset, FS_CardinalityType
<1>2. f \in Surjection(S, T)
  BY DEF Surjection, Range
<1>3. IsFiniteSet(T) /\ Cardinality(T) <= Cardinality(S)
  BY <1>1, <1>2, FS_Surjection
<1>4. Cardinality(T) \in Nat
  BY <1>3, FS_CardinalityType
<1> QED BY <1>1, <1>3, <1>4 DEF Copies

\* A generated id is a number that no row of the entry has.
LEMMA NewCopyType ==
    ASSUME NEW i, NEW rows, IsFiniteSet(rows)
    PROVE  NewCopy(i, rows) \in Nat
<1> DEFINE n == Cardinality(rows)
           C == Copies(i, rows)
<1>1. n \in Nat /\ IsFiniteSet(C) /\ Cardinality(C) <= n /\ Cardinality(C) \in Nat
  BY CopiesFinite, FS_CardinalityType
<1>2. Cardinality(1..(n + 1)) = n + 1
  BY <1>1, FS_Interval
<1>3. ~(1..(n + 1) \subseteq C)
  <2>1. 1..(n + 1) \subseteq C => Cardinality(1..(n + 1)) <= Cardinality(C)
    BY <1>1, FS_Subset
  <2> QED BY <1>1, <1>2, <2>1
<1>4. PICK m \in 1..(n + 1) : m \notin C
  BY <1>3
<1>5. (CHOOSE k \in 1..(n + 1) : k \notin C) \in 1..(n + 1)
  BY <1>4
<1> QED BY <1>1, <1>5 DEF NewCopy

-----------------------------------------------------------------------------
(* Types *)

Finite == IsFiniteSet(groups) /\ IsFiniteSet(routes) /\ IsFiniteSet(targets)

\* A process is at an entry of the file exactly while it seeds, and has a
\* group in hand exactly while it fills it.
AtEntry ==
    \A p \in Process :
        /\ Seeding(p) => pos[p] \in Entry
        /\ IF at[p] = "filling"
           THEN made[p] \in groups /\ made[p].seed = pos[p] /\ seed[pos[p]].group
           ELSE made[p] = NoGroup

TInv == TypeOK /\ Finite /\ AtEntry

LEMMA EntryType ==
    ASSUME TypeOK
    PROVE  /\ Len(seed) \in Nat \ {0} /\ seed \in Seq(SeedRow)
           /\ 1 \in Entry /\ Entry \subseteq 0..Len(seed)
           /\ \A i \in Entry : seed[i] \in SeedRow
           /\ NoGroup \notin Group
<1>1. seed \in Seq(SeedRow) /\ seed # <<>>
  BY DEF TypeOK
<1>2. Len(seed) \in Nat \ {0}
  BY <1>1
<1> QED BY <1>1, <1>2 DEF Entry, Group

\* Process p moves and writes no table row but an account.
Moves(p, step, position, group) ==
    /\ at' = [at EXCEPT ![p] = step] /\ pos' = [pos EXCEPT ![p] = position]
    /\ made' = [made EXCEPT ![p] = group]

AnyStep == {"down", "open", "altering", "counting", "seeding", "filling",
            "admins", "naming", "creating", "loading", "serving"}

LEMMA MovesKeeps ==
    ASSUME TInv, NEW p \in Process, NEW step \in AnyStep, NEW position \in 0..Len(seed),
           Moves(p, step, position, NoGroup), step # "filling",
           step = "seeding" => position \in Entry,
           seed' = seed, groups \subseteq groups'
    PROVE  /\ at' \in [Process -> AnyStep] /\ pos' \in [Process -> 0..Len(seed)]
           /\ made' \in [Process -> Group \cup {NoGroup}]
           /\ AtEntry'
<1>1. \A q \in Process \ {p} : at'[q] = at[q] /\ pos'[q] = pos[q] /\ made'[q] = made[q]
  BY DEF Moves, TInv, TypeOK
<1>2. at'[p] = step /\ pos'[p] = position /\ made'[p] = NoGroup
  BY DEF Moves, TInv, TypeOK
<1>3. AtEntry'
  BY <1>1, <1>2 DEF AtEntry, TInv, Seeding, Entry
<1> QED BY <1>3 DEF Moves, TInv, TypeOK, AnyStep

\* The table is empty, and whoever seeds next is alone or there is a race.
Alone == routes = {} /\ (~raced' => \A q \in Process : ~Seeding(q))

\* The steps of p that move it and write nothing but the column or an account.
LEMMA QuietMoves ==
    ASSUME TInv, NEW p \in Process, Run(p)
    PROVE  \/ SeedGroup(p) \/ SeedTarget(p) \/ SeedRoute(p)
           \/ /\ \E step \in AnyStep \ {"filling"}, position \in 0..Len(seed) :
                    /\ Moves(p, step, position, NoGroup)
                    /\ step = "seeding" => position \in Entry /\ Alone
              /\ UNCHANGED <<routes, groups, targets, deletes>> /\ (raced => raced')
              /\ column' \in BOOLEAN /\ crashes' = crashes
              /\ admins \subseteq admins' /\ admins' \subseteq {Username[q] : q \in Process}
              /\ raced' \in BOOLEAN
<1> USE DEF AnyStep
<1>1. /\ pos[p] \in 0..Len(seed) /\ 0 \in 0..Len(seed) /\ 1 \in Entry /\ 1 \in 0..Len(seed)
      /\ at[p] # "filling" => made[p] = NoGroup
      /\ pos = [pos EXCEPT ![p] = pos[p]] /\ made = [made EXCEPT ![p] = made[p]]
      /\ column \in BOOLEAN /\ raced \in BOOLEAN /\ admins \subseteq {Username[q] : q \in Process}
  BY EntryType DEF TInv, TypeOK, AtEntry, Entry
<1>2. ASSUME NEW step \in AnyStep \ {"filling", "seeding"}, GoTo(p, step), pos' = pos, made' = made,
             at[p] # "filling"
      PROVE  Moves(p, step, pos[p], NoGroup)
  BY <1>1, <1>2 DEF Moves, GoTo
<1>3. ASSUME Exit(p) PROVE Moves(p, "down", 0, NoGroup)
  BY <1>3 DEF Moves, Exit, GoTo
<1>4. CASE Start(p) \/ FindAdmin(p) \/ Load(p)
  <2>1. PICK step \in AnyStep \ {"filling", "seeding"} : GoTo(p, step) /\ at[p] # "filling"
    BY <1>4 DEF Start, FindAdmin, Load, AfterAdmin
  <2> QED BY <1>1, <1>2, <1>4, <2>1 DEF Start, FindAdmin, Load, tables
<1>5. CASE InspectColumn(p) \/ AddColumn(p)
  <2>1. PICK step \in AnyStep \ {"filling", "seeding"} : GoTo(p, step) /\ at[p] # "filling"
    BY <1>5 DEF InspectColumn, AddColumn
  <2> QED BY <1>1, <1>2, <1>5, <2>1 DEF InspectColumn, AddColumn, tables
<1>6. CASE ColumnConflict(p) \/ SeedConflict(p) \/ AdminConflict(p)
  BY <1>1, <1>3, <1>6 DEF ColumnConflict, SeedConflict, AdminConflict, tables
<1>7. CASE CountRoutes(p)
  <2>1. raced' \in BOOLEAN /\ (raced => raced') /\ (routes = {} => Alone)
    BY <1>7 DEF CountRoutes, Alone
  <2>2. CASE routes = {}
    <3>1. Moves(p, "seeding", 1, NoGroup)
      BY <1>1, <1>7, <2>2 DEF CountRoutes, Moves, GoTo
    <3> QED BY <1>1, <1>7, <2>1, <2>2, <3>1 DEF CountRoutes, tables
  <2>3. CASE routes # {}
    <3>1. GoTo(p, AfterSeed(p)) /\ pos' = pos /\ made' = made /\ at[p] # "filling"
      BY <1>7, <2>3 DEF CountRoutes
    <3>2. AfterSeed(p) \in AnyStep \ {"filling", "seeding"}
      BY DEF AfterSeed
    <3>3. Moves(p, AfterSeed(p), pos[p], NoGroup)
      BY <1>2, <3>1, <3>2
    <3> QED BY <1>1, <1>7, <2>1, <3>2, <3>3 DEF CountRoutes, tables
  <2> QED BY <2>2, <2>3
<1>8. CASE CountAdmins(p) \/ CreateAdmin(p)
  <2>1. PICK step \in AnyStep \ {"filling", "seeding"} : GoTo(p, step) /\ at[p] # "filling"
    BY <1>8 DEF CountAdmins, CreateAdmin, AfterAdmin
  <2> QED BY <1>1, <1>2, <1>8, <2>1 DEF CountAdmins, CreateAdmin, tables
<1> QED BY <1>4, <1>5, <1>6, <1>7, <1>8 DEF Run

LEMMA GroupT == ASSUME TInv, NEW p \in Process, SeedGroup(p), seed' = seed PROVE TInv'
<1> DEFINE g == NewGroup(p)
<1>1. pos[p] \in Entry
  BY DEF SeedGroup, Seeding, TInv, AtEntry
<1>2. g \in Group /\ g.seed = pos[p]
  BY <1>1, NewCopyType DEF NewGroup, Group, TInv, Finite
<1>3. /\ groups' = groups \cup {g} /\ made' = [made EXCEPT ![p] = g]
      /\ at' = [at EXCEPT ![p] = "filling"] /\ pos' = pos /\ seed[pos[p]].group
      /\ UNCHANGED <<column, routes, targets, admins, crashes, deletes, raced>>
  BY DEF SeedGroup, GoTo
<1> HIDE DEF g
<1>4. TypeOK'
  BY <1>2, <1>3 DEF TInv, TypeOK, Group, Entry, Route
<1>5. Finite'
  BY <1>3, FS_AddElement DEF TInv, Finite
<1>6. AtEntry'
  BY <1>1, <1>2, <1>3 DEF TInv, TypeOK, AtEntry, Seeding, Entry
<1> QED BY <1>4, <1>5, <1>6 DEF TInv

LEMMA TargetT == ASSUME TInv, NEW p \in Process, SeedTarget(p), seed' = seed PROVE TInv'
<1> DEFINE x == [group |-> made[p], nth |-> Cardinality(TargetsOf(made[p])) + 1]
<1>1. /\ targets' = targets \cup {x}
      /\ UNCHANGED <<column, at, pos, made, routes, groups, admins, crashes, deletes, raced>>
  BY DEF SeedTarget, NewTarget, Filled
<1>2. made[p] \in groups /\ x.group = made[p]
  BY DEF SeedTarget, TInv, AtEntry
<1>3. x.nth \in Nat
  BY FS_Subset, FS_CardinalityType DEF TargetsOf, TInv, Finite
<1> HIDE DEF x
<1>4. TypeOK'
  BY <1>1, <1>2, <1>3 DEF TInv, TypeOK, Group, Entry, Route
<1>5. Finite'
  BY <1>1, FS_AddElement DEF TInv, Finite
<1>6. AtEntry'
  BY <1>1 DEF TInv, AtEntry, Seeding, Entry
<1> QED BY <1>4, <1>5, <1>6 DEF TInv

\* Where the seeding loop goes on to.
LEMMA AdvanceMoves ==
    ASSUME TInv, NEW p \in Process, Seeding(p), Advance(p)
    PROVE  \E step \in AnyStep \ {"filling"}, position \in 0..Len(seed) :
              /\ Moves(p, step, position, NoGroup)
              /\ step = "seeding" => pos[p] < Len(seed) /\ position = pos[p] + 1 /\ position \in Entry
<1>1. pos[p] \in 1..Len(seed) /\ Len(seed) \in Nat
  BY EntryType DEF TInv, AtEntry, Entry
<1>2. CASE pos[p] < Len(seed)
  <2>1. Moves(p, "seeding", pos[p] + 1, NoGroup)
    BY <1>2 DEF Advance, Moves, GoTo
  <2> QED BY <1>1, <1>2, <2>1 DEF AnyStep, Entry
<1>3. CASE ~(pos[p] < Len(seed))
  <2>1. Moves(p, AfterSeed(p), 0, NoGroup) /\ AfterSeed(p) \in AnyStep \ {"filling", "seeding"}
    BY <1>3 DEF Advance, Moves, GoTo, AfterSeed, AnyStep
  <2> QED BY <1>1, <2>1
<1> QED BY <1>2, <1>3

LEMMA RouteT == ASSUME TInv, NEW p \in Process, SeedRoute(p), seed' = seed PROVE TInv'
<1> DEFINE r == [seed |-> pos[p], copy |-> NewCopy(pos[p], routes), group |-> made[p]]
<1>1. /\ routes' = routes \cup {r} /\ Seeding(p) /\ Advance(p)
      /\ UNCHANGED <<column, groups, targets, admins, crashes, deletes, raced>>
  BY DEF SeedRoute
<1>2. r \in Route
  BY <1>1, NewCopyType DEF TInv, Finite, AtEntry, TypeOK, Route
<1> HIDE DEF r
<1>3. PICK step \in AnyStep \ {"filling"}, position \in 0..Len(seed) :
         Moves(p, step, position, NoGroup) /\ (step = "seeding" => position \in Entry)
  BY <1>1, AdvanceMoves
<1>4. /\ at' \in [Process -> AnyStep] /\ pos' \in [Process -> 0..Len(seed)]
      /\ made' \in [Process -> Group \cup {NoGroup}] /\ AtEntry'
  BY <1>1, <1>3, MovesKeeps
<1>5. TypeOK'
  BY <1>1, <1>2, <1>4 DEF TInv, TypeOK, Group, Entry, Route, AnyStep
<1>6. Finite'
  BY <1>1, FS_AddElement DEF TInv, Finite
<1> QED BY <1>4, <1>5, <1>6 DEF TInv

LEMMA StepT == TInv /\ [Next]_vars => TInv'
<1> SUFFICES ASSUME TInv, [Next]_vars PROVE TInv' OBVIOUS
<1>1. ASSUME NEW p \in Process, NEW step \in AnyStep \ {"filling"}, NEW position \in 0..Len(seed),
             Moves(p, step, position, NoGroup), step = "seeding" => position \in Entry,
             seed' = seed, UNCHANGED <<routes, groups, targets>>,
             deletes' \in 0..MaxDeletes, crashes' \in 0..MaxCrashes,
             column' \in BOOLEAN, raced' \in BOOLEAN, admins' \subseteq {Username[q] : q \in Process}
      PROVE  TInv'
  <2>1. /\ at' \in [Process -> AnyStep] /\ pos' \in [Process -> 0..Len(seed)]
        /\ made' \in [Process -> Group \cup {NoGroup}] /\ AtEntry'
    BY <1>1, MovesKeeps
  <2>2. TypeOK'
    BY <1>1, <2>1 DEF TInv, TypeOK, Group, Entry, Route, AnyStep
  <2> QED BY <1>1, <2>1, <2>2 DEF TInv, Finite
<1>2. deletes \in 0..MaxDeletes /\ crashes \in 0..MaxCrashes /\ column \in BOOLEAN /\ raced \in BOOLEAN
      /\ admins \subseteq {Username[q] : q \in Process}
  BY DEF TInv, TypeOK
<1>3. ASSUME NEW p \in Process, Run(p), seed' = seed PROVE TInv'
  <2>1. CASE SeedGroup(p) \/ SeedTarget(p) \/ SeedRoute(p)
    BY <1>3, <2>1, GroupT, TargetT, RouteT
  <2>2. CASE ~(SeedGroup(p) \/ SeedTarget(p) \/ SeedRoute(p))
    BY <1>1, <1>2, <1>3, <2>2, QuietMoves
  <2> QED BY <2>1, <2>2
<1>4. ASSUME NEW p \in Process, Crash(p), seed' = seed PROVE TInv'
  <2>1. Moves(p, "down", 0, NoGroup) /\ 0 \in 0..Len(seed)
    BY <1>4, EntryType DEF Crash, Exit, GoTo, Moves, TInv
  <2>2. crashes' \in 0..MaxCrashes
    BY <1>2, <1>4 DEF Crash
  <2> QED BY <1>1, <1>2, <1>4, <2>1, <2>2 DEF Crash, tables, AnyStep
<1>5. ASSUME NEW r \in routes, DeleteRoute(r), seed' = seed PROVE TInv'
  <2>1. deletes' \in 0..MaxDeletes
    BY <1>2, <1>5 DEF DeleteRoute
  <2>2. routes' = routes \ {r} /\ UNCHANGED <<column, at, pos, made, groups, targets, admins, crashes, raced>>
    BY <1>5 DEF DeleteRoute
  <2>3. TypeOK'
    BY <1>5, <2>1, <2>2 DEF TInv, TypeOK, Group, Entry, Route
  <2>4. Finite'
    BY <2>2, FS_RemoveElement DEF TInv, Finite
  <2>5. AtEntry'
    BY <1>5, <2>2 DEF TInv, AtEntry, Seeding, Entry
  <2> QED BY <2>3, <2>4, <2>5 DEF TInv
<1>6. CASE UNCHANGED vars
  BY <1>6 DEF vars, tables, TInv, TypeOK, Finite, AtEntry, Seeding, Entry, Group, Route
<1> QED BY <1>3, <1>4, <1>5, <1>6 DEF Next

LEMMA InitT == Init => TInv
<1> SUFFICES ASSUME Init PROVE TInv OBVIOUS
<1>1. seed \in SeedFile /\ seed \in Seq(SeedRow) /\ Len(seed) \in Nat
  BY DEF Init
<1>2. 0 \in 0..Len(seed) /\ 0 \in 0..MaxCrashes /\ 0 \in 0..MaxDeletes
  BY <1>1
<1>3. pos \in [Process -> 0..Len(seed)]
  BY <1>2 DEF Init
<1>4. TypeOK
  BY <1>1, <1>2, <1>3 DEF Init, TypeOK
<1>5. Finite
  BY FS_EmptySet DEF Init, Finite
<1>6. AtEntry
  BY DEF Init, AtEntry, Seeding
<1> QED BY <1>4, <1>5, <1>6 DEF TInv

\* The tables, the processes' steps and the groups in hand keep their types.
THEOREM StartTypes == Spec => []TypeOK
<1>1. TInv => TypeOK
  BY DEF TInv
<1> QED BY <1>1, InitT, StepT, PTL DEF Spec

-----------------------------------------------------------------------------
(* Whole routes *)

\* A group in hand has no route, and no two processes have the same in hand.
InHand ==
    /\ \A p \in Process : at[p] = "filling" => \A r \in routes : r.group # made[p]
    /\ \A p, q \in Process :
          at[p] = "filling" /\ at[q] = "filling" /\ made[p] = made[q] => p = q

GroupsThere == \A r \in routes : r.group \in groups \cup {NoGroup}

WInv == TInv /\ InHand /\ GroupsThere /\ SeededRoutesWhole

\* A process that takes no group in hand and writes no row disturbs nothing.
LEMMA MovesW ==
    ASSUME WInv, TInv', NEW p \in Process, NEW step \in AnyStep \ {"filling"},
           NEW position, Moves(p, step, position, NoGroup),
           seed' = seed, routes' \subseteq routes, groups' = groups, targets' = targets
    PROVE  WInv'
<1>1. \A q \in Process : at'[q] = "filling" => at[q] = "filling" /\ made'[q] = made[q]
  BY DEF Moves, WInv, TInv, TypeOK
<1>2. InHand' /\ GroupsThere'
  BY <1>1 DEF WInv, InHand, GroupsThere
<1>3. SeededRoutesWhole'
  BY DEF WInv, SeededRoutesWhole, TargetsOf
<1> QED BY <1>2, <1>3 DEF WInv

LEMMA GroupW ==
    ASSUME WInv, TInv', NEW p \in Process, SeedGroup(p), seed' = seed
    PROVE  WInv'
<1> DEFINE g == NewGroup(p)
<1>1. g \notin groups /\ g # NoGroup
  <2>1. g.seed = pos[p] /\ g.copy \notin Copies(pos[p], groups)
    BY DEF SeedGroup, Inserts, NewGroup
  <2>2. pos[p] \in Entry
    BY DEF SeedGroup, Seeding, WInv, TInv, AtEntry
  <2>3. g \in Group
    BY <2>2, NewCopyType DEF NewGroup, Group, WInv, TInv, Finite
  <2>4. g \notin groups
    BY <2>1 DEF Copies
  <2> QED BY <2>3, <2>4, EntryType DEF WInv, TInv
<1>2. /\ groups' = groups \cup {g} /\ made' = [made EXCEPT ![p] = g]
      /\ at' = [at EXCEPT ![p] = "filling"] /\ UNCHANGED <<routes, targets>>
  BY DEF SeedGroup, GoTo
<1> HIDE DEF g
<1>3. made'[p] = g /\ \A q \in Process \ {p} : at'[q] = at[q] /\ made'[q] = made[q]
  BY <1>2 DEF WInv, TInv, TypeOK
<1>4. \A q \in Process \ {p} : at'[q] = "filling" => made'[q] # g
  BY <1>1, <1>3 DEF WInv, TInv, AtEntry
<1>5. InHand' /\ GroupsThere'
  BY <1>1, <1>2, <1>3, <1>4 DEF WInv, InHand, GroupsThere
<1>6. SeededRoutesWhole'
  BY <1>2 DEF WInv, SeededRoutesWhole, TargetsOf
<1> QED BY <1>5, <1>6 DEF WInv

LEMMA TargetW ==
    ASSUME WInv, TInv', NEW p \in Process, SeedTarget(p), seed' = seed
    PROVE  WInv'
<1>1. /\ at[p] = "filling" /\ UNCHANGED <<at, made, routes, groups>>
      /\ \E n : targets' = targets \cup {[group |-> made[p], nth |-> n]}
  BY DEF SeedTarget, NewTarget
<1>2. \A r \in routes : r.group # made[p]
  BY <1>1 DEF WInv, InHand
<1>3. \A r \in routes : TargetsOf(r.group)' = TargetsOf(r.group)
  BY <1>1, <1>2 DEF TargetsOf
<1>4. SeededRoutesWhole'
  BY <1>1, <1>3 DEF WInv, SeededRoutesWhole, TargetsOf
<1> QED BY <1>1, <1>4 DEF WInv, InHand, GroupsThere

LEMMA RouteW ==
    ASSUME WInv, TInv', NEW p \in Process, SeedRoute(p), seed' = seed
    PROVE  WInv'
<1> DEFINE r == [seed |-> pos[p], copy |-> NewCopy(pos[p], routes), group |-> made[p]]
<1>1. /\ routes' = routes \cup {r} /\ Seeding(p) /\ Ready(p) /\ Advance(p)
      /\ UNCHANGED <<groups, targets>>
  BY DEF SeedRoute
<1>2. r.seed = pos[p] /\ r.group = made[p]
  OBVIOUS
<1> HIDE DEF r
<1>3. PICK step \in AnyStep \ {"filling"}, position \in 0..Len(seed) :
         Moves(p, step, position, NoGroup)
  BY <1>1, AdvanceMoves DEF WInv
<1>4. \A q \in Process : at'[q] = "filling" => q # p /\ at[q] = "filling" /\ made'[q] = made[q]
  BY <1>3 DEF Moves, WInv, TInv, TypeOK
<1>5. \A q \in Process : at[q] = "filling" /\ q # p => made[q] # made[p]
  BY EntryType DEF WInv, TInv, TypeOK, AtEntry, InHand
<1>6. made[p] \in groups \cup {NoGroup} /\ \A s \in routes : made[p] # NoGroup => s.group # made[p]
  BY DEF WInv, TInv, AtEntry, InHand
<1>7. InHand' /\ GroupsThere'
  BY <1>1, <1>2, <1>4, <1>5, <1>6 DEF WInv, InHand, GroupsThere
<1>8. seed[r.seed].group => r.group \in groups /\ Cardinality(TargetsOf(r.group)) = seed[r.seed].targets
  BY <1>1, <1>2 DEF Ready, WInv, TInv, AtEntry
<1>9. SeededRoutesWhole'
  <2>1. \A x : TargetsOf(x)' = TargetsOf(x)
    BY <1>1 DEF TargetsOf
  <2> QED BY <1>1, <1>2, <1>6, <1>8, <2>1 DEF WInv, SeededRoutesWhole, TargetsOf
<1> QED BY <1>7, <1>9 DEF WInv

\* What a step that is no insertion of the seed does.
LEMMA OtherSteps ==
    ASSUME TInv, Next, ~\E p \in Process : SeedGroup(p) \/ SeedTarget(p) \/ SeedRoute(p)
    PROVE  /\ seed' = seed /\ UNCHANGED <<groups, targets>> /\ (raced => raced')
           /\ \/ \E p \in Process, step \in AnyStep \ {"filling"}, position \in 0..Len(seed) :
                    /\ Moves(p, step, position, NoGroup)
                    /\ step = "seeding" => position \in Entry /\ Alone
                    /\ UNCHANGED routes
              \/ routes' \subseteq routes /\ UNCHANGED <<at, pos, made>>
<1>1. ASSUME NEW p \in Process, Crash(p)
      PROVE  Moves(p, "down", 0, NoGroup) /\ 0 \in 0..Len(seed)
             /\ UNCHANGED <<routes, groups, targets, raced>>
  BY <1>1, EntryType DEF Crash, Exit, GoTo, Moves, TInv, tables
<1>2. ASSUME NEW r \in routes, DeleteRoute(r)
      PROVE  routes' \subseteq routes /\ UNCHANGED <<at, pos, made, groups, targets, raced>>
  BY <1>2 DEF DeleteRoute
<1>3. seed' = seed
  BY DEF Next
<1>4. CASE \E p \in Process : Run(p)
  BY <1>3, <1>4, QuietMoves
<1>5. CASE \E p \in Process : Crash(p)
  BY <1>1, <1>3, <1>5 DEF AnyStep
<1>6. CASE \E r \in routes : DeleteRoute(r)
  BY <1>2, <1>3, <1>6
<1> QED BY <1>4, <1>5, <1>6 DEF Next

LEMMA StepW == WInv /\ [Next]_vars => WInv'
<1> SUFFICES ASSUME WInv, [Next]_vars PROVE WInv' OBVIOUS
<1>1. TInv'
  BY StepT DEF WInv
<1>2. CASE UNCHANGED vars
  BY <1>1, <1>2 DEF vars, tables, WInv, InHand, GroupsThere, SeededRoutesWhole, TargetsOf
<1>3. CASE Next /\ \E p \in Process : SeedGroup(p) \/ SeedTarget(p) \/ SeedRoute(p)
  BY <1>1, <1>3, GroupW, TargetW, RouteW DEF Next
<1>4. CASE Next /\ ~\E p \in Process : SeedGroup(p) \/ SeedTarget(p) \/ SeedRoute(p)
  <2>1. CASE routes' \subseteq routes /\ UNCHANGED <<at, pos, made>>
    <3>1. UNCHANGED <<seed, groups, targets>>
      BY <1>4, OtherSteps DEF WInv
    <3> QED BY <1>1, <2>1, <3>1 DEF WInv, InHand, GroupsThere, SeededRoutesWhole, TargetsOf
  <2> QED BY <1>1, <1>4, <2>1, OtherSteps, MovesW DEF WInv
<1> QED BY <1>2, <1>3, <1>4

\* No route of the file is visible before its group and all its targets, and
\* no two routes share a seeded group: whatever processes start and die when.
THEOREM NoHalfRoute == Spec => []SeededRoutesWhole
<1>1. Init => WInv
  BY InitT DEF Init, WInv, InHand, GroupsThere, SeededRoutesWhole
<1>2. WInv => SeededRoutesWhole
  BY DEF WInv
<1> QED BY <1>1, <1>2, StepW, PTL DEF Spec

-----------------------------------------------------------------------------
(* One copy of each entry *)

\* Without a race one process seeds, and it is past every entry in the table.
OneSeeds ==
    ~raced =>
      /\ \A p, q \in Process : Seeding(p) /\ Seeding(q) => p = q
      /\ \A p \in Process : Seeding(p) => \A r \in routes : r.seed < pos[p]

RInv == TInv /\ OneSeeds /\ SeededTwiceOnlyByRace

LEMMA StepR == RInv /\ [Next]_vars => RInv'
<1> SUFFICES ASSUME RInv, [Next]_vars PROVE RInv' OBVIOUS
<1>1. TInv'
  BY StepT DEF RInv
<1>2. CASE UNCHANGED vars
  BY <1>1, <1>2 DEF vars, tables, RInv, OneSeeds, SeededTwiceOnlyByRace, Seeding
<1>3. ASSUME NEW p \in Process, SeedGroup(p) \/ SeedTarget(p), Next PROVE RInv'
  <2>1. /\ UNCHANGED <<pos, routes, raced>>
        /\ \A q \in Process : Seeding(q)' <=> Seeding(q)
    BY <1>3 DEF SeedGroup, SeedTarget, GoTo, Seeding, RInv, TInv, TypeOK
  <2> QED BY <1>1, <2>1 DEF RInv, OneSeeds, SeededTwiceOnlyByRace
<1>4. ASSUME NEW p \in Process, SeedRoute(p), Next PROVE RInv'
  <2> DEFINE r == [seed |-> pos[p], copy |-> NewCopy(pos[p], routes), group |-> made[p]]
  <2>1. /\ routes' = routes \cup {r} /\ Seeding(p) /\ Advance(p) /\ raced' = raced /\ r.seed = pos[p]
    BY <1>4 DEF SeedRoute
  <2> HIDE DEF r
  <2>2. PICK step \in AnyStep \ {"filling"}, position \in 0..Len(seed) :
           /\ Moves(p, step, position, NoGroup)
           /\ step = "seeding" => position = pos[p] + 1
    BY <2>1, AdvanceMoves DEF RInv
  <2>3. /\ \A q \in Process \ {p} : Seeding(q)' <=> Seeding(q)
        /\ Seeding(p)' => pos'[p] = pos[p] + 1
    BY <2>2 DEF Moves, Seeding, RInv, TInv, TypeOK
  <2>4. pos[p] \in Nat /\ \A s \in routes : s.seed \in Nat
    BY DEF RInv, TInv, TypeOK, Route, Entry
  <2>5. OneSeeds'
    <3>1. SUFFICES ASSUME ~raced
                   PROVE  /\ \A q \in Process : Seeding(q)' => q = p
                          /\ Seeding(p)' => \A s \in routes' : s.seed < pos'[p]
      BY <2>1 DEF OneSeeds
    <3>2. \A q \in Process : Seeding(q)' => q = p
      BY <2>1, <2>3, <3>1 DEF RInv, OneSeeds
    <3>3. \A s \in routes : s.seed < pos[p]
      BY <2>1, <3>1 DEF RInv, OneSeeds
    <3> QED BY <2>1, <2>3, <2>4, <3>2, <3>3
  <2>6. SeededTwiceOnlyByRace'
    BY <2>1, <2>4 DEF RInv, OneSeeds, SeededTwiceOnlyByRace
  <2> QED BY <1>1, <2>5, <2>6 DEF RInv
<1>5. CASE Next /\ ~\E p \in Process : SeedGroup(p) \/ SeedTarget(p) \/ SeedRoute(p)
  <2>1. seed' = seed /\ (raced => raced')
    BY <1>5, OtherSteps DEF RInv
  <2>2. CASE routes' \subseteq routes /\ UNCHANGED <<at, pos, made>>
    BY <1>1, <2>1, <2>2 DEF RInv, OneSeeds, SeededTwiceOnlyByRace, Seeding
  <2>3. ASSUME NEW p \in Process, NEW step \in AnyStep \ {"filling"}, NEW position,
               Moves(p, step, position, NoGroup), step = "seeding" => Alone, UNCHANGED routes
        PROVE  RInv'
    <3>1. /\ \A q \in Process \ {p} : (Seeding(q)' <=> Seeding(q)) /\ pos'[q] = pos[q]
          /\ Seeding(p)' => step = "seeding"
      BY <2>3 DEF Moves, Seeding, RInv, TInv, TypeOK
    <3>2. CASE step = "seeding"
      BY <1>1, <2>1, <2>3, <3>1, <3>2 DEF Alone, RInv, OneSeeds, SeededTwiceOnlyByRace
    <3>3. CASE step # "seeding"
      BY <1>1, <2>1, <2>3, <3>1, <3>3 DEF RInv, OneSeeds, SeededTwiceOnlyByRace
    <3> QED BY <3>2, <3>3
  <2> QED BY <1>5, <2>2, <2>3, OtherSteps DEF RInv
<1> QED BY <1>2, <1>3, <1>4, <1>5

\* Seeding again after a crash, or by a second process, duplicates no entry of
\* the file unless two processes found the table empty at the same time.
THEOREM TwiceOnlyByRace == Spec => []SeededTwiceOnlyByRace
<1>1. Init => RInv
  BY InitT DEF Init, RInv, OneSeeds, SeededTwiceOnlyByRace, Seeding
<1>2. RInv => SeededTwiceOnlyByRace
  BY DEF RInv
<1> QED BY <1>1, <1>2, StepR, PTL DEF Spec

-----------------------------------------------------------------------------
(* The bootstrap account *)

Past(p) == at[p] \in {"loading", "serving"} /\ Kind[p] # "gateway"

PInv == TInv /\ (admins = {} => \A p \in Process : ~Past(p))

LEMMA StepP == PInv /\ [Next]_vars => PInv'
<1> SUFFICES ASSUME PInv, [Next]_vars PROVE PInv' OBVIOUS
<1>1. TInv'
  BY StepT DEF PInv
<1>2. ASSUME NEW p \in Process, NEW step, at' = [at EXCEPT ![p] = step], admins \subseteq admins',
             admins' = {} /\ Kind[p] # "gateway" => step \notin {"loading", "serving"}
      PROVE  PInv'
  BY <1>1, <1>2 DEF PInv, Past, TInv, TypeOK
<1>3. ASSUME NEW p \in Process, Run(p) PROVE PInv'
  <2>1. CASE Start(p) \/ InspectColumn(p) \/ AddColumn(p)
    BY <1>2, <2>1 DEF Start, InspectColumn, AddColumn, GoTo, tables
  <2>2. CASE ColumnConflict(p) \/ SeedConflict(p) \/ AdminConflict(p)
    BY <1>2, <2>2 DEF ColumnConflict, SeedConflict, AdminConflict, Exit, GoTo, tables
  <2>3. CASE CountRoutes(p) \/ SeedGroup(p) \/ SeedRoute(p)
    BY <1>2, <2>3 DEF CountRoutes, SeedGroup, SeedRoute, Advance, AfterSeed, GoTo, tables
  <2>4. CASE SeedTarget(p)
    BY <1>1, <2>4 DEF SeedTarget, PInv, Past
  <2>5. CASE CountAdmins(p) \/ FindAdmin(p) \/ CreateAdmin(p)
    BY <1>2, <2>5 DEF CountAdmins, FindAdmin, CreateAdmin, AfterAdmin, GoTo, tables
  <2>6. CASE Load(p)
    <3>1. at' = [at EXCEPT ![p] = "serving"] /\ admins' = admins
      BY <2>6 DEF Load, GoTo, tables
    <3>2. admins = {} => Kind[p] = "gateway"
      BY <2>6 DEF Load, PInv, Past
    <3> QED BY <1>2, <3>1, <3>2
  <2> QED BY <1>3, <2>1, <2>2, <2>3, <2>4, <2>5, <2>6 DEF Run
<1>4. ASSUME NEW p \in Process, Crash(p) PROVE PInv'
  BY <1>2, <1>4 DEF Crash, Exit, GoTo, tables
<1>5. ASSUME NEW r \in routes, DeleteRoute(r) PROVE PInv'
  BY <1>1, <1>5 DEF DeleteRoute, PInv, Past
<1>6. CASE UNCHANGED vars
  BY <1>1, <1>6 DEF vars, tables, PInv, Past
<1> QED BY <1>3, <1>4, <1>5, <1>6 DEF Next

\* Whoever serves the admin API has an account to log in with, whichever of
\* several processes that start at once created it.
THEOREM AdminThere == Spec => []AdminReady
<1>1. Init => PInv
  BY InitT DEF Init, PInv, Past
<1>2. PInv => AdminReady
  BY DEF PInv, Past, AdminReady
<1> QED BY <1>1, <1>2, StepP, PTL DEF Spec
=============================================================================

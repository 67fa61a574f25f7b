--------------------------- MODULE ResponseMapping ---------------------------
(***************************************************************************)
(* applyResponseMapping and mapping.Apply: requests of one route, in       *)
(* parallel, build new JSON documents from their upstream responses.       *)
(*                                                                         *)
(* Go maps are references: an object that a rule copies, from the response *)
(* or from the rule's own value, is the same map in both places, and the   *)
(* value of a rule belongs to the configuration all requests share until   *)
(* the next reload.  A JSON array is a slice: a length and a reference to  *)
(* cells, of which there may be more than the length, so that growing one  *)
(* slice may write into another's cells.  So documents live in a heap of   *)
(* maps and cells, and a pure definition on trees (module JsonTree) says   *)
(* what the rules mean.  A reload gives the rules new values and is left   *)
(* out: this is the time between two of them.                              *)
(***************************************************************************)
EXTENDS JsonTree

CONSTANTS
    Request,
    RuleLists,       \* the mappings a route may have
    Responses,       \* what the upstream may answer
    Config,          \* the owner of the rules' values
    Missing,         \* no value at a path
    Slice,           \* marks a value as a slice: <<Slice, cells, length>>
    NoPath,          \* an empty path
    NoValue

\* A document: what is at each of its paths.  No document: 502 instead.
Failed == <<>>

IsRule(r) ==
    /\ {r.from, r.to} \subseteq Path \cup {NoPath, BadPath}
    /\ IF r.from = NoPath THEN IsTree(r.value) ELSE r.value = NoValue

\* other: not JSON; blank: no body; unusable: broken off, too large, not decodable.
IsResponse(m) == m.kind \in {"json", "other", "blank", "unusable"} /\ IsTree(m.body)

\* A map, or the cells of an array: which of them, whose, of which rule or
\* document, at which path.
Name == {Map, List} \X (Request \cup {Config}) \X Int \X Path

ASSUME MappingAssumption ==
    /\ \A rs \in RuleLists : rs \in Seq(ToSet(rs)) /\ \A i \in DOMAIN rs : IsRule(rs[i])
    /\ \A m \in Responses : IsResponse(m)
    /\ NoPath \notin Path /\ Config \notin Request
    /\ Slice \notin {Map, List} /\ Missing \notin Scalar \cup {Map, List}
    /\ Scalar \cap (Name \cup {Slice} \X Name \X Nat) = {}
    /\ Missing \notin Name \cup {Slice} \X Name \X Nat

VARIABLES
    rules,   \* of the route
    heap,    \* the members of each map, the cells of each array
    at,      \* idle, mapping, done
    got,     \* the upstream's response to each request
    source, output,   \* roots of the decoded response and of the new document
    rule,    \* the next rule
    sent,    \* what the client got
    alive    \* the process

reqVars == <<at, got, source, output, rule, sent>>
vars    == <<rules, heap, reqVars, alive>>

-----------------------------------------------------------------------------
(* Documents in the heap *)

\* f with v at x.
With(f, x, v) == [y \in DOMAIN f \cup {x} |-> IF y = x THEN v ELSE f[y]]

Joined(f, g) == [x \in DOMAIN f \cup DOMAIN g |-> IF x \in DOMAIN f THEN f[x] ELSE g[x]]

\* append doubles what it allocates, one cell at first.
Capacity(n) ==
    LET room[k \in 0..n] ==
            IF k = 0 THEN 0
            ELSE IF room[k - 1] >= k THEN room[k - 1]
            ELSE IF k = 1 THEN 1 ELSE 2 * room[k - 1]
    IN  room[n]

ValueAt(o, n, t, p) ==
    CASE t[p] = Map  -> <<Map, o, n, p>>
      [] t[p] = List -> <<Slice, <<List, o, n, p>>, Cardinality(Members(t, p))>>
      [] OTHER       -> t[p]

\* json.Unmarshal: document t, owned by o; n tells its documents apart.
Decode(o, n, t) ==
    [m \in {<<t[p], o, n, p>> : p \in {x \in DOMAIN t : t[x] \in {Map, List}}} |->
        LET set == Members(t, m[4])
        IN  [s \in IF m[1] = Map THEN set ELSE 0..(Capacity(Cardinality(set)) - 1) |->
                IF s \in set THEN ValueAt(o, n, t, Append(m[4], s)) ELSE Null]]

IsMap(h, v) == v \in DOMAIN h
IsSlice(h, v) == v \in {Slice} \X (DOMAIN h) \X Nat
IsNode(h, v) == IsMap(h, v) \/ IsSlice(h, v)

\* Where the members of a container are.
Cells(v) == IF v[1] = Slice THEN v[2] ELSE v

\* v is a container that can have a member s.
Holds(h, v, s) == IF s \in Index THEN IsSlice(h, v) ELSE IsMap(h, v)

Member(h, v, s) ==
    IF Holds(h, v, s) /\ s \in DOMAIN h[Cells(v)] /\ (s \in Index => s < v[3])
    THEN h[Cells(v)][s] ELSE Missing

\* mapping.Get
Get(h, root, path) ==
    LET walk[n \in 0..Len(path)] ==
            IF n = 0 THEN root ELSE Member(h, walk[n - 1], path[n])
    IN  walk[Len(path)]

\* setAt finds v where it needs a container with a member s: v itself, or a
\* new one m, which holds the cells of a slice that has no room left.
Opened(h, v, s, m) ==
    LET old    == IF IsSlice(h, v) THEN h[v[2]] ELSE <<>>
        length == IF IsSlice(h, v) THEN v[3] ELSE 0
        \* append fills the room there is, whoever else uses it
        filled == [i \in DOMAIN old |-> IF i \in length..s THEN Null ELSE old[i]]
        grown  == [i \in 0..(Capacity(s + 1) - 1) |-> IF i < length THEN old[i] ELSE Null]
        kept   == IF IsSlice(h, v) THEN With(h, v[2], filled) ELSE h
    IN  CASE s \notin Index /\ IsMap(h, v)  -> [heap |-> h, value |-> v]
          [] s \notin Index /\ ~IsMap(h, v) -> [heap |-> With(h, m, <<>>), value |-> m]
          [] s \in Index /\ s \in DOMAIN old ->
                [heap |-> kept, value |-> <<Slice, v[2], Max({length, s + 1})>>]
          [] s \in Index /\ s \notin DOMAIN old ->
                [heap |-> With(kept, m, grown), value |-> <<Slice, m, s + 1>>]

\* The way in: the heap and the container at each step, outermost first.
Descent(h, q, root, path) ==
    LET way[n \in 0..Len(path)] ==
            IF n = 0 THEN [heap |-> h, value |-> root]
            ELSE LET last == way[n - 1]
                     v    == IF n = 1 THEN root ELSE Member(last.heap, last.value, path[n - 1])
                 IN  Opened(last.heap, v, path[n],
                            <<NodeFor(path[n]), q, rule[q], SubSeq(path, 1, n - 1)>>)
    IN  way

\* The way out: every container on the path is assigned its member.
Ascent(way, path, value) ==
    LET out[n \in 1..(Len(path) + 1)] ==
            IF n = Len(path) + 1 THEN way[Len(path)].heap
            ELSE [out[n + 1] EXCEPT ![Cells(way[n].value)] =
                     With(@, path[n], IF n = Len(path) THEN value ELSE way[n + 1].value)]
    IN  out[1]

\* setAt
SetAt(h, q, root, path, value) ==
    LET way == Descent(h, q, root, path)
    IN  [heap |-> Ascent(way, path, value), root |-> way[1].value]

\* Faulty variant: an object set where there is one is merged into it.
SetMerging(h, q, root, path, value) ==
    LET old == Get(h, root, path)
    IN  CASE path = <<>> -> [heap |-> h, root |-> value]
          [] path # <<>> /\ IsMap(h, old) /\ IsMap(h, value) ->
                [heap |-> [h EXCEPT ![old] = Joined(h[value], @)], root |-> root]
          [] OTHER -> SetAt(h, q, root, path, value)

\* mapping.Set: the heap it leaves and the root it returns.
Set(h, q, root, path, value) ==
    IF path = <<>> THEN [heap |-> h, root |-> value] ELSE SetAt(h, q, root, path, value)

\* json.Marshal
Written(h, v) == IF IsMap(h, v) THEN Map ELSE IF IsSlice(h, v) THEN List ELSE v

Document(h, root) ==
    [p \in {x \in Path : Get(h, root, x) # Missing} |-> Written(h, Get(h, root, p))]

\* It fails on a map or a slice that contains itself.
Encodable(h, root) ==
    \A x \in Path : IsNode(h, Get(h, root, x)) =>
        \A n \in 0..(Len(x) - 1) : Get(h, root, SubSeq(x, 1, n)) # Get(h, root, x)

RuleValue(q, r) ==
    IF r.from = NoPath THEN ValueAt(Config, rule[q], r.value, <<>>)
                       ELSE Get(heap, source[q], r.from)

-----------------------------------------------------------------------------
\* A value: what it refers to is there, of the right kind and long enough.
IsValue(h, v) ==
    \/ v \in Scalar
    \/ IsMap(h, v) /\ v[1] = Map
    \/ IsSlice(h, v) /\ v[2][1] = List /\ 0..(v[3] - 1) \subseteq DOMAIN h[v[2]]

IsHeap(h) ==
    \A o \in DOMAIN h :
        /\ IF o[1] = Map THEN DOMAIN h[o] \subseteq Key
                         ELSE DOMAIN h[o] = 0..(Cardinality(DOMAIN h[o]) - 1)
        /\ \A s \in DOMAIN h[o] : IsValue(h, h[o][s])

TypeOK ==
    /\ rules \in RuleLists
    /\ IsHeap(heap)
    /\ DOMAIN heap \subseteq
          {Map, List} \X (Request \cup {Config}) \X (-1..Len(rules)) \X Path
    /\ at \in [Request -> {"idle", "mapping", "done"}]
    /\ \A q \in Request :
          /\ at[q] = "mapping" => /\ IsValue(heap, source[q]) /\ IsValue(heap, output[q])
                                  /\ rule[q] \in 1..(Len(rules) + 1)
          /\ at[q] # "idle" => got[q] \in Responses
          /\ at[q] = "done" => sent[q] = Failed \/ IsTree(sent[q])
    /\ alive \in BOOLEAN

Init ==
    /\ rules \in RuleLists
    /\ heap = [m \in UNION {DOMAIN Decode(Config, i, rules[i].value) :
                              i \in {j \in DOMAIN rules : rules[j].from = NoPath}} |->
                  Decode(Config, m[3], rules[m[3]].value)[m]]
    /\ at = [q \in Request |-> "idle"]
    /\ got = [q \in Request |-> NoValue]
    /\ source = [q \in Request |-> NoValue]
    /\ output = [q \in Request |-> NoValue]
    /\ rule = [q \in Request |-> 0]
    /\ sent = [q \in Request |-> NoValue]
    /\ alive = TRUE

Answer(q, m, body) ==
    /\ at' = [at EXCEPT ![q] = "done"]
    /\ got' = [got EXCEPT ![q] = m]
    /\ sent' = [sent EXCEPT ![q] = body]

\* The response stays as it is.
Untouched(m) == rules = <<>> \/ m.kind \in {"other", "blank"}

PassOn(q, m) ==
    /\ alive /\ at[q] = "idle"
    /\ Untouched(m)
    /\ Answer(q, m, m.body)
    /\ UNCHANGED <<rules, heap, source, output, rule, alive>>

\* ModifyResponse fails, the ErrorHandler answers.
Refuse(q, m) ==
    /\ alive /\ at[q] = "idle"
    /\ ~Untouched(m) /\ m.kind = "unusable"
    /\ Answer(q, m, Failed)
    /\ UNCHANGED <<rules, heap, source, output, rule, alive>>

Begin(q, m) ==
    /\ alive /\ at[q] = "idle"
    /\ ~Untouched(m) /\ m.kind = "json"
    /\ at' = [at EXCEPT ![q] = "mapping"]
    /\ got' = [got EXCEPT ![q] = m]
    /\ heap' = Joined(Decode(q, 0, m.body), Joined(Decode(q, -1, Empty), heap))
    /\ source' = [source EXCEPT ![q] = ValueAt(q, 0, m.body, <<>>)]
    /\ output' = [output EXCEPT ![q] = <<Map, q, -1, <<>> >>]
    /\ rule' = [rule EXCEPT ![q] = 1]
    /\ UNCHANGED <<rules, sent, alive>>

\* q is at rule r.
At(q, r) ==
    /\ alive /\ at[q] = "mapping"
    /\ rule[q] <= Len(rules) /\ r = rules[rule[q]]

Refused(r) == r.to = NoPath \/ r.from = BadPath

\* Faulty variant: what is missing is copied as a value.
FoundAlways(q, r) == TRUE

Found(q, r) == r.from # NoPath => Get(heap, source[q], r.from) # Missing

\* Faulty variant: a rule whose value is missing ends the mapping.
SkipRuleAll(q, r) ==
    /\ At(q, r) /\ ~Refused(r) /\ ~Found(q, r)
    /\ rule' = [rule EXCEPT ![q] = Len(rules) + 1]
    /\ UNCHANGED <<rules, heap, at, got, source, output, sent, alive>>

\* Nothing at the path: the rule is left out.
SkipRule(q, r) ==
    /\ At(q, r) /\ ~Refused(r) /\ ~Found(q, r)
    /\ rule' = [rule EXCEPT ![q] = @ + 1]
    /\ UNCHANGED <<rules, heap, at, got, source, output, sent, alive>>

ApplyRule(q, r) ==
    /\ At(q, r) /\ ~Refused(r) /\ Found(q, r) /\ r.to # BadPath
    /\ LET updated == Set(heap, q, output[q], r.to, RuleValue(q, r))
       IN  heap' = updated.heap /\ output' = [output EXCEPT ![q] = updated.root]
    /\ rule' = [rule EXCEPT ![q] = @ + 1]
    /\ UNCHANGED <<rules, at, got, source, sent, alive>>

FailRule(q, r) ==
    /\ At(q, r)
    /\ ~Refused(r) => Found(q, r) /\ r.to = BadPath
    /\ Answer(q, got[q], Failed)
    /\ UNCHANGED <<rules, heap, source, output, rule, alive>>

Send(q) ==
    /\ alive /\ at[q] = "mapping" /\ rule[q] = Len(rules) + 1
    /\ Answer(q, got[q], IF Encodable(heap, output[q]) THEN Document(heap, output[q])
                                                        ELSE Failed)
    /\ UNCHANGED <<rules, heap, source, output, rule, alive>>

\* The maps and cells a walk along path p looks into.
Visited(h, root, p) ==
    {Cells(Get(h, root, SubSeq(p, 1, n - 1))) :
        n \in {i \in 1..Len(p) : Holds(h, Get(h, root, SubSeq(p, 1, i - 1)), p[i])}}

\* Those q's next step reads, and those it writes.
Reads(q) ==
    IF rule[q] > Len(rules)
    THEN {Cells(v) : v \in {x \in {Get(heap, output[q], p) : p \in Path} : IsNode(heap, x)}}
    ELSE LET r == rules[rule[q]]
             Walk(root, p) == IF p \in Path THEN Visited(heap, root, p) ELSE {}
         IN  Walk(source[q], r.from) \cup Walk(output[q], r.to)

Writes(q) ==
    IF rule[q] > Len(rules) THEN {}
    ELSE LET r   == rules[rule[q]]
             way == Descent(heap, q, output[q], r.to)
         IN  IF ~Refused(r) /\ Found(q, r) /\ r.to # BadPath
             THEN {o \in DOMAIN heap :
                      \/ \E n \in 1..Len(r.to) : o = Cells(way[n].value)
                      \/ way[Len(r.to)].heap[o] # heap[o]}
             ELSE {}

\* Go's runtime ends the process when it sees a map used while it is written,
\* and so may a cell read while it is written.  Neither need happen; the steps
\* then have some order.
Collide(q, s) ==
    /\ alive /\ q # s /\ at[q] = "mapping" /\ at[s] = "mapping"
    /\ Writes(q) \cap (Writes(s) \cup Reads(s)) # {}
    /\ alive' = FALSE
    /\ UNCHANGED <<rules, heap, reqVars>>

Next ==
    \/ \E q \in Request, m \in Responses : PassOn(q, m) \/ Refuse(q, m) \/ Begin(q, m)
    \/ \E q \in Request, i \in DOMAIN rules :
          SkipRule(q, rules[i]) \/ ApplyRule(q, rules[i]) \/ FailRule(q, rules[i])
    \/ \E q \in Request : Send(q)
    \/ \E q, s \in Request : Collide(q, s)

Spec == Init /\ [][Next]_vars

-----------------------------------------------------------------------------
(* What the rules mean, on trees *)

Meaning(body, out, r) ==
    IF out = Failed \/ Refused(r) THEN Failed
    ELSE IF r.from # NoPath /\ r.from \notin DOMAIN body THEN out
    ELSE IF r.to = BadPath THEN Failed
    ELSE Graft(out, r.to, IF r.from = NoPath THEN r.value ELSE Below(body, r.from))

\* After each number of rules.
Outcome(rs, body) ==
    LET out[n \in 0..Len(rs)] ==
            IF n = 0 THEN Empty ELSE Meaning(body, out[n - 1], rs[n])
    IN  out

Mapped(rs, body) == Outcome(rs, body)[Len(rs)]

Expected(m) ==
    IF Untouched(m) THEN m.body
    ELSE IF m.kind = "unusable" THEN Failed
    ELSE Mapped(rules, m.body)

\* No rule writes into an object an earlier rule placed, if that object is
\* the configuration's or another rule reads it from the response.
AliasFree(rs) ==
    \A i, j \in DOMAIN rs :
        /\ i < j /\ {rs[i].to, rs[j].to} \subseteq Path
        /\ IsStrictPrefix(rs[i].to, rs[j].to)
        => IF rs[i].from = NoPath THEN rs[i].value[<<>>] \notin {Map, List}
           ELSE \A k \in DOMAIN rs \ {i} : rs[k].from \in Path =>
                  ~IsPrefix(rs[i].from, rs[k].from) /\ ~IsPrefix(rs[k].from, rs[i].from)

-----------------------------------------------------------------------------
(* Properties *)

\* Every client gets what the rules say of its own upstream's response, or
\* that response itself, or an error: never a document mapped in part.
MapsAsWritten ==
    AliasFree(rules) => \A q \in Request : at[q] = "done" => sent[q] = Expected(got[q])

\* Mapping a response leaves the configuration as it was loaded, and no two
\* requests ever work on one map.
RequestsShareNothing ==
    AliasFree(rules) =>
        /\ alive
        /\ \A i \in DOMAIN rules : rules[i].from = NoPath =>
              Document(heap, ValueAt(Config, i, rules[i].value, <<>>)) = rules[i].value

\* What API_GATEWAY_DEVELOPMENT_PLAN.md:722 says of every mapping: responses
\* of different back ends come out in one structure; so a document holds
\* values of its own response and of the rules only.  It fails when a rule
\* adds a member to an object that another rule gives as a value: the object
\* is the configuration's, and what one response adds appears in the next.
Values(t) == {t[p] : p \in DOMAIN t}

MapsOwnResponse ==
    \A q \in Request : at[q] = "done" /\ sent[q] # Failed =>
        Values(sent[q]) \subseteq
            {Map, List, Null} \cup Values(got[q].body)
            \cup UNION {Values(rules[i].value) : i \in {j \in DOMAIN rules : rules[j].from = NoPath}}
=============================================================================

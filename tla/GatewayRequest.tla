--------------------------- MODULE GatewayRequest ---------------------------
(***************************************************************************)
(* Gateway.ServeHTTP: requests in parallel, over reloads and restarts.  A  *)
(* request takes the configuration and the router of the moment, picks a   *)
(* target, is rewritten in place, forwarded or redirected, numbered and    *)
(* logged.                                                                 *)
(*                                                                         *)
(* The configurations are those router.New keeps (module RuntimeConfig):   *)
(* every route has a target.  Which one a picker takes is module           *)
(* LoadBalance's; the mapping of responses is module ResponseMapping's.    *)
(* What a rule makes of a JSON body is module JsonTree's.                  *)
(***************************************************************************)
EXTENDS RequestMatching, JsonTree

CONSTANTS
    Request,
    Client,        \* what clients send
    Configuration, \* the lists of routes a load may return
    BadUrl,        \* targets whose URL does not parse
    NoTarget, NoKey, NoRequest,
    ContentType, ForwardedHost, GatewayRoute, \* header names
    Json, NoText,  \* header values: application/json and the empty one
    LogRequests,   \* gateway.logRequests
    MaxReloads, MaxRestarts   \* bounds

RuleType == {"setHeader", "setQuery", "setJsonBody", "rewritePath"}

\* key and value of a rule: a name and its value, a path in the body and a
\* document, or rewritePath's from and to.
RulesAssumption(rules) ==
    /\ rules \in Seq(ToSet(rules))
    /\ \A i \in DOMAIN rules : rules[i].type = "setJsonBody" /\ rules[i].key \notin {NoKey, BadPath} =>
          /\ rules[i].key \in Path /\ IsTree(rules[i].value)
          /\ \A y \in DOMAIN rules[i].value : rules[i].key \o y \in Path

ASSUME ConfigurationAssumption ==
    \A c \in Configuration :
        /\ c \in Seq(ToSet(c))
        /\ \A i \in DOMAIN c :
              /\ c[i].type \in {"proxy", "redirect"} /\ c[i].priority \in Int
              /\ c[i].pattern \in Pattern /\ c[i].targets # {}
              /\ RulesAssumption(c[i].rewrite)

\* header and query are functions from names to values.  hop: the headers that
\* ReverseProxy and its transport take out, add or write themselves, those the
\* client's Connection header names included; what becomes of them is left out.
\* A body is read as a document,
\* is blank, or is read in vain: too long, broken off or not JSON.
ASSUME ClientAssumption ==
    \A c \in Client :
        /\ DOMAIN c = {"path", "method", "host", "hop", "header", "query", "body"}
        /\ c.path \in Seq(Char)
        /\ DOMAIN c.body = {"kind", "tree"} /\ IsTree(c.body.tree)
        /\ c.body.kind \in {"blank", "json", "undecodable"}

ASSUME RequestAssumption ==
    /\ IsFiniteSet(Request)
    /\ LogRequests \in BOOLEAN /\ MaxReloads \in Nat /\ MaxRestarts \in Nat
    /\ ForwardedHost # GatewayRoute /\ Json # NoText

VARIABLES
    cfg, router,     \* of the gateway: the list that was loaded, in router order
    requestSeq,
    logStore,        \* of the gateway: a store, none, or one that is a nil pointer
    req,             \* of each request: its state in the gateway
    logged,          \* request_logs
    reloads, restarts

vars == <<cfg, router, requestSeq, logStore, req, logged, reloads, restarts>>

\* client: what was sent; now: the same as rewritten so far; cfg, router:
\* the snapshot; route, target, status, failed: the answer; id: its number;
\* upstream: what the upstream was sent; lost: its row was not written.
Fresh == [at |-> "idle", client |-> NoRequest, now |-> NoRequest, cfg |-> <<>>,
          router |-> <<>>, route |-> NoRoute, target |-> NoTarget, status |-> 0,
          failed |-> FALSE, id |-> 0, upstream |-> NoRequest, lost |-> FALSE]

TypeOK ==
    /\ cfg \in Configuration /\ router = RouterOrder(cfg)
    /\ requestSeq \in 0..Cardinality(Request) /\ logStore \in {"store", "none", "nil"}
    /\ \A q \in Request :
          /\ req[q].at \in {"idle", "picking", "rewriting", "forwarding",
                            "numbering", "inserting", "done", "dropped", "gone"}
          /\ req[q].at \in {"numbering", "inserting"} =>
                req[q].status \in {200, 302, 400, 404, 502}
    /\ \A r \in logged : r.request \in Request /\ r.id \in 1..Cardinality(Request)
    /\ reloads \in 0..MaxReloads /\ restarts \in 0..MaxRestarts

Init ==
    /\ cfg \in Configuration
    /\ router = RouterOrder(cfg)
    /\ requestSeq = 0
    /\ logStore \in {"store", "none", "nil"}
    /\ req = [q \in Request |-> Fresh]
    /\ logged = {}
    /\ reloads = 0 /\ restarts = 0

-----------------------------------------------------------------------------
(* rewrite.Apply: the rules in order, on the request itself *)

Unusable(r, rule) ==
    \/ rule.type \notin RuleType \/ rule.key = NoKey
    \/ rule.type = "setJsonBody" /\ (rule.key = BadPath \/ r.body.kind = "undecodable")

Put(fields, name, value) ==
    [f \in DOMAIN fields \cup {name} |-> IF f = name THEN value ELSE fields[f]]

\* Faulty variant: the body is not read.
DecodedAnew(body) == Empty

\* A body of blanks counts as {}.
Decoded(body) == IF body.kind = "blank" THEN Empty ELSE body.tree

Typed(header) == ContentType \in DOMAIN header /\ header[ContentType] # NoText

WithBody(r, path, value) ==
    [r EXCEPT !.body = [kind |-> "json", tree |-> Graft(Decoded(@), path, value)],
              !.header = IF Typed(@) THEN @ ELSE Put(@, ContentType, Json)]

WithPath(r, from, to) ==
    IF ~IsPrefix(from, r.path) THEN r
    ELSE LET p == to \o SubSeq(r.path, Len(from) + 1, Len(r.path))
         IN  [r EXCEPT !.path = IF p = <<>> THEN <<Slash>> ELSE p]

Rewritten(r, rule) ==
    CASE rule.type = "rewritePath" -> WithPath(r, rule.key, rule.value)
      [] rule.type = "setJsonBody" -> WithBody(r, rule.key, rule.value)
      [] rule.type = "setHeader"   -> [r EXCEPT !.header = Put(@, rule.key, rule.value)]
      [] OTHER                     -> [r EXCEPT !.query = Put(@, rule.key, rule.value)]

\* Faulty variant: a rule that cannot be applied is left out.
AppliedLeniently(s, rule) ==
    IF Unusable(s.now, rule) THEN s ELSE [s EXCEPT !.now = Rewritten(@, rule)]

\* The first rule that fails ends it; what came before stays done.
Applied(s, rule) ==
    IF ~s.ok \/ Unusable(s.now, rule) THEN [s EXCEPT !.ok = FALSE]
    ELSE [s EXCEPT !.now = Rewritten(@, rule)]

\* The request after the first n rules.
After(r, rules) ==
    LET after[n \in 0..Len(rules)] ==
          IF n = 0 THEN [now |-> r, ok |-> TRUE] ELSE Applied(after[n - 1], rules[n])
    IN  after

ApplyRules(r, rules) == After(r, rules)[Len(rules)]

-----------------------------------------------------------------------------
(* Requests *)

\* A nil *store.Store is not a nil requestLogStore.
AfterAnswer == IF LogRequests /\ logStore # "none" THEN "numbering" ELSE "done"

Update(q, r) == req' = [req EXCEPT ![q] = r]

\* Faulty variant: a status the handler does not set itself stays zero.
AnsweredUnset(r, status, failed) ==
    [r EXCEPT !.at = AfterAnswer, !.status = IF status = 200 THEN 0 ELSE status,
              !.failed = failed]

\* The answer is given: status, and whether there is an error to log.
Answered(r, status, failed) ==
    [r EXCEPT !.at = AfterAnswer, !.status = status, !.failed = failed]

\* snapshot and Match.
Arrive(q, c) ==
    /\ req[q].at = "idle"
    /\ LET route == Match(router, c)
           r == [Fresh EXCEPT !.client = c, !.now = c, !.cfg = cfg, !.router = router,
                              !.route = route]
       IN  Update(q, IF route = NoRoute THEN Answered(r, 404, FALSE)
                                        ELSE [r EXCEPT !.at = "picking"])
    /\ UNCHANGED <<cfg, router, requestSeq, logStore, logged, reloads, restarts>>

\* q goes on with target t; a redirect is answered with it.  302 stands for
\* the code the route gives.
Chosen(q, t) ==
    LET r == [req[q] EXCEPT !.target = t]
    IN  Update(q, CASE r.route.type = "redirect" -> Answered(r, 302, FALSE)
                    [] r.route.type # "redirect" /\ t \in BadUrl -> Answered(r, 502, TRUE)
                    [] OTHER -> [r EXCEPT !.at = "rewriting"])

\* Faulty variant: the route is looked up again when the target is picked.
PickLate(q) ==
    /\ req[q].at = "picking"
    /\ \E route \in {r \in ToSet(router) : r.name = req[q].route.name} :
          \E t \in route.targets : Chosen(q, t)
    /\ UNCHANGED <<cfg, router, requestSeq, logStore, logged, reloads, restarts>>

\* The pickers of the route that was matched.
Pick(q) ==
    /\ req[q].at = "picking"
    /\ \E t \in req[q].route.targets : Chosen(q, t)
    /\ UNCHANGED <<cfg, router, requestSeq, logStore, logged, reloads, restarts>>

Rewrite(q) ==
    /\ req[q].at = "rewriting"
    /\ LET s == ApplyRules(req[q].now, req[q].route.rewrite)
           r == [req[q] EXCEPT !.now = s.now]
       IN  Update(q, IF s.ok THEN [r EXCEPT !.at = "forwarding"] ELSE Answered(r, 400, TRUE))
    /\ UNCHANGED <<cfg, router, requestSeq, logStore, logged, reloads, restarts>>

\* The Director, run on what has been rewritten, and what ReverseProxy does
\* then: what the target t is sent.
Directed(r, route, t) ==
    LET told == Put(Put(r.header, ForwardedHost, r.host), GatewayRoute, route.name)
    IN  [r EXCEPT !.host = t, !.header = [name \in DOMAIN told \ r.hop |-> told[name]]]

Sent(q) == Directed(req[q].now, req[q].route, req[q].target)

\* The upstream's answer.  When it cannot be reached or its response cannot
\* be mapped, the ErrorHandler answers 502, and gives ServeHTTP no error text.
Forward(q, status) ==
    /\ req[q].at = "forwarding"
    /\ Update(q, Answered([req[q] EXCEPT !.upstream = Sent(q)], status, FALSE))
    /\ UNCHANGED <<cfg, router, requestSeq, logStore, logged, reloads, restarts>>

\* The upstream's body breaks off: ReverseProxy panics, logRequest is not reached.
Abort(q) ==
    /\ req[q].at = "forwarding"
    /\ Update(q, [req[q] EXCEPT !.upstream = Sent(q), !.at = "done", !.lost = TRUE])
    /\ UNCHANGED <<cfg, router, requestSeq, logStore, logged, reloads, restarts>>

\* Faulty variant: the number is read here and written with the row.
NextRequestIdLate(q) ==
    /\ req[q].at = "numbering"
    /\ Update(q, [req[q] EXCEPT !.id = Cardinality(logged) + 1, !.at = "inserting"])
    /\ UNCHANGED <<cfg, router, requestSeq, logStore, logged, reloads, restarts>>

NextRequestId(q) ==
    /\ req[q].at = "numbering"
    /\ requestSeq' = requestSeq + 1
    /\ Update(q, [req[q] EXCEPT !.id = requestSeq', !.at = "inserting"])
    /\ UNCHANGED <<cfg, router, logStore, logged, reloads, restarts>>

\* The row has a random id of its own: here the request, and the process's life.
Row(q) ==
    [request |-> q, life |-> restarts, id |-> req[q].id, route |-> req[q].route,
     target |-> req[q].target, path |-> req[q].now.path, status |-> req[q].status,
     failed |-> req[q].failed]

\* Faulty variant: only requests without an error are logged.
CreateRequestLogQuietly(q) ==
    /\ req[q].at = "inserting" /\ logStore = "store"
    /\ logged' = IF req[q].failed THEN logged ELSE logged \cup {Row(q)}
    /\ Update(q, [req[q] EXCEPT !.at = "done"])
    /\ UNCHANGED <<cfg, router, requestSeq, logStore, reloads, restarts>>

CreateRequestLog(q) ==
    /\ req[q].at = "inserting" /\ logStore = "store"
    /\ logged' = logged \cup {Row(q)}
    /\ Update(q, [req[q] EXCEPT !.at = "done"])
    /\ UNCHANGED <<cfg, router, requestSeq, logStore, reloads, restarts>>

\* The insert fails: a warning, and no row.
LogFails(q) ==
    /\ req[q].at = "inserting" /\ logStore = "store"
    /\ Update(q, [req[q] EXCEPT !.at = "done", !.lost = TRUE])
    /\ UNCHANGED <<cfg, router, requestSeq, logStore, logged, reloads, restarts>>

\* CreateRequestLog of a nil *Store: the handler panics, net/http drops the
\* connection and with it what was not sent of the answer.
LogPanics(q) ==
    /\ req[q].at = "inserting" /\ logStore = "nil"
    /\ Update(q, [req[q] EXCEPT !.at = "dropped", !.lost = TRUE])
    /\ UNCHANGED <<cfg, router, requestSeq, logStore, logged, reloads, restarts>>

\* Gateway.Reload, both under one lock: only a gateway with a store reloads.
Reload(c) ==
    /\ logStore = "store" /\ reloads < MaxReloads
    /\ reloads' = reloads + 1
    /\ cfg' = c /\ router' = RouterOrder(c)
    /\ UNCHANGED <<requestSeq, logStore, req, logged, restarts>>

\* The process dies with what it was doing and starts again on another load.
Restart(c) ==
    /\ restarts < MaxRestarts
    /\ restarts' = restarts + 1
    /\ cfg' = c /\ router' = RouterOrder(c)
    /\ requestSeq' = 0
    /\ req' = [q \in Request |->
                 IF req[q].at \in {"idle", "done", "dropped"} THEN req[q]
                 ELSE [req[q] EXCEPT !.at = "gone"]]
    /\ UNCHANGED <<logStore, logged, reloads>>

Next ==
    \/ \E q \in Request, c \in Client : Arrive(q, c)
    \/ \E q \in Request : Pick(q) \/ Rewrite(q) \/ Abort(q)
    \/ \E q \in Request, status \in {200, 502} : Forward(q, status)
    \/ \E q \in Request :
          NextRequestId(q) \/ CreateRequestLog(q) \/ LogFails(q) \/ LogPanics(q)
    \/ \E c \in Configuration : Reload(c) \/ Restart(c)

Spec == Init /\ [][Next]_vars

-----------------------------------------------------------------------------
(* Properties *)

\* A request is handled by the route a reader of the configuration expects:
\* the best of those listed when it came in, whatever the list's order, and
\* whatever is loaded while it is handled.
RoutedToBest ==
    \A q \in Request : req[q].at # "idle" =>
        IsBest(req[q].cfg, req[q].client, req[q].route)

\* Route, rules and target are of one configuration, the one the request
\* found: a target that a reload brings or removes is for later requests.
OneConfiguration ==
    \A q \in Request : req[q].target # NoTarget =>
        /\ req[q].route \in ToSet(req[q].cfg)
        /\ req[q].target \in req[q].route.targets

\* A header or query parameter is what the last of the first n rules for it
\* gave, and without such a rule what the client sent.
SetOrKept(rules, n, type, name, came, sent) ==
    LET setters == {i \in 1..n : rules[i].type = type /\ rules[i].key = name}
    IN  IF setters = {}
        THEN /\ name \in DOMAIN sent <=> name \in DOMAIN came
             /\ name \in DOMAIN came => sent[name] = came[name]
        ELSE /\ name \in DOMAIN sent
             /\ \E i \in setters : sent[name] = rules[i].value /\ \A j \in setters : j <= i

\* So is the content type, but that a rule on the body that comes later fills
\* it in when it is missing or empty.
TypeKept(rules, n, came, sent) ==
    LET setters == {i \in 1..n : rules[i].type = "setHeader" /\ rules[i].key = ContentType}
        filled == \E i \in 1..n : rules[i].type = "setJsonBody" /\ \A j \in setters : j < i
        empty == IF setters = {} THEN ~Typed(came)
                 ELSE \E i \in setters : rules[i].value = NoText /\ \A j \in setters : j <= i
    IN  IF filled /\ empty
        THEN Typed(sent) /\ sent[ContentType] = Json
        ELSE SetOrKept(rules, n, "setHeader", ContentType, came, sent)

\* What ReverseProxy, its transport and the Director write whatever the rules say.
Overwritten(came) == came.hop \cup {ForwardedHost, GatewayRoute}

\* What came, with the rules of the route, is what is sent to the target.
Whole(came, sent, route, target) ==
    LET rules == route.rewrite
        n == Len(rules)
        names(c, s) == DOMAIN c \cup DOMAIN s \cup {rules[i].key : i \in 1..n}
    IN  /\ \A i \in 1..n : ~Unusable(came, rules[i])
        /\ \A name \in names(came.header, sent.header) \ Overwritten(came) :
              IF name = ContentType THEN TypeKept(rules, n, came.header, sent.header)
              ELSE SetOrKept(rules, n, "setHeader", name, came.header, sent.header)
        /\ \A name \in names(came.query, sent.query) :
              SetOrKept(rules, n, "setQuery", name, came.query, sent.query)
        /\ (\A i \in 1..n : rules[i].type # "rewritePath") => sent.path = came.path
        /\ sent.method = came.method /\ sent.host = target
        /\ ForwardedHost \notin came.hop => sent.header[ForwardedHost] = came.host
        /\ GatewayRoute \notin came.hop => sent.header[GatewayRoute] = route.name

\* An upstream never sees a request rewritten in part, or one that a rule does
\* not apply to: it gets each header and query parameter as the last rule for
\* it has set it, and the others as the client sent them; the gateway's two
\* headers say what it was sent to and which route took it, whatever the
\* client or a rule put there.
ForwardedWhole ==
    \A q \in Request : req[q].upstream # NoRequest =>
        Whole(req[q].client, req[q].upstream, req[q].route, req[q].target)

\* Setting a value at p may change what is at x: one is on the way to the
\* other, or they part at a node that p makes a map and x an array.
Touches(p, x) ==
    \/ IsPrefix(p, x) \/ IsPrefix(x, p)
    \/ \E n \in 1..Len(p) :
          /\ n <= Len(x) /\ SubSeq(p, 1, n - 1) = SubSeq(x, 1, n - 1)
          /\ NodeFor(p[n]) # NodeFor(x[n])

\* What came as a body, with the rules, is what is sent.
BodyMade(came, sent, rules) ==
    LET setters == {i \in DOMAIN rules : rules[i].type = "setJsonBody"}
        Free(x) == \A i \in setters : ~Touches(rules[i].key, x)
        old == Decoded(came)
    IN  IF setters = {} THEN sent = came
        ELSE /\ sent.kind = "json"
             /\ \A i \in setters :
                   (\A j \in setters : j > i => ~Touches(rules[j].key, rules[i].key)) =>
                       Below(sent.tree, rules[i].key) = rules[i].value
             /\ \A x \in DOMAIN old :
                   Free(x) => x \in DOMAIN sent.tree /\ sent.tree[x] = old[x]
             /\ \A x \in DOMAIN sent.tree :
                   Free(x) => \/ sent.tree[x] = Null
                              \/ x \in DOMAIN old /\ sent.tree[x] = old[x]

\* The body an upstream gets has every value that a rule of the route set and no
\* later rule touches; the client's places that no rule touches are there as
\* they came, and there is nothing else but what fills an array up.
BodyWhole ==
    \A q \in Request : req[q].upstream # NoRequest =>
        BodyMade(req[q].client.body, req[q].upstream.body, req[q].route.rewrite)

\* With a store a request that was answered has one row, and it is its own; the
\* only ones without are those the upstream broke off or whose insert failed.
OneRowPerAnswer ==
    \A q \in Request :
        LET rows == {r \in logged : r.request = q}
        IN  IF req[q].at = "done" /\ LogRequests /\ logStore = "store" /\ ~req[q].lost
            THEN \E r \in rows : /\ rows = {r} /\ r.id = req[q].id
                                  /\ r.route = req[q].route /\ r.target = req[q].target
            ELSE rows = {}

\* Requests that overlap get different numbers, until the process is
\* restarted and counts from one again.
NumbersUnique ==
    \A r, s \in logged : r.life = s.life /\ r.id = s.id => r = s
=============================================================================

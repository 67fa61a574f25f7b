------------------------ MODULE GatewayRequest_proofs ------------------------
(***************************************************************************)
(* Requests in parallel, over any configurations, reloads and restarts:    *)
(* each goes to the best route of the configuration it found, is forwarded *)
(* rewritten whole or not at all, and has one row of its own in the log.   *)
(***************************************************************************)
EXTENDS GatewayRequest, FiniteSetTheorems, TLAPS

-----------------------------------------------------------------------------
(* Matching *)

\* A set of natural numbers has a least one: the induction the lemmas below use.
LEMMA NatLeast ==
    ASSUME NEW T, T \subseteq Nat, T # {}
    PROVE  \E n \in T : \A m \in T : n <= m
<1>1. IsWellFoundedOn(OpToRel(<, Nat), Nat)
  BY NatLessThanWellFounded
<1>2. PICK x \in T : \A y \in T : ~(<<y, x>> \in OpToRel(<, Nat))
  BY <1>1, WFMin
<1>3. ASSUME NEW y \in T, y < x PROVE FALSE
  <2>1. x \in Nat /\ y \in Nat
    OBVIOUS
  <2>2. <<y, x>> \in OpToRel(<, Nat)
    BY <1>3, <2>1 DEF OpToRel
  <2> QED BY <2>2, <1>2
<1>4. \A y \in T : ~(y < x)
  BY <1>3
<1> QED BY ONLY <1>4, T \subseteq Nat, x \in T

LEMMA MinIs ==
    ASSUME NEW T, T \subseteq Nat, T # {}
    PROVE  Min(T) \in T /\ \A m \in T : Min(T) <= m
BY NatLeast DEF Min

\* A prefix, character by character.
LEMMA PrefixIs ==
    ASSUME NEW s \in Seq(Char), NEW t \in Seq(Char)
    PROVE  IsPrefix(s, t) <=> Len(s) <= Len(t) /\ \A i \in 1..Len(s) : s[i] = t[i]
BY DEF IsPrefix

\* The code takes a path exactly when a reader of the pattern says so.
LEMMA CoversIsMatch ==
    ASSUME NEW pattern \in Pattern, NEW path \in Seq(Char)
    PROVE  PathMatches(pattern, path) <=> Covers(pattern, path)
<1> DEFINE text == pattern.text
           n == Len(text)
           below == Append(text, Slash)
           starts == n <= Len(path) /\ SubSeq(path, 1, n) = text
<1>1. text \in Seq(Char) /\ below \in Seq(Char) /\ n \in Nat /\ Len(below) = n + 1
  BY MatchingAssumption DEF Pattern
<1>2. (\A i \in 1..n : below[i] = text[i]) /\ below[n + 1] = Slash
  BY <1>1
<1>3. starts <=> n <= Len(path) /\ \A i \in 1..n : text[i] = path[i]
  <2>1. ASSUME n <= Len(path)
        PROVE SubSeq(path, 1, n) \in Seq(Char) /\ Len(SubSeq(path, 1, n)) = n
              /\ \A i \in 1..n : SubSeq(path, 1, n)[i] = path[i]
    BY <1>1, <2>1
  <2> QED BY <1>1, <2>1
<1>4. IsPrefix(text, path) <=> starts
  BY <1>1, <1>3, PrefixIs
<1>5. IsPrefix(below, path) <=>
        n + 1 <= Len(path) /\ (\A i \in 1..n : text[i] = path[i]) /\ path[n + 1] = Slash
  <2>1. IsPrefix(below, path) <=>
          n + 1 <= Len(path) /\ \A i \in 1..(n + 1) : below[i] = path[i]
    BY <1>1, PrefixIs
  <2>2. 1..(n + 1) = 1..n \cup {n + 1}
    BY <1>1
  <2> HIDE DEF below, n
  <2> QED BY <1>2, <2>1, <2>2
<1>6. path = text <=> n = Len(path) /\ \A i \in 1..n : text[i] = path[i]
  BY <1>1
<1>7. path = text \/ IsPrefix(below, path) <=> starts /\ (n < Len(path) => path[n + 1] = Slash)
  <2>1. Len(path) \in Nat
    OBVIOUS
  <2> QED BY <1>1, <1>3, <1>5, <1>6, <2>1
<1>8. pattern.kind \in PatternKind
  BY DEF Pattern
<1> QED BY <1>4, <1>7, <1>8 DEF PathMatches, Covers, PatternKind

\* A list of routes.
Listing(c) == /\ c \in Seq(ToSet(c))
              /\ \A i \in DOMAIN c : c[i].priority \in Int /\ c[i].pattern \in Pattern

\* p sorts the first k of the list.
Sorts(p, k, listed) ==
    /\ p \in [1..k -> 1..k]
    /\ \A i \in 1..k : \E n \in 1..k : p[n] = i
    /\ \A m, n \in 1..k : m < n => Before(listed, p[m], p[n])

\* One route more: it goes before the first one of lower priority.
LEMMA Inserted ==
    ASSUME NEW listed, Listing(listed), NEW k \in Nat, k + 1 <= Len(listed),
           NEW p, Sorts(p, k, listed)
    PROVE  \E q : Sorts(q, k + 1, listed)
<1> DEFINE prio(i) == listed[i].priority
           lower == {n \in 1..k : prio(p[n]) < prio(k + 1)} \cup {k + 1}
           c == Min(lower)
           q == [n \in 1..(k + 1) |-> IF n < c THEN p[n] ELSE IF n = c THEN k + 1 ELSE p[n - 1]]
<1>1. Len(listed) \in Nat /\ DOMAIN listed = 1..Len(listed)
  BY DEF Listing
<1>2. \A n \in 1..k : p[n] \in 1..k /\ p[n] \in 1..(k + 1)
  <2>1. p \in [1..k -> 1..k]
    BY DEF Sorts
  <2>2. \A n \in 1..k : p[n] \in 1..k
    BY <2>1
  <2>3. 1..k \subseteq 1..(k + 1)
    OBVIOUS
  <2> QED BY <2>2, <2>3
<1>3. \A i \in 1..(k + 1) : prio(i) \in Int
  BY <1>1 DEF Listing
<1>4. c \in lower /\ \A n \in lower : c <= n
  <2>1. lower \subseteq Nat /\ lower # {}
    OBVIOUS
  <2> HIDE DEF lower
  <2> QED BY <2>1, MinIs
<1>5. c \in 1..(k + 1) /\ (\A n \in 1..k : n < c => prio(p[n]) >= prio(k + 1))
      /\ (c # k + 1 => prio(p[c]) < prio(k + 1))
  <2>1. \A n \in 1..k : p[n] \in 1..(k + 1)
    BY DEF Sorts
  <2>2. c \in 1..(k + 1) /\ c \in Int
    <3>1. lower \subseteq 1..(k + 1) /\ 1..(k + 1) \subseteq Int
      OBVIOUS
    <3> HIDE DEF lower, c
    <3> QED BY <1>4, <3>1
  <2>3. ASSUME NEW n \in 1..k, n < c PROVE prio(p[n]) >= prio(k + 1)
    <3>1. n \notin lower
      <4> HIDE DEF lower, c
      <4> QED BY <1>4, <2>2, <2>3
    <3>2. prio(p[n]) \in Int /\ prio(k + 1) \in Int
      BY <1>3, <2>1
    <3> HIDE DEF prio, c
    <3> QED BY <3>1, <3>2
  <2> QED BY <1>4, <2>2, <2>3
<1>6. \A m, n \in 1..k : m < n => prio(p[m]) >= prio(p[n])
  <2> SUFFICES ASSUME NEW m \in 1..k, NEW n \in 1..k, m < n
               PROVE  prio(p[m]) >= prio(p[n])
    OBVIOUS
  <2>1. p[m] \in 1..(k + 1) /\ p[n] \in 1..(k + 1) /\ Before(listed, p[m], p[n])
    BY <1>2 DEF Sorts
  <2>2. prio(p[m]) \in Int /\ prio(p[n]) \in Int
    BY <1>3, <2>1
  <2> QED BY <2>1, <2>2 DEF Before
<1> HIDE DEF c
<1>7. \A n \in 1..k : c <= n => prio(p[n]) < prio(k + 1)
  <2> SUFFICES ASSUME NEW n \in 1..k, c <= n PROVE prio(p[n]) < prio(k + 1)
    OBVIOUS
  <2>1. c \in 1..k /\ c # k + 1
    BY <1>5
  <2>2. prio(p[n]) \in Int /\ prio(p[c]) \in Int /\ prio(k + 1) \in Int
    <3>1. p[n] \in 1..(k + 1) /\ p[c] \in 1..(k + 1) /\ k + 1 \in 1..(k + 1)
      BY <1>2, <2>1
    <3> HIDE DEF prio
    <3> QED BY <1>3, <3>1
  <2>3. c = n \/ prio(p[c]) >= prio(p[n])
    BY <1>6, <2>1
  <2> HIDE DEF prio
  <2> QED BY <1>5, <2>1, <2>2, <2>3
<1>8. \A n \in 1..(k + 1) : q[n] \in 1..(k + 1)
  <2> SUFFICES ASSUME NEW n \in 1..(k + 1) PROVE q[n] \in 1..(k + 1)
    OBVIOUS
  <2>1. c \in 1..(k + 1) /\ \A m \in 1..k : p[m] \in 1..(k + 1)
    BY <1>5 DEF Sorts
  <2>2. (n < c => n \in 1..k) /\ (n > c => n - 1 \in 1..k)
    BY <2>1
  <2> QED BY <2>1, <2>2
<1>9. ASSUME NEW i \in 1..(k + 1) PROVE \E n \in 1..(k + 1) : q[n] = i
  <2>1. CASE i = k + 1
    BY <1>5, <2>1
  <2>2. CASE i \in 1..k
    <3>1. PICK n \in 1..k : p[n] = i
      BY <2>2 DEF Sorts
    <3>2. CASE n < c
      BY <1>5, <3>1, <3>2
    <3>3. CASE ~(n < c)
      <4>1. n + 1 \in 1..(k + 1) /\ ~(n + 1 < c) /\ n + 1 # c /\ (n + 1) - 1 = n
        BY <1>5, <3>3
      <4> QED BY <3>1, <4>1
    <3> QED BY <3>2, <3>3
  <2> QED BY <2>1, <2>2
<1>10. ASSUME NEW m \in 1..(k + 1), NEW n \in 1..(k + 1), m < n
      PROVE Before(listed, q[m], q[n])
  <2>1. CASE n < c \/ m > c \/ (m < c /\ n > c)
    <3> DEFINE x == IF m < c THEN m ELSE m - 1
               y == IF n < c THEN n ELSE n - 1
    <3>1. x \in 1..k /\ y \in 1..k /\ x < y /\ q[m] = p[x] /\ q[n] = p[y]
      BY <1>5, <1>10, <2>1
    <3> QED BY <3>1 DEF Sorts
  <2>2. CASE n = c
    <3>1. m \in 1..k /\ m < c /\ q[m] = p[m] /\ q[n] = k + 1
      BY <1>5, <1>10, <2>2
    <3>2. prio(p[m]) >= prio(k + 1) /\ p[m] \in 1..k
      BY <1>5, <3>1 DEF Sorts
    <3>3. p[m] < k + 1 /\ prio(p[m]) \in Int /\ prio(k + 1) \in Int
      BY <1>3, <3>2
    <3> QED BY <3>1, <3>2, <3>3 DEF Before
  <2>3. CASE m = c
    <3>1. n - 1 \in 1..k /\ c <= n - 1 /\ q[m] = k + 1 /\ q[n] = p[n - 1]
      BY <1>5, <1>10, <2>3
    <3>2. prio(p[n - 1]) < prio(k + 1) /\ p[n - 1] \in 1..k
      BY <1>7, <3>1 DEF Sorts
    <3>3. prio(p[n - 1]) \in Int /\ prio(k + 1) \in Int
      BY <1>3, <3>2
    <3> QED BY <3>1, <3>2, <3>3 DEF Before
  <2> QED BY <1>5, <1>10, <2>1, <2>2, <2>3
<1>11. q \in [1..(k + 1) -> 1..(k + 1)]
  BY <1>8
<1> HIDE DEF q
<1> QED BY <1>9, <1>10, <1>11 DEF Sorts

\* Every list can be sorted: a list of least length that could not would be one
\* route longer than one that can.
LEMMA Sortable ==
    ASSUME NEW listed, Listing(listed)
    PROVE  \E p \in [DOMAIN listed -> DOMAIN listed] : IsOrder(p, listed)
<1> DEFINE L == Len(listed)
           unsorted == {k \in 0..L : ~ \E p : Sorts(p, k, listed)}
<1>1. L \in Nat /\ DOMAIN listed = 1..L
  BY DEF Listing
<1>2. unsorted = {}
  <2> SUFFICES ASSUME unsorted # {} PROVE FALSE
    OBVIOUS
  <2>1. unsorted \subseteq Nat
    BY <1>1
  <2>2. PICK k \in unsorted : \A m \in unsorted : k <= m
    BY <2>1, NatLeast
  <2>3. k \in 0..L /\ ~ \E p : Sorts(p, k, listed)
    OBVIOUS
  <2>4. k # 0
    <3>1. Sorts([n \in 1..0 |-> n], 0, listed)
      BY DEF Sorts
    <3> QED BY <2>3, <3>1
  <2>5. k - 1 \in 0..L /\ k - 1 \in Nat /\ (k - 1) + 1 = k /\ k <= L
    BY <1>1, <2>3, <2>4
  <2>6. PICK p : Sorts(p, k - 1, listed)
    BY <2>2, <2>5
  <2>7. \E q : Sorts(q, (k - 1) + 1, listed)
    BY <2>5, <2>6, Inserted
  <2> QED BY <2>3, <2>5, <2>7
<1>3. PICK p : Sorts(p, L, listed)
  BY <1>1, <1>2
<1> HIDE DEF L
<1> QED BY <1>1, <1>3 DEF Sorts, IsOrder, Surjection

\* The router has every route of the list, in order.
LEMMA RouterIs ==
    ASSUME NEW listed, Listing(listed)
    PROVE  /\ DOMAIN RouterOrder(listed) = DOMAIN listed
           /\ \E p \in [DOMAIN listed -> DOMAIN listed] :
                /\ IsOrder(p, listed)
                /\ \A n \in DOMAIN listed : RouterOrder(listed)[n] = listed[p[n]]
<1> DEFINE order == CHOOSE p \in [DOMAIN listed -> DOMAIN listed] : IsOrder(p, listed)
<1>1. order \in [DOMAIN listed -> DOMAIN listed] /\ IsOrder(order, listed)
  BY Sortable
<1>2. RouterOrder(listed) = [n \in DOMAIN listed |-> listed[order[n]]]
  BY DEF RouterOrder
<1> HIDE DEF order
<1> QED BY <1>1, <1>2

\* The first route of the router that takes a request is the best of the list.
LEMMA MatchIsBest ==
    ASSUME NEW listed, Listing(listed), NEW r, r.path \in Seq(Char)
    PROVE  /\ IsBest(listed, r, Match(RouterOrder(listed), r))
           /\ \/ Match(RouterOrder(listed), r) = NoRoute
              \/ \E i \in DOMAIN listed : Match(RouterOrder(listed), r) = listed[i]
<1> DEFINE router0 == RouterOrder(listed)
           D == DOMAIN listed
           Takes(x) == /\ Covers(x.pattern, r.path)
                       /\ x.host \in {AnyHost, r.host}
                       /\ x.methods = {} \/ r.method \in x.methods
           takers == {i \in D : Takes(listed[i])}
           taking == {n \in DOMAIN router0 : Matches(router0[n], r)}
           route0 == Match(router0, r)
<1>1. D = 1..Len(listed) /\ Len(listed) \in Nat /\ \A i \in D : listed[i].priority \in Int
  BY DEF Listing
<1>2. \A i \in D : Matches(listed[i], r) <=> Takes(listed[i])
  BY CoversIsMatch DEF Listing, Matches
<1>3. DOMAIN router0 = D
  BY RouterIs
<1>4. PICK p \in [D -> D] : IsOrder(p, listed) /\ \A n \in D : router0[n] = listed[p[n]]
  BY RouterIs
<1> HIDE DEF Takes
<1>5. taking = {n \in D : p[n] \in takers}
  <2>1. \A n \in D : p[n] \in D
    BY <1>4
  <2> QED BY <1>2, <1>3, <1>4, <2>1
<1>6. taking \subseteq Nat
  BY <1>1, <1>5
<1>7. \A i \in D : \E n \in D : p[n] = i
  BY <1>4 DEF IsOrder, Surjection
<1>8. taking = {} <=> takers = {}
  BY <1>5, <1>7
<1>9. route0 = IF taking = {} THEN NoRoute ELSE router0[Min(taking)]
  BY DEF Match
<1>10. IsBest(listed, r, route0) <=>
         IF takers = {} THEN route0 = NoRoute
         ELSE \E i \in takers :
                /\ route0 = listed[i]
                /\ \A j \in takers \ {i} :
                      \/ listed[j].priority < listed[i].priority
                      \/ listed[j].priority = listed[i].priority /\ i < j
  BY DEF IsBest, Takes
<1> HIDE DEF taking, route0, takers
<1>11. CASE taking = {}
  BY <1>8, <1>9, <1>10, <1>11 DEF route0
<1>12. CASE taking # {}
  <2> DEFINE n == Min(taking)
             i == p[n]
  <2>1. n \in taking /\ \A m \in taking : n <= m
    BY <1>6, <1>12, MinIs
  <2> HIDE DEF n
  <2>2. n \in D /\ i \in takers /\ i \in D /\ route0 = listed[i]
    BY <1>4, <1>5, <1>9, <1>12, <2>1 DEF n
  <2>3. ASSUME NEW j \in takers \ {i}
        PROVE  \/ listed[j].priority < listed[i].priority
               \/ listed[j].priority = listed[i].priority /\ i < j
    <3>1. j \in D
      BY DEF takers
    <3>2. PICK m \in D : p[m] = j
      BY <1>7, <3>1
    <3>3. m \in taking /\ m # n
      BY <1>5, <3>2
    <3>4. n < m
      <4>1. n \in Int /\ m \in Int /\ n <= m
        BY <1>6, <2>1, <3>3
      <4> QED BY <3>3, <4>1
    <3>5. Before(listed, i, j)
      BY <1>4, <2>2, <3>2, <3>4 DEF IsOrder
    <3> QED BY <1>1, <2>2, <3>1, <3>5 DEF Before
  <2> HIDE DEF i
  <2> QED BY <1>8, <1>10, <1>12, <2>2, <2>3 DEF route0
<1> QED BY <1>11, <1>12

-----------------------------------------------------------------------------
(* Rewriting *)

Started(r) == [now |-> r, ok |-> TRUE]

\* f is After, as far as the first m rules.
Applies(f, m, r, rules) ==
    f = [n \in 0..m |-> IF n = 0 THEN Started(r) ELSE Applied(f[n - 1], rules[n])]

\* The rules can be applied one after the other: After is what its definition
\* says.
LEMMA AfterIs ==
    ASSUME NEW r, NEW rules, Len(rules) \in Nat
    PROVE  /\ After(r, rules)[0] = Started(r)
           /\ \A n \in 1..Len(rules) :
                After(r, rules)[n] = Applied(After(r, rules)[n - 1], rules[n])
<1> DEFINE L == Len(rules)
           undone == {m \in 0..L : ~ \E f : Applies(f, m, r, rules)}
<1>1. undone = {}
  <2> SUFFICES ASSUME undone # {} PROVE FALSE
    OBVIOUS
  <2>1. PICK m \in undone : \A k \in undone : m <= k
    <3>1. undone \subseteq Nat
      OBVIOUS
    <3> HIDE DEF undone
    <3> QED BY <3>1, NatLeast
  <2>2. m \in 0..L /\ ~ \E f : Applies(f, m, r, rules)
    OBVIOUS
  <2>3. m # 0
    <3> DEFINE f == [n \in 0..0 |-> Started(r)]
    <3>1. Applies(f, 0, r, rules)
      BY DEF Applies
    <3> QED BY <2>2, <3>1
  <2>4. m - 1 \in 0..L /\ m - 1 \notin undone
    BY <2>1, <2>2, <2>3
  <2>5. PICK f : Applies(f, m - 1, r, rules)
    BY <2>4
  <2> DEFINE g == [n \in 0..m |-> IF n = m THEN Applied(f[m - 1], rules[m]) ELSE f[n]]
  <2>6. \A n \in 0..(m - 1) :
          f[n] = IF n = 0 THEN Started(r) ELSE Applied(f[n - 1], rules[n])
    BY <2>5 DEF Applies
  <2>7. \A n \in 0..m : g[n] = IF n = 0 THEN Started(r) ELSE Applied(g[n - 1], rules[n])
    <3> SUFFICES ASSUME NEW n \in 0..m
                 PROVE  g[n] = IF n = 0 THEN Started(r) ELSE Applied(g[n - 1], rules[n])
      OBVIOUS
    <3>1. CASE n = m
      <4>1. m - 1 \in 0..m /\ m - 1 # m /\ m \in 0..m
        BY <2>2, <2>3
      <4> QED BY <2>3, <3>1, <4>1
    <3>2. CASE n # m
      <4>1. n \in 0..(m - 1) /\ (n # 0 => n - 1 \in 0..m /\ n - 1 # m)
        BY <2>2, <3>2
      <4> QED BY <2>6, <3>2, <4>1
    <3> QED BY <3>1, <3>2
  <2>8. Applies(g, m, r, rules)
    <3>1. g = [n \in 0..m |-> g[n]]
      OBVIOUS
    <3> HIDE DEF g
    <3> QED BY <2>7, <3>1 DEF Applies
  <2> QED BY <2>2, <2>8
<1>2. \E f : Applies(f, L, r, rules)
  BY <1>1
<1>3. Applies(After(r, rules), L, r, rules)
  BY <1>2 DEF After, Applies, Started
<1> HIDE DEF L
<1>4. \A n \in 0..L : After(r, rules)[n] = IF n = 0 THEN Started(r)
                        ELSE Applied(After(r, rules)[n - 1], rules[n])
  BY <1>3 DEF Applies
<1> QED BY <1>4 DEF L

USE RequestAssumption DEF RequestAssumption

HasParts(r) ==
    {"path", "method", "host", "hop", "header", "query", "body"} \subseteq DOMAIN r

\* What a rule makes of each part of a request.
LEMMA RewrittenIs ==
    ASSUME NEW r, HasParts(r), NEW rule, ~Unusable(r, rule)
    PROVE  LET x == Rewritten(r, rule)
           IN  /\ HasParts(x) /\ x.method = r.method /\ x.host = r.host /\ x.hop = r.hop
               /\ rule.type # "rewritePath" => x.path = r.path
               /\ x.query = IF rule.type = "setQuery" THEN Put(r.query, rule.key, rule.value)
                            ELSE r.query
               /\ x.header = IF rule.type = "setHeader" THEN Put(r.header, rule.key, rule.value)
                             ELSE IF rule.type = "setJsonBody" /\ ~Typed(r.header)
                             THEN Put(r.header, ContentType, Json) ELSE r.header
               /\ x.body = IF rule.type = "setJsonBody"
                           THEN [kind |-> "json",
                                 tree |-> Graft(Decoded(r.body), rule.key, rule.value)]
                           ELSE r.body
<1> DEFINE path == LET p == rule.value \o SubSeq(r.path, Len(rule.key) + 1, Len(r.path))
                   IN  IF p = <<>> THEN <<Slash>> ELSE p
           moved == [r EXCEPT !.path = path]
           tree == [kind |-> "json", tree |-> Graft(Decoded(r.body), rule.key, rule.value)]
           head == IF Typed(r.header) THEN r.header ELSE Put(r.header, ContentType, Json)
           filled == [r EXCEPT !.body = tree, !.header = head]
           headed == [r EXCEPT !.header = Put(r.header, rule.key, rule.value)]
           asked == [r EXCEPT !.query = Put(r.query, rule.key, rule.value)]
<1>1. rule.type \in {"setHeader", "setQuery", "setJsonBody", "rewritePath"}
  BY DEF Unusable, RuleType
<1>2. CASE rule.type = "rewritePath"
  <2>1. Rewritten(r, rule) = r \/ Rewritten(r, rule) = moved
    BY <1>2 DEF Rewritten, WithPath
  <2> HIDE DEF path
  <2>2. /\ HasParts(moved) /\ moved.method = r.method /\ moved.host = r.host /\ moved.hop = r.hop
        /\ moved.query = r.query /\ moved.header = r.header /\ moved.body = r.body
    BY DEF HasParts
  <2> HIDE DEF moved
  <2> QED BY <1>2, <2>1, <2>2
<1>3. CASE rule.type = "setJsonBody"
  <2>1. Rewritten(r, rule) = filled
    BY <1>3 DEF Rewritten, WithBody
  <2> HIDE DEF tree, head
  <2>2. /\ HasParts(filled) /\ filled.method = r.method /\ filled.host = r.host
        /\ filled.hop = r.hop /\ filled.path = r.path /\ filled.query = r.query
        /\ filled.header = head /\ filled.body = tree
    BY DEF HasParts
  <2> HIDE DEF filled
  <2> QED BY <1>3, <2>1, <2>2 DEF tree, head
<1>4. CASE rule.type = "setHeader"
  <2>1. Rewritten(r, rule) = headed
    BY <1>4 DEF Rewritten
  <2>2. /\ HasParts(headed) /\ headed.method = r.method /\ headed.host = r.host
        /\ headed.hop = r.hop /\ headed.path = r.path /\ headed.query = r.query
        /\ headed.header = Put(r.header, rule.key, rule.value) /\ headed.body = r.body
    BY DEF HasParts
  <2> HIDE DEF headed
  <2> QED BY <1>4, <2>1, <2>2
<1>5. CASE rule.type = "setQuery"
  <2>1. Rewritten(r, rule) = asked
    BY <1>5 DEF Rewritten
  <2>2. /\ HasParts(asked) /\ asked.method = r.method /\ asked.host = r.host
        /\ asked.hop = r.hop /\ asked.path = r.path /\ asked.header = r.header
        /\ asked.query = Put(r.query, rule.key, rule.value) /\ asked.body = r.body
    BY DEF HasParts
  <2> HIDE DEF asked
  <2> QED BY <1>5, <2>1, <2>2
<1> QED BY <1>1, <1>2, <1>3, <1>4, <1>5

LEMMA PutIs ==
    ASSUME NEW fields, NEW name, NEW value
    PROVE  LET new == Put(fields, name, value)
           IN  /\ name \in DOMAIN new /\ new[name] = value
               /\ \A other : other # name =>
                     /\ other \in DOMAIN new <=> other \in DOMAIN fields
                     /\ other \in DOMAIN fields => new[other] = fields[other]
BY DEF Put

\* Two sets of fields have the same at a name.
Agree(name, old, new) ==
    /\ name \in DOMAIN new <=> name \in DOMAIN old
    /\ name \in DOMAIN old => new[name] = old[name]

\* The first n of the rules that set a name.
SettersTo(rules, n, type, name) == {i \in 1..n : rules[i].type = type /\ rules[i].key = name}

LEMMA OneMore ==
    ASSUME NEW n \in Nat, NEW rules, NEW type, NEW name
    PROVE  /\ \A i \in SettersTo(rules, n, type, name) : i \in Int /\ i <= n
           /\ rules[n + 1].type = type /\ rules[n + 1].key = name =>
                SettersTo(rules, n + 1, type, name) = SettersTo(rules, n, type, name) \cup {n + 1}
           /\ ~(rules[n + 1].type = type /\ rules[n + 1].key = name) =>
                SettersTo(rules, n + 1, type, name) = SettersTo(rules, n, type, name)
<1>1. 1..(n + 1) = 1..n \cup {n + 1} /\ n + 1 \notin 1..n
  OBVIOUS
<1> QED BY <1>1 DEF SettersTo

\* The next rule is not for this name.
LEMMA KeptStep ==
    ASSUME NEW n \in Nat, NEW rules, NEW type, NEW name, NEW came, NEW old, NEW new,
           SetOrKept(rules, n, type, name, came, old), Agree(name, old, new),
           ~(rules[n + 1].type = type /\ rules[n + 1].key = name)
    PROVE  SetOrKept(rules, n + 1, type, name, came, new)
<1> DEFINE setters == SettersTo(rules, n, type, name)
<1>1. SettersTo(rules, n + 1, type, name) = setters
  BY OneMore
<1>2. SetOrKept(rules, n, type, name, came, old) <=>
        IF setters = {}
        THEN /\ name \in DOMAIN old <=> name \in DOMAIN came
             /\ name \in DOMAIN came => old[name] = came[name]
        ELSE /\ name \in DOMAIN old
             /\ \E i \in setters : old[name] = rules[i].value /\ \A j \in setters : j <= i
  BY DEF SetOrKept, SettersTo
<1>3. SetOrKept(rules, n + 1, type, name, came, new) <=>
        IF setters = {}
        THEN /\ name \in DOMAIN new <=> name \in DOMAIN came
             /\ name \in DOMAIN came => new[name] = came[name]
        ELSE /\ name \in DOMAIN new
             /\ \E i \in setters : new[name] = rules[i].value /\ \A j \in setters : j <= i
  BY <1>1 DEF SetOrKept, SettersTo
<1> HIDE DEF setters
<1> QED BY <1>2, <1>3 DEF Agree

\* The next rule sets this name.
LEMMA SetStep ==
    ASSUME NEW n \in Nat, NEW rules, NEW type, NEW name, NEW came, NEW new,
           rules[n + 1].type = type, rules[n + 1].key = name,
           name \in DOMAIN new, new[name] = rules[n + 1].value
    PROVE  SetOrKept(rules, n + 1, type, name, came, new)
<1> DEFINE more == SettersTo(rules, n + 1, type, name)
<1>1. n + 1 \in more /\ \A j \in more : j <= n + 1
  BY DEF SettersTo
<1>2. SetOrKept(rules, n + 1, type, name, came, new) <=>
        IF more = {}
        THEN /\ name \in DOMAIN new <=> name \in DOMAIN came
             /\ name \in DOMAIN came => new[name] = came[name]
        ELSE /\ name \in DOMAIN new
             /\ \E i \in more : new[name] = rules[i].value /\ \A j \in more : j <= i
  BY DEF SetOrKept, SettersTo
<1> HIDE DEF more
<1> QED BY <1>1, <1>2

\* Without rules everything is kept.
LEMMA NothingSet ==
    ASSUME NEW rules, NEW type, NEW name, NEW came
    PROVE  SetOrKept(rules, 0, type, name, came, came)
BY DEF SetOrKept

\* A rule on the body has come after those for the content type, and they or
\* the client have left it empty.
FilledTo(rules, n) ==
    \E i \in 1..n : /\ rules[i].type = "setJsonBody"
                    /\ \A j \in SettersTo(rules, n, "setHeader", ContentType) : j < i
EmptyTo(rules, n, came) ==
    LET setters == SettersTo(rules, n, "setHeader", ContentType)
    IN  IF setters = {} THEN ~Typed(came)
        ELSE \E i \in setters : rules[i].value = NoText /\ \A j \in setters : j <= i

LEMMA TypeKeptIs ==
    ASSUME NEW rules, NEW n, NEW came, NEW sent
    PROVE  TypeKept(rules, n, came, sent) <=>
             IF FilledTo(rules, n) /\ EmptyTo(rules, n, came)
             THEN Typed(sent) /\ sent[ContentType] = Json
             ELSE SetOrKept(rules, n, "setHeader", ContentType, came, sent)
BY DEF TypeKept, FilledTo, EmptyTo, SettersTo

\* The content type that the rules for it leave is empty exactly when it is.
LEMMA EmptyIs ==
    ASSUME NEW rules, NEW n \in Nat, NEW came, NEW sent,
           SetOrKept(rules, n, "setHeader", ContentType, came, sent)
    PROVE  EmptyTo(rules, n, came) <=> ~Typed(sent)
<1> DEFINE setters == SettersTo(rules, n, "setHeader", ContentType)
<1>1. setters \subseteq Int
  BY DEF SettersTo
<1>2. IF setters = {}
      THEN /\ ContentType \in DOMAIN sent <=> ContentType \in DOMAIN came
           /\ ContentType \in DOMAIN came => sent[ContentType] = came[ContentType]
      ELSE /\ ContentType \in DOMAIN sent
           /\ \E i \in setters : sent[ContentType] = rules[i].value /\ \A j \in setters : j <= i
  BY DEF SetOrKept, SettersTo
<1>3. EmptyTo(rules, n, came) <=>
        IF setters = {} THEN ~Typed(came)
        ELSE \E i \in setters : rules[i].value = NoText /\ \A j \in setters : j <= i
  BY DEF EmptyTo
<1> HIDE DEF setters
<1>4. CASE setters = {}
  BY <1>2, <1>3, <1>4 DEF Typed
<1>5. CASE setters # {}
  <2>1. PICK i \in setters : sent[ContentType] = rules[i].value /\ \A j \in setters : j <= i
    BY <1>2, <1>5
  <2>2. ASSUME NEW k \in setters, \A j \in setters : j <= k PROVE k = i
    <3>1. k <= i /\ i <= k /\ k \in Int /\ i \in Int
      BY <1>1, <2>1, <2>2
    <3> QED BY <3>1
  <2> QED BY <1>2, <1>3, <1>5, <2>1, <2>2 DEF Typed
<1> QED BY <1>4, <1>5

\* One rule more, and what it makes of the headers.
LEMMA TypeStep ==
    ASSUME NEW n \in Nat, NEW rules, NEW came, NEW old, NEW new,
           TypeKept(rules, n, came, old),
           LET rule == rules[n + 1]
           IN  new = IF rule.type = "setHeader" THEN Put(old, rule.key, rule.value)
                     ELSE IF rule.type = "setJsonBody" /\ ~Typed(old)
                     THEN Put(old, ContentType, Json) ELSE old
    PROVE  TypeKept(rules, n + 1, came, new)
<1> DEFINE rule == rules[n + 1]
           setters == SettersTo(rules, n, "setHeader", ContentType)
           more == SettersTo(rules, n + 1, "setHeader", ContentType)
<1>1. 1..(n + 1) = 1..n \cup {n + 1} /\ n + 1 \notin 1..n /\ \A i \in 1..n : i \in Int /\ i < n + 1
  OBVIOUS
<1>2. /\ \A i \in setters : i \in Int /\ i <= n
      /\ rule.type = "setHeader" /\ rule.key = ContentType => more = setters \cup {n + 1}
      /\ ~(rule.type = "setHeader" /\ rule.key = ContentType) => more = setters
  BY OneMore
<1>3. /\ FilledTo(rules, n) <=> \E i \in 1..n : /\ rules[i].type = "setJsonBody"
                                                /\ \A j \in setters : j < i
      /\ FilledTo(rules, n + 1) <=> \E i \in 1..(n + 1) : /\ rules[i].type = "setJsonBody"
                                                          /\ \A j \in more : j < i
  BY DEF FilledTo
<1>4. more = setters => (EmptyTo(rules, n + 1, came) <=> EmptyTo(rules, n, came))
  BY DEF EmptyTo
<1>5. IF FilledTo(rules, n) /\ EmptyTo(rules, n, came)
      THEN Typed(old) /\ old[ContentType] = Json
      ELSE SetOrKept(rules, n, "setHeader", ContentType, came, old)
  BY TypeKeptIs
<1> SUFFICES IF FilledTo(rules, n + 1) /\ EmptyTo(rules, n + 1, came)
             THEN Typed(new) /\ new[ContentType] = Json
             ELSE SetOrKept(rules, n + 1, "setHeader", ContentType, came, new)
  BY TypeKeptIs
<1> HIDE DEF setters, more
<1>6. CASE rule.type = "setHeader" /\ rule.key = ContentType
  <2>1. ~FilledTo(rules, n + 1)
    <3>1. n + 1 \in more
      BY <1>2, <1>6
    <3>2. ASSUME NEW i \in 1..(n + 1), rules[i].type = "setJsonBody", n + 1 < i PROVE FALSE
      BY <3>2
    <3> QED BY <1>3, <3>1, <3>2
  <2>2. new = Put(old, ContentType, rule.value)
    BY <1>6
  <2>3. SetOrKept(rules, n + 1, "setHeader", ContentType, came, new)
    BY <1>6, <2>2, PutIs, SetStep
  <2> QED BY <2>1, <2>3
<1>7. CASE rule.type # "setJsonBody" /\ ~(rule.type = "setHeader" /\ rule.key = ContentType)
  <2>1. Agree(ContentType, old, new)
    BY <1>7, PutIs DEF Agree
  <2>2. (FilledTo(rules, n + 1) <=> FilledTo(rules, n)) /\ more = setters
    BY <1>1, <1>2, <1>3, <1>7
  <2>3. CASE FilledTo(rules, n) /\ EmptyTo(rules, n, came)
    BY <1>4, <1>5, <2>1, <2>2, <2>3 DEF Agree, Typed
  <2>4. CASE ~(FilledTo(rules, n) /\ EmptyTo(rules, n, came))
    <3>1. SetOrKept(rules, n + 1, "setHeader", ContentType, came, new)
      BY <1>5, <1>7, <2>1, <2>4, KeptStep
    <3> QED BY <1>4, <2>2, <2>4, <3>1
  <2> QED BY <2>3, <2>4
<1>8. CASE rule.type = "setJsonBody"
  <2>1. more = setters
    BY <1>2, <1>8
  <2>2. FilledTo(rules, n + 1)
    <3>1. n + 1 \in 1..(n + 1) /\ \A j \in more : j < n + 1
      BY <1>1, <1>2, <2>1
    <3> QED BY <1>3, <1>8, <3>1
  <2>3. new = IF Typed(old) THEN old ELSE Put(old, ContentType, Json)
    BY <1>8
  <2>4. CASE EmptyTo(rules, n, came)
    <3>1. CASE FilledTo(rules, n)
      BY <1>4, <1>5, <2>1, <2>2, <2>3, <2>4, <3>1
    <3>2. CASE ~FilledTo(rules, n)
      <4>1. ~Typed(old)
        BY <1>5, <2>4, <3>2, EmptyIs
      <4>2. Typed(new) /\ new[ContentType] = Json
        BY <2>3, <4>1, PutIs DEF Typed
      <4> QED BY <1>4, <2>1, <2>2, <2>4, <4>2
    <3> QED BY <3>1, <3>2
  <2>5. CASE ~EmptyTo(rules, n, came)
    <3>1. SetOrKept(rules, n, "setHeader", ContentType, came, old)
      BY <1>5, <2>5
    <3>2. new = old
      BY <2>3, <2>5, <3>1, EmptyIs
    <3>3. Agree(ContentType, old, new)
      BY <3>2 DEF Agree
    <3>4. SetOrKept(rules, n + 1, "setHeader", ContentType, came, new)
      BY <1>8, <3>1, <3>3, KeptStep
    <3> QED BY <1>4, <2>1, <2>5, <3>4
  <2> QED BY <2>4, <2>5
<1> QED BY <1>6, <1>7, <1>8

\* The first n of the rules have been applied whole.
WholeTo(n, came, now, rules) ==
    /\ \A name : name # ContentType =>
          SetOrKept(rules, n, "setHeader", name, came.header, now.header)
    /\ TypeKept(rules, n, came.header, now.header)
    /\ \A name : SetOrKept(rules, n, "setQuery", name, came.query, now.query)
    /\ (\A i \in 1..n : rules[i].type # "rewritePath") => now.path = came.path
    /\ now.method = came.method /\ now.host = came.host /\ now.hop = came.hop
    /\ \A i \in 1..n : ~Unusable(came, rules[i])
    /\ now.body = came.body \/ came.body.kind # "undecodable"

\* One rule more.
LEMMA WholeStep ==
    ASSUME NEW n \in Nat, NEW came, NEW rules, NEW r, HasParts(r),
           WholeTo(n, came, r, rules), ~Unusable(r, rules[n + 1])
    PROVE  WholeTo(n + 1, came, Rewritten(r, rules[n + 1]), rules)
<1> DEFINE rule == rules[n + 1]
           x == Rewritten(r, rule)
<1>1. 1..(n + 1) = 1..n \cup {n + 1}
  OBVIOUS
<1>2. /\ x.method = r.method /\ x.host = r.host /\ x.hop = r.hop
      /\ rule.type # "rewritePath" => x.path = r.path
      /\ x.query = IF rule.type = "setQuery" THEN Put(r.query, rule.key, rule.value)
                   ELSE r.query
      /\ x.header = IF rule.type = "setHeader" THEN Put(r.header, rule.key, rule.value)
                    ELSE IF rule.type = "setJsonBody" /\ ~Typed(r.header)
                    THEN Put(r.header, ContentType, Json) ELSE r.header
      /\ rule.type # "setJsonBody" => x.body = r.body
  BY RewrittenIs
<1> HIDE DEF x
<1>3. ASSUME NEW name, name # ContentType
      PROVE  SetOrKept(rules, n + 1, "setHeader", name, came.header, x.header)
  <2>1. SetOrKept(rules, n, "setHeader", name, came.header, r.header)
    BY <1>3 DEF WholeTo
  <2>2. CASE rule.type = "setHeader" /\ rule.key = name
    <3>1. x.header = Put(r.header, name, rule.value)
      BY <1>2, <2>2
    <3> QED BY <2>2, <3>1, PutIs, SetStep
  <2>3. CASE ~(rule.type = "setHeader" /\ rule.key = name)
    <3>1. Agree(name, r.header, x.header)
      BY <1>2, <1>3, <2>3, PutIs DEF Agree
    <3> QED BY <2>1, <2>3, <3>1, KeptStep
  <2> QED BY <2>2, <2>3
<1>4. TypeKept(rules, n + 1, came.header, x.header)
  BY <1>2, TypeStep DEF WholeTo
<1>5. ASSUME NEW name
      PROVE  SetOrKept(rules, n + 1, "setQuery", name, came.query, x.query)
  <2>1. SetOrKept(rules, n, "setQuery", name, came.query, r.query)
    BY DEF WholeTo
  <2>2. CASE rule.type = "setQuery" /\ rule.key = name
    <3>1. x.query = Put(r.query, name, rule.value)
      BY <1>2, <2>2
    <3> QED BY <2>2, <3>1, PutIs, SetStep
  <2>3. CASE ~(rule.type = "setQuery" /\ rule.key = name)
    <3>1. Agree(name, r.query, x.query)
      BY <1>2, <2>3, PutIs DEF Agree
    <3> QED BY <2>1, <2>3, <3>1, KeptStep
  <2> QED BY <2>2, <2>3
<1>6. (\A i \in 1..(n + 1) : rules[i].type # "rewritePath") => x.path = came.path
  BY <1>1, <1>2 DEF WholeTo
<1>7. x.method = came.method /\ x.host = came.host /\ x.hop = came.hop
  BY <1>2 DEF WholeTo
<1>8. ~Unusable(came, rule) /\ (x.body = came.body \/ came.body.kind # "undecodable")
  BY <1>2 DEF WholeTo, Unusable
<1>9. \A i \in 1..(n + 1) : ~Unusable(came, rules[i])
  BY <1>1, <1>8 DEF WholeTo
<1> QED BY <1>3, <1>4, <1>5, <1>6, <1>7, <1>8, <1>9 DEF WholeTo, x

LEMMA WholeFirst ==
    ASSUME NEW r, NEW rules
    PROVE  WholeTo(0, r, r, rules)
<1>1. TypeKept(rules, 0, r.header, r.header)
  <2>1. ~FilledTo(rules, 0)
    BY DEF FilledTo
  <2> QED BY <2>1, TypeKeptIs, NothingSet
<1> QED BY <1>1, NothingSet DEF WholeTo

\* A request whose rules all could be applied has been rewritten whole.
LEMMA AppliedWhole ==
    ASSUME NEW r, HasParts(r), NEW rules, rules \in Seq(ToSet(rules)), ApplyRules(r, rules).ok
    PROVE  /\ HasParts(ApplyRules(r, rules).now)
           /\ WholeTo(Len(rules), r, ApplyRules(r, rules).now, rules)
<1> DEFINE L == Len(rules)
           s == After(r, rules)
           Sound(n) == /\ s[n] = [now |-> s[n].now, ok |-> s[n].ok] /\ s[n].ok \in BOOLEAN
                       /\ s[n].ok => HasParts(s[n].now) /\ WholeTo(n, r, s[n].now, rules)
           unsound == {n \in 0..L : ~Sound(n)}
<1>1. L \in Nat /\ DOMAIN rules = 1..L
  OBVIOUS
<1>2. s[0] = Started(r) /\ \A n \in 1..L : s[n] = Applied(s[n - 1], rules[n])
  BY <1>1, AfterIs
<1> HIDE DEF s
<1>3. Sound(0)
  BY <1>2, WholeFirst DEF Started
<1>4. ASSUME NEW n \in 0..L, n # L, Sound(n)
      PROVE  Sound(n + 1)
  <2> DEFINE t == s[n]
             rule == rules[n + 1]
             stopped == [t EXCEPT !.ok = FALSE]
             now == Rewritten(t.now, rule)
             on == [t EXCEPT !.now = now]
  <2>1. s[n + 1] = Applied(t, rule) /\ n \in Nat /\ n + 1 \in 1..L
    <3>1. n + 1 \in 1..L /\ (n + 1) - 1 = n /\ n \in Nat
      <4> HIDE DEF L, Sound
      <4> QED BY <1>1, <1>4
    <3> QED BY <1>2, <3>1
  <2>2. s[n + 1] = IF ~t.ok \/ Unusable(t.now, rule) THEN stopped ELSE on
    BY <2>1 DEF Applied
  <2>3. t = [now |-> t.now, ok |-> t.ok] /\ t.ok \in BOOLEAN
        /\ (t.ok => HasParts(t.now) /\ WholeTo(n, r, t.now, rules))
    BY <1>4
  <2>4. CASE ~t.ok \/ Unusable(t.now, rule)
    <3>1. s[n + 1] = [now |-> t.now, ok |-> FALSE]
      BY <2>2, <2>3, <2>4
    <3> QED BY <3>1
  <2>5. CASE t.ok /\ ~Unusable(t.now, rule)
    <3>1. s[n + 1] = [now |-> now, ok |-> TRUE]
      <4> HIDE DEF now, t, rule
      <4> QED BY <2>2, <2>3, <2>5 DEF on
    <3>2. HasParts(now) /\ WholeTo(n + 1, r, now, rules)
      BY <2>1, <2>3, <2>5, RewrittenIs, WholeStep
    <3> HIDE DEF now
    <3> QED BY <3>1, <3>2
  <2> QED BY <2>4, <2>5
<1> HIDE DEF Sound
<1>5. unsound = {}
  <2> SUFFICES ASSUME unsound # {} PROVE FALSE
    OBVIOUS
  <2>1. PICK n \in unsound : \A m \in unsound : n <= m
    <3>1. unsound \subseteq Nat
      OBVIOUS
    <3> HIDE DEF unsound
    <3> QED BY <3>1, NatLeast
  <2>2. n - 1 \in 0..L /\ n - 1 # L /\ n - 1 \notin unsound /\ (n - 1) + 1 = n
    BY <1>1, <1>3, <2>1
  <2>3. Sound((n - 1) + 1)
    BY <1>4, <2>2
  <2> QED BY <2>2, <2>3
<1>6. Sound(L)
  BY <1>1, <1>5
<1> QED BY <1>6 DEF Sound, ApplyRules, s

\* The Director leaves alone what it does not overwrite.
LEMMA DirectedIs ==
    ASSUME NEW r, HasParts(r), NEW route, NEW target
    PROVE  LET x == Directed(r, route, target)
           IN  /\ x.method = r.method /\ x.host = target /\ x.path = r.path
               /\ x.query = r.query /\ x.body = r.body
               /\ \A name : name \notin Overwritten(r) => Agree(name, r.header, x.header)
               /\ ForwardedHost \notin r.hop => x.header[ForwardedHost] = r.host
               /\ GatewayRoute \notin r.hop => x.header[GatewayRoute] = route.name
<1> DEFINE first == Put(r.header, ForwardedHost, r.host)
           told == Put(first, GatewayRoute, route.name)
           head == [name \in DOMAIN told \ r.hop |-> told[name]]
           x == [r EXCEPT !.host = target, !.header = head]
<1>1. Directed(r, route, target) = x
  BY DEF Directed
<1> HIDE DEF head
<1>2. /\ x.method = r.method /\ x.host = target /\ x.path = r.path
      /\ x.query = r.query /\ x.body = r.body /\ x.header = head
  BY DEF HasParts
<1> HIDE DEF x
<1>3. /\ ForwardedHost \in DOMAIN first /\ first[ForwardedHost] = r.host
      /\ \A name : name # ForwardedHost => Agree(name, r.header, first)
  BY PutIs DEF Agree
<1> HIDE DEF first
<1>4. /\ GatewayRoute \in DOMAIN told /\ told[GatewayRoute] = route.name
      /\ \A name : name # GatewayRoute => Agree(name, first, told)
  BY PutIs DEF Agree
<1> HIDE DEF told
<1>5. ForwardedHost \in DOMAIN told /\ told[ForwardedHost] = r.host
  BY <1>3, <1>4 DEF Agree
<1>6. \A name : name \notin r.hop => Agree(name, told, head)
  BY DEF head, Agree
<1>7. ASSUME NEW name, name \notin Overwritten(r) PROVE Agree(name, r.header, head)
  <2>1. name \notin r.hop /\ name # ForwardedHost /\ name # GatewayRoute
    BY <1>7 DEF Overwritten
  <2> QED BY <1>3, <1>4, <1>6, <2>1 DEF Agree
<1>8. ForwardedHost \notin r.hop => head[ForwardedHost] = r.host
  BY <1>5, <1>6 DEF Agree
<1>9. GatewayRoute \notin r.hop => head[GatewayRoute] = route.name
  BY <1>4, <1>6 DEF Agree
<1> QED BY <1>1, <1>2, <1>7, <1>8, <1>9

\* Fields that agree with what is kept are kept.
LEMMA AgreeKept ==
    ASSUME NEW rules, NEW n, NEW type, NEW name, NEW came, NEW old, NEW new,
           SetOrKept(rules, n, type, name, came, old), Agree(name, old, new)
    PROVE  SetOrKept(rules, n, type, name, came, new)
<1> DEFINE setters == SettersTo(rules, n, type, name)
<1>1. SetOrKept(rules, n, type, name, came, old) <=>
        IF setters = {}
        THEN /\ name \in DOMAIN old <=> name \in DOMAIN came
             /\ name \in DOMAIN came => old[name] = came[name]
        ELSE /\ name \in DOMAIN old
             /\ \E i \in setters : old[name] = rules[i].value /\ \A j \in setters : j <= i
  BY DEF SetOrKept, SettersTo
<1>2. SetOrKept(rules, n, type, name, came, new) <=>
        IF setters = {}
        THEN /\ name \in DOMAIN new <=> name \in DOMAIN came
             /\ name \in DOMAIN came => new[name] = came[name]
        ELSE /\ name \in DOMAIN new
             /\ \E i \in setters : new[name] = rules[i].value /\ \A j \in setters : j <= i
  BY DEF SetOrKept, SettersTo
<1> HIDE DEF setters
<1> QED BY <1>1, <1>2 DEF Agree

\* What has been rewritten whole is sent whole.
LEMMA DirectedWhole ==
    ASSUME NEW came, NEW now, HasParts(now), NEW route, NEW target,
           WholeTo(Len(route.rewrite), came, now, route.rewrite)
    PROVE  Whole(came, Directed(now, route, target), route, target)
<1> DEFINE rules == route.rewrite
           n == Len(rules)
           sent == Directed(now, route, target)
           names(c, s) == DOMAIN c \cup DOMAIN s \cup {rules[i].key : i \in 1..n}
<1>1. /\ sent.method = now.method /\ sent.host = target /\ sent.path = now.path
      /\ sent.query = now.query
      /\ \A name : name \notin Overwritten(now) => Agree(name, now.header, sent.header)
      /\ ForwardedHost \notin now.hop => sent.header[ForwardedHost] = now.host
      /\ GatewayRoute \notin now.hop => sent.header[GatewayRoute] = route.name
  BY DirectedIs
<1> HIDE DEF sent
<1>2. now.hop = came.hop /\ Overwritten(now) = Overwritten(came)
  BY DEF WholeTo, Overwritten
<1>3. ASSUME NEW name, name \notin Overwritten(came)
      PROVE  IF name = ContentType THEN TypeKept(rules, n, came.header, sent.header)
             ELSE SetOrKept(rules, n, "setHeader", name, came.header, sent.header)
  <2>1. Agree(name, now.header, sent.header)
    BY <1>1, <1>2, <1>3
  <2>2. CASE name # ContentType
    <3>1. SetOrKept(rules, n, "setHeader", name, came.header, now.header)
      BY <2>2 DEF WholeTo
    <3> QED BY <2>1, <2>2, <3>1, AgreeKept
  <2>3. CASE name = ContentType
    <3>1. IF FilledTo(rules, n) /\ EmptyTo(rules, n, came.header)
          THEN Typed(now.header) /\ now.header[ContentType] = Json
          ELSE SetOrKept(rules, n, "setHeader", ContentType, came.header, now.header)
      BY TypeKeptIs DEF WholeTo
    <3>2. Agree(ContentType, now.header, sent.header)
      BY <2>1, <2>3
    <3>3. IF FilledTo(rules, n) /\ EmptyTo(rules, n, came.header)
          THEN Typed(sent.header) /\ sent.header[ContentType] = Json
          ELSE SetOrKept(rules, n, "setHeader", ContentType, came.header, sent.header)
      BY <3>1, <3>2, AgreeKept DEF Agree, Typed
    <3>4. TypeKept(rules, n, came.header, sent.header)
      BY <3>3, TypeKeptIs
    <3> QED BY <2>3, <3>4
  <2> QED BY <2>2, <2>3
<1>4. \A name : SetOrKept(rules, n, "setQuery", name, came.query, sent.query)
  BY <1>1 DEF WholeTo
<1>5. /\ \A i \in 1..n : ~Unusable(came, rules[i])
      /\ (\A i \in 1..n : rules[i].type # "rewritePath") => sent.path = came.path
      /\ sent.method = came.method /\ now.host = came.host
  BY <1>1 DEF WholeTo
<1>6. Whole(came, sent, route, target) <=>
        /\ \A i \in 1..n : ~Unusable(came, rules[i])
        /\ \A name \in names(came.header, sent.header) \ Overwritten(came) :
              IF name = ContentType THEN TypeKept(rules, n, came.header, sent.header)
              ELSE SetOrKept(rules, n, "setHeader", name, came.header, sent.header)
        /\ \A name \in names(came.query, sent.query) :
              SetOrKept(rules, n, "setQuery", name, came.query, sent.query)
        /\ (\A i \in 1..n : rules[i].type # "rewritePath") => sent.path = came.path
        /\ sent.method = came.method /\ sent.host = target
        /\ ForwardedHost \notin came.hop => sent.header[ForwardedHost] = came.host
        /\ GatewayRoute \notin came.hop => sent.header[GatewayRoute] = route.name
  BY DEF Whole
<1> HIDE DEF names, rules, n
<1>7. Whole(came, sent, route, target)
  BY <1>1, <1>2, <1>3, <1>4, <1>5, <1>6
<1> QED BY <1>7 DEF sent

-----------------------------------------------------------------------------
(* Requests and their log *)

Step == {"idle", "picking", "rewriting", "forwarding", "numbering", "inserting", "done",
         "dropped", "gone"}
Status == {0, 200, 302, 400, 404, 502}

\* The state of a request; what it carries is of some set S.
Handling(S) ==
    [at : Step, client : S, now : S, cfg : S, router : S, route : S, target : S,
     status : Status, failed : BOOLEAN, id : Nat, upstream : S, lost : BOOLEAN]

Shape == \E S : req \in [Request -> Handling(S)]

\* A number stands for a request that has one or had one.
Numbered == {q \in Request : req[q].at \in {"inserting", "done", "dropped", "gone"}}

Counted == requestSeq <= Cardinality(Numbered)

\* A request comes to the log only when requests are logged to something, and
\* is lost only when it is done with.
LogReached ==
    \A q \in Request :
        /\ req[q].at \in {"numbering", "inserting"} => LogRequests /\ logStore # "none"
        /\ req[q].lost => req[q].at \in {"done", "dropped"}

\* The number in hand is this life's, and no other request or row has it.
NumberInHand ==
    \A q \in Request : req[q].at = "inserting" =>
        /\ req[q].id \in 1..requestSeq
        /\ \A p \in Request : req[p].at = "inserting" /\ req[p].id = req[q].id => p = q
        /\ \A r \in logged : r.life = restarts => r.id # req[q].id

\* No row is of a life to come, and this life's rows are numbered.
RowsPast ==
    \A r \in logged : /\ r.life \in 0..restarts
                      /\ r.life = restarts => r.id <= requestSeq

QInv ==
    /\ TypeOK /\ Shape /\ Counted /\ LogReached
    /\ NumberInHand /\ RowsPast /\ OneRowPerAnswer /\ NumbersUnique

-----------------------------------------------------------------------------
\* One request goes on.
LEMMA UpdateShape ==
    ASSUME NEW S, req \in [Request -> Handling(S)], NEW T, NEW q \in Request,
           NEW r \in Handling(T), Update(q, r)
    PROVE  /\ Shape'
           /\ req'[q] = r /\ \A p \in Request \ {q} : req'[p] = req[p]
<1>1. req' = [req EXCEPT ![q] = r]
  BY DEF Update
<1>2. Handling(S) \subseteq Handling(S \cup T) /\ Handling(T) \subseteq Handling(S \cup T)
  BY DEF Handling
<1>3. req' \in [Request -> Handling(S \cup T)]
  BY <1>1, <1>2
<1> QED BY <1>1, <1>3 DEF Shape

\* The numbers are counted by the requests that have one.
LEMMA CountKept ==
    ASSUME Counted, requestSeq \in Nat, requestSeq' = requestSeq, Numbered \subseteq Numbered'
    PROVE  Counted' /\ requestSeq' \in 0..Cardinality(Request)
<1>1. IsFiniteSet(Numbered') /\ Numbered' \subseteq Request
  BY FS_Subset DEF Numbered
<1>2. /\ Cardinality(Numbered) <= Cardinality(Numbered')
      /\ Cardinality(Numbered') <= Cardinality(Request)
  BY <1>1, FS_Subset
<1>3. Cardinality(Numbered) \in Nat /\ Cardinality(Numbered') \in Nat /\ Cardinality(Request) \in Nat
  <2>1. IsFiniteSet(Numbered)
    BY FS_Subset DEF Numbered
  <2> QED BY <1>1, <2>1, FS_CardinalityType
<1> QED BY <1>2, <1>3 DEF Counted

\* A step of q before the log: q gets nowhere near a row.
BeforeLog(q, r) ==
    /\ req[q].at \in {"idle", "picking", "rewriting", "forwarding"}
    /\ r.at \in {"picking", "rewriting", "forwarding", "numbering", "done"}
    /\ r.at = "numbering" =>
          LogRequests /\ logStore # "none" /\ r.status \in {200, 302, 400, 404, 502}
    /\ r.at = "done" /\ LogRequests /\ logStore = "store" => r.lost
    /\ r.lost => r.at = "done"

LEMMA BeforeQ ==
    ASSUME QInv, NEW T, NEW q \in Request, NEW r \in Handling(T), Update(q, r), BeforeLog(q, r),
           UNCHANGED <<cfg, router, requestSeq, logStore, logged, reloads, restarts>>
    PROVE  QInv'
<1>1. PICK S : req \in [Request -> Handling(S)]
  BY DEF QInv, Shape
<1>2. Shape' /\ req'[q] = r /\ \A p \in Request \ {q} : req'[p] = req[p]
  BY <1>1, UpdateShape
<1>3. Counted' /\ requestSeq' \in 0..Cardinality(Request)
  <2>1. Numbered \subseteq Numbered'
    BY <1>2 DEF Numbered, BeforeLog
  <2> QED BY <2>1, CountKept DEF QInv, TypeOK
<1>4. TypeOK'
  BY <1>2, <1>3 DEF QInv, TypeOK, BeforeLog
<1>5. LogReached' /\ NumberInHand' /\ RowsPast' /\ NumbersUnique'
  BY <1>2 DEF QInv, LogReached, NumberInHand, RowsPast, NumbersUnique, BeforeLog
<1>6. OneRowPerAnswer'
  <2>1. {x \in logged : x.request = q} = {}
    BY DEF QInv, OneRowPerAnswer, BeforeLog
  <2> QED BY <1>2, <2>1 DEF QInv, OneRowPerAnswer, BeforeLog
<1> QED BY <1>2, <1>3, <1>4, <1>5, <1>6 DEF QInv

\* The answer, which is logged if requests are.
LEMMA AnswerBefore ==
    ASSUME NEW T, NEW q \in Request, NEW r \in Handling(T), ~r.lost,
           req[q].at \in {"idle", "picking", "rewriting", "forwarding"},
           NEW status \in {200, 302, 400, 404, 502}, NEW failed \in BOOLEAN
    PROVE  Answered(r, status, failed) \in Handling(T) /\ BeforeLog(q, Answered(r, status, failed))
<1>1. AfterAnswer \in {"numbering", "done"} /\ (AfterAnswer = "numbering" <=> LogRequests /\ logStore # "none")
  BY DEF AfterAnswer
<1>2. status \in Status
  BY DEF Status
<1> DEFINE x == [r EXCEPT !.at = AfterAnswer, !.status = status, !.failed = failed]
<1>3. x \in Handling(T)
  <2>1. AfterAnswer \in Step
    BY <1>1 DEF Step
  <2> QED BY <1>2, <2>1 DEF Handling
<1>4. x.at = AfterAnswer /\ x.status = status /\ x.lost = r.lost
  BY DEF Handling
<1>5. Answered(r, status, failed) = x
  BY DEF Answered
<1> HIDE DEF x
<1>6. BeforeLog(q, x)
  BY <1>1, <1>4 DEF BeforeLog
<1> QED BY <1>3, <1>5, <1>6

\* A request before it arrives, and with what it finds when it does.
LEMMA FreshIs ==
    ASSUME NEW T, {NoRequest, NoTarget, NoRoute, <<>>} \subseteq T
    PROVE  /\ Fresh \in Handling(T) /\ Fresh.at = "idle" /\ ~Fresh.lost
           /\ Fresh.target = NoTarget /\ Fresh.upstream = NoRequest
<1>1. /\ Fresh.at = "idle" /\ ~Fresh.lost /\ Fresh.target = NoTarget /\ Fresh.upstream = NoRequest
  BY DEF Fresh
<1>2. Fresh \in Handling(T)
  BY DEF Fresh, Handling, Step, Status
<1> QED BY <1>1, <1>2

Found(h, c, e, s, t) ==
    [h EXCEPT !.client = c, !.now = c, !.cfg = e, !.router = s, !.route = t]

LEMMA FoundIs ==
    ASSUME NEW T, NEW h \in Handling(T), NEW c, NEW e, NEW s, NEW t, {c, e, s, t} \subseteq T
    PROVE  LET r == Found(h, c, e, s, t)
           IN  /\ r \in Handling(T) /\ r.lost = h.lost
               /\ r.client = c /\ r.now = c /\ r.cfg = e /\ r.route = t
               /\ r.target = h.target /\ r.upstream = h.upstream
<1> DEFINE r == [h EXCEPT !.client = c, !.now = c, !.cfg = e, !.router = s, !.route = t]
<1>1. r \in Handling(T)
  BY DEF Handling
<1>2. /\ r.client = c /\ r.now = c /\ r.cfg = e /\ r.route = t
      /\ r.target = h.target /\ r.upstream = h.upstream /\ r.lost = h.lost
  BY DEF Handling
<1>3. Found(h, c, e, s, t) = r
  BY DEF Found
<1> HIDE DEF r
<1> QED BY <1>1, <1>2, <1>3

LEMMA Moved ==
    ASSUME NEW T, NEW r \in Handling(T), NEW s \in Step, NEW x, x = [r EXCEPT !.at = s]
    PROVE  /\ x \in Handling(T) /\ x.at = s /\ x.lost = r.lost
           /\ x.client = r.client /\ x.now = r.now /\ x.cfg = r.cfg /\ x.route = r.route
           /\ x.target = r.target /\ x.upstream = r.upstream
<1>1. x \in Handling(T)
  BY DEF Handling
<1>2. /\ x.at = s /\ x.lost = r.lost
      /\ x.client = r.client /\ x.now = r.now /\ x.cfg = r.cfg /\ x.route = r.route
      /\ x.target = r.target /\ x.upstream = r.upstream
  BY DEF Handling
<1> QED BY <1>1, <1>2

LEMMA ArriveQ ==
    ASSUME QInv, NEW q \in Request, NEW c \in Client, Arrive(q, c)
    PROVE  QInv'
<1> DEFINE route == Match(router, c)
           r == [Fresh EXCEPT !.client = c, !.now = c, !.cfg = cfg, !.router = router,
                              !.route = route]
           on == [r EXCEPT !.at = "picking"]
           T == {c, cfg, router, route, NoRequest, NoTarget, <<>>, NoRoute}
<1>0. /\ Fresh \in Handling(T) /\ ~Fresh.lost
      /\ {c, cfg, router, route} \subseteq T
  <2> HIDE DEF route
  <2> QED BY FreshIs
<1>3. req[q].at = "idle" /\ UNCHANGED <<cfg, router, requestSeq, logStore, logged, reloads, restarts>>
      /\ Update(q, IF route = NoRoute THEN Answered(r, 404, FALSE) ELSE on)
  BY DEF Arrive
<1> HIDE DEF on, T, route
<1>1. r \in Handling(T) /\ ~r.lost
  <2>1. r = Found(Fresh, c, cfg, router, route)
    BY DEF Found
  <2> HIDE DEF r
  <2> QED BY <1>0, <2>1, FoundIs
<1> HIDE DEF r
<1>2. on \in Handling(T) /\ ~on.lost /\ on.at = "picking"
  <2>1. "picking" \in Step
    BY DEF Step
  <2> QED BY <1>1, <2>1, Moved DEF on
<1>4. CASE Update(q, Answered(r, 404, FALSE))
  <2>1. PICK failed \in BOOLEAN : Update(q, Answered(r, 404, failed))
    BY <1>4
  <2>2. Answered(r, 404, failed) \in Handling(T) /\ BeforeLog(q, Answered(r, 404, failed))
    BY <1>1, <1>3, AnswerBefore
  <2> QED BY <1>3, <2>1, <2>2, BeforeQ
<1>5. CASE Update(q, on)
  <2>1. BeforeLog(q, on)
    BY <1>2, <1>3 DEF BeforeLog
  <2> QED BY <1>2, <1>3, <1>5, <2>1, BeforeQ
<1> QED BY <1>3, <1>4, <1>5

LEMMA PickQ ==
    ASSUME QInv, NEW q \in Request, Pick(q)
    PROVE  QInv'
<1>1. PICK S : req \in [Request -> Handling(S)]
  BY DEF QInv, Shape
<1>2. PICK t : Chosen(q, t)
  BY DEF Pick
<1> DEFINE r == [req[q] EXCEPT !.target = t]
           on == [r EXCEPT !.at = "rewriting"]
           T == S \cup {t}
<1>3. req[q].at = "picking" /\ ~req[q].lost /\ req[q] \in Handling(T)
  <2>1. req[q].at = "picking"
    BY DEF Pick
  <2>2. ~req[q].lost
    BY <2>1 DEF QInv, LogReached
  <2>3. req[q] \in Handling(T)
    BY <1>1 DEF Handling
  <2> QED BY <2>1, <2>2, <2>3
<1>5. /\ UNCHANGED <<cfg, router, requestSeq, logStore, logged, reloads, restarts>>
      /\ \/ Update(q, Answered(r, 302, FALSE)) \/ Update(q, Answered(r, 502, TRUE))
         \/ Update(q, on)
  BY <1>2 DEF Pick, Chosen
<1> HIDE DEF on
<1>4. r \in Handling(T) /\ ~r.lost
  <2> DEFINE h == req[q]
  <2>1. h \in Handling(T) /\ ~h.lost
    BY <1>3
  <2> HIDE DEF h
  <2>2. [h EXCEPT !.target = t] \in Handling(T) /\ ~[h EXCEPT !.target = t].lost
    BY <2>1 DEF Handling
  <2> QED BY <2>2 DEF h
<1> HIDE DEF r, T
<1>8. on \in Handling(T) /\ ~on.lost /\ on.at = "rewriting"
  BY <1>4 DEF on, Handling, Step
<1>6. ASSUME NEW status \in {302, 502}, NEW failed \in BOOLEAN, Update(q, Answered(r, status, failed))
      PROVE  QInv'
  <2>1. Answered(r, status, failed) \in Handling(T) /\ BeforeLog(q, Answered(r, status, failed))
    BY <1>3, <1>4, AnswerBefore
  <2> QED BY <1>5, <1>6, <2>1, BeforeQ
<1>7. CASE Update(q, on)
  <2>1. BeforeLog(q, on)
    BY <1>3, <1>8 DEF BeforeLog
  <2> QED BY <1>8, <1>5, <1>7, <2>1, BeforeQ
<1>9. CASE Update(q, Answered(r, 302, FALSE))
  <2>1. PICK failed \in BOOLEAN : Update(q, Answered(r, 302, failed))
    BY <1>9
  <2> QED BY <1>6, <2>1
<1>10. CASE Update(q, Answered(r, 502, TRUE))
  <2>1. PICK failed \in BOOLEAN : Update(q, Answered(r, 502, failed))
    BY <1>10
  <2> QED BY <1>6, <2>1
<1> QED BY <1>5, <1>7, <1>9, <1>10

LEMMA RewriteQ ==
    ASSUME QInv, NEW q \in Request, Rewrite(q)
    PROVE  QInv'
<1>1. PICK S : req \in [Request -> Handling(S)]
  BY DEF QInv, Shape
<1> DEFINE s == ApplyRules(req[q].now, req[q].route.rewrite)
           sent == s.now
           r == [req[q] EXCEPT !.now = sent]
           on == [r EXCEPT !.at = "forwarding"]
           T == S \cup {sent}
<1>2. /\ UNCHANGED <<cfg, router, requestSeq, logStore, logged, reloads, restarts>>
      /\ Update(q, Answered(r, 400, TRUE)) \/ Update(q, on)
  BY DEF Rewrite
<1>3. req[q].at = "rewriting" /\ ~req[q].lost
  BY DEF Rewrite, QInv, LogReached
<1> HIDE DEF sent
<1>4. r \in Handling(T) /\ ~r.lost
  BY <1>1, <1>3 DEF Handling
<1>5. on \in Handling(T) /\ ~on.lost /\ on.at = "forwarding"
  BY <1>4 DEF Handling, Step
<1> HIDE DEF r, on, T
<1>6. CASE Update(q, Answered(r, 400, TRUE))
  <2>1. PICK failed \in BOOLEAN : Update(q, Answered(r, 400, failed))
    BY <1>6
  <2>2. Answered(r, 400, failed) \in Handling(T) /\ BeforeLog(q, Answered(r, 400, failed))
    BY <1>3, <1>4, AnswerBefore
  <2> QED BY <1>2, <2>1, <2>2, BeforeQ
<1>7. CASE Update(q, on)
  <2>1. BeforeLog(q, on)
    BY <1>3, <1>5 DEF BeforeLog
  <2> QED BY <1>2, <1>5, <1>7, <2>1, BeforeQ
<1> QED BY <1>2, <1>6, <1>7

\* The state of a request whose upstream has been sent something.
Given(q) == [req[q] EXCEPT !.upstream = Sent(q)]

LEMMA GivenIs ==
    ASSUME NEW S, NEW q \in Request, req[q] \in Handling(S)
    PROVE  /\ Given(q) \in Handling(S \cup {Sent(q)}) /\ Given(q).lost = req[q].lost
           /\ Given(q).client = req[q].client /\ Given(q).cfg = req[q].cfg
           /\ Given(q).route = req[q].route
           /\ Given(q).target = req[q].target /\ Given(q).upstream = Sent(q)
<1> DEFINE h == req[q]
           sent == Sent(q)
           r == [h EXCEPT !.upstream = sent]
<1>1. h \in Handling(S)
  OBVIOUS
<1> HIDE DEF h, sent
<1>2. /\ r \in Handling(S \cup {sent}) /\ r.lost = h.lost /\ r.client = h.client
      /\ r.cfg = h.cfg /\ r.route = h.route /\ r.target = h.target /\ r.upstream = sent
  BY <1>1 DEF Handling
<1> QED BY <1>2 DEF h, sent, Given

LEMMA ForwardGives ==
    ASSUME NEW q \in Request, NEW status \in {200, 502}, Forward(q, status)
    PROVE  \E failed \in BOOLEAN : Update(q, Answered(Given(q), status, failed))
<1>1. Update(q, Answered(Given(q), status, FALSE))
  BY Zenon DEF Forward, Given
<1> QED BY <1>1

LEMMA ForwardQ ==
    ASSUME QInv, NEW q \in Request, NEW status \in {200, 502}, Forward(q, status)
    PROVE  QInv'
<1>1. PICK S : req \in [Request -> Handling(S)]
  BY DEF QInv, Shape
<1>2. /\ req[q].at = "forwarding" /\ ~req[q].lost /\ req[q] \in Handling(S)
      /\ UNCHANGED <<cfg, router, requestSeq, logStore, logged, reloads, restarts>>
  BY <1>1 DEF Forward, QInv, LogReached
<1>3. PICK failed \in BOOLEAN : Update(q, Answered(Given(q), status, failed))
  BY ForwardGives
<1>4. Given(q) \in Handling(S \cup {Sent(q)}) /\ ~Given(q).lost
  BY <1>2, GivenIs
<1>5. /\ Answered(Given(q), status, failed) \in Handling(S \cup {Sent(q)})
      /\ BeforeLog(q, Answered(Given(q), status, failed))
  BY <1>2, <1>4, AnswerBefore
<1> QED BY <1>2, <1>3, <1>5, BeforeQ

LEMMA AbortQ ==
    ASSUME QInv, NEW q \in Request, Abort(q)
    PROVE  QInv'
<1>1. PICK S : req \in [Request -> Handling(S)]
  BY DEF QInv, Shape
<1> DEFINE h == req[q]
           sent == Sent(q)
           r == [h EXCEPT !.upstream = sent, !.at = "done", !.lost = TRUE]
<1>2. /\ UNCHANGED <<cfg, router, requestSeq, logStore, logged, reloads, restarts>>
      /\ Update(q, r) /\ req[q].at = "forwarding"
  BY DEF Abort
<1>3. h \in Handling(S \cup {sent})
  BY <1>1 DEF Handling
<1> HIDE DEF h, sent
<1>4. r \in Handling(S \cup {sent}) /\ r.at = "done" /\ r.lost
  BY <1>3 DEF Handling, Step
<1> HIDE DEF r
<1>5. BeforeLog(q, r)
  BY <1>2, <1>4 DEF BeforeLog
<1> QED BY <1>2, <1>4, <1>5, BeforeQ

-----------------------------------------------------------------------------
(* The log *)

\* A request gets the next number: no other in hand or in this life's rows.
LEMMA NumberQ ==
    ASSUME QInv, NEW q \in Request, NextRequestId(q)
    PROVE  QInv'
<1>1. PICK S : req \in [Request -> Handling(S)]
  BY DEF QInv, Shape
<1> DEFINE n == requestSeq + 1
           r == [req[q] EXCEPT !.id = n, !.at = "inserting"]
<1>2. requestSeq \in Nat /\ req[q].at = "numbering" /\ requestSeq' = n
      /\ UNCHANGED <<cfg, router, logStore, logged, reloads, restarts>>
  BY DEF NextRequestId, QInv, TypeOK
<1>3. Update(q, r)
  BY <1>2 DEF NextRequestId
<1>4. n \in Nat /\ n > requestSeq
  BY <1>2
<1> HIDE DEF n
<1>5. r \in Handling(S) /\ r.id = n /\ r.at = "inserting" /\ r.status = req[q].status
      /\ r.lost = req[q].lost
  <2> DEFINE h == req[q]
  <2>1. h \in Handling(S)
    BY <1>1
  <2> HIDE DEF h
  <2> DEFINE x == [h EXCEPT !.id = n, !.at = "inserting"]
  <2>2. x \in Handling(S)
    BY <1>4, <2>1 DEF Handling, Step
  <2>3. x.id = n /\ x.at = "inserting" /\ x.status = h.status /\ x.lost = h.lost
    BY <2>1 DEF Handling
  <2>4. r = x
    BY DEF h
  <2> HIDE DEF r, x
  <2> QED BY <2>2, <2>3, <2>4 DEF h
<1> HIDE DEF r
<1>6. Shape' /\ req'[q] = r /\ \A p \in Request \ {q} : req'[p] = req[p]
  BY <1>1, <1>3, <1>5, UpdateShape
<1>7. Counted' /\ n \in 0..Cardinality(Request)
  <2>1. Numbered' = Numbered \cup {q} /\ q \notin Numbered
    BY <1>2, <1>5, <1>6 DEF Numbered
  <2>2. IsFiniteSet(Numbered) /\ Numbered' \subseteq Request
    BY <2>1, FS_Subset DEF Numbered
  <2>3. Cardinality(Numbered') = Cardinality(Numbered) + 1 /\ Cardinality(Numbered) \in Nat
    BY <2>1, <2>2, FS_AddElement, FS_CardinalityType
  <2>4. Cardinality(Numbered') <= Cardinality(Request) /\ Cardinality(Request) \in Nat
    BY <2>2, FS_Subset, FS_CardinalityType
  <2>5. n <= Cardinality(Numbered')
    BY <1>2, <2>3 DEF n, QInv, Counted
  <2> QED BY <1>2, <1>4, <2>3, <2>4, <2>5 DEF Counted
<1>8. TypeOK' /\ LogReached' /\ RowsPast' /\ NumbersUnique'
  <2>1. TypeOK'
    BY <1>2, <1>5, <1>6, <1>7 DEF QInv, TypeOK
  <2>2. LogReached'
    BY <1>2, <1>5, <1>6 DEF QInv, LogReached
  <2>3. RowsPast'
    BY <1>2, <1>4 DEF QInv, TypeOK, RowsPast
  <2> QED BY <1>2, <2>1, <2>2, <2>3 DEF QInv, NumbersUnique
<1>9. NumberInHand'
  <2>1. \A p \in Request : req[p].at = "inserting" => req[p].id \in 1..requestSeq /\ req[p].id # n
    BY <1>2, <1>4 DEF QInv, NumberInHand
  <2>2. \A x \in logged : x.life = restarts => x.id # n
    BY <1>2, <1>4 DEF QInv, RowsPast, TypeOK
  <2>3. n \in 1..requestSeq' /\ 1..requestSeq \subseteq 1..requestSeq'
    BY <1>2, <1>4
  <2> QED BY <1>2, <1>5, <1>6, <2>1, <2>2, <2>3 DEF QInv, NumberInHand
<1>10. OneRowPerAnswer'
  BY <1>2, <1>5, <1>6 DEF QInv, OneRowPerAnswer
<1> QED BY <1>6, <1>7, <1>8, <1>9, <1>10 DEF QInv

\* q leaves the log, with its row or without.
LEMMA InsertQ ==
    ASSUME QInv, NEW q \in Request, CreateRequestLog(q) \/ LogFails(q) \/ LogPanics(q)
    PROVE  QInv'
<1>1. PICK S : req \in [Request -> Handling(S)]
  BY DEF QInv, Shape
<1> DEFINE h == req[q]
           wrote == [h EXCEPT !.at = "done"]
           failed == [h EXCEPT !.at = "done", !.lost = TRUE]
           dropped == [h EXCEPT !.at = "dropped", !.lost = TRUE]
<1>2. /\ req[q].at = "inserting" /\ LogRequests /\ ~h.lost
      /\ UNCHANGED <<cfg, router, requestSeq, logStore, reloads, restarts>>
      /\ \/ Update(q, wrote) /\ logged' = logged \cup {Row(q)} /\ logStore = "store"
         \/ Update(q, failed) /\ logged' = logged
         \/ Update(q, dropped) /\ logged' = logged
  BY DEF CreateRequestLog, LogFails, LogPanics, QInv, LogReached
<1>3. h \in Handling(S)
  BY <1>1
<1> HIDE DEF h
<1>4. /\ wrote \in Handling(S) /\ wrote.at = "done" /\ ~wrote.lost /\ wrote.id = h.id
      /\ wrote.route = h.route /\ wrote.target = h.target
  BY <1>2, <1>3 DEF Handling, Step
<1>5. /\ failed \in Handling(S) /\ failed.at = "done" /\ failed.lost
      /\ dropped \in Handling(S) /\ dropped.at = "dropped" /\ dropped.lost
  BY <1>3 DEF Handling, Step
<1> HIDE DEF wrote, failed, dropped
<1>6. PICK r : /\ Update(q, r) /\ r \in Handling(S) /\ r.at \in {"done", "dropped"}
               /\ \/ r = wrote /\ logged' = logged \cup {Row(q)} /\ logStore = "store"
                  \/ r \in {failed, dropped} /\ logged' = logged
  BY <1>2, <1>4, <1>5
<1>7. Shape' /\ req'[q] = r /\ \A p \in Request \ {q} : req'[p] = req[p]
  BY <1>1, <1>6, UpdateShape
<1>8. /\ Row(q).request = q /\ Row(q).life = restarts /\ Row(q).id = h.id
      /\ Row(q).route = h.route /\ Row(q).target = h.target
  BY DEF Row, h
<1>9. Counted' /\ requestSeq' \in 0..Cardinality(Request)
  <2>1. Numbered \subseteq Numbered'
    BY <1>6, <1>7 DEF Numbered
  <2> QED BY <1>2, <2>1, CountKept DEF QInv, TypeOK
<1>10. h.id \in 1..requestSeq /\ requestSeq \in 0..Cardinality(Request) /\ restarts \in Nat
       /\ Cardinality(Request) \in Nat
  BY <1>2, FS_CardinalityType DEF h, QInv, NumberInHand, TypeOK
<1>11. TypeOK'
  <2>1. h.id \in 1..Cardinality(Request)
    BY <1>10
  <2> QED BY <1>2, <1>6, <1>7, <1>8, <1>9, <2>1 DEF QInv, TypeOK
<1>12. LogReached' /\ RowsPast'
  BY <1>2, <1>6, <1>7, <1>8, <1>10 DEF QInv, LogReached, RowsPast
<1>13. NumberInHand'
  <2>1. \A p \in Request \ {q} : req[p].at = "inserting" => req[p].id # h.id
    BY <1>2 DEF h, QInv, NumberInHand
  <2> QED BY <1>2, <1>6, <1>7, <1>8, <2>1 DEF QInv, NumberInHand
<1>14. NumbersUnique'
  <2>1. \A x \in logged : x.life = restarts => x.id # h.id
    BY <1>2 DEF h, QInv, NumberInHand
  <2> QED BY <1>6, <1>8, <2>1 DEF QInv, NumbersUnique
<1>15. OneRowPerAnswer'
  <2>1. \A x \in logged : x.request # q
    BY <1>2 DEF QInv, OneRowPerAnswer
  <2>2. ASSUME NEW p \in Request \ {q}
        PROVE  {x \in logged' : x.request = p} = {x \in logged : x.request = p}
    BY <1>6, <1>8
  <2>3. CASE r = wrote /\ logged' = logged \cup {Row(q)} /\ logStore = "store"
    <3>1. {x \in logged' : x.request = q} = {Row(q)}
      BY <1>8, <2>1, <2>3
    <3>2. ASSUME NEW p \in Request
          PROVE  LET rows == {x \in logged' : x.request = p}
                 IN  IF req'[p].at = "done" /\ LogRequests /\ logStore = "store"
                        /\ ~req'[p].lost
                     THEN \E x \in rows : /\ rows = {x} /\ x.id = req'[p].id
                                           /\ x.route = req'[p].route /\ x.target = req'[p].target
                     ELSE rows = {}
      <4>1. CASE p = q
        BY <1>2, <1>4, <1>7, <1>8, <2>3, <3>1, <4>1
      <4>2. CASE p # q
        BY <1>7, <2>2, <4>2 DEF QInv, OneRowPerAnswer
      <4> QED BY <4>1, <4>2
    <3> QED BY <1>2, <3>2 DEF OneRowPerAnswer
  <2>4. CASE r \in {failed, dropped} /\ logged' = logged
    BY <1>2, <1>5, <1>7, <2>1, <2>4 DEF QInv, OneRowPerAnswer
  <2> QED BY <1>6, <2>3, <2>4
<1> QED BY <1>7, <1>9, <1>11, <1>12, <1>13, <1>14, <1>15 DEF QInv

\* A restart begins a life without rows; what was in progress is gone.
LEMMA RestartQ ==
    ASSUME QInv, NEW c \in Configuration, Restart(c)
    PROVE  QInv'
<1>1. PICK S : req \in [Request -> Handling(S)]
  BY DEF QInv, Shape
<1>2. /\ cfg' = c /\ router' = RouterOrder(c) /\ requestSeq' = 0 /\ UNCHANGED <<logStore, logged, reloads>>
      /\ restarts \in Nat /\ restarts' = restarts + 1 /\ restarts' \in 0..MaxRestarts
  BY DEF Restart, QInv, TypeOK
<1>3. ASSUME NEW p \in Request
      PROVE  /\ req'[p] \in Handling(S)
             /\ \/ req[p].at \in {"idle", "done", "dropped"} /\ req'[p] = req[p]
                \/ req[p].at \notin {"idle", "done", "dropped"} /\ req'[p].at = "gone" /\ ~req'[p].lost
  <2> DEFINE h == req[p]
             g == [h EXCEPT !.at = "gone"]
  <2>1. h \in Handling(S) /\ req'[p] = IF h.at \in {"idle", "done", "dropped"} THEN h ELSE g
    BY <1>1 DEF Restart
  <2>2. h.at \notin {"done", "dropped"} => ~h.lost
    BY DEF QInv, LogReached
  <2> HIDE DEF h
  <2>3. g \in Handling(S) /\ g.at = "gone" /\ (h.at \notin {"done", "dropped"} => ~g.lost)
    BY <2>1, <2>2 DEF Handling, Step
  <2> HIDE DEF g
  <2>4. CASE h.at \in {"idle", "done", "dropped"}
    BY <2>1, <2>4 DEF h
  <2>5. CASE h.at \notin {"idle", "done", "dropped"}
    BY <2>1, <2>3, <2>5 DEF h
  <2> QED BY <2>4, <2>5
<1>4. Shape'
  <2>1. DOMAIN req' = Request /\ req' = [p \in Request |-> req'[p]]
    BY DEF Restart
  <2>2. req' \in [Request -> Handling(S)]
    BY <1>3, <2>1
  <2> QED BY <2>2 DEF Shape
<1>5. Counted' /\ 0 \in 0..Cardinality(Request)
  <2>1. IsFiniteSet(Numbered')
    BY FS_Subset DEF Numbered
  <2>2. Cardinality(Numbered') \in Nat /\ Cardinality(Request) \in Nat
    BY <2>1, FS_CardinalityType
  <2> QED BY <1>2, <2>2 DEF Counted
<1>6. TypeOK'
  BY <1>2, <1>3, <1>5 DEF QInv, TypeOK
<1>7. LogReached' /\ NumberInHand'
  BY <1>3 DEF QInv, LogReached, NumberInHand
<1>8. RowsPast' /\ NumbersUnique'
  BY <1>2 DEF QInv, RowsPast, NumbersUnique
<1>9. OneRowPerAnswer'
  BY <1>2, <1>3 DEF QInv, OneRowPerAnswer
<1> QED BY <1>4, <1>5, <1>6, <1>7, <1>8, <1>9 DEF QInv

\* A reload touches no request and no row.
LEMMA ReloadQ ==
    ASSUME QInv, UNCHANGED vars \/ \E c \in Configuration : Reload(c)
    PROVE  QInv'
<1>1. /\ UNCHANGED <<req, requestSeq, logStore, logged, restarts>>
      /\ cfg' \in Configuration /\ router' = RouterOrder(cfg') /\ reloads' \in 0..MaxReloads
  BY DEF vars, Reload, QInv, TypeOK
<1>2. TypeOK' /\ Shape' /\ Counted'
  BY <1>1 DEF QInv, TypeOK, Shape, Counted, Numbered
<1> QED BY <1>1, <1>2 DEF QInv, LogReached, NumberInHand, RowsPast, OneRowPerAnswer, NumbersUnique

LEMMA StepQ == QInv /\ [Next]_vars => QInv'
BY ArriveQ, PickQ, RewriteQ, ForwardQ, AbortQ, NumberQ, InsertQ, RestartQ, ReloadQ DEF Next

LEMMA InitQ == Init => QInv
<1> SUFFICES ASSUME Init PROVE QInv
  OBVIOUS
<1> DEFINE S == {NoRequest, NoTarget, NoRoute, <<>>}
<1>1. Fresh \in Handling(S) /\ Fresh.at = "idle" /\ ~Fresh.lost
  BY DEF Fresh, Handling, Step, Status
<1>2. Shape /\ \A q \in Request : req[q].at = "idle" /\ ~req[q].lost
  BY <1>1 DEF Init, Shape
<1>3. IsFiniteSet(Numbered) /\ Cardinality(Request) \in Nat
  BY FS_Subset, FS_CardinalityType DEF Numbered
<1>4. Cardinality(Numbered) \in Nat
  BY <1>3, FS_CardinalityType
<1>5. TypeOK /\ Counted
  BY <1>2, <1>3, <1>4 DEF Init, TypeOK, Counted
<1> QED BY <1>2, <1>5 DEF Init, QInv, LogReached, NumberInHand, RowsPast, OneRowPerAnswer, NumbersUnique

-----------------------------------------------------------------------------
(* What a request is handled with *)

\* The state h of a request: its route is the best of its configuration, its
\* target the route's; until it is rewritten it is what the client sent, and
\* what it is or was forwarded as has been rewritten whole.
Handled(h) ==
    /\ h.at # "idle" =>
          h.client \in Client /\ h.cfg \in Configuration /\ IsBest(h.cfg, h.client, h.route)
    /\ h.at = "idle" => h.target = NoTarget
    /\ h.at \in {"idle", "picking", "rewriting", "forwarding"} => h.upstream = NoRequest
    /\ h.at \in {"picking", "rewriting", "forwarding"} => h.route \in ToSet(h.cfg)
    /\ h.at \in {"picking", "rewriting"} => h.now = h.client
    /\ h.at = "forwarding" =>
          HasParts(h.now) /\ WholeTo(Len(h.route.rewrite), h.client, h.now, h.route.rewrite)
    /\ h.target # NoTarget => h.route \in ToSet(h.cfg) /\ h.target \in h.route.targets
    /\ h.upstream # NoRequest => Whole(h.client, h.upstream, h.route, h.target)

HInv == QInv /\ \A q \in Request : Handled(req[q])

\* Only q's state changes.
LEMMA UpdateH ==
    ASSUME HInv, NEW q \in Request, NEW r, Update(q, r), Handled(r)
    PROVE  \A p \in Request : Handled(req'[p])
<1>1. PICK S : req \in [Request -> Handling(S)]
  BY DEF HInv, QInv, Shape
<1>2. req'[q] = r /\ \A p \in Request \ {q} : req'[p] = req[p]
  BY <1>1 DEF Update
<1> QED BY <1>2 DEF HInv

\* What is answered is past rewriting and forwarding.
Ended(h) == [h EXCEPT !.at = "done"]

LEMMA AnswerH ==
    ASSUME NEW S, NEW h \in Handling(S), Handled(Ended(h)),
           NEW status, NEW failed
    PROVE  Handled(Answered(h, status, failed))
<1> DEFINE x == [h EXCEPT !.at = AfterAnswer, !.status = status, !.failed = failed]
           d == [h EXCEPT !.at = "done"]
<1>1. /\ x.at \in {"numbering", "done"} /\ d.at = "done"
      /\ x.client = d.client /\ x.cfg = d.cfg /\ x.route = d.route
      /\ x.target = d.target /\ x.upstream = d.upstream
  BY DEF Handling, AfterAnswer
<1>2. Answered(h, status, failed) = x /\ Ended(h) = d
  BY DEF Answered, Ended
<1> HIDE DEF x, d
<1>3. Handled(x)
  BY <1>1, <1>2 DEF Handled
<1> QED BY <1>2, <1>3

LEMMA ArriveH ==
    ASSUME HInv, NEW q \in Request, NEW c \in Client, Arrive(q, c)
    PROVE  \A p \in Request : Handled(req'[p])
<1> DEFINE route == Match(router, c)
           r == [Fresh EXCEPT !.client = c, !.now = c, !.cfg = cfg, !.router = router,
                              !.route = route]
           on == [r EXCEPT !.at = "picking"]
           out == [r EXCEPT !.at = "done"]
           T == {c, cfg, router, route, NoRequest, NoTarget, <<>>, NoRoute}
<1>0. /\ Fresh \in Handling(T) /\ Fresh.target = NoTarget /\ Fresh.upstream = NoRequest
      /\ {c, cfg, router, route} \subseteq T
  <2> HIDE DEF route
  <2> QED BY FreshIs
<1>4. Update(q, IF route = NoRoute THEN Answered(r, 404, FALSE) ELSE on)
  BY DEF Arrive
<1>5. cfg \in Configuration /\ router = RouterOrder(cfg)
  BY DEF HInv, QInv, TypeOK
<1>6. Listing(cfg) /\ c.path \in Seq(Char)
  BY <1>5, ConfigurationAssumption, ClientAssumption DEF Listing
<1>7. IsBest(cfg, c, route) /\ (route = NoRoute \/ route \in ToSet(cfg))
  BY <1>5, <1>6, MatchIsBest DEF ToSet
<1> HIDE DEF on, out, T, route
<1>1. /\ r \in Handling(T) /\ r.client = c /\ r.now = c /\ r.cfg = cfg /\ r.route = route
      /\ r.target = NoTarget /\ r.upstream = NoRequest
  <2>1. r = Found(Fresh, c, cfg, router, route)
    BY DEF Found
  <2> HIDE DEF r
  <2> QED BY <1>0, <2>1, FoundIs
<1> HIDE DEF r
<1>2. /\ on.at = "picking" /\ on.client = c /\ on.now = c /\ on.cfg = cfg /\ on.route = route
      /\ on.target = NoTarget /\ on.upstream = NoRequest
  <2>1. "picking" \in Step
    BY DEF Step
  <2> QED BY <1>1, <2>1, Moved DEF on
<1>3. /\ out.at = "done" /\ out.client = c /\ out.cfg = cfg /\ out.route = route
      /\ out.target = NoTarget /\ out.upstream = NoRequest
  <2>1. "done" \in Step
    BY DEF Step
  <2> QED BY <1>1, <2>1, Moved DEF out
<1>8. CASE route = NoRoute
  <2>1. Handled(out)
    BY <1>3, <1>5, <1>7 DEF Handled
  <2>2. Handled(Answered(r, 404, FALSE))
    <3>1. Handled(Ended(r))
      BY <2>1 DEF out, Ended
    <3>2. \A status, failed : Handled(Answered(r, status, failed))
      BY <1>1, <3>1, AnswerH
    <3> QED BY <3>2, Zenon
  <2> QED BY <1>4, <1>8, <2>2, UpdateH
<1>9. CASE route # NoRoute
  <2>1. Handled(on)
    BY <1>2, <1>5, <1>7, <1>9 DEF Handled
  <2> QED BY <1>4, <1>9, <2>1, UpdateH
<1> QED BY <1>8, <1>9

LEMMA PickH ==
    ASSUME HInv, NEW q \in Request, Pick(q)
    PROVE  \A p \in Request : Handled(req'[p])
<1>1. PICK S : req \in [Request -> Handling(S)]
  BY DEF HInv, QInv, Shape
<1> DEFINE h == req[q]
<1>2. PICK t \in h.route.targets : Chosen(q, t)
  BY DEF Pick
<1> DEFINE r == [h EXCEPT !.target = t]
           on == [r EXCEPT !.at = "rewriting"]
           out == [r EXCEPT !.at = "done"]
<1>3. /\ h.at = "picking" /\ h \in Handling(S) /\ Handled(h)
      /\ \/ Update(q, Answered(r, 302, FALSE)) \/ Update(q, Answered(r, 502, TRUE))
         \/ Update(q, on)
  BY <1>1, <1>2 DEF Pick, Chosen, HInv
<1> HIDE DEF h
<1>4. r \in Handling(S \cup {t})
  BY <1>3 DEF Handling
<1>5. /\ on.at = "rewriting" /\ on.client = h.client /\ on.now = h.now /\ on.cfg = h.cfg
      /\ on.route = h.route /\ on.target = t /\ on.upstream = h.upstream
  BY <1>3 DEF Handling
<1>6. /\ out.at = "done" /\ out.client = h.client /\ out.cfg = h.cfg
      /\ out.route = h.route /\ out.target = t /\ out.upstream = h.upstream
  BY <1>3 DEF Handling
<1> HIDE DEF r, on, out
<1>7. Handled(on)
  BY <1>2, <1>3, <1>5 DEF Handled
<1>8. Handled(out)
  BY <1>2, <1>3, <1>6 DEF Handled
<1>9. ASSUME NEW status, NEW failed, Update(q, Answered(r, status, failed))
      PROVE  \A p \in Request : Handled(req'[p])
  <2>1. Handled(Ended(r))
    BY <1>8 DEF out, Ended
  <2>2. Handled(Answered(r, status, failed))
    BY <1>4, <2>1, AnswerH
  <2> QED BY <1>9, <2>2, UpdateH
<1>10. CASE Update(q, on)
  BY <1>7, <1>10, UpdateH
<1>11. CASE Update(q, Answered(r, 302, FALSE))
  <2>1. PICK failed \in BOOLEAN : Update(q, Answered(r, 302, failed))
    BY <1>11
  <2> QED BY <1>9, <2>1
<1>12. CASE Update(q, Answered(r, 502, TRUE))
  <2>1. PICK failed \in BOOLEAN : Update(q, Answered(r, 502, failed))
    BY <1>12
  <2> QED BY <1>9, <2>1
<1> QED BY <1>3, <1>10, <1>11, <1>12

LEMMA RewriteH ==
    ASSUME HInv, NEW q \in Request, Rewrite(q)
    PROVE  \A p \in Request : Handled(req'[p])
<1>1. PICK S : req \in [Request -> Handling(S)]
  BY DEF HInv, QInv, Shape
<1> DEFINE h == req[q]
           rules == h.route.rewrite
           s == ApplyRules(h.now, rules)
           sent == s.now
           r == [h EXCEPT !.now = sent]
           on == [r EXCEPT !.at = "forwarding"]
           out == [r EXCEPT !.at = "done"]
<1>2. /\ h.at = "rewriting" /\ h \in Handling(S) /\ Handled(h)
      /\ Update(q, IF s.ok THEN on ELSE Answered(r, 400, TRUE))
  BY <1>1 DEF Rewrite, HInv
<1>3. h.now = h.client /\ h.client \in Client /\ h.cfg \in Configuration /\ h.route \in ToSet(h.cfg)
  BY <1>2 DEF Handled
<1>4. rules \in Seq(ToSet(rules)) /\ HasParts(h.client)
  <2> HIDE DEF h
  <2>1. PICK i \in DOMAIN h.cfg : h.route = h.cfg[i]
    BY <1>3 DEF ToSet
  <2>2. h.cfg[i].rewrite \in Seq(ToSet(h.cfg[i].rewrite))
    BY <1>3, <2>1, ConfigurationAssumption DEF RulesAssumption
  <2>3. HasParts(h.client)
    BY <1>3, ClientAssumption DEF HasParts
  <2> QED BY <2>1, <2>2, <2>3
<1> HIDE DEF h, rules, s
<1>5. s.ok => HasParts(sent) /\ WholeTo(Len(rules), h.client, sent, rules)
  BY <1>3, <1>4, AppliedWhole DEF s
<1> HIDE DEF sent
<1>6. r \in Handling(S \cup {sent})
  BY <1>2 DEF Handling
<1>7. /\ on.at = "forwarding" /\ on.client = h.client /\ on.now = sent /\ on.cfg = h.cfg
      /\ on.route = h.route /\ on.target = h.target /\ on.upstream = h.upstream
  BY <1>2 DEF Handling
<1>8. /\ out.at = "done" /\ out.client = h.client /\ out.cfg = h.cfg
      /\ out.route = h.route /\ out.target = h.target /\ out.upstream = h.upstream
  BY <1>2 DEF Handling
<1> HIDE DEF r, on, out
<1>9. CASE s.ok
  <2>1. Handled(on)
    BY <1>2, <1>5, <1>7, <1>9 DEF Handled, rules
  <2> QED BY <1>2, <1>9, <2>1, UpdateH
<1>10. CASE ~s.ok
  <2>1. Handled(out)
    BY <1>2, <1>8 DEF Handled
  <2>2. Handled(Answered(r, 400, TRUE))
    <3>1. Handled(Ended(r))
      BY <2>1 DEF out, Ended
    <3>2. \A status, failed : Handled(Answered(r, status, failed))
      BY <1>6, <3>1, AnswerH
    <3> QED BY <3>2, Zenon
  <2> QED BY <1>2, <1>10, <2>2, UpdateH
<1> QED BY <1>9, <1>10

\* What is sent while a request is forwarded.
LEMMA SentH ==
    ASSUME HInv, NEW q \in Request, req[q].at = "forwarding"
    PROVE  Whole(req[q].client, Sent(q), req[q].route, req[q].target)
<1>1. HasParts(req[q].now)
      /\ WholeTo(Len(req[q].route.rewrite), req[q].client, req[q].now, req[q].route.rewrite)
  BY DEF HInv, Handled
<1> QED BY <1>1, DirectedWhole DEF Sent

LEMMA ForwardH ==
    ASSUME HInv, NEW q \in Request, NEW status \in {200, 502}, Forward(q, status)
    PROVE  \A p \in Request : Handled(req'[p])
<1>1. PICK S : req \in [Request -> Handling(S)]
  BY DEF HInv, QInv, Shape
<1> DEFINE r == Given(q)
<1>2. req[q].at = "forwarding" /\ req[q] \in Handling(S) /\ Handled(req[q])
  BY <1>1 DEF HInv, Forward
<1>3. PICK failed \in BOOLEAN : Update(q, Answered(r, status, failed))
  BY ForwardGives
<1>4. Whole(req[q].client, Sent(q), req[q].route, req[q].target)
  BY <1>2, SentH
<1>5. /\ r \in Handling(S \cup {Sent(q)})
      /\ r.client = req[q].client /\ r.cfg = req[q].cfg /\ r.route = req[q].route
      /\ r.target = req[q].target /\ r.upstream = Sent(q)
  BY <1>2, GivenIs
<1> DEFINE out == [r EXCEPT !.at = "done"]
<1>6. /\ out.at = "done" /\ out.client = r.client /\ out.cfg = r.cfg
      /\ out.route = r.route /\ out.target = r.target /\ out.upstream = r.upstream
  BY <1>5 DEF Handling
<1> HIDE DEF out, r
<1>7. Handled(out)
  BY <1>2, <1>4, <1>5, <1>6 DEF Handled
<1>8. Handled(Answered(r, status, failed))
  <2>1. Handled(Ended(r))
    BY <1>7 DEF out, Ended
  <2> QED BY <1>5, <2>1, AnswerH
<1> QED BY <1>3, <1>8, UpdateH

LEMMA AbortH ==
    ASSUME HInv, NEW q \in Request, Abort(q)
    PROVE  \A p \in Request : Handled(req'[p])
<1>1. PICK S : req \in [Request -> Handling(S)]
  BY DEF HInv, QInv, Shape
<1> DEFINE h == req[q]
           sent == Sent(q)
           r == [h EXCEPT !.upstream = sent, !.at = "done", !.lost = TRUE]
<1>2. h.at = "forwarding" /\ Update(q, r)
  BY DEF Abort
<1>3. h \in Handling(S) /\ Handled(h)
  BY <1>1 DEF HInv
<1>4. Whole(h.client, sent, h.route, h.target)
  BY <1>2, SentH
<1> HIDE DEF h, sent
<1>5. /\ r.at = "done" /\ r.client = h.client /\ r.cfg = h.cfg
      /\ r.route = h.route /\ r.target = h.target /\ r.upstream = sent
  BY <1>3 DEF Handling
<1> HIDE DEF r
<1>6. Handled(r)
  BY <1>2, <1>3, <1>4, <1>5 DEF Handled
<1> QED BY <1>2, <1>6, UpdateH

\* The steps of the log, a restart and a reload leave alone what a request is
\* handled with.
LEMMA LogH ==
    ASSUME HInv, \/ UNCHANGED vars
                 \/ \E q \in Request :
                       NextRequestId(q) \/ CreateRequestLog(q) \/ LogFails(q) \/ LogPanics(q)
                 \/ \E c \in Configuration : Reload(c) \/ Restart(c)
    PROVE  \A p \in Request : Handled(req'[p])
<1>1. PICK S : req \in [Request -> Handling(S)]
  BY DEF HInv, QInv, Shape
<1>2. ASSUME NEW p \in Request
      PROVE  \/ req'[p] = req[p]
             \/ /\ req[p].at # "idle" /\ req'[p].at \in {"inserting", "done", "dropped", "gone"}
                /\ req'[p].client = req[p].client /\ req'[p].cfg = req[p].cfg
                /\ req'[p].route = req[p].route /\ req'[p].target = req[p].target
                /\ req'[p].upstream = req[p].upstream
  <2> DEFINE h == req[p]
             numbered == [h EXCEPT !.id = requestSeq', !.at = "inserting"]
             wrote == [h EXCEPT !.at = "done"]
             lost == [h EXCEPT !.at = "done", !.lost = TRUE]
             dropped == [h EXCEPT !.at = "dropped", !.lost = TRUE]
             gone == [h EXCEPT !.at = "gone"]
  <2>1. \/ req'[p] = h
        \/ h.at # "idle" /\ req'[p] \in {numbered, wrote, lost, dropped, gone}
    <3>1. CASE \E c \in Configuration : Restart(c)
      BY <3>1 DEF Restart
    <3>2. CASE UNCHANGED req
      BY <3>2
    <3>3. CASE \E q \in Request :
                 NextRequestId(q) \/ CreateRequestLog(q) \/ LogFails(q) \/ LogPanics(q)
      <4>1. PICK q \in Request : /\ req[q].at # "idle"
                                 /\ \/ NextRequestId(q)
                                    \/ CreateRequestLog(q)
                                    \/ LogFails(q)
                                    \/ LogPanics(q)
        BY <3>3 DEF NextRequestId, CreateRequestLog, LogFails, LogPanics
      <4>2. q = p \/ req'[p] = h
        BY <1>1, <4>1 DEF NextRequestId, CreateRequestLog, LogFails, LogPanics, Update
      <4>3. q = p => req'[p] \in {numbered, wrote, lost, dropped}
        BY <1>1, <4>1 DEF NextRequestId, CreateRequestLog, LogFails, LogPanics, Update
      <4> QED BY <4>1, <4>2, <4>3
    <3> QED BY <3>1, <3>2, <3>3 DEF vars, Reload
  <2>2. h \in Handling(S)
    BY <1>1
  <2> HIDE DEF h
  <2>3. ASSUME NEW x \in {numbered, wrote, lost, dropped, gone}
        PROVE  /\ x.at \in {"inserting", "done", "dropped", "gone"} /\ x.client = h.client /\ x.cfg = h.cfg
               /\ x.route = h.route /\ x.target = h.target /\ x.upstream = h.upstream
    BY <2>2 DEF Handling
  <2> HIDE DEF numbered, wrote, lost, dropped, gone
  <2> QED BY <2>1, <2>3 DEF h
<1> SUFFICES ASSUME NEW p \in Request PROVE Handled(req'[p])
  OBVIOUS
<1>3. Handled(req[p])
  BY DEF HInv
<1> QED BY <1>2, <1>3 DEF Handled

LEMMA StepH == HInv /\ [Next]_vars => HInv'
<1>1. HInv /\ [Next]_vars => \A p \in Request : Handled(req'[p])
  BY ArriveH, PickH, RewriteH, ForwardH, AbortH, LogH DEF Next
<1> QED BY <1>1, StepQ DEF HInv

LEMMA InitH == Init => HInv
<1>1. ASSUME Init, NEW q \in Request PROVE Handled(req[q])
  <2>1. /\ req[q].at = "idle" /\ req[q].target = NoTarget /\ req[q].upstream = NoRequest
    BY <1>1 DEF Init, Fresh
  <2> QED BY <2>1 DEF Handled
<1> QED BY <1>1, InitQ DEF HInv

-----------------------------------------------------------------------------
(* Theorems *)

\* The gateway's counter never exceeds the requests, whatever is in progress.
THEOREM GatewayTypes == Spec => []TypeOK
<1>1. QInv => TypeOK
  BY DEF QInv
<1> QED BY <1>1, InitQ, StepQ, PTL DEF Spec

\* Every answered request has exactly its own row, through reloads and
\* restarts, unless its upstream broke off or the insert failed.
THEOREM AnswersAreLogged == Spec => []OneRowPerAnswer
<1>1. QInv => OneRowPerAnswer
  BY DEF QInv
<1> QED BY <1>1, InitQ, StepQ, PTL DEF Spec

\* No two rows of one life of the process have the same number, however many
\* requests overlap.
THEOREM NumbersStayUnique == Spec => []NumbersUnique
<1>1. QInv => NumbersUnique
  BY DEF QInv
<1> QED BY <1>1, InitQ, StepQ, PTL DEF Spec

\* Whatever the configurations list and whenever they are loaded, a request is
\* handled by the route with the highest priority, and of several the first
\* listed, among those that take it.
THEOREM RequestsGoToTheBest == Spec => []RoutedToBest
<1>1. HInv => RoutedToBest
  BY DEF HInv, Handled, RoutedToBest
<1> QED BY <1>1, InitH, StepH, PTL DEF Spec

\* A request's route and target are of the one configuration it found.
THEOREM RequestsKeepTheirConfiguration == Spec => []OneConfiguration
<1>1. HInv => OneConfiguration
  BY DEF HInv, Handled, OneConfiguration
<1> QED BY <1>1, InitH, StepH, PTL DEF Spec

\* What reaches an upstream has been rewritten by every rule of its route,
\* however many there are and whatever they set: of each header the value of
\* the last rule that sets it, the gateway's own two headers over them, and the
\* client's other headers as they came.
THEOREM RequestsAreForwardedWhole == Spec => []ForwardedWhole
<1>1. HInv => ForwardedWhole
  BY DEF HInv, Handled, ForwardedWhole
<1> QED BY <1>1, InitH, StepH, PTL DEF Spec
=============================================================================

--------------------------- MODULE RequestMatching ---------------------------
(***************************************************************************)
(* How the router orders its routes and finds the one for a request:       *)
(* router.New's sort, Match, matches, pathMatches.                         *)
(***************************************************************************)
EXTENDS Integers, SequencesExt

CONSTANTS
    Char,      \* the characters of paths
    Slash,     \* the character "/"
    AnyHost,   \* no host in a match
    NoRoute    \* no route matches

ASSUME MatchingAssumption == Slash \in Char

\* A pattern, by its last characters: tree p/**, prefix p*, exact p, or empty.
PatternKind == {"tree", "prefix", "exact", "empty"}

Pattern == [kind : PatternKind, text : Seq(Char)]

\* Faulty variant: p/** also takes what continues p's last segment.
PathMatchesLoose(pattern, path) ==
    CASE pattern.kind = "empty" -> FALSE
      [] pattern.kind \in {"tree", "prefix"} -> IsPrefix(pattern.text, path)
      [] OTHER -> path = pattern.text

PathMatches(pattern, path) ==
    CASE pattern.kind = "empty" -> FALSE
      [] pattern.kind = "tree" ->
            path = pattern.text \/ IsPrefix(Append(pattern.text, Slash), path)
      [] pattern.kind = "prefix" -> IsPrefix(pattern.text, path)
      [] OTHER -> path = pattern.text

\* Hosts and methods compare without case: equal ones are one value.  The host
\* is the request's as it stands, with its port when it has one.
Matches(route, req) ==
    /\ route.host \in {AnyHost, req.host}
    /\ PathMatches(route.pattern, req.path)
    /\ route.methods = {} \/ req.method \in route.methods

\* router.New, a stable sort: highest priority first, otherwise as listed.
Before(listed, i, j) ==
    \/ listed[i].priority > listed[j].priority
    \/ listed[i].priority = listed[j].priority /\ i < j

\* p[n] is the place in the list of the n-th route of the router.
IsOrder(p, listed) ==
    /\ p \in Surjection(DOMAIN listed, DOMAIN listed)
    /\ \A m, n \in DOMAIN listed : m < n => Before(listed, p[m], p[n])

RouterOrder(listed) ==
    LET order == CHOOSE p \in [DOMAIN listed -> DOMAIN listed] : IsOrder(p, listed)
    IN  [n \in DOMAIN listed |-> listed[order[n]]]

\* The first route that takes the request.
Match(router, req) ==
    LET taking == {n \in DOMAIN router : Matches(router[n], req)}
    IN  IF taking = {} THEN NoRoute ELSE router[Min(taking)]

-----------------------------------------------------------------------------
(* What a reader of the configuration expects *)

\* p/** takes p and what is below it: the match ends where a segment ends.
Covers(pattern, path) ==
    LET n == Len(pattern.text)
        starts == n <= Len(path) /\ SubSeq(path, 1, n) = pattern.text
    IN  CASE pattern.kind = "tree" -> starts /\ (n < Len(path) => path[n + 1] = Slash)
          [] pattern.kind = "prefix" -> starts
          [] pattern.kind = "exact" -> path = pattern.text
          [] OTHER -> FALSE

\* Of the routes that take the request, the one with the highest priority;
\* of several, the one created first.
IsBest(listed, req, route) ==
    LET Takes(r) == /\ Covers(r.pattern, req.path)
                    /\ r.host \in {AnyHost, req.host}
                    /\ r.methods = {} \/ req.method \in r.methods
        takers == {i \in DOMAIN listed : Takes(listed[i])}
    IN  IF takers = {} THEN route = NoRoute
        ELSE \E i \in takers :
                /\ route = listed[i]
                /\ \A j \in takers \ {i} :
                      \/ listed[j].priority < listed[i].priority
                      \/ listed[j].priority = listed[i].priority /\ i < j
=============================================================================

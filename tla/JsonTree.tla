------------------------------ MODULE JsonTree ------------------------------
(***************************************************************************)
(* JSON documents as trees, and what mapping.Set makes of one: the meaning *)
(* that rules of a request's body and of a response share.  A document is  *)
(* a function from the paths it has to scalars and the two kinds of node;  *)
(* a path is a sequence of keys and indexes, the empty one is "$".         *)
(***************************************************************************)
EXTENDS Integers, FiniteSets, SequencesExt

CONSTANTS
    Key, Scalar,
    Map, List,       \* inner nodes of a tree
    Null,            \* what an array is filled up with
    BadPath,         \* a path that parsePath refuses
    MaxDepth,        \* bound: keys and indexes on a path
    MaxIndex         \* bound: indexes

Index == 0..MaxIndex
Path == BoundedSeq(Key \cup Index, MaxDepth)

ASSUME TreeAssumption ==
    /\ Null \in Scalar /\ MaxIndex \in Nat /\ MaxDepth \in Nat
    /\ Key \cap Int = {} /\ BadPath \notin Path
    /\ Map # List /\ Scalar \cap {Map, List} = {}

\* newContainer: the kind of node that has a member s.
NodeFor(s) == IF s \in Index THEN List ELSE Map

Members(t, p) == {s \in Key \cup Index : Append(p, s) \in DOMAIN t}

IsTree(t) ==
    /\ DOMAIN t \subseteq Path /\ <<>> \in DOMAIN t
    /\ t \in [DOMAIN t -> Scalar \cup {Map, List}]
    /\ \A p \in DOMAIN t \ {<<>>} :
          Front(p) \in DOMAIN t /\ t[Front(p)] = NodeFor(Last(p))
    /\ \A p \in DOMAIN t : t[p] = List => Members(t, p) = 0..(Cardinality(Members(t, p)) - 1)

\* The object {}.
Empty == [p \in {<<>>} |-> Map]

\* The nodes on the way to p.
Steps(p) == {SubSeq(p, 1, n) : n \in 0..(Len(p) - 1)}

\* What t has at p: a tree of its own.
Below(t, p) == [x \in {y \in Path : p \o y \in DOMAIN t} |-> t[p \o x]]

\* t without what is below a node on the way to p that is of the wrong kind.
Cleared(t, p) ==
    [x \in {y \in DOMAIN t : \A n \in 1..Len(p) :
                IsStrictPrefix(SubSeq(p, 1, n - 1), y) =>
                    t[SubSeq(p, 1, n - 1)] = NodeFor(p[n])} |-> t[x]]

\* The places an array on the way to p has before its index.
Padding(p) ==
    UNION {{Append(SubSeq(p, 1, n - 1), i) : i \in 0..(p[n] - 1)} :
              n \in {k \in 1..Len(p) : p[k] \in Index}}

\* t with sub at p; whatever is on the way becomes a map or an array, and
\* arrays are filled up to p.
Graft(t, p, sub) ==
    LET old == Cleared(t, p)
    IN  [x \in Steps(p) \cup Padding(p) \cup {y \in DOMAIN old : ~IsPrefix(p, y)}
               \cup ({p \o y : y \in DOMAIN sub} \cap Path) |->
            CASE IsPrefix(p, x)  -> sub[SubSeq(x, Len(p) + 1, Len(x))]
              [] x \in Steps(p)  -> NodeFor(p[Len(x) + 1])
              [] OTHER           -> IF x \in DOMAIN old THEN old[x] ELSE Null]
=============================================================================

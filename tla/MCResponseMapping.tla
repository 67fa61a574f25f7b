-------------------------- MODULE MCResponseMapping --------------------------
(***************************************************************************)
(* TLC instance of ResponseMapping: two requests, documents of a user and  *)
(* a name in it, and the ways a mapping can place and extend objects.      *)
(***************************************************************************)
EXTENDS ResponseMapping

CONSTANTS user, name, data, ann, bob, yes, ok

Leaf(v) == [p \in {<<>>} |-> v]
Copy(from, to) == [from |-> from, value |-> NoValue, to |-> to]
Put(tree, to) == [from |-> NoPath, value |-> tree, to |-> to]

\* {"user": {"name": v}}
Person(v) ==
    [p \in {<<>>, <<user>>, <<user, name>>} |-> IF p = <<user, name>> THEN v ELSE Map]

\* {"name": v}
Named(v) == [p \in {<<>>, <<name>>} |-> IF p = <<>> THEN Map ELSE v]

\* [v, v, v], of which json.Unmarshal leaves room for one more, and
\* {"user": [v, v, v]}
Triple(v) == [p \in {<<>>, <<0>>, <<1>>, <<2>>} |-> IF p = <<>> THEN List ELSE v]
UserTriple(v) ==
    [p \in {<<>>} \cup {<<user>> \o x : x \in DOMAIN Triple(v)} |->
        IF p = <<>> THEN Map ELSE Triple(v)[Tail(p)]]

MCResponses ==
    {[kind |-> "json", body |-> b] : b \in {Person(ann), Named(bob), UserTriple(bob), Leaf(yes)}}
    \cup {[kind |-> k, body |-> Named(bob)] : k \in {"other", "unusable"}}

MCRuleLists == {
    <<>>,
    \* two back ends, one structure
    <<Copy(<<user, name>>, <<data, name>>), Copy(<<name>>, <<data, name>>), Put(Leaf(yes), <<ok>>)>>,
    \* a copied object is extended
    <<Copy(<<user>>, <<data>>), Put(Leaf(yes), <<data, ok>>), Copy(<<name>>, <<data, name>>)>>,
    \* and read again
    <<Copy(<<user>>, <<data>>), Put(Leaf(yes), <<data, name>>), Copy(<<user, name>>, <<name>>)>>,
    \* the response in itself
    <<Copy(<<>>, <<>>), Copy(<<>>, <<data>>)>>,
    \* a template that is filled
    <<Put(Named(yes), <<>>), Copy(<<user, name>>, <<name>>)>>,
    <<Put(Named(yes), <<data>>), Copy(<<user>>, <<data>>), Put(Leaf(yes), <<data, ok>>)>>,
    \* a value instead of an object, an object instead of a value
    <<Copy(<<user>>, <<data>>), Put(Leaf(yes), <<data>>), Copy(<<name>>, <<data, name>>)>>,
    <<Put(Named(yes), <<data>>), Put(Person(yes), <<data>>)>>,
    \* an array that is extended, within its room and past it
    <<Copy(<<user>>, <<data>>), Copy(<<name>>, <<data, 0>>), Put(Leaf(yes), <<data, 3>>)>>,
    <<Copy(<<user>>, <<data>>), Put(Leaf(yes), <<data, 4>>), Put(Named(yes), <<data, 1>>)>>,
    \* copied twice and extended in both places
    <<Copy(<<user>>, <<data>>), Copy(<<user>>, <<ok>>),
      Put(Leaf(yes), <<data, 3>>), Copy(<<user, 0>>, <<ok, 3>>)>>,
    \* a new array, an array instead of an object, and the reverse
    <<Copy(<<user, 1>>, <<data, 1, name>>), Put(Leaf(yes), <<data, 0>>)>>,
    <<Copy(<<user>>, <<1>>), Put(Leaf(yes), <<1, ok>>), Copy(<<user, 2>>, <<0, name>>)>>,
    <<Put(Triple(yes), <<data>>), Copy(<<user, name>>, <<data>>)>>,
    \* bad paths
    <<Put(Leaf(yes), <<ok>>), Copy(<<name>>, BadPath)>>,
    <<Put(Leaf(yes), <<ok>>), Copy(BadPath, <<data>>)>>,
    <<Copy(<<name>>, <<name>>), Put(Leaf(yes), NoPath)>> }
=============================================================================

-------------------------- MODULE MCGatewayRequest --------------------------
(***************************************************************************)
(* TLC instance of GatewayRequest: configurations whose patterns overlap,  *)
(* a route that changes between them, rules that nest, that overwrite each *)
(* other, that write what the gateway writes, and that fail half-way.      *)
(***************************************************************************)
EXTENDS GatewayRequest

CONSTANTS a, b, h1, h2, p1, NoPort, u1, u2, bad, web, k, conn, v, w, f, g

Rule(type, key, value) == [type |-> type, key |-> key, value |-> value]
Host(name, port) == [name |-> name, port |-> port]
Leaf(s) == [p \in {<<>>} |-> s]

Api ==
    [name |-> "api", priority |-> 2, type |-> "proxy", host |-> AnyHost,
     pattern |-> [kind |-> "tree", text |-> <<Slash, a>>], methods |-> {},
     rewrite |-> <<Rule("rewritePath", <<Slash, a>>, <<>>), Rule("setHeader", k, v),
                   Rule("setHeader", k, w), Rule("setHeader", ForwardedHost, v)>>,
     targets |-> {u1, bad}]

\* The same route after an edit: the third value replaces what the second put
\* its value in.
ApiEdited ==
    [Api EXCEPT !.targets = {u2},
                !.rewrite = <<Rule("setQuery", k, v),
                              Rule("setJsonBody", <<f, 1>>, Leaf(v)),
                              Rule("setJsonBody", <<g, f>>, Leaf(w)),
                              Rule("setJsonBody", <<f, g>>, Leaf(w))>>]

\* A rule fails after others: the third by its path, the second by its name.
ApiBroken ==
    [Api EXCEPT !.rewrite = <<Rule("rewritePath", <<Slash, a>>, <<Slash, b>>),
                              Rule("setJsonBody", <<f>>, Graft(Empty, <<g>>, Leaf(v))),
                              Rule("setJsonBody", BadPath, Leaf(v))>>]

ApiUnnamed ==
    [Api EXCEPT !.rewrite = <<Rule("setHeader", ContentType, NoText),
                              Rule("setHeader", NoKey, v)>>]

Exact ==
    [name |-> "exact", priority |-> 2, type |-> "redirect", host |-> AnyHost,
     pattern |-> [kind |-> "exact", text |-> <<Slash, a, Slash, b>>], methods |-> {"POST"},
     rewrite |-> <<>>, targets |-> {web}]

All ==
    [name |-> "all", priority |-> 1, type |-> "redirect", host |-> Host(h1, NoPort),
     pattern |-> [kind |-> "prefix", text |-> <<Slash, a>>], methods |-> {"GET", "POST"},
     rewrite |-> <<>>, targets |-> {web}]

\* The whole body is set, and a place in what was set.
Filled ==
    [All EXCEPT !.name = "filled", !.type = "proxy", !.host = Host(h1, p1),
                !.rewrite = <<Rule("setJsonBody", <<>>, Graft(Empty, <<f>>, Leaf(v))),
                              Rule("setHeader", ContentType, v),
                              Rule("setJsonBody", <<g>>, Leaf(w))>>]

Nothing == [All EXCEPT !.name = "nothing", !.pattern.kind = "empty", !.priority = 3]

MCConfiguration ==
    {<<Api, Exact, All>>, <<All, Exact, ApiEdited>>, <<Nothing, ApiBroken>>,
     <<Filled, ApiUnnamed>>}

Sends(path, method, host, hop, body) ==
    [path |-> path, method |-> method, host |-> host, hop |-> hop, body |-> body,
     header |-> [n \in {k, conn, GatewayRoute} |-> IF n = k THEN w ELSE v],
     query |-> [n \in {g} |-> w]]

Body(kind, tree) == [kind |-> kind, tree |-> tree]

MCClient == {
    Sends(<<Slash, a>>, "GET", Host(h1, NoPort), {conn}, Body("blank", Empty)),
    Sends(<<Slash, a, Slash, b>>, "POST", Host(h2, p1), {conn}, Body("undecodable", Empty)),
    Sends(<<Slash, a, b>>, "GET", Host(h1, p1), {}, Body("json", Graft(Leaf(v), <<f>>, Leaf(w)))),
    Sends(<<Slash, a>>, "POST", Host(h1, p1), {conn, ForwardedHost},
          Body("json", Graft(Graft(Empty, <<g, g>>, Leaf(v)), <<f, 0>>, Leaf(w)))) }

\* Requests differ in nothing but their names.
Perms == Permutations(Request)
=============================================================================

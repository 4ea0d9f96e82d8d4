---------------------------- MODULE MCController ----------------------------
(* A Gateway with a strict and an open listener, and routes from two namespaces. *)
EXTENDS Controller

App  == <<"app", "net">>
Pub  == <<"*", "pub", "net">>
XPub == <<"x", "pub", "net">>
Gw(listeners, wait) ==
    [ns |-> "n1", name |-> "gw", listeners |-> listeners, audiences |-> {<<"shared">>},
     wait |-> wait]
L(hostname, from) == [hostname |-> hostname, from |-> from]
Strict  == Gw(<<L(Pub, "All"), L(App, "Same")>>, "")
Open    == Gw(<<L(<<>>, "All"), L(App, "Selector")>>, "ok")
Invalid == Gw(<<L(<<>>, "Same")>>, "bad")
MCGateway == {None, Strict, Open, Invalid}

Svc(ns, name) == [ns |-> ns, name |-> name, ports |-> {80}]
Both == {Svc("n1", "a"), Svc("n2", "a")}
MCServices == {{Svc("n1", "a")}, Both}

Back(kind, ns, service, port) == [kind |-> kind, ns |-> ns, service |-> service, port |-> port]
To(ns) == <<Back("Service", ns, "a", 80)>>
M(kind, path) == [kind |-> kind, path |-> path]
PathA == M("prefix", <<"", "a">>)
Rule(backends, matches) == [backends |-> backends, filters |-> FALSE, matches |-> matches]

Route(rank, ns, hosts, audience, rules) ==
    [rank |-> rank, ns |-> ns, parents |-> {<<"n1", "gw">>}, hostnames |-> hosts,
     audience |-> audience, tenant |-> "", claimHeaders |-> [valid |-> TRUE, map |-> <<>>],
     rules |-> rules]
Away(r) == [r EXCEPT !.parents = {<<"n1", "other">>}]

Plain == Route(1, "n1", {}, <<>>, <<Rule(To("n1"), <<>>)>>)
Mixed == Route(1, "n1", {App, XPub}, <<"a", "n1">>,
               <<Rule(To("n1"), <<PathA, M("exact", <<"", "b">>), M("none", <<>>)>>),
                 Rule(To("n1"), <<M("exact", <<"", "c">>)>>),
                 Rule(To("n2"), <<>>), Rule(<<>>, <<>>), Rule(To("n1") \o To("n1"), <<>>),
                 Rule(<<Back("Bucket", "n1", "a", 80)>>, <<>>),
                 Rule(<<Back("Service", "n1", "a", 0)>>, <<>>),
                 Rule(<<Back("Service", "n1", "a", 81)>>, <<>>),
                 [Rule(To("n1"), <<>>) EXCEPT !.filters = TRUE]>>)
Exact == Route(1, "n1", {}, <<>>, <<Rule(To("n1"), <<>>), Rule(To("n1"), <<M("exact", <<"", "c">>)>>)>>)
Guest   == Route(2, "n2", {App, XPub}, <<"shared">>, <<Rule(To("n2"), <<M("prefix", <<"", "">>)>>)>>)
Outside == Route(2, "n2", {App}, <<>>, <<Rule(To("n2"), <<PathA>>)>>)
Forged  == Route(2, "n2", {}, <<"a", "n1">>, <<Rule(To("n2"), <<PathA>>)>>)
Garbled == [Route(2, "n2", {Pub}, <<>>, <<Rule(To("n2"), <<PathA>>)>>)
              EXCEPT !.claimHeaders.valid = FALSE]
MCRouteSpec == <<{Away(Plain), Plain, Exact, Mixed}, {Away(Guest), Guest, Outside, Forged, Garbled}>>

W(g, r1, r2, s) == [gateway |-> g, routes |-> <<r1, r2>>, services |-> s]
MCWorld == {W(Strict, Plain, Guest, Both), W(None, Mixed, Outside, {Svc("n1", "a")}),
            W(Invalid, Mixed, Away(Guest), Both)}
=============================================================================

------------------------------ MODULE Translate ------------------------------
(***************************************************************************)
(* gateway/routes.go: what the HTTPRoutes attached to a Gateway become.    *)
(*                                                                         *)
(* A Gateway has its namespace and name, its listeners (host name, <<>>    *)
(* for none, and allowedRoutes.namespaces.from), the audiences it allows   *)
(* and its annotations.  An HTTPRoute has its place `rank` in the order of *)
(* the route names, which follows the namespace and the name, the Gateways *)
(* it names as parents, its host names, annotations and rules.  An         *)
(* audience is a tuple: a Service's is its name and namespace, and <<>> is *)
(* none.                                                                   *)
(***************************************************************************)
EXTENDS Router

\* listenerAdmits: the default is "Same"; "Selector" and "None" admit nobody.
ListenerAdmits(gw, l, ns) == l.from = "All" \/ (l.from = "Same" /\ ns = gw.ns)

AdmittingListeners(gw, ns) == {l \in ToSet(gw.listeners) : ListenerAdmits(gw, l, ns)}

\* attachedTo
AttachedTo(gw, r) ==
    <<gw.ns, gw.name>> \in r.parents /\ AdmittingListeners(gw, r.ns) # {}

\* intersectHostname: the narrower of two names that overlap.
IntersectHostname(a, b) ==
    IF a = b \/ WildcardCovers(b, a) THEN {a}
    ELSE IF WildcardCovers(a, b) THEN {b}
    ELSE {}

\* Mutation: a route may use the name of any listener of the Gateway.
ListenerNamesOfAll(gw, ns) == {l.hostname : l \in ToSet(gw.listeners)} \ {<<>>}

\* The names a route may be given, those of the listeners that admit it.
ListenerNames(gw, ns) == {l.hostname : l \in AdmittingListeners(gw, ns)} \ {<<>>}

\* hostnamesFor, with dedupe: empty is every name, and not ok is no overlap.
HostnamesFor(gw, r) ==
    LET listener == ListenerNames(gw, r.ns)
        both == UNION {IntersectHostname(rh, lh) : rh \in r.hostnames, lh \in listener}
    IN  IF listener = {} THEN [ok |-> TRUE, names |-> r.hostnames]
        ELSE IF r.hostnames = {} THEN [ok |-> TRUE, names |-> listener]
        ELSE IF both = {} THEN [ok |-> FALSE, names |-> {}]
        ELSE [ok |-> TRUE, names |-> both]

\* pathPrefixes: a match without a path, like "/", is the empty prefix; an exact or
\* a regular-expression match is left out.
RootPath == <<"", "">>

PrefixOf(m) ==
    IF m.kind \notin {"none", "prefix"} THEN <<>>
    ELSE IF m.kind = "none" \/ m.path = RootPath THEN <<EmptyPath>>
    ELSE <<m.path>>

PathPrefixes(rule) ==
    IF rule.matches = <<>> THEN <<EmptyPath>>
    ELSE FlattenSeq([i \in DOMAIN rule.matches |-> PrefixOf(rule.matches[i])])

\* Mutation: a rule without a usable match is dropped in silence.
NoUsablePathDropped(rule) == FALSE

NoUsablePath(rule) == PathPrefixes(rule) = <<>>

\* translateRule's refusals, in their order.
Refusal(gw, r, rule, services) ==
    LET ref   == rule.backends[1]
        found == {s \in services : s.ns = r.ns /\ s.name = ref.service}
    IN  IF rule.backends = <<>> THEN "no backend"
        ELSE IF Len(rule.backends) > 1 THEN "several backends"
        ELSE IF ref.kind # "Service" THEN "invalid kind"
        ELSE IF ref.ns # r.ns THEN "cross-namespace"
        ELSE IF found = {} THEN "no Service"
        ELSE IF ref.port = 0 THEN "no port"
        ELSE IF \A s \in found : ref.port \notin s.ports THEN "no such port"
        ELSE IF r.audience \notin {<<>>, <<ref.service, r.ns>>} \cup gw.audiences
             THEN "audience not permitted"
        ELSE IF ~r.claimHeaders.valid THEN "claim headers"
        ELSE IF rule.filters THEN "filters"
        ELSE IF NoUsablePath(rule) THEN "no usable path"
        ELSE "none"

\* translateRule: one route per path prefix of the rule ri.
RoutesOf(r, ri, hostnames) ==
    LET rule     == r.rules[ri]
        ref      == rule.backends[1]
        prefixes == PathPrefixes(rule)
    IN  [pi \in DOMAIN prefixes |->
           [name         |-> <<r.rank, ri, pi>>,
            hostnames    |-> hostnames,
            pathPrefix   |-> prefixes[pi],
            upstream     |-> <<ref.service, r.ns, ref.port>>,
            audience     |-> IF r.audience = <<>> THEN <<ref.service, r.ns>> ELSE r.audience,
            tenant       |-> r.tenant,
            claimHeaders |-> r.claimHeaders.map]]

\* One HTTPRoute: its routes, and the reasons for the rules that have none.
TranslateRoute(gw, r, services) ==
    LET hosts    == HostnamesFor(gw, r)
        why(ri)  == Refusal(gw, r, r.rules[ri], services)
        err(w)   == <<[route |-> r.rank, reason |-> w]>>
    IN  IF ~AttachedTo(gw, r) THEN [routes |-> <<>>, errs |-> <<>>]
        ELSE IF ~hosts.ok THEN
             [routes |-> <<>>, errs |-> err("no matching listener hostname")]
        ELSE [routes |-> FlattenSeq([ri \in DOMAIN r.rules |->
                             IF why(ri) = "none" THEN RoutesOf(r, ri, hosts.names) ELSE <<>>]),
              errs   |-> FlattenSeq([ri \in DOMAIN r.rules |->
                             IF why(ri) = "none" THEN <<>> ELSE err(why(ri))])]

\* Names compare like their text as long as there are fewer than ten rules and matches.
NameLess(a, b) ==
    \E i \in 1..3 : a.name[i] < b.name[i] /\ \A j \in 1..(i - 1) : a.name[j] = b.name[j]

\* Mutation: the routes keep the order in which the API server listed them.
SortedAsListed(routes) == routes

\* A route goes before the first one with a greater name.
InsertByName(sorted, rt) ==
    InsertAt(sorted, Min({i \in DOMAIN sorted : NameLess(rt, sorted[i])} \cup {Len(sorted) + 1}), rt)

\* sort.SliceStable by Name.
SortedByName(routes) ==
    LET sorted[n \in 0..Len(routes)] ==
            IF n = 0 THEN <<>> ELSE InsertByName(sorted[n - 1], routes[n])
    IN  sorted[Len(routes)]

\* Translate: the table and the errors for the routes of a list.
Translate(gw, list, services) ==
    LET each == [i \in DOMAIN list |-> TranslateRoute(gw, list[i], services)]
    IN  [table |-> SortedByName(FlattenSeq([i \in DOMAIN each |-> each[i].routes])),
         errs  |-> FlattenSeq([i \in DOMAIN each |-> each[i].errs])]

\* routeAcceptedCondition, routeStatusCondition: the first reason against the route,
\* for this generation of it.
RouteAcceptedCondition(r, gen, errs) ==
    LET own == {i \in DOMAIN errs : errs[i].route = r.rank}
    IN  [gen |-> gen, reason |-> IF own = {} THEN "none" ELSE errs[Min(own)].reason]
=============================================================================

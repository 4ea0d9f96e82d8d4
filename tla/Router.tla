------------------------------- MODULE Router -------------------------------
(***************************************************************************)
(* proxy/router.go: how a route table answers for a request.               *)
(*                                                                         *)
(* A host name is the sequence of its labels and a path the sequence that  *)
(* strings.Split(path, "/") gives: "/api/" is <<"", "api", "">> and the    *)
(* empty path <<"">>.  Labels stand for their lower-case form, and a host  *)
(* for what is left of it before the port.                                 *)
(***************************************************************************)
EXTENDS Integers, Sequences
INSTANCE SequencesExt

\* The empty path, and a path prefix that matches everything.
EmptyPath == <<"">>

\* A host name with a leading label that stands for one or more labels.
IsWildcard(h) == Len(h) > 1 /\ h[1] = "*"

\* The wildcard h stands for the name n: n ends in "." and the rest of h.
WildcardCovers(h, n) == IsWildcard(h) /\ Len(n) >= Len(h) /\ IsSuffix(Tail(h), n)

\* Route.Valid
RouteValid(rt) ==
    /\ rt.upstream # ""
    /\ rt.audience # ""
    /\ \A h \in rt.hostnames :
          LET stars == {i \in DOMAIN h : h[i] = "*"} IN
          stars # {} => IsWildcard(h) /\ stars = {1}
    /\ rt.pathPrefix # EmptyPath => Len(rt.pathPrefix) > 1 /\ rt.pathPrefix[1] = ""

\* A fully qualified name loses its trailing dot.
TrimDot(host) == IF Len(host) > 1 /\ Last(host) = "" THEN Front(host) ELSE host

\* Exact beats wildcard beats any; 0 is no match.
HostRank(rt, host) ==
    LET names == rt.hostnames IN
    IF names = {} THEN 1
    ELSE IF host \in names THEN 3
    ELSE IF \E h \in names : WildcardCovers(h, host) THEN 2
    ELSE 0

\* A trailing slash of a prefix is not part of it.
TrimSlash(prefix) == IF Len(prefix) > 1 /\ Last(prefix) = "" THEN Front(prefix) ELSE prefix

\* A prefix matches on segment boundaries.
PathMatches(rt, path) ==
    rt.pathPrefix = EmptyPath \/ IsPrefix(TrimSlash(rt.pathPrefix), path)

PathLen(rt) ==
    IF rt.pathPrefix = EmptyPath THEN 0 ELSE Len(TrimSlash(rt.pathPrefix)) - 1

\* Route.matches
Matches(rt, q) == HostRank(rt, TrimDot(q.host)) > 0 /\ PathMatches(rt, q.path)

\* The order Match sorts by: host name, then path, then declaration.
Beats(table, q, i, j) ==
    LET hi == HostRank(table[i], TrimDot(q.host))
        hj == HostRank(table[j], TrimDot(q.host))
    IN  \/ hi > hj
        \/ hi = hj /\ PathLen(table[i]) > PathLen(table[j])
        \/ hi = hj /\ PathLen(table[i]) = PathLen(table[j]) /\ i < j

\* Router.Match: the index of the best route, or 0.
Match(table, q) ==
    LET found == {i \in DOMAIN table : Matches(table[i], q)} IN
    IF found = {} THEN 0
    ELSE CHOOSE i \in found : \A j \in found \ {i} : Beats(table, q, i, j)

\* What Match is for: the i-th route matches, and no route of the table that matches
\* has a more specific name, nor a name as specific and a longer path.
Preferred(t, q, i) ==
    /\ Matches(t[i], q)
    /\ \A j \in DOMAIN t :
          Matches(t[j], q) =>
             LET hi == HostRank(t[i], TrimDot(q.host))
                 hj == HostRank(t[j], TrimDot(q.host))
             IN  hj <= hi /\ (hj = hi => PathLen(t[j]) <= PathLen(t[i]))
=============================================================================

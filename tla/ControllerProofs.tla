--------------------------- MODULE ControllerProofs ---------------------------
(* Machine-checked proofs about Controller and Translate, for any Gateways, routes, *)
(* Services, edits and faults.  What FlattenSeq and SortedByName compute is shown   *)
(* by the least-number principle: a first counterexample would have a predecessor.  *)
EXTENDS Controller, LeastNumber, FiniteSetTheorems

------------------------------------------------------------------------------
(* Sequences. *)

\* What is in the concatenation of two sequences.
LEMMA ConcatMembers ==
    ASSUME NEW V, NEW a \in Seq(V), NEW b \in Seq(V)
    PROVE  a \o b \in Seq(V) /\ ToSet(a \o b) = ToSet(a) \cup ToSet(b)
<1>1. ToSet(a \o b) \subseteq ToSet(a) \cup ToSet(b)
  BY DEF ToSet
<1>2. ASSUME NEW i \in DOMAIN a PROVE a[i] \in ToSet(a \o b)
  BY DEF ToSet
<1>3. ASSUME NEW i \in DOMAIN b PROVE b[i] \in ToSet(a \o b)
  <2>1. i + Len(a) \in DOMAIN (a \o b) /\ (a \o b)[i + Len(a)] = b[i]
    OBVIOUS
  <2> QED  BY <2>1 DEF ToSet
<1>4. ToSet(a) \subseteq ToSet(a \o b) /\ ToSet(b) \subseteq ToSet(a \o b)
  BY <1>2, <1>3 DEF ToSet
<1>5. a \o b \in Seq(V)
  OBVIOUS
<1> QED  BY <1>1, <1>4, <1>5

\* The recursion in FlattenSeq has a solution.
LEMMA FlattenExists ==
    ASSUME NEW n \in Nat, n > 0, NEW ss
    PROVE  \E f : f = [i \in 1..n |-> IF i = 1 THEN ss[i] ELSE f[i - 1] \o ss[i]]
<1> DEFINE P(m) == \E f : f = [i \in 1..m |-> IF i = 1 THEN ss[i] ELSE f[i - 1] \o ss[i]]
           Bad == {m \in Nat : m > 0 /\ ~P(m)}
<1>1. P(1)
  <2> DEFINE f == [i \in 1..1 |-> ss[1]]
  <2>1. f = [i \in 1..1 |-> IF i = 1 THEN ss[i] ELSE f[i - 1] \o ss[i]]
    OBVIOUS
  <2> QED  BY <2>1
<1>2. ASSUME NEW m \in Nat, m > 1, P(m - 1) PROVE P(m)
  <2>1. PICK f : f = [i \in 1..(m - 1) |-> IF i = 1 THEN ss[i] ELSE f[i - 1] \o ss[i]]
    BY <1>2
  <2> DEFINE g == [i \in 1..m |-> IF i < m THEN f[i] ELSE f[m - 1] \o ss[m]]
  <2>2. ASSUME NEW i \in 1..m PROVE g[i] = IF i = 1 THEN ss[i] ELSE g[i - 1] \o ss[i]
    <3>1. CASE i < m
      <4>1. i \in 1..(m - 1) /\ g[i] = f[i]
        BY <3>1
      <4>2. i # 1 => g[i - 1] = f[i - 1]
        BY <3>1
      <4>3. f[i] = IF i = 1 THEN ss[i] ELSE f[i - 1] \o ss[i]
        BY <2>1, <4>1
      <4> QED  BY <4>1, <4>2, <4>3
    <3>2. CASE i = m
      <4>0. m \in 1..m /\ ~(m < m) /\ m - 1 \in 1..m /\ m - 1 < m /\ m # 1
        BY <1>2
      <4>1. g[i] = f[m - 1] \o ss[m] /\ g[m - 1] = f[m - 1] /\ i # 1
        BY <3>2, <4>0
      <4> QED  BY <3>2, <4>1
    <3> QED  BY <3>1, <3>2
  <2>3. g = [i \in 1..m |-> IF i = 1 THEN ss[i] ELSE g[i - 1] \o ss[i]]
    BY <2>2
  <2> QED  BY <2>3
<1> HIDE DEF P
<1>3. Bad = {}
  <2> SUFFICES ASSUME Bad # {} PROVE FALSE
    OBVIOUS
  <2>1. PICK m \in Bad : \A k \in Bad : m <= k
    BY Least
  <2>2. m # 1
    BY <1>1
  <2>3. P(m - 1)
    BY <2>1, <2>2
  <2> QED  BY <1>2, <2>2, <2>3
<1>4. P(n)
  BY <1>3
<1> QED  BY <1>4 DEF P

\* FlattenSeq: what is in one of the sequences, in a sequence.
LEMMA FlattenMembers ==
    ASSUME NEW V, NEW n \in Nat, NEW ss \in [1..n -> Seq(V)]
    PROVE  /\ FlattenSeq(ss) \in Seq(V)
           /\ \A v : v \in ToSet(FlattenSeq(ss)) <=> \E i \in 1..n : v \in ToSet(ss[i])
<1>0. Len(ss) = n /\ ss \in Seq(Seq(V))
  OBVIOUS
<1>1. CASE n = 0
  BY <1>0, <1>1 DEF FlattenSeq, ToSet
<1>2. CASE n > 0
  <2> DEFINE F == CHOOSE f : f = [i \in 1..n |-> IF i = 1 THEN ss[i] ELSE f[i - 1] \o ss[i]]
             P(m) == /\ F[m] \in Seq(V)
                     /\ \A v : v \in ToSet(F[m]) <=> \E i \in 1..m : v \in ToSet(ss[i])
             Bad == {m \in 1..n : ~P(m)}
  <2>1. F = [i \in 1..n |-> IF i = 1 THEN ss[i] ELSE F[i - 1] \o ss[i]]
    BY <1>2, FlattenExists
  <2>2. FlattenSeq(ss) = F[n]
    BY <1>0, <1>2 DEF FlattenSeq
  <2> HIDE DEF F
  <2>3. P(1)
    BY <1>2, <2>1
  <2>4. ASSUME NEW m \in 1..n, m > 1, P(m - 1) PROVE P(m)
    <3>0. m # 1
      BY <2>4
    <3>1. F[m] = F[m - 1] \o ss[m]
      BY <2>1, <3>0
    <3>2. ss[m] \in Seq(V) /\ F[m - 1] \in Seq(V)
      BY <2>4
    <3>3. F[m] \in Seq(V) /\ ToSet(F[m]) = ToSet(F[m - 1]) \cup ToSet(ss[m])
      BY <3>1, <3>2, ConcatMembers
    <3>4. ASSUME NEW v PROVE v \in ToSet(F[m]) <=> \E i \in 1..m : v \in ToSet(ss[i])
      <4>1. v \in ToSet(F[m - 1]) <=> \E i \in 1..(m - 1) : v \in ToSet(ss[i])
        BY <2>4
      <4>2. 1..m = 1..(m - 1) \cup {m}
        BY <2>4
      <4> QED  BY <3>3, <4>1, <4>2
    <3> QED  BY <3>3, <3>4
  <2> HIDE DEF P
  <2>5. Bad = {}
    <3> SUFFICES ASSUME Bad # {} PROVE FALSE
      OBVIOUS
    <3>1. Bad \in SUBSET Nat
      OBVIOUS
    <3>2. PICK m \in Bad : \A k \in Bad : m <= k
      BY <3>1, Least
    <3>3. m # 1
      BY <2>3
    <3>4. m - 1 \notin Bad
      BY <3>2
    <3>5. P(m - 1)
      BY <3>3, <3>4
    <3> QED  BY <2>4, <3>3, <3>5
  <2>6. P(n)
    BY <1>2, <2>5
  <2> QED  BY <2>2, <2>6 DEF P
<1> QED  BY <1>1, <1>2

\* A set of positions that is not empty has a least one, which Min returns.
LEMMA MinMember ==
    ASSUME NEW S \in SUBSET Nat, S # {}
    PROVE  Min(S) \in S /\ \A i \in S : Min(S) <= i
<1>1. \E n \in S : \A m \in S : n <= m
  BY Least
<1> QED  BY <1>1 DEF Min

\* One more route, wherever it goes.
LEMMA InsertMembers ==
    ASSUME NEW V, NEW s \in Seq(V), NEW rt \in V
    PROVE  InsertByName(s, rt) \in Seq(V) /\ ToSet(InsertByName(s, rt)) = ToSet(s) \cup {rt}
<1> DEFINE Places == {i \in DOMAIN s : NameLess(rt, s[i])} \cup {Len(s) + 1}
           k == Min(Places)
<1>1. k \in 1..(Len(s) + 1)
  <2>1. Places \in SUBSET Nat /\ Places # {} /\ Places \subseteq 1..(Len(s) + 1)
    OBVIOUS
  <2> HIDE DEF Places
  <2> QED  BY <2>1, MinMember
<1>2. InsertByName(s, rt) = SubSeq(s, 1, k - 1) \o <<rt>> \o SubSeq(s, k, Len(s))
  BY DEF InsertByName, InsertAt
<1> HIDE DEF k
<1> DEFINE a == SubSeq(s, 1, k - 1)
           b == SubSeq(s, k, Len(s))
<1>3. /\ a \in Seq(V) /\ Len(a) = k - 1 /\ \A i \in 1..(k - 1) : a[i] = s[i]
      /\ b \in Seq(V) /\ Len(b) = Len(s) - k + 1
      /\ \A i \in 1..(Len(s) - k + 1) : b[i] = s[k + i - 1]
  BY <1>1
<1>4. <<rt>> \in Seq(V) /\ ToSet(<<rt>>) = {rt}
  BY DEF ToSet
<1>5. ToSet(s) = ToSet(a) \cup ToSet(b)
  <2> HIDE DEF a, b
  <2>1. ASSUME NEW i \in DOMAIN s PROVE s[i] \in ToSet(a) \cup ToSet(b)
    <3>1. CASE i < k
      BY <1>1, <1>3, <3>1 DEF ToSet
    <3>2. CASE i >= k
      <4>1. i - k + 1 \in 1..(Len(s) - k + 1) /\ k + (i - k + 1) - 1 = i
        BY <1>1, <3>2
      <4>2. b[i - k + 1] = s[i] /\ i - k + 1 \in DOMAIN b
        BY <1>3, <4>1
      <4> QED  BY <4>2 DEF ToSet
    <3> QED  BY <1>1, <3>1, <3>2
  <2>2. ASSUME NEW i \in DOMAIN a PROVE a[i] \in ToSet(s)
    BY <1>1, <1>3 DEF ToSet
  <2>3. ASSUME NEW i \in DOMAIN b PROVE b[i] \in ToSet(s)
    <3>1. i \in 1..(Len(s) - k + 1) /\ k + i - 1 \in DOMAIN s
      BY <1>1, <1>3
    <3> QED  BY <1>3, <3>1 DEF ToSet
  <2> QED  BY <2>1, <2>2, <2>3 DEF ToSet
<1> HIDE DEF a, b
<1> DEFINE c == a \o <<rt>>
<1>6. c \in Seq(V) /\ ToSet(c) = ToSet(a) \cup ToSet(<<rt>>)
  BY <1>3, <1>4, ConcatMembers
<1>7. InsertByName(s, rt) = c \o b
  BY <1>2 DEF a, b
<1> HIDE DEF c
<1>8. c \o b \in Seq(V) /\ ToSet(c \o b) = ToSet(c) \cup ToSet(b)
  BY <1>3, <1>6, ConcatMembers
<1> QED  BY <1>4, <1>5, <1>6, <1>7, <1>8

\* The recursion in SortedByName has a solution.
LEMMA SortExists ==
    ASSUME NEW n \in Nat, NEW s
    PROVE  \E f : f = [i \in 0..n |-> IF i = 0 THEN <<>> ELSE InsertByName(f[i - 1], s[i])]
<1> DEFINE P(m) == \E f : f = [i \in 0..m |-> IF i = 0 THEN <<>> ELSE InsertByName(f[i - 1], s[i])]
           Bad == {m \in Nat : ~P(m)}
<1>1. P(0)
  <2> DEFINE f == [i \in 0..0 |-> <<>>]
  <2>1. f = [i \in 0..0 |-> IF i = 0 THEN <<>> ELSE InsertByName(f[i - 1], s[i])]
    OBVIOUS
  <2> QED  BY <2>1
<1>2. ASSUME NEW m \in Nat, m > 0, P(m - 1) PROVE P(m)
  <2>1. PICK f : f = [i \in 0..(m - 1) |-> IF i = 0 THEN <<>> ELSE InsertByName(f[i - 1], s[i])]
    BY <1>2
  <2> DEFINE g == [i \in 0..m |-> IF i < m THEN f[i] ELSE InsertByName(f[m - 1], s[m])]
  <2>2. ASSUME NEW i \in 0..m
        PROVE  g[i] = IF i = 0 THEN <<>> ELSE InsertByName(g[i - 1], s[i])
    <3>1. CASE i < m
      <4>1. i \in 0..(m - 1) /\ g[i] = f[i]
        BY <3>1
      <4>2. i # 0 => g[i - 1] = f[i - 1]
        BY <3>1
      <4>3. f[i] = IF i = 0 THEN <<>> ELSE InsertByName(f[i - 1], s[i])
        BY <2>1, <4>1
      <4> QED  BY <4>1, <4>2, <4>3
    <3>2. CASE i = m
      <4>0. m \in 0..m /\ ~(m < m) /\ m - 1 \in 0..m /\ m - 1 < m /\ m # 0
        BY <1>2
      <4>1. g[i] = InsertByName(f[m - 1], s[m]) /\ g[m - 1] = f[m - 1] /\ i # 0
        BY <3>2, <4>0
      <4> QED  BY <3>2, <4>1
    <3> QED  BY <3>1, <3>2
  <2>3. g = [i \in 0..m |-> IF i = 0 THEN <<>> ELSE InsertByName(g[i - 1], s[i])]
    BY <2>2
  <2> QED  BY <2>3
<1> HIDE DEF P
<1>3. Bad = {}
  <2> SUFFICES ASSUME Bad # {} PROVE FALSE
    OBVIOUS
  <2>1. PICK m \in Bad : \A k \in Bad : m <= k
    BY Least
  <2>2. m # 0
    BY <1>1
  <2>3. P(m - 1)
    BY <2>1, <2>2
  <2> QED  BY <1>2, <2>2, <2>3
<1>4. P(n)
  BY <1>3
<1> QED  BY <1>4 DEF P

\* SortedByName loses no route and adds none.
LEMMA SortMembers ==
    ASSUME NEW V, NEW s \in Seq(V)
    PROVE  SortedByName(s) \in Seq(V) /\ ToSet(SortedByName(s)) = ToSet(s)
<1> DEFINE n == Len(s)
           F == CHOOSE f : f = [i \in 0..n |-> IF i = 0 THEN <<>> ELSE InsertByName(f[i - 1], s[i])]
           P(m) == F[m] \in Seq(V) /\ ToSet(F[m]) = {s[i] : i \in 1..m}
           Bad == {m \in 0..n : ~P(m)}
<1>0. n \in Nat /\ DOMAIN s = 1..n
  OBVIOUS
<1>1. F = [i \in 0..n |-> IF i = 0 THEN <<>> ELSE InsertByName(F[i - 1], s[i])]
  BY <1>0, SortExists
<1>2. SortedByName(s) = F[n]
  BY DEF SortedByName
<1> HIDE DEF F
<1>3. P(0)
  BY <1>0, <1>1 DEF ToSet
<1>4. ASSUME NEW m \in 0..n, m > 0, P(m - 1) PROVE P(m)
  <2>0. m # 0 /\ m \in 1..n
    BY <1>4
  <2>1. F[m] = InsertByName(F[m - 1], s[m]) /\ s[m] \in V
    BY <1>1, <2>0
  <2>2. F[m] \in Seq(V) /\ ToSet(F[m]) = ToSet(F[m - 1]) \cup {s[m]}
    <3> DEFINE prev == F[m - 1]
               new == s[m]
    <3>1. prev \in Seq(V) /\ new \in V
      BY <1>4, <2>1
    <3>2. F[m] = InsertByName(prev, new)
      BY <2>1
    <3> HIDE DEF prev, new
    <3>3. InsertByName(prev, new) \in Seq(V) /\ ToSet(InsertByName(prev, new)) = ToSet(prev) \cup {new}
      BY <3>1, InsertMembers
    <3> QED  BY <3>2, <3>3 DEF prev, new
  <2>3. 1..m = 1..(m - 1) \cup {m}
    BY <2>0
  <2>4. {s[i] : i \in 1..m} = {s[i] : i \in 1..(m - 1)} \cup {s[m]}
    BY <2>3
  <2> QED  BY <1>4, <2>2, <2>4
<1> HIDE DEF P, n
<1>5. Bad = {}
  <2> SUFFICES ASSUME Bad # {} PROVE FALSE
    OBVIOUS
  <2>1. Bad \in SUBSET Nat
    OBVIOUS
  <2>2. PICK m \in Bad : \A k \in Bad : m <= k
    BY <2>1, Least
  <2>3. m # 0
    BY <1>3
  <2>4. m - 1 \notin Bad
    BY <2>2
  <2>5. P(m - 1)
    BY <1>0, <2>3, <2>4
  <2> QED  BY <1>4, <2>3, <2>5
<1>6. P(n)
  BY <1>0, <1>5
<1> QED  BY <1>0, <1>2, <1>6 DEF P, ToSet

------------------------------------------------------------------------------
(* Translate. *)

\* A function on an initial segment is a sequence.
LEMMA FcnSeq ==
    ASSUME NEW V, NEW n \in Nat, NEW f \in [1..n -> V]
    PROVE  f \in Seq(V) /\ Len(f) = n /\ DOMAIN f = 1..n
OBVIOUS

\* A sequence of one.
LEMMA OneSeq ==
    ASSUME NEW V, NEW v \in V
    PROVE  <<v>> \in Seq(V) /\ ToSet(<<v>>) = {v}
BY DEF ToSet

\* The prefixes of a rule are a sequence.
LEMMA PrefixesSeq ==
    ASSUME NEW rule, IsSeq(rule.matches)
    PROVE  /\ IsSeq(PathPrefixes(rule))
           /\ PathPrefixes(rule) # <<>> => 1 \in DOMAIN PathPrefixes(rule)
<1> DEFINE n == Len(rule.matches)
           V == {EmptyPath} \cup {rule.matches[i].path : i \in 1..n}
           ss == [i \in 1..n |-> PrefixOf(rule.matches[i])]
<1>1. n \in Nat /\ DOMAIN rule.matches = 1..n
  BY DEF IsSeq
<1>2. ASSUME NEW i \in 1..n PROVE PrefixOf(rule.matches[i]) \in Seq(V)
  <2>1. EmptyPath \in V /\ rule.matches[i].path \in V
    OBVIOUS
  <2> HIDE DEF V
  <2>2. <<>> \in Seq(V) /\ <<EmptyPath>> \in Seq(V) /\ <<rule.matches[i].path>> \in Seq(V)
    BY <2>1
  <2> QED  BY <2>2 DEF PrefixOf
<1>3. ss \in [1..n -> Seq(V)]
  BY <1>2
<1>4. PathPrefixes(rule) = <<EmptyPath>> \/ PathPrefixes(rule) = FlattenSeq(ss)
  BY <1>1 DEF PathPrefixes
<1>5. EmptyPath \in V
  OBVIOUS
<1> HIDE DEF ss, V, n
<1>6. PathPrefixes(rule) \in Seq(V)
  <2>1. FlattenSeq(ss) \in Seq(V)
    BY <1>1, <1>3, FlattenMembers
  <2>2. <<EmptyPath>> \in Seq(V)
    BY <1>5, OneSeq
  <2> QED  BY <1>4, <2>1, <2>2
<1> QED  BY <1>6 DEF IsSeq

\* The routes that a rule becomes, when none of the refusals applies.
RuleRoutes(g, r, ri) ==
    {RoutesOf(r, ri, HostnamesFor(g, r).names)[pi] : pi \in DOMAIN PathPrefixes(r.rules[ri])}

RoutesFor(g, r, svcs) ==
    {rt \in UNION {RuleRoutes(g, r, ri) : ri \in DOMAIN r.rules} :
        /\ AttachedTo(g, r) /\ HostnamesFor(g, r).ok
        /\ \E ri \in DOMAIN r.rules :
              rt \in RuleRoutes(g, r, ri) /\ Refusal(g, r, r.rules[ri], svcs) = "none"}

\* The reasons against a route.
ErrOf(r, why) == [route |-> r.rank, reason |-> why]

ErrsFor(g, r, svcs) ==
    IF ~AttachedTo(g, r) THEN {}
    ELSE IF ~HostnamesFor(g, r).ok THEN {ErrOf(r, "no matching listener hostname")}
    ELSE {ErrOf(r, Refusal(g, r, r.rules[ri], svcs)) :
             ri \in {i \in DOMAIN r.rules : Refusal(g, r, r.rules[i], svcs) # "none"}}

\* translateRule's routes are one per prefix.
LEMMA RoutesOfRule ==
    ASSUME NEW g, NEW r, WellFormed(r), NEW ri \in DOMAIN r.rules
    PROVE  /\ RoutesOf(r, ri, HostnamesFor(g, r).names) \in Seq(RuleRoutes(g, r, ri))
           /\ ToSet(RoutesOf(r, ri, HostnamesFor(g, r).names)) = RuleRoutes(g, r, ri)
<1> DEFINE f == RoutesOf(r, ri, HostnamesFor(g, r).names)
           n == Len(PathPrefixes(r.rules[ri]))
<1>1. n \in Nat /\ DOMAIN PathPrefixes(r.rules[ri]) = 1..n
  BY PrefixesSeq DEF WellFormed, IsSeq
<1>2. f = [pi \in 1..n |-> f[pi]]
  BY <1>1 DEF RoutesOf
<1>3. RuleRoutes(g, r, ri) = {f[pi] : pi \in 1..n}
  BY <1>1 DEF RuleRoutes
<1> HIDE DEF f, n
<1>4. f \in [1..n -> RuleRoutes(g, r, ri)] /\ ToSet(f) = RuleRoutes(g, r, ri)
  BY <1>2, <1>3 DEF ToSet
<1>5. f \in Seq(RuleRoutes(g, r, ri))
  BY <1>1, <1>4, FcnSeq
<1> QED  BY <1>4, <1>5 DEF f

\* One HTTPRoute: its rules' routes, each rule's or none.
LEMMA RouteTranslated ==
    ASSUME NEW g, NEW r, NEW svcs, WellFormed(r)
    PROVE  /\ TranslateRoute(g, r, svcs).routes \in Seq(RoutesFor(g, r, svcs))
           /\ ToSet(TranslateRoute(g, r, svcs).routes) = RoutesFor(g, r, svcs)
<1> DEFINE V == RoutesFor(g, r, svcs)
           n == Len(r.rules)
           names == HostnamesFor(g, r).names
           ok(ri) == Refusal(g, r, r.rules[ri], svcs) = "none"
           ss == [ri \in 1..n |-> IF ok(ri) THEN RoutesOf(r, ri, names) ELSE <<>>]
<1>1. n \in Nat /\ DOMAIN r.rules = 1..n
  BY DEF WellFormed, IsSeq
<1>2. CASE AttachedTo(g, r) /\ HostnamesFor(g, r).ok
  <2>1. TranslateRoute(g, r, svcs).routes = FlattenSeq(ss)
    BY <1>1, <1>2 DEF TranslateRoute
  <2>2. ASSUME NEW ri \in 1..n, ok(ri)
        PROVE  /\ RoutesOf(r, ri, names) \in Seq(V) /\ ToSet(RoutesOf(r, ri, names)) = RuleRoutes(g, r, ri)
               /\ RuleRoutes(g, r, ri) \subseteq V
    <3>1. RuleRoutes(g, r, ri) \subseteq V
      BY <1>1, <1>2, <2>2 DEF RoutesFor
    <3>2. /\ RoutesOf(r, ri, names) \in Seq(RuleRoutes(g, r, ri))
          /\ ToSet(RoutesOf(r, ri, names)) = RuleRoutes(g, r, ri)
      BY <1>1, RoutesOfRule
    <3> HIDE DEF V
    <3>3. RoutesOf(r, ri, names) \in Seq(V)
      BY <3>1, <3>2
    <3> QED  BY <3>1, <3>2, <3>3
  <2>3. \A v : v \in V <=> \E ri \in 1..n : ok(ri) /\ v \in RuleRoutes(g, r, ri)
    BY <1>1, <1>2 DEF RoutesFor
  <2> HIDE DEF V, ok
  <2>4. ss \in [1..n -> Seq(V)] /\ ToSet(<<>>) = {}
    BY <2>2 DEF ToSet
  <2>5. ASSUME NEW v, NEW ri \in 1..n
        PROVE  v \in ToSet(ss[ri]) <=> ok(ri) /\ v \in RuleRoutes(g, r, ri)
    BY <2>2, <2>4
  <2> HIDE DEF ss, n
  <2>6. /\ FlattenSeq(ss) \in Seq(V)
        /\ \A v : v \in ToSet(FlattenSeq(ss)) <=> \E ri \in 1..n : v \in ToSet(ss[ri])
    BY <1>1, <2>4, FlattenMembers
  <2>7. \A v : v \in ToSet(FlattenSeq(ss)) <=> v \in V
    BY <2>3, <2>5, <2>6
  <2>8. ToSet(FlattenSeq(ss)) = V
    BY <2>7
  <2> QED  BY <2>1, <2>6, <2>8 DEF V
<1>3. CASE ~(AttachedTo(g, r) /\ HostnamesFor(g, r).ok)
  <2>1. TranslateRoute(g, r, svcs).routes = <<>>
    BY <1>3 DEF TranslateRoute
  <2>2. V = {}
    BY <1>3 DEF RoutesFor
  <2> QED  BY <2>1, <2>2 DEF ToSet
<1> QED  BY <1>2, <1>3

\* One HTTPRoute: a reason for each rule that has none of the routes.
LEMMA RouteErrs ==
    ASSUME NEW g, NEW r, NEW svcs, WellFormed(r)
    PROVE  /\ TranslateRoute(g, r, svcs).errs \in Seq(ErrsFor(g, r, svcs))
           /\ ToSet(TranslateRoute(g, r, svcs).errs) = ErrsFor(g, r, svcs)
<1> DEFINE V == ErrsFor(g, r, svcs)
           n == Len(r.rules)
           why(ri) == Refusal(g, r, r.rules[ri], svcs)
           ss == [ri \in 1..n |-> IF why(ri) = "none" THEN <<>> ELSE <<ErrOf(r, why(ri))>>]
<1>1. n \in Nat /\ DOMAIN r.rules = 1..n
  BY DEF WellFormed, IsSeq
<1>2. CASE AttachedTo(g, r) /\ HostnamesFor(g, r).ok
  <2>1. TranslateRoute(g, r, svcs).errs = FlattenSeq(ss)
    BY <1>1, <1>2 DEF TranslateRoute, ErrOf
  <2>2. \A v : v \in V <=> \E ri \in 1..n : why(ri) # "none" /\ v = ErrOf(r, why(ri))
    BY <1>1, <1>2 DEF ErrsFor
  <2> HIDE DEF V, why
  <2>3. ASSUME NEW ri \in 1..n
        PROVE  /\ ss[ri] \in Seq(V)
               /\ \A v : v \in ToSet(ss[ri]) <=> why(ri) # "none" /\ v = ErrOf(r, why(ri))
    <3>1. CASE why(ri) = "none"
      BY <3>1 DEF ToSet
    <3>2. CASE why(ri) # "none"
      <4>1. ss[ri] = <<ErrOf(r, why(ri))>> /\ ErrOf(r, why(ri)) \in V
        BY <2>2, <3>2
      <4> QED  BY <3>2, <4>1 DEF ToSet
    <3> QED  BY <3>1, <3>2
  <2>4. ss \in [1..n -> Seq(V)]
    BY <2>3
  <2> HIDE DEF ss, n
  <2>5. /\ FlattenSeq(ss) \in Seq(V)
        /\ \A v : v \in ToSet(FlattenSeq(ss)) <=> \E ri \in 1..n : v \in ToSet(ss[ri])
    BY <1>1, <2>4, FlattenMembers
  <2>6. \A v : v \in ToSet(FlattenSeq(ss)) <=> v \in V
    BY <2>2, <2>3, <2>5
  <2>7. ToSet(FlattenSeq(ss)) = V
    BY <2>6
  <2> QED  BY <2>1, <2>5, <2>7 DEF V
<1>3. CASE AttachedTo(g, r) /\ ~HostnamesFor(g, r).ok
  <2>1. TranslateRoute(g, r, svcs).errs = <<ErrOf(r, "no matching listener hostname")>>
    BY <1>3 DEF TranslateRoute, ErrOf
  <2>2. V = {ErrOf(r, "no matching listener hostname")}
    BY <1>3 DEF ErrsFor
  <2> HIDE DEF V
  <2>3. /\ <<ErrOf(r, "no matching listener hostname")>> \in Seq(V)
        /\ ToSet(<<ErrOf(r, "no matching listener hostname")>>) = V
    BY <2>2, OneSeq
  <2> QED  BY <2>1, <2>3 DEF V
<1>4. CASE ~AttachedTo(g, r)
  <2>1. TranslateRoute(g, r, svcs).errs = <<>> /\ V = {}
    BY <1>4 DEF TranslateRoute, ErrsFor
  <2> QED  BY <2>1 DEF ToSet
<1> QED  BY <1>2, <1>3, <1>4

\* Translate: the table has the routes of every HTTPRoute in the list, and no other;
\* the errors are theirs.
LEMMA Translated ==
    ASSUME NEW g, NEW n \in Nat, NEW rs, rs = [i \in 1..n |-> rs[i]],
           \A i \in 1..n : WellFormed(rs[i]), NEW svcs
    PROVE  /\ \A rt : rt \in ToSet(Translate(g, rs, svcs).table) <=>
                        \E i \in 1..n : rt \in RoutesFor(g, rs[i], svcs)
           /\ IsSeq(Translate(g, rs, svcs).errs)
           /\ \A e : e \in ToSet(Translate(g, rs, svcs).errs) <=>
                        \E i \in 1..n : e \in ErrsFor(g, rs[i], svcs)
<1> DEFINE each(i) == TranslateRoute(g, rs[i], svcs)
           V == UNION {RoutesFor(g, rs[i], svcs) : i \in 1..n}
           W == UNION {ErrsFor(g, rs[i], svcs) : i \in 1..n}
           vs == [i \in 1..n |-> each(i).routes]
           ws == [i \in 1..n |-> each(i).errs]
<1>1. /\ Translate(g, rs, svcs).table = SortedByName(FlattenSeq(vs))
      /\ Translate(g, rs, svcs).errs = FlattenSeq(ws)
  <2>1. DOMAIN rs = 1..n
    OBVIOUS
  <2> QED  BY <2>1 DEF Translate
<1>2. ASSUME NEW i \in 1..n
      PROVE  /\ each(i).routes \in Seq(RoutesFor(g, rs[i], svcs))
             /\ ToSet(each(i).routes) = RoutesFor(g, rs[i], svcs)
             /\ each(i).errs \in Seq(ErrsFor(g, rs[i], svcs))
             /\ ToSet(each(i).errs) = ErrsFor(g, rs[i], svcs)
  BY RouteTranslated, RouteErrs
<1>3. ASSUME NEW i \in 1..n
      PROVE  RoutesFor(g, rs[i], svcs) \subseteq V /\ ErrsFor(g, rs[i], svcs) \subseteq W
  OBVIOUS
<1> HIDE DEF V, W, each
<1>4. vs \in [1..n -> Seq(V)] /\ ws \in [1..n -> Seq(W)]
  <2> SUFFICES ASSUME NEW i \in 1..n PROVE each(i).routes \in Seq(V) /\ each(i).errs \in Seq(W)
    OBVIOUS
  <2> QED  BY <1>2, <1>3
<1>5. ASSUME NEW i \in 1..n
      PROVE  /\ ToSet(vs[i]) = RoutesFor(g, rs[i], svcs)
             /\ ToSet(ws[i]) = ErrsFor(g, rs[i], svcs)
  BY <1>2
<1> HIDE DEF vs, ws
<1>6. /\ FlattenSeq(vs) \in Seq(V)
      /\ \A v : v \in ToSet(FlattenSeq(vs)) <=> \E i \in 1..n : v \in ToSet(vs[i])
  BY <1>4, FlattenMembers
<1>7. /\ FlattenSeq(ws) \in Seq(W)
      /\ \A v : v \in ToSet(FlattenSeq(ws)) <=> \E i \in 1..n : v \in ToSet(ws[i])
  BY <1>4, FlattenMembers
<1>8. ToSet(SortedByName(FlattenSeq(vs))) = ToSet(FlattenSeq(vs))
  BY <1>6, SortMembers
<1>9. IsSeq(FlattenSeq(ws))
  BY <1>7 DEF IsSeq
<1> QED  BY <1>1, <1>5, <1>6, <1>7, <1>8, <1>9

\* No reason is the mark for none.
LEMMA ErrsHaveReasons ==
    ASSUME NEW g, NEW r, NEW svcs, NEW e \in ErrsFor(g, r, svcs)
    PROVE  e.route = r.rank /\ e.reason # "none"
<1>1. \A why : ErrOf(r, why).route = r.rank /\ ErrOf(r, why).reason = why
  BY DEF ErrOf
<1> QED  BY <1>1 DEF ErrsFor

\* A route is told that it is accepted only if there is nothing against it.
LEMMA AcceptedHasNoErr ==
    ASSUME NEW r, NEW gn, NEW errs, IsSeq(errs),
           \A e \in ToSet(errs) : e.reason # "none",
           RouteAcceptedCondition(r, gn, errs).reason = "none"
    PROVE  \A e \in ToSet(errs) : e.route # r.rank
<1> DEFINE own == {i \in DOMAIN errs : errs[i].route = r.rank}
<1>1. own \in SUBSET Nat
  BY DEF IsSeq
<1>2. own = {}
  <2> SUFFICES ASSUME own # {} PROVE FALSE
    OBVIOUS
  <2>1. Min(own) \in own
    BY <1>1, MinMember
  <2>2. RouteAcceptedCondition(r, gn, errs).reason = errs[Min(own)].reason
    BY DEF RouteAcceptedCondition
  <2>3. errs[Min(own)] \in ToSet(errs)
    BY <2>1 DEF ToSet
  <2> QED  BY <2>2, <2>3
<1> QED  BY <1>2 DEF ToSet

\* What a route in the table has to do with its HTTPRoute.
LEMMA RouteOwes ==
    ASSUME NEW g, NEW r, NEW svcs, NEW rt \in RoutesFor(g, r, svcs)
    PROVE  /\ AttachedTo(g, r) /\ HostnamesFor(g, r).ok
           /\ rt.name[1] = r.rank /\ rt.hostnames = HostnamesFor(g, r).names
           /\ \E s \in svcs :
                 /\ s.ns = r.ns
                 /\ \E port \in s.ports : rt.upstream = <<s.name, s.ns, port>>
                 /\ rt.audience \in {<<s.name, s.ns>>} \cup g.audiences
<1>1. PICK ri \in DOMAIN r.rules :
         rt \in RuleRoutes(g, r, ri) /\ Refusal(g, r, r.rules[ri], svcs) = "none"
  BY DEF RoutesFor
<1> DEFINE ref == r.rules[ri].backends[1]
<1>2. PICK pi \in DOMAIN PathPrefixes(r.rules[ri]) :
         rt = RoutesOf(r, ri, HostnamesFor(g, r).names)[pi]
  BY <1>1 DEF RuleRoutes
<1>3. /\ rt.name = <<r.rank, ri, pi>> /\ rt.hostnames = HostnamesFor(g, r).names
      /\ rt.upstream = <<ref.service, r.ns, ref.port>>
      /\ rt.audience = IF r.audience = <<>> THEN <<ref.service, r.ns>> ELSE r.audience
  BY <1>2 DEF RoutesOf
<1>4. PICK s \in svcs : s.ns = r.ns /\ s.name = ref.service /\ ref.port \in s.ports
  BY <1>1 DEF Refusal
<1>5. r.audience \in {<<>>, <<ref.service, r.ns>>} \cup g.audiences
  BY <1>1 DEF Refusal
<1>6. rt.audience \in {<<s.name, s.ns>>} \cup g.audiences
  BY <1>3, <1>4, <1>5
<1>7. rt.upstream = <<s.name, s.ns, ref.port>>
  BY <1>3, <1>4
<1>8. AttachedTo(g, r) /\ HostnamesFor(g, r).ok
  BY DEF RoutesFor
<1>9. rt.name[1] = r.rank
  BY <1>3
<1> QED  BY <1>3, <1>4, <1>6, <1>7, <1>8, <1>9

\* hostnamesFor gives names that the route asks for and a listener that admits it
\* serves, and every name only if neither restricts it.
LEMMA HostnamesWithin ==
    ASSUME NEW g, NEW r, HostnamesFor(g, r).ok
    PROVE  LET names == HostnamesFor(g, r).names
               named == ListenerNames(g, r.ns)
               within(h, set) == \E m \in set : h = m \/ WildcardCovers(m, h)
           IN  /\ names = {} => r.hostnames = {} /\ named = {}
               /\ \A h \in names : /\ r.hostnames # {} => within(h, r.hostnames)
                                   /\ named # {} => within(h, named)
<1> DEFINE named == ListenerNames(g, r.ns)
           both == UNION {IntersectHostname(rh, lh) : rh \in r.hostnames, lh \in named}
<1>1. CASE named = {}
  BY <1>1 DEF HostnamesFor
<1>2. CASE named # {} /\ r.hostnames = {}
  BY <1>2 DEF HostnamesFor
<1>3. CASE named # {} /\ r.hostnames # {}
  <2>1. HostnamesFor(g, r).names = both /\ both # {}
    BY <1>3 DEF HostnamesFor
  <2>2. ASSUME NEW h \in both
        PROVE  \E rh \in r.hostnames, lh \in named : h \in IntersectHostname(rh, lh)
    OBVIOUS
  <2>3. ASSUME NEW rh, NEW lh, NEW h \in IntersectHostname(rh, lh)
        PROVE  (h = rh \/ WildcardCovers(rh, h)) /\ (h = lh \/ WildcardCovers(lh, h))
    BY DEF IntersectHostname
  <2> HIDE DEF both, named
  <2> QED  BY <2>1, <2>2, <2>3 DEF named
<1> QED  BY <1>1, <1>2, <1>3

------------------------------------------------------------------------------
(* The controller. *)

\* The orders in which the API server may list: every rank once.
LEMMA Orders ==
    ASSUME NEW order \in SetToSeqs(Rank)
    PROVE  /\ Len(order) \in Nat \ {0} /\ DOMAIN order = 1..Len(order)
           /\ \A i \in DOMAIN order : order[i] \in Rank
           /\ \A i, j \in DOMAIN order : order[i] = order[j] => i = j
<1>1. Rank = 1..Len(RouteSpec) /\ Len(RouteSpec) \in Nat /\ Len(RouteSpec) # 0
  BY Configuration DEF IsSeq, Rank
<1>2. Cardinality(Rank) = Len(RouteSpec)
  <2>1. Cardinality(1..Len(RouteSpec)) =
           IF 1 > Len(RouteSpec) THEN 0 ELSE Len(RouteSpec) - 1 + 1
    BY <1>1, FS_Interval
  <2> QED  BY <1>1, <2>1
<1>3. /\ order \in [1..Len(RouteSpec) -> Rank]
      /\ \A i, j \in 1..Len(RouteSpec) : i # j => order[i] # order[j]
  BY <1>2 DEF SetToSeqs
<1>4. order \in Seq(Rank) /\ Len(order) = Len(RouteSpec) /\ DOMAIN order = 1..Len(RouteSpec)
  BY <1>1, <1>3, FcnSeq
<1> QED  BY <1>1, <1>3, <1>4

\* The Objects are six.
LEMMA ObjectsAre ==
    /\ Len(Objects) = 6 /\ DOMAIN Objects = 1..6
    /\ \A k \in DOMAIN Objects : Objects[k] \in ToSet(Objects)
BY DEF Objects, ToSet

\* Nothing is made and no reconcile runs.
LEMMA InitIInv == Init => IInv
<1> SUFFICES ASSUME Init PROVE IInv
  OBVIOUS
<1>1. PICK w \in World : gateway = w.gateway /\ routes = w.routes /\ services = w.services
  BY DEF Init
<1>2. TypeOK
  <2>1. Flags
    BY DEF Init, Flags
  <2>2. /\ gateway \in Gateway /\ services \in Services
        /\ \A n \in Rank : routes[n] \in RouteSpec[n]
    BY <1>1, Configuration
  <2> QED  BY <2>1, <2>2, Configuration DEF Init, TypeOK
<1>3. Progress
  BY DEF Init, Progress
<1>4. Listed
  BY <1>1, Configuration DEF Init, Listed
<1>5. Planned
  BY DEF Init, Planned
<1> QED  BY <1>2, <1>3, <1>4, <1>5 DEF IInv

\* A reconcile that returns leaves nothing to show.
LEMMA ReturnIInv ==
    ASSUME Return, TypeOK', routes' = [n \in Rank |-> routes'[n]]
    PROVE  IInv'
BY DEF Return, IInv, Progress, Listed, Planned

\* What a running reconcile has read does not change under it; that Services changed
\* since is remembered in `unseen`.
LEMMA OthersIInv == ASSUME IInv, Others PROVE IInv'
<1>1. CASE Restart
  <2>1. Flags'
    BY <1>1 DEF Restart, IInv, TypeOK, Flags
  <2>2. TypeOK'
    BY <1>1, <2>1, Configuration DEF Restart, Edit, Return, api, owned, IInv, TypeOK
  <2>3. routes' = [n \in Rank |-> routes'[n]]
    BY <1>1 DEF Restart, api, IInv, Listed
  <2> QED  BY <1>1, <2>2, <2>3, ReturnIInv DEF Restart
<1>2. CASE ~Restart
  <2>1. /\ UNCHANGED <<pc, inside>>
        /\ \/ services' = services /\ unseen' = unseen
           \/ services' = services /\ unseen' = TRUE
           \/ services' \in Services /\ unseen' = TRUE
    BY <1>2 DEF Others, EditGateway, EditRoute, EditServices, EditClass, ReadyChanges,
                TableDeleted, api
  <2>2. TypeOK'
    <3>1. ASSUME NEW g \in Gateway, EditGateway(g) PROVE TypeOK'
      <4>1. Flags'
        BY <3>1 DEF EditGateway, IInv, TypeOK, Flags
      <4> QED  BY <3>1, <4>1, Configuration DEF EditGateway, Edit, owned, inside, IInv, TypeOK
    <3>2. ASSUME NEW n \in Rank, NEW r \in RouteSpec[n], EditRoute(n, r) PROVE TypeOK'
      <4>1. Flags'
        BY <3>2 DEF EditRoute, IInv, TypeOK, Flags, RouteEvent
      <4> QED  BY <3>2, <4>1, Configuration DEF EditRoute, Edit, owned, inside, Listed, IInv, TypeOK
    <3>3. ASSUME NEW s \in Services, EditServices(s) PROVE TypeOK'
      <4>1. Flags'
        BY <3>3 DEF EditServices, IInv, TypeOK, Flags
      <4> QED  BY <3>3, <4>1, Configuration DEF EditServices, Edit, owned, inside, IInv, TypeOK
    <3>4. ASSUME NEW c \in {"foreign", "ours"}, EditClass(c) PROVE TypeOK'
      <4>1. Flags'
        BY <3>4 DEF EditClass, IInv, TypeOK, Flags
      <4> QED  BY <3>4, <4>1, Configuration DEF EditClass, Edit, owned, inside, IInv, TypeOK
    <3>5. CASE ReadyChanges
      <4>1. Flags'
        BY <3>5 DEF ReadyChanges, IInv, TypeOK, Flags
      <4> QED  BY <3>5, <4>1, Configuration DEF ReadyChanges, Edit, api, owned, inside, IInv, TypeOK
    <3>6. CASE TableDeleted
      <4>1. Flags'
        BY <3>6 DEF TableDeleted, IInv, TypeOK, Flags
      <4> QED  BY <3>6, <4>1, Configuration DEF TableDeleted, Edit, api, inside, IInv, TypeOK
    <3> QED  BY <1>2, <3>1, <3>2, <3>3, <3>4, <3>5, <3>6 DEF Others
  <2>3. Progress'
    BY <2>1 DEF IInv, Progress, inside
  <2>4. routes' = [n \in Rank |-> routes'[n]]
    <3>1. routes' = routes \/ \E n \in Rank : \E r : routes' = [routes EXCEPT ![n] = r]
      BY <1>2 DEF Others, EditGateway, EditRoute, EditServices, EditClass, ReadyChanges,
                  TableDeleted, api
    <3> QED  BY <3>1 DEF IInv, Listed
  <2>5. Listed'
    BY <2>1, <2>4 DEF IInv, Listed, inside
  <2>6. Planned'
    BY <2>1 DEF IInv, Planned, inside
  <2> QED  BY <2>2, <2>3, <2>5, <2>6 DEF IInv
<1> QED  BY <1>1, <1>2

\* A reconcile begins, or there is nothing for it to do.
LEMMA BeginIInv == ASSUME IInv, Begin PROVE IInv'
<1> USE DEF api, owned
<1>1. /\ routes' = [n \in Rank |-> routes'[n]]
      /\ pc = "idle" /\ UNCHANGED <<gateway, class, routes, services, edits, faults, made, ready, lost>>
  BY DEF Begin, IInv, Listed
<1>2. Flags'
  BY DEF Begin, IInv, TypeOK, Flags
<1>3. CASE Return
  <2>1. TypeOK'
    BY <1>1, <1>2, <1>3 DEF Return, IInv, TypeOK
  <2> QED  BY <1>1, <1>3, <2>1, ReturnIInv
<1>4. CASE ~Return
  <2>1. /\ gateway # None /\ gw' = gateway /\ pc' = "list"
        /\ UNCHANGED <<list, plan, telling, next, sts>>
    BY <1>4 DEF Begin
  <2>2. TypeOK'
    BY <1>1, <1>2, <2>1 DEF IInv, TypeOK
  <2>3. Progress' /\ Listed' /\ Planned'
    BY <1>1, <2>1 DEF IInv, TypeOK, Progress, Listed, Planned
  <2> QED  BY <2>2, <2>3 DEF IInv
<1> QED  BY <1>3, <1>4

\* Whatever the order, the list has each route once.
LEMMA ListRoutesIInv == ASSUME IInv, ListRoutes PROVE IInv'
<1> USE DEF api, owned
<1>1. PICK order \in SetToSeqs(Rank) :
         list' = [i \in DOMAIN order |-> [route |-> routes[order[i]], gen |-> gen[order[i]]]]
  BY DEF ListRoutes
<1>2. /\ pc = "list" /\ pc' = "render"
      /\ UNCHANGED <<gateway, class, routes, services, edits, faults, queued, gw, telling, next,
                     made, ready, unseen, lost>>
  BY DEF ListRoutes
<1>3. /\ Len(order) \in Nat \ {0} /\ DOMAIN order = 1..Len(order)
      /\ \A i \in DOMAIN order : order[i] \in Rank
      /\ \A i, j \in DOMAIN order : order[i] = order[j] => i = j
  BY Orders
<1>4. TypeOK'
  BY <1>2 DEF IInv, TypeOK, Flags
<1>5. Progress' /\ Planned'
  BY <1>2 DEF IInv, Progress, Planned
<1>6. Listed'
  <2>1. \A i \in DOMAIN order : list'[i].route = routes[order[i]]
    BY <1>1
  <2>2. DOMAIN list' = 1..Len(order) /\ Len(list') = Len(order)
    BY <1>1, <1>3
  <2>3. \A i \in DOMAIN order : routes[order[i]] \in RouteSpec[order[i]]
                                /\ routes[order[i]].rank = order[i]
    BY <1>3, Configuration DEF IInv, TypeOK
  <2>4. IsSeq(list') /\ list' # <<>>
    BY <1>3, <2>2 DEF IsSeq
  <2>5. DOMAIN list' = DOMAIN order
    BY <1>3, <2>2
  <2>6. \A i \in DOMAIN list' :
           /\ list'[i].route.rank = order[i] /\ order[i] \in Rank
           /\ list'[i].route \in RouteSpec[order[i]]
    BY <1>3, <2>1, <2>3, <2>5
  <2>7. \A i, j \in DOMAIN list' : list'[i].route.rank = list'[j].route.rank => i = j
    BY <1>3, <2>5, <2>6
  <2>8. routes' = [n \in Rank |-> routes'[n]]
    BY <1>2 DEF IInv, Listed
  <2> QED  BY <2>4, <2>6, <2>7, <2>8 DEF Listed
<1> QED  BY <1>4, <1>5, <1>6 DEF IInv

\* The plan is for the Services of this moment.
LEMMA RenderIInv == ASSUME IInv, Render PROVE IInv'
<1> USE DEF api, owned
<1>1. /\ pc = "render" /\ pc' = "tell" /\ unseen' = FALSE
      /\ plan' = Translate(gw, [i \in DOMAIN list |-> list[i].route], services)
      /\ UNCHANGED <<gateway, class, routes, services, edits, faults, queued, gw, list, telling,
                     next, made, ready, lost>>
  BY DEF Render
<1>2. TypeOK'
  BY <1>1 DEF IInv, TypeOK, Flags
<1>3. Listed'
  BY <1>1 DEF IInv, Listed
<1>4. Progress'
  <2>1. 1 \in DOMAIN list
    BY <1>1 DEF IInv, Listed, IsSeq
  <2> QED  BY <1>1, <2>1 DEF IInv, Progress
<1>5. Planned'
  BY <1>1 DEF IInv, TypeOK, Planned
<1> QED  BY <1>2, <1>3, <1>4, <1>5 DEF IInv

\* The loop over the list ends at its end.
LEMMA TellRouteIInv == ASSUME IInv, TellRoute PROVE IInv'
<1> USE DEF api, owned
<1> DEFINE n == list[telling].route.rank
<1>1. /\ pc = "tell" /\ telling' = telling + 1
      /\ pc' = IF telling = Len(list) THEN "apply" ELSE "tell"
      /\ UNCHANGED <<gateway, class, routes, services, edits, gw, list, plan, next, made, ready,
                     unseen>>
  BY DEF TellRoute
<1>2. /\ faults' = faults \/ (faults < MaxFaults /\ faults' = faults + 1)
      /\ lost' \subseteq lost \cup {n}
      /\ queued' = queued \/ queued' = TRUE
  BY DEF TellRoute
<1>3. n \in Rank /\ telling \in 1..Len(list) /\ Len(list) \in Nat /\ DOMAIN list = 1..Len(list)
  BY <1>1 DEF IInv, Progress, Listed, IsSeq
<1> HIDE DEF n
<1>4. TypeOK'
  <2>1. Flags'
    BY <1>1, <1>2 DEF IInv, TypeOK, Flags
  <2>2. pc' = "apply" => next' \in DOMAIN Objects
    BY <1>1, ObjectsAre DEF IInv, Progress
  <2>3. faults' \in 0..MaxFaults /\ lost' \subseteq Rank
    BY <1>2, <1>3, Configuration DEF IInv, TypeOK
  <2>4. pc' \in {"tell", "apply"}
    BY <1>1
  <2> QED  BY <1>1, <2>1, <2>2, <2>3, <2>4 DEF IInv, TypeOK
<1>5. Progress'
  <2>1. ASSUME pc' = "tell" PROVE telling' \in DOMAIN list'
    <3>1. telling # Len(list)
      BY <1>1, <2>1
    <3>2. telling + 1 \in 1..Len(list)
      <4> DEFINE k == Len(list)
      <4>1. telling \in 1..k /\ k \in Nat /\ telling # k
        BY <1>3, <3>1
      <4> HIDE DEF k
      <4>2. telling + 1 \in 1..k
        BY <4>1
      <4> QED  BY <4>2 DEF k
    <3> QED  BY <1>1, <1>3, <3>2
  <2>2. pc' \in {"tell", "apply"}
    BY <1>1
  <2> QED  BY <1>1, <2>1, <2>2 DEF IInv, Progress
<1>6. Listed'
  BY <1>1 DEF IInv, Listed
<1>7. Planned'
  BY <1>1 DEF IInv, Planned
<1> QED  BY <1>4, <1>5, <1>6, <1>7 DEF IInv

\* An error ends the reconcile.
LEMMA FailIInv ==
    ASSUME IInv, Fail, faults' \in 0..MaxFaults,
           UNCHANGED <<api, edits, made, ready, unseen, lost>>
    PROVE  IInv'
<1>1. Flags'
  BY DEF Fail, IInv, TypeOK, Flags
<1>2. TypeOK'
  BY <1>1 DEF Fail, Return, api, IInv, TypeOK
<1>3. routes' = [n \in Rank |-> routes'[n]]
  BY DEF api, IInv, Listed
<1> QED  BY <1>2, <1>3, ReturnIInv DEF Fail

\* The six objects are applied one by one.
LEMMA ApplyIInv == ASSUME IInv, Apply PROVE IInv'
<1> DEFINE o == Objects[next]
<1>1. pc = "apply" /\ next \in DOMAIN Objects /\ UNCHANGED <<api, edits, faults, ready, unseen, lost>>
  BY DEF Apply, IInv, TypeOK
<1>2. CASE Refused(o)
  <2>1. Fail /\ UNCHANGED made /\ faults' \in 0..MaxFaults
    BY <1>1, <1>2 DEF Apply, owned, IInv, TypeOK
  <2> QED  BY <1>1, <2>1, FailIInv
<1>3. CASE ~Refused(o)
  <2>1. /\ Put(o) /\ next' = next + 1 /\ pc' = IF LastObject(next) THEN "report" ELSE "apply"
        /\ UNCHANGED <<gw, list, plan, telling>>
    BY <1>3 DEF Apply
  <2>2. made' \subseteq made \cup ({o} \ {"routes"}) /\ queued' \in BOOLEAN
    BY <2>1 DEF Put
  <2>3. pc' = "apply" => next' \in DOMAIN Objects
    BY <1>1, <2>1, ObjectsAre DEF LastObject
  <2>4. o \in ToSet(Objects)
    BY <1>1, ObjectsAre
  <2> HIDE DEF o
  <2>5. Flags'
    BY <1>1, <2>2 DEF IInv, TypeOK, Flags
  <2>6. TypeOK'
    BY <1>1, <2>1, <2>2, <2>3, <2>4, <2>5 DEF api, IInv, TypeOK
  <2>7. Progress' /\ Listed' /\ Planned'
    BY <1>1, <2>1 DEF api, IInv, Progress, Listed, Planned
  <2> QED  BY <2>6, <2>7 DEF IInv
<1> QED  BY <1>2, <1>3

\* A failed call to the API ends the reconcile.
LEMMA FaultIInv == ASSUME IInv, Fault PROVE IInv'
<1>1. Fail /\ UNCHANGED <<api, edits, made, ready, unseen, lost>>
  BY DEF Fault, owned
<1>2. faults' \in 0..MaxFaults
  BY Configuration DEF Fault, IInv, TypeOK
<1> QED  BY <1>1, <1>2, FailIInv

\* The status is the last thing a reconcile writes.
LEMMA ReportIInv == ASSUME IInv, Report PROVE IInv'
<1>1. Return /\ UNCHANGED <<api, edits, faults, made, ready, unseen, lost>>
  BY DEF Report, Fail, owned
<1>2. queued' \in BOOLEAN
  BY DEF Report, Fail, IInv, TypeOK, Flags
<1>3. Flags'
  BY <1>1, <1>2 DEF IInv, TypeOK, Flags
<1>4. TypeOK'
  BY <1>1, <1>3 DEF Return, api, IInv, TypeOK
<1>5. routes' = [n \in Rank |-> routes'[n]]
  BY <1>1 DEF api, IInv, Listed
<1> QED  BY <1>1, <1>4, <1>5, ReturnIInv

\* Every step preserves the invariant.
LEMMA StepIInv == ASSUME IInv, [Next]_vars PROVE IInv'
<1>1. CASE UNCHANGED vars
  BY <1>1 DEF vars, api, inside, owned, IInv, TypeOK, Flags, Progress, Listed, Planned
<1>2. CASE Next
  BY <1>2, OthersIInv, BeginIInv, ListRoutesIInv, RenderIInv, TellRouteIInv, ApplyIInv,
     FaultIInv, ReportIInv DEF Next, Work
<1> QED  BY <1>1, <1>2

\* The invariant holds in every behaviour.
THEOREM Invariance == Spec => []IInv
<1> QED  BY InitIInv, StepIInv, PTL DEF Spec

\* Every variable keeps its type: in particular no reconcile applies more objects than
\* there are, whatever fails or restarts.
THEOREM TypeCorrect == Spec => []TypeOK
<1>1. IInv => TypeOK
  BY DEF IInv
<1> QED  BY <1>1, Invariance, PTL

\* A plan is the translation of well-formed routes that each have their own rank.
LEMMA PlanIsTranslation ==
    ASSUME IInv, pc = "tell"
    PROVE  \E s \in Services :
             /\ ~unseen => s = services
             /\ \A rt : rt \in ToSet(plan.table) <=>
                          \E i \in DOMAIN list : rt \in RoutesFor(gw, list[i].route, s)
             /\ IsSeq(plan.errs)
             /\ \A e : e \in ToSet(plan.errs) <=>
                          \E i \in DOMAIN list : e \in ErrsFor(gw, list[i].route, s)
<1> DEFINE rs == [i \in DOMAIN list |-> list[i].route]
           n == Len(list)
<1>1. PICK s \in Services : plan = Translate(gw, rs, s) /\ (~unseen => s = services)
  BY DEF IInv, Planned
<1>2. n \in Nat /\ DOMAIN list = 1..n
  BY DEF IInv, Listed, IsSeq
<1>3. \A i \in 1..n : rs[i] = list[i].route /\ WellFormed(rs[i])
  BY <1>2, Configuration DEF IInv, Listed
<1>4. rs = [i \in 1..n |-> rs[i]]
  BY <1>2
<1> HIDE DEF rs, n
<1>5. /\ \A rt : rt \in ToSet(plan.table) <=> \E i \in 1..n : rt \in RoutesFor(gw, rs[i], s)
      /\ IsSeq(plan.errs)
      /\ \A e : e \in ToSet(plan.errs) <=> \E i \in 1..n : e \in ErrsFor(gw, rs[i], s)
  BY <1>1, <1>2, <1>3, <1>4, Translated
<1> QED  BY <1>1, <1>2, <1>3, <1>5

\* A route that is told it is accepted has every rule in the table.
LEMMA AcceptedServed == ASSUME IInv PROVE AcceptedMeansServed
<1> SUFFICES ASSUME pc = "tell", NEW i \in DOMAIN list, AttachedTo(gw, list[i].route),
                    RouteAcceptedCondition(list[i].route, 0, plan.errs).reason = "none",
                    NEW ri \in DOMAIN list[i].route.rules
             PROVE  \E rt \in ToSet(plan.table) : rt.name[1] = list[i].route.rank /\ rt.name[2] = ri
  BY DEF AcceptedMeansServed, ToSet
<1> DEFINE r == list[i].route
<1>1. PICK s \in Services :
         /\ \A rt : rt \in ToSet(plan.table) <=>
                      \E j \in DOMAIN list : rt \in RoutesFor(gw, list[j].route, s)
         /\ IsSeq(plan.errs)
         /\ \A e : e \in ToSet(plan.errs) <=>
                      \E j \in DOMAIN list : e \in ErrsFor(gw, list[j].route, s)
  BY PlanIsTranslation
<1>2. \A e \in ToSet(plan.errs) : e.reason # "none"
  BY <1>1, ErrsHaveReasons
<1>3. \A e \in ToSet(plan.errs) : e.route # r.rank
  BY <1>1, <1>2, AcceptedHasNoErr
<1>4. ErrsFor(gw, r, s) = {}
  BY <1>1, <1>3, ErrsHaveReasons
<1>5. WellFormed(r)
  BY Configuration DEF IInv, Listed
<1>6. AttachedTo(gw, r) /\ ri \in DOMAIN r.rules
  OBVIOUS
<1> HIDE DEF r
<1>7. HostnamesFor(gw, r).ok /\ Refusal(gw, r, r.rules[ri], s) = "none"
  BY <1>4, <1>6 DEF ErrsFor
<1>8. 1 \in DOMAIN PathPrefixes(r.rules[ri])
  <2>1. ~NoUsablePath(r.rules[ri])
    BY <1>7 DEF Refusal
  <2> QED  BY <1>5, <1>6, <2>1, PrefixesSeq DEF NoUsablePath, WellFormed
<1> DEFINE rt == RoutesOf(r, ri, HostnamesFor(gw, r).names)[1]
<1>9. rt.name = <<r.rank, ri, 1>> /\ rt \in RuleRoutes(gw, r, ri)
  BY <1>8 DEF RoutesOf, RuleRoutes
<1> HIDE DEF rt
<1>10. rt \in RoutesFor(gw, r, s)
  BY <1>6, <1>7, <1>9 DEF RoutesFor
<1>11. rt \in ToSet(plan.table)
  BY <1>1, <1>10 DEF r
<1>12. rt.name[1] = r.rank /\ rt.name[2] = ri
  BY <1>9
<1> QED  BY <1>11, <1>12 DEF r

\* "True when every rule translated": a route is told that it is accepted only if each
\* of its rules is in the table.
THEOREM AcceptedIsServed == Spec => []AcceptedMeansServed
BY Invariance, AcceptedServed, PTL

\* The list has one entry for a rank.
LEMMA RankPicks ==
    ASSUME IInv, pc = "tell", NEW i \in DOMAIN list
    PROVE  (CHOOSE l \in ToSet(list) : l.route.rank = list[i].route.rank) = list[i]
<1>1. list[i] \in ToSet(list)
  BY DEF ToSet
<1>2. ASSUME NEW l \in ToSet(list), l.route.rank = list[i].route.rank PROVE l = list[i]
  BY <1>2 DEF ToSet, IInv, Listed
<1> QED  BY <1>1, <1>2

\* No route in the table answers for a name, goes to a Service or carries an audience
\* that its HTTPRoute has no right to.
LEMMA NothingIsBorrowed == ASSUME IInv PROVE NothingBorrowed
<1> SUFFICES ASSUME pc = "tell", ~unseen, NEW rt \in ToSet(plan.table)
             PROVE
        LET r == (CHOOSE l \in ToSet(list) : l.route.rank = rt.name[1]).route
            admitting == {l \in ToSet(gw.listeners) : l.from = "All" \/ (l.from = "Same" /\ r.ns = gw.ns)}
            named == {l.hostname : l \in admitting} \ {<<>>}
            within(h, names) == \E m \in names : h = m \/ WildcardCovers(m, h)
        IN  /\ admitting # {}
            /\ rt.hostnames = {} => r.hostnames = {} /\ named = {}
            /\ \A h \in rt.hostnames :
                  /\ r.hostnames # {} => within(h, r.hostnames)
                  /\ named # {} => within(h, named)
            /\ \E s \in services :
                  /\ s.ns = r.ns
                  /\ \E port \in s.ports : rt.upstream = <<s.name, s.ns, port>>
                  /\ rt.audience \in {<<s.name, s.ns>>} \cup gw.audiences
  BY DEF NothingBorrowed
<1>1. PICK i \in DOMAIN list : rt \in RoutesFor(gw, list[i].route, services)
  BY PlanIsTranslation
<1> DEFINE r == list[i].route
<1>2. /\ AttachedTo(gw, r) /\ HostnamesFor(gw, r).ok
      /\ rt.name[1] = r.rank /\ rt.hostnames = HostnamesFor(gw, r).names
      /\ \E s \in services :
            /\ s.ns = r.ns
            /\ \E port \in s.ports : rt.upstream = <<s.name, s.ns, port>>
            /\ rt.audience \in {<<s.name, s.ns>>} \cup gw.audiences
  BY <1>1, RouteOwes
<1>3. (CHOOSE l \in ToSet(list) : l.route.rank = rt.name[1]).route = r
  <2>1. (CHOOSE l \in ToSet(list) : l.route.rank = r.rank) = list[i]
    BY RankPicks
  <2> QED  BY <1>2, <2>1
<1>4. AdmittingListeners(gw, r.ns) =
         {l \in ToSet(gw.listeners) : l.from = "All" \/ (l.from = "Same" /\ r.ns = gw.ns)}
  BY DEF AdmittingListeners, ListenerAdmits
<1>5. AdmittingListeners(gw, r.ns) # {}
  BY <1>2 DEF AttachedTo
<1>6. ListenerNames(gw, r.ns) = {l.hostname : l \in AdmittingListeners(gw, r.ns)} \ {<<>>}
  BY DEF ListenerNames
<1>7. /\ rt.hostnames = {} => r.hostnames = {} /\ ListenerNames(gw, r.ns) = {}
      /\ \A h \in rt.hostnames :
            /\ r.hostnames # {} => \E m \in r.hostnames : h = m \/ WildcardCovers(m, h)
            /\ ListenerNames(gw, r.ns) # {} =>
                  \E m \in ListenerNames(gw, r.ns) : h = m \/ WildcardCovers(m, h)
  BY <1>2, HostnamesWithin
<1> HIDE DEF r
<1> QED  BY <1>2, <1>3, <1>4, <1>5, <1>6, <1>7

\* The table borrows nothing: whatever people put into HTTPRoutes, their routes get
\* names of listeners that admit them, Services of their own namespace and audiences
\* of those or ones the Gateway allows.
THEOREM TableBorrowsNothing == Spec => []NothingBorrowed
BY Invariance, NothingIsBorrowed, PTL
=============================================================================

------------------------- MODULE RequestProxyProofs -------------------------
(***************************************************************************)
(* Proofs about RequestProxy, for every set of requests, tables, callers   *)
(* and policies: its invariant, and that it implements Forwarding.         *)
(***************************************************************************)
EXTENDS RequestProxy, LeastNumber

------------------------------------------------------------------------------
(* The router. *)

\* A prefix is a sequence also without its trailing slash.
LEMMA TrimSlashLen ==
    ASSUME NEW s \in Seq(STRING)
    PROVE  Len(TrimSlash(s)) \in Nat
<1>1. Len(s) \in Nat
  OBVIOUS
<1>2. CASE Len(s) > 1
  <2>1. Len(SubSeq(s, 1, Len(s) - 1)) \in Nat
    BY <1>1, <1>2
  <2> QED  BY <1>1, <2>1 DEF TrimSlash, Front
<1>3. CASE ~(Len(s) > 1)
  BY <1>1, <1>3 DEF TrimSlash
<1> QED  BY <1>2, <1>3

\* The number of segments a prefix contributes is bounded by the path it matches.
LEMMA PathLenBounded ==
    ASSUME NEW t \in Table, NEW i \in DOMAIN t, NEW q \in Query, Matches(t[i], q)
    PROVE  /\ PathLen(t[i]) \in Int
           /\ PathLen(t[i]) <= Len(q.path)
<1> DEFINE pre == t[i].pathPrefix
<1>1. pre \in Seq(STRING) /\ q.path \in Seq(STRING)
  BY Configuration
<1>2. Len(TrimSlash(pre)) \in Nat
  BY <1>1, TrimSlashLen
<1>3. CASE pre = EmptyPath
  BY <1>1, <1>3 DEF PathLen
<1>4. CASE pre # EmptyPath
  <2>1. Len(TrimSlash(pre)) <= Len(q.path)
    BY <1>4 DEF Matches, PathMatches, IsPrefix
  <2> QED  BY <1>1, <1>2, <1>4, <2>1 DEF PathLen
<1> QED  BY <1>3, <1>4

\* Among the routes that match there is one that beats all others.
LEMMA BestExists ==
    ASSUME NEW t \in Table, NEW q \in Query,
           NEW found, found = {i \in DOMAIN t : Matches(t[i], q)}, found # {}
    PROVE  \E i \in found : \A j \in found \ {i} : Beats(t, q, i, j)
<1> DEFINE host(i) == HostRank(t[i], TrimDot(q.host))
           len(i)  == PathLen(t[i])
<1>1. /\ found \subseteq Nat
      /\ \A i \in found : host(i) \in 0..3
      /\ \A i \in found : len(i) \in Int /\ len(i) <= Len(q.path)
  <2>1. found \subseteq Nat
    BY Configuration
  <2>2. \A i \in found : host(i) \in 0..3
    BY DEF HostRank
  <2>3. \A i \in found : len(i) \in Int /\ len(i) <= Len(q.path)
    BY PathLenBounded
  <2> QED  BY <2>1, <2>2, <2>3
<1>2. Len(q.path) \in Nat
  BY Configuration
<1> HIDE DEF host, len
<1>3. PICK a \in found : \A j \in found : host(j) <= host(a)
  <2> DEFINE S == {3 - host(i) : i \in found}
  <2>1. S \in SUBSET Nat /\ S # {}
    BY <1>1
  <2>2. PICK n \in S : \A m \in S : n <= m
    BY <2>1, Least
  <2>3. PICK a \in found : n = 3 - host(a)
    BY <2>2
  <2>4. \A j \in found : 3 - host(a) <= 3 - host(j)
    BY <2>2, <2>3
  <2>5. \A j \in found : host(j) <= host(a)
    BY <2>4, <1>1
  <2> QED  BY <2>5
<1>4. PICK b \in found : /\ host(b) = host(a)
                         /\ \A j \in found : host(j) = host(a) => len(j) <= len(b)
  <2> DEFINE top == {i \in found : host(i) = host(a)}
             S   == {Len(q.path) - len(i) : i \in top}
  <2>1. S \in SUBSET Nat /\ S # {}
    BY <1>1, <1>2
  <2>2. PICK n \in S : \A m \in S : n <= m
    BY <2>1, Least
  <2>3. PICK b \in top : n = Len(q.path) - len(b)
    BY <2>2
  <2>4. \A j \in top : Len(q.path) - len(b) <= Len(q.path) - len(j)
    BY <2>2, <2>3
  <2>5. \A j \in top : len(j) <= len(b)
    BY <2>4, <1>1, <1>2
  <2> QED  BY <2>3, <2>5
<1>5. PICK c \in found : /\ host(c) = host(a) /\ len(c) = len(b)
                         /\ \A j \in found : host(j) = host(a) /\ len(j) = len(b) => c <= j
  <2> DEFINE S == {i \in found : host(i) = host(a) /\ len(i) = len(b)}
  <2>1. S \in SUBSET Nat /\ S # {}
    BY <1>1, <1>4
  <2>2. PICK n \in S : \A m \in S : n <= m
    BY <2>1, Least
  <2> QED  BY <2>2
<1>6. ASSUME NEW j \in found \ {c}
      PROVE  Beats(t, q, c, j)
  <2>1. \/ host(c) > host(j)
        \/ host(c) = host(j) /\ len(c) > len(j)
        \/ host(c) = host(j) /\ len(c) = len(j) /\ c < j
    BY <1>1, <1>3, <1>4, <1>5, <1>6
  <2> QED  BY <2>1 DEF Beats, host, len
<1> QED  BY <1>6

\* Match returns 0, or the place of a route that Preferred accepts.
LEMMA MatchIsPreferred ==
    ASSUME NEW t \in Table, NEW q \in Query
    PROVE  /\ Match(t, q) \in Nat
           /\ Match(t, q) # 0 => Match(t, q) \in DOMAIN t /\ Preferred(t, q, Match(t, q))
<1> DEFINE found == {i \in DOMAIN t : Matches(t[i], q)}
           m     == Match(t, q)
<1>1. CASE found = {}
  BY <1>1 DEF Match
<1>2. CASE found # {}
  <2>1. m = CHOOSE i \in found : \A j \in found \ {i} : Beats(t, q, i, j)
    BY <1>2 DEF Match
  <2>2. \E i \in found : \A j \in found \ {i} : Beats(t, q, i, j)
    BY <1>2, BestExists
  <2>3. m \in found /\ \A j \in found \ {m} : Beats(t, q, m, j)
    <3> HIDE DEF m, found
    <3> QED  BY <2>1, <2>2
  <2>4. m \in Nat /\ m \in DOMAIN t /\ Matches(t[m], q)
    BY <2>3, Configuration
  <2>5. ASSUME NEW j \in DOMAIN t, Matches(t[j], q)
        PROVE  LET hi == HostRank(t[m], TrimDot(q.host))
                   hj == HostRank(t[j], TrimDot(q.host))
               IN  hj <= hi /\ (hj = hi => PathLen(t[j]) <= PathLen(t[m]))
    <3>1. HostRank(t[m], TrimDot(q.host)) \in 0..3 /\ HostRank(t[j], TrimDot(q.host)) \in 0..3
      BY DEF HostRank
    <3>2. PathLen(t[j]) \in Int /\ PathLen(t[m]) \in Int
      BY <2>4, <2>5, PathLenBounded
    <3>3. j = m \/ Beats(t, q, m, j)
      BY <2>3, <2>5
    <3> HIDE DEF m
    <3> QED  BY <3>1, <3>2, <3>3 DEF Beats
  <2> QED  BY <2>4, <2>5 DEF Preferred
<1> QED  BY <1>1, <1>2

------------------------------------------------------------------------------
(* Grants and Mint. *)

\* What Resolve grants is in the policy, with roles.
LEMMA ResolveReached ==
    ASSUME NEW p, NEW who
    PROVE  \A i \in DOMAIN Resolve(p, who).tenants :
              /\ i \in DOMAIN p.tenants
              /\ Resolve(p, who).tenants[i].id = p.tenants[i].id
              /\ Resolve(p, who).tenants[i].roles = RolesIn(p, p.tenants[i], who.groups)
              /\ RolesIn(p, p.tenants[i], who.groups) # {}
<1> DEFINE reached == {j \in DOMAIN p.tenants : RolesIn(p, p.tenants[j], who.groups) # {}}
           f == [j \in reached |-> [id    |-> p.tenants[j].id,
                                    roles |-> RolesIn(p, p.tenants[j], who.groups)]]
<1>1. Resolve(p, who).tenants = f
  BY DEF Resolve
<1> QED  BY <1>1

\* What Mint has established when it succeeds: the caller is identified, the tenant is
\* the one asked for or the default, and one of the policy's in which it has the roles.
LEMMA MintEstablishes ==
    ASSUME NEW p, NEW who, NEW audience, NEW tenant,
           NEW c, c = Mint(p, who, audience, tenant), c.status = 200
    PROVE  /\ Identify(p.allowTagged, who).known
           /\ c.audience = audience
           /\ c.subject = who.user
           /\ c.tenant # Absent
           /\ tenant \in {Absent, c.tenant}
           /\ \E j \in DOMAIN p.tenants :
                 /\ p.tenants[j].id = c.tenant
                 /\ c.roles = RolesIn(p, p.tenants[j], Identify(p.allowTagged, who).groups)
                 /\ c.roles # {}
<1> DEFINE id   == Identify(p.allowTagged, who)
           g    == Resolve(p, id)
           want == IF tenant = Absent THEN g.default ELSE tenant
           held == {i \in DOMAIN g.tenants : g.tenants[i].id = want}
           j    == CHOOSE i \in held : TRUE
<1>1. id.known /\ GrantValid(g) /\ want # Absent /\ held # {}
  <2>1. ~id.known => c = [status |-> 401]
    BY DEF Mint
  <2>2. id.known /\ (~GrantValid(g) \/ want = Absent \/ held = {}) => c = [status |-> 403]
    BY DEF Mint
  <2>3. c # [status |-> 401] /\ c # [status |-> 403]
    <3>1. c.status = 200
      OBVIOUS
    <3> QED  BY <3>1
  <2> HIDE DEF id, g, want, held
  <2> QED  BY <2>1, <2>2, <2>3, Zenon
<1>2. /\ c.subject = id.subject
      /\ c.audience = audience
      /\ c.tenant = want
      /\ c.roles = g.tenants[j].roles
  BY <1>1 DEF Mint
<1>3. id.subject = who.user
  BY DEF Identify
<1>4. j \in held
  <2> HIDE DEF held
  <2> QED  BY <1>1
<1>5. /\ j \in DOMAIN p.tenants
      /\ g.tenants[j].id = p.tenants[j].id
      /\ g.tenants[j].roles = RolesIn(p, p.tenants[j], id.groups)
      /\ RolesIn(p, p.tenants[j], id.groups) # {}
  <2>1. j \in DOMAIN Resolve(p, id).tenants
    BY <1>4
  <2> HIDE DEF id, held, j
  <2> QED  BY <2>1, ResolveReached DEF g
<1>6. g.tenants[j].id = want
  BY <1>4
<1> HIDE DEF id, g, j, want, held
<1>7. /\ p.tenants[j].id = c.tenant
      /\ c.roles = RolesIn(p, p.tenants[j], id.groups)
      /\ c.roles # {}
  BY <1>2, <1>5, <1>6
<1> QED  BY <1>1, <1>2, <1>3, <1>5, <1>7 DEF id, want

\* The statuses a Mint can end with.
LEMMA MintStatus ==
    ASSUME NEW p, NEW who, NEW audience, NEW tenant
    PROVE  Mint(p, who, audience, tenant).status \in {200, 401, 403}
BY DEF Mint

------------------------------------------------------------------------------
(* The invariant. *)

Codes == {0, 200, 401, 403, 404, 500, 502, 503}

\* Where every handler starts: nothing is sent, nobody is bound.
LEMMA InitHolds == Init => IInv
<1> SUFFICES ASSUME Init PROVE IInv
  OBVIOUS
<1>1. TypeOK
  BY Configuration DEF Init, TypeOK, TableValid, Steps
<1>2. ASSUME NEW r \in Request PROVE Progress(r)
  BY DEF Init, Progress
<1>3. TenantStays
  BY DEF Init, TenantStays
<1>4. HeadersVouched
  BY DEF Init, HeadersVouched
<1> QED  BY <1>1, <1>2, <1>3, <1>4 DEF Init, IInv

\* No header of the request r, on its way or sent, that the proxy answers for is the
\* caller's.
Vouched(r) ==
    \A i \in DOMAIN sent[r] :
       \A h \in Header \cap Stripped(bound[r], route[r]) : sent[r][i].headers[h] # Callers

\* HeadersVouched, one request at a time.
LEMMA VouchedEach == HeadersVouched <=> \A r \in Request : Vouched(r)
BY DEF HeadersVouched, Vouched, Stripped

\* A step of one request says nothing of the others.
LEMMA Frame ==
    ASSUME IInv, NEW r \in Request, TypeOK',
           DOMAIN claims' = Request, DOMAIN sent' = Request, query' = query,
           \A s \in Request \ {r} : /\ pc'[s] = pc[s] /\ bound'[s] = bound[s]
                                    /\ route'[s] = route[s] /\ claims'[s] = claims[s]
                                    /\ sent'[s] = sent[s],
           Progress(r)',
           \A i \in DOMAIN sent'[r] : sent'[r][i].tenant = claims'[r].tenant,
           Vouched(r)'
    PROVE  IInv'
<1>1. ASSUME NEW s \in Request, s # r PROVE Progress(s)'
  <2>1. Progress(s)
    BY DEF IInv
  <2>2. /\ pc'[s] = pc[s] /\ bound'[s] = bound[s] /\ route'[s] = route[s]
        /\ claims'[s] = claims[s] /\ sent'[s] = sent[s]
    BY <1>1
  <2> QED  BY <2>1, <2>2 DEF Progress, WantedTenant
<1>2. \A s \in Request : Progress(s)'
  BY <1>1
<1>3. TenantStays'
  BY DEF IInv, TenantStays
<1>4. HeadersVouched'
  <2>1. \A s \in Request : Vouched(s)
    BY VouchedEach DEF IInv
  <2>2. \A s \in Request \ {r} : Vouched(s)'
    BY <2>1 DEF Vouched, Stripped
  <2>3. \A s \in Request : Vouched(s)'
    BY <2>2
  <2> QED  BY <2>3, VouchedEach DEF HeadersVouched, Vouched, Stripped
<1> QED  BY <1>2, <1>3, <1>4 DEF IInv

\* A header the proxy answers for goes out as the proxy's, whatever the caller sent.
LEMMA HeadersOurs ==
    ASSUME NEW t, NEW i, NEW q, NEW c, NEW h \in Header \cap Stripped(t, i)
    PROVE  Headers(t, i, q, c)[h] # Callers
<1>1. ASSUME NEW v PROVE Proxys(v) # Callers
  <2>1. Proxys(v).by = "the proxy" /\ Callers.by = "the caller"
    BY DEF Proxys, Callers
  <2> QED  BY <2>1
<1>2. \E v : Headers(t, i, q, c)[h] = Proxys(v)
  BY DEF Headers
<1> QED  BY <1>1, <1>2

\* A request that is answered and not forwarded.
LEMMA AnswerKeeps ==
    ASSUME IInv, NEW r \in Request, NEW code \in Codes, pc[r] # "done", Answer(r, code),
           UNCHANGED <<env, table, peer, cancelled, bound, route, sent>>,
           DOMAIN claims' = Request, \A s \in Request \ {r} : claims'[s] = claims[s]
    PROVE  IInv'
<1>1. TypeOK'
  BY DEF IInv, TypeOK, Answer, env, Codes, Steps
<1>2. pc'[r] = "done" /\ sent'[r] = <<>>
  BY DEF IInv, TypeOK, Progress, Answer
<1>3. Progress(r)'
  BY <1>2 DEF Progress
<1>4. \A s \in Request \ {r} : /\ pc'[s] = pc[s] /\ bound'[s] = bound[s]
                               /\ route'[s] = route[s] /\ claims'[s] = claims[s]
                               /\ sent'[s] = sent[s]
  BY DEF IInv, TypeOK, Answer
<1>5. /\ DOMAIN sent' = Request /\ query' = query
      /\ \A i \in DOMAIN sent'[r] : sent'[r][i].tenant = claims'[r].tenant
  BY <1>2 DEF IInv, env
<1>6. Vouched(r)'
  BY <1>2 DEF Vouched
<1> QED
  BY <1>1, <1>3, <1>4, <1>5, <1>6, Frame

\* A request that is forwarded with claims for the tenant it holds.
LEMMA ForwardKeeps ==
    ASSUME IInv, NEW r \in Request, NEW c, pc[r] # "done", Forward(r, c),
           UNCHANGED <<env, table, peer, cancelled, bound, route>>,
           DOMAIN claims' = Request, \A s \in Request \ {r} : claims'[s] = claims[s],
           claims'[r].tenant = c.tenant
    PROVE  IInv'
<1> DEFINE out == Outgoing(r, c)
<1>1. PICK code \in {200, 502} : Answer(r, code)
  BY DEF Forward
<1>2. out.tenant = c.tenant
  BY DEF Outgoing
<1> HIDE DEF out
<1>3. sent[r] = <<>>
  BY DEF IInv, Progress
<1>4. /\ DOMAIN sent' = Request /\ sent'[r] = <<out>>
      /\ \A s \in Request \ {r} : sent'[s] = sent[s]
  BY <1>3 DEF IInv, Forward, out
<1>5. TypeOK'
  <2>1. Len(sent'[r]) <= 1
    BY <1>4
  <2>2. \A s \in Request : Len(sent'[s]) <= 1
    BY <1>4, <2>1 DEF IInv, TypeOK
  <2> QED  BY <1>1, <2>2 DEF IInv, TypeOK, Answer, env, Steps
<1>6. pc'[r] = "done"
  BY <1>1 DEF IInv, TypeOK, Answer
<1>7. Progress(r)'
  BY <1>6 DEF Progress
<1>8. \A i \in DOMAIN sent'[r] : sent'[r][i].tenant = claims'[r].tenant
  BY <1>2, <1>4
<1>9. \A s \in Request \ {r} : /\ pc'[s] = pc[s] /\ bound'[s] = bound[s]
                               /\ route'[s] = route[s] /\ claims'[s] = claims[s]
                               /\ sent'[s] = sent[s]
  BY <1>1, <1>4 DEF IInv, TypeOK, Answer
<1>10. query' = query
  BY DEF env
<1>11. Vouched(r)'
  <2>1. ASSUME NEW h \in Header \cap Stripped(bound[r], route[r])
        PROVE  out.headers[h] # Callers
    <3>1. out.headers = Headers(bound[r], route[r], query[r], c)
      BY DEF out, Outgoing
    <3> QED  BY <3>1, HeadersOurs
  <2> QED  BY <1>4, <2>1 DEF Vouched
<1> QED
  BY <1>4, <1>5, <1>7, <1>8, <1>9, <1>10, <1>11, Frame

\* What a Mint that succeeds for a request means for it.
LEMMA MintFound ==
    ASSUME NEW r \in Request, NEW tenant, NEW c, c = MintFor(r, tenant), c.status = 200
    PROVE  c.tenant # Absent /\ tenant \in {Absent, c.tenant}
<1> DEFINE au  == bound[r][route[r]].audience
           who == peer[r]
<1>1. c = Mint(policy, who, au, tenant)
  BY DEF MintFor
<1> HIDE DEF au, who
<1> QED  BY <1>1, MintEstablishes

\* The world around the requests keeps the invariant.
LEMMA WorldKeeps ==
    ASSUME IInv,
           \/ \E t \in Table : Set(t)
           \/ \E r \in Request : (\E who \in Peer : PeerChanges(r, who)) \/ Cancel(r)
    PROVE  IInv'
<1>1. TypeOK' /\ UNCHANGED <<env, mine>>
  <2>1. CASE \E t \in Table : Set(t)
    BY <2>1 DEF IInv, TypeOK, Set, env, mine
  <2>2. CASE \E r \in Request, who \in Peer : PeerChanges(r, who)
    BY <2>2 DEF IInv, TypeOK, PeerChanges, env, mine
  <2>3. CASE \E r \in Request : Cancel(r)
    BY <2>3 DEF IInv, TypeOK, Cancel, env, mine
  <2> QED  BY <2>1, <2>2, <2>3
<1>2. \A r \in Request : Progress(r)'
  BY <1>1 DEF IInv, Progress, WantedTenant, env, mine
<1> QED  BY <1>1, <1>2 DEF IInv, TenantStays, HeadersVouched, mine

\* Dynamic.ServeHTTP's part keeps the invariant.
LEMMA ArriveKeeps ==
    ASSUME IInv, NEW r \in Request, Arrive(r)
    PROVE  IInv'
<1> DEFINE m == Match(table, query[r])
<1>1. table \in Table /\ query[r] \in Query
  BY DEF IInv, TypeOK
<1>2. m \in Nat /\ (m # 0 => m \in DOMAIN table)
  BY <1>1, MatchIsPreferred
<1>3. /\ bound' = [bound EXCEPT ![r] = table]
      /\ route' = [route EXCEPT ![r] = m]
      /\ UNCHANGED <<env, table, peer, cancelled, claims, sent>>
  BY DEF Arrive
<1>4. \/ \E code \in {404, 503} : Answer(r, code)
      \/ m # 0 /\ pc' = [pc EXCEPT ![r] = "mint"] /\ UNCHANGED status
  BY DEF Arrive, IInv, TypeOK
<1> HIDE DEF m
<1>5. /\ bound'[r] = table /\ route'[r] = m /\ query'[r] = query[r]
      /\ pc'[r] = "done" \/ (pc'[r] = "mint" /\ m # 0)
  BY <1>3, <1>4 DEF IInv, TypeOK, Answer, env
<1>6. \A s \in Request \ {r} : /\ pc'[s] = pc[s] /\ bound'[s] = bound[s]
                               /\ route'[s] = route[s] /\ claims'[s] = claims[s]
                               /\ sent'[s] = sent[s]
  BY <1>3, <1>4 DEF IInv, TypeOK, Answer
<1>7. TypeOK'
  <2>1. /\ pc' \in [Request -> Steps]
        /\ bound' \in [Request -> Table]
        /\ route' \in [Request -> Nat]
        /\ status' \in [Request -> {0, 200, 401, 403, 404, 500, 502, 503}]
    <3>1. /\ pc \in [Request -> Steps] /\ bound \in [Request -> Table] /\ table \in Table
          /\ route \in [Request -> Nat]
          /\ status \in [Request -> {0, 200, 401, 403, 404, 500, 502, 503}]
      BY DEF IInv, TypeOK
    <3>2. bound' \in [Request -> Table] /\ route' \in [Request -> Nat]
      BY <1>2, <1>3, <3>1
    <3>3. pc' \in [Request -> Steps]
      BY <1>4, <3>1 DEF Answer, Steps
    <3>4. status' \in [Request -> {0, 200, 401, 403, 404, 500, 502, 503}]
      BY <1>4, <3>1 DEF Answer
    <3> QED  BY <3>2, <3>3, <3>4
  <2>2. ASSUME NEW s \in Request
        PROVE  /\ TableValid(bound'[s])
               /\ pc'[s] \in {"mint", "wait", "remint"} => route'[s] \in DOMAIN bound'[s]
               /\ Len(sent'[s]) <= 1
    <3>1. CASE s = r
      BY <1>2, <1>3, <1>5, <3>1 DEF IInv, TypeOK
    <3>2. CASE s # r
      BY <1>6, <3>2 DEF IInv, TypeOK
    <3> QED  BY <3>1, <3>2
  <2> QED  BY <1>3, <2>1, <2>2 DEF IInv, TypeOK, TableValid, env
<1>8. sent'[r] = <<>>
  BY <1>3 DEF IInv, Progress, Arrive
<1>9. Progress(r)'
  BY <1>5, <1>8 DEF Progress, m
<1>10. /\ DOMAIN claims' = Request /\ DOMAIN sent' = Request /\ query' = query
       /\ \A i \in DOMAIN sent'[r] : sent'[r][i].tenant = claims'[r].tenant
  BY <1>3, <1>8 DEF IInv, env
<1>11. Vouched(r)'
  BY <1>8 DEF Vouched
<1> QED
  BY <1>6, <1>7, <1>9, <1>10, <1>11, Frame

\* A Mint at any moment ends with one of the statuses that TypeOK knows.
LEMMA MintForStatus ==
    ASSUME NEW r, NEW tenant, MintFor(r, tenant).status # 200
    PROVE  MintFor(r, tenant).status \in Codes
<1>1. MintFor(r, tenant).status \in {200, 401, 403}
  BY MintStatus DEF MintFor
<1> QED  BY <1>1 DEF Codes

\* The first Mint keeps the invariant, whichever way it ends.
LEMMA AuthorizeKeeps ==
    ASSUME IInv, NEW r \in Request, Authorize(r)
    PROVE  IInv'
<1> DEFINE c == MintFor(r, WantedTenant(r))
<1>1. /\ pc[r] = "mint" /\ claims' = [claims EXCEPT ![r] = c]
      /\ UNCHANGED <<env, table, peer, cancelled, bound, route>>
  BY DEF Authorize
<1>2. /\ DOMAIN claims' = Request /\ claims'[r] = c
      /\ \A s \in Request \ {r} : claims'[s] = claims[s]
  BY <1>1 DEF IInv
<1>3. CASE c.status # 200 /\ Answer(r, c.status) /\ UNCHANGED sent
  <2>1. c.status \in Codes
    BY <1>3, MintForStatus
  <2> HIDE DEF c
  <2> QED  BY <1>1, <1>2, <1>3, <2>1, AnswerKeeps
<1>4. CASE /\ c.status = 200 /\ gated
           /\ pc' = [pc EXCEPT ![r] = "wait"] /\ UNCHANGED <<status, sent>>
  <2>1. c.tenant # Absent /\ WantedTenant(r) \in {Absent, c.tenant}
    BY <1>4, MintFound
  <2> HIDE DEF c
  <2>2. pc'[r] = "wait" /\ sent'[r] = <<>>
    BY <1>1, <1>4 DEF IInv, TypeOK, Progress
  <2>3. WantedTenant(r)' = WantedTenant(r)
    BY <1>1 DEF WantedTenant, env
  <2>4. route'[r] = Match(bound'[r], query'[r]) /\ route'[r] # 0
    BY <1>1 DEF IInv, Progress, env
  <2>5. Progress(r)'
    BY <1>2, <1>4, <2>1, <2>2, <2>3, <2>4 DEF Progress
  <2>6. TypeOK'
    BY <1>1, <1>4 DEF IInv, TypeOK, env, Steps
  <2>7. \A s \in Request \ {r} : /\ pc'[s] = pc[s] /\ bound'[s] = bound[s]
                                 /\ route'[s] = route[s] /\ claims'[s] = claims[s]
                                 /\ sent'[s] = sent[s]
    BY <1>1, <1>2, <1>4 DEF IInv, TypeOK
  <2>8. /\ DOMAIN sent' = Request /\ query' = query
        /\ \A i \in DOMAIN sent'[r] : sent'[r][i].tenant = claims'[r].tenant
    BY <1>1, <1>4, <2>2 DEF IInv, env
  <2>9. Vouched(r)'
    BY <2>2 DEF Vouched
  <2> QED  BY <1>2, <2>5, <2>6, <2>7, <2>8, <2>9, Frame
<1>5. CASE c.status = 200 /\ ~gated /\ Forward(r, c)
  <2> HIDE DEF c
  <2> QED  BY <1>1, <1>2, <1>5, ForwardKeeps
<1> QED  BY <1>3, <1>4, <1>5 DEF Authorize

\* The wait's end keeps the invariant.
LEMMA GateAdmitsKeeps ==
    ASSUME IInv, NEW r \in Request, GateAdmits(r)
    PROVE  IInv'
<1>1. pc'[r] = "remint" /\ UNCHANGED <<env, bound, route, claims, status, sent>>
  BY DEF IInv, TypeOK, GateAdmits
<1>2. TypeOK'
  BY DEF IInv, TypeOK, GateAdmits, env, Steps
<1>3. Progress(r)'
  BY <1>1 DEF IInv, Progress, GateAdmits, WantedTenant, env
<1>4. \A s \in Request \ {r} : /\ pc'[s] = pc[s] /\ bound'[s] = bound[s]
                               /\ route'[s] = route[s] /\ claims'[s] = claims[s]
                               /\ sent'[s] = sent[s]
  BY <1>1 DEF IInv, TypeOK, GateAdmits
<1>5. /\ DOMAIN claims' = Request /\ DOMAIN sent' = Request /\ query' = query
      /\ \A i \in DOMAIN sent'[r] : sent'[r][i].tenant = claims'[r].tenant
  BY <1>1 DEF IInv, TenantStays, env
<1>6. Vouched(r)'
  BY <1>1 DEF IInv, Progress, GateAdmits, Vouched
<1> QED  BY <1>2, <1>3, <1>4, <1>5, <1>6, Frame

\* The second Mint keeps the invariant: it is asked for the tenant of the first.
LEMMA ReauthorizeKeeps ==
    ASSUME IInv, NEW r \in Request, Reauthorize(r)
    PROVE  IInv'
<1> DEFINE c == MintFor(r, claims[r].tenant)
<1>1. /\ pc[r] = "remint"
      /\ UNCHANGED <<env, table, peer, cancelled, bound, route, claims>>
  BY DEF Reauthorize
<1>2. DOMAIN claims' = Request /\ \A s \in Request \ {r} : claims'[s] = claims[s]
  BY <1>1 DEF IInv
<1>3. CASE c.status # 200 /\ Answer(r, c.status) /\ UNCHANGED sent
  <2>1. c.status \in Codes
    BY <1>3, MintForStatus
  <2> HIDE DEF c
  <2> QED  BY <1>1, <1>2, <1>3, <2>1, AnswerKeeps
<1>4. CASE c.status = 200 /\ Forward(r, c)
  <2>1. claims[r].tenant \in {Absent, c.tenant}
    BY <1>4, MintFound
  <2>2. claims[r].tenant # Absent
    BY <1>1 DEF IInv, Progress
  <2> HIDE DEF c
  <2> QED  BY <1>1, <1>2, <1>4, <2>1, <2>2, ForwardKeeps
<1> QED  BY <1>3, <1>4 DEF Reauthorize

\* Every step keeps the invariant.
LEMMA NextKeeps == IInv /\ [Next]_vars => IInv'
<1> SUFFICES ASSUME IInv, [Next]_vars PROVE IInv'
  OBVIOUS
<1>1. CASE UNCHANGED vars
  BY <1>1 DEF IInv, TypeOK, Progress, WantedTenant, TenantStays, HeadersVouched, vars, env, mine
<1>2. CASE \E t \in Table : Set(t)
  BY <1>2, WorldKeeps
<1>3. ASSUME NEW r \in Request, (\E who \in Peer : PeerChanges(r, who)) \/ Cancel(r)
      PROVE  IInv'
  BY <1>3, WorldKeeps
<1>4. ASSUME NEW r \in Request, Serve(r)
      PROVE  IInv'
  <2>1. CASE Arrive(r)
    BY <2>1, ArriveKeeps
  <2>2. CASE Authorize(r)
    BY <2>2, AuthorizeKeeps
  <2>3. CASE MintFails(r)
    BY <2>3, AnswerKeeps DEF MintFails, IInv, Codes
  <2>4. CASE GateAdmits(r)
    BY <2>4, GateAdmitsKeeps
  <2>5. CASE GateRefuses(r)
    BY <2>5, AnswerKeeps DEF GateRefuses, IInv, Codes
  <2>6. CASE Abandon(r)
    BY <2>6, AnswerKeeps DEF Abandon, IInv, Codes
  <2>7. CASE Reauthorize(r)
    BY <2>7, ReauthorizeKeeps
  <2> QED  BY <1>4, <2>1, <2>2, <2>3, <2>4, <2>5, <2>6, <2>7 DEF Serve
<1> QED  BY <1>1, <1>2, <1>3, <1>4 DEF Next

\* The inductive invariant holds.
THEOREM Invariance == Spec => []IInv
<1> QED  BY InitHolds, NextKeeps, PTL DEF Spec

\* The types hold: every table that is served was accepted by NewRouter, whatever
\* Dynamic.Set was given, and a request has a route of the table it loaded.
THEOREM TypeCorrect == Spec => []TypeOK
<1>1. IInv => TypeOK
  BY DEF IInv
<1> QED  BY <1>1, Invariance, PTL

\* A request that waited acts for the tenant it was first authorized for.
THEOREM TenantKept == Spec => []TenantStays
<1>1. IInv => TenantStays
  BY DEF IInv
<1> QED  BY <1>1, Invariance, PTL

\* No header the proxy answers for reaches a backend as the caller wrote it.
THEOREM HeadersKept == Spec => []HeadersVouched
<1>1. IInv => HeadersVouched
  BY DEF IInv
<1> QED  BY <1>1, Invariance, PTL

------------------------------------------------------------------------------
(* The refinement. *)

\* Initial states are Forwarding's.
LEMMA RefinesInit == Init => Contract!Init
<1> SUFFICES ASSUME Init PROVE Contract!Init
  OBVIOUS
<1>1. Phase = [r \in Request |-> "new"]
  BY DEF Init, Phase
<1>2. Delivered = [r \in Request |-> <<>>]
  <2>1. \A r \in Request : sent[r] = <<>>
    BY DEF Init
  <2>2. [i \in DOMAIN <<>> |-> Visible(<<>>[i])] = <<>>
    OBVIOUS
  <2> QED  BY <2>1, <2>2 DEF Delivered
<1> QED  BY <1>1, <1>2 DEF Init, Contract!Init

\* Where a request is, seen from Forwarding, when one request moves.
LEMMA PhaseMoves ==
    ASSUME IInv, NEW r \in Request, NEW x \in Steps, pc' = [pc EXCEPT ![r] = x]
    PROVE  Phase' = [Phase EXCEPT ![r] = IF x = "new" THEN "new"
                                         ELSE IF x = "done" THEN "closed" ELSE "open"]
BY DEF IInv, TypeOK, Phase

\* The roles RolesIn gives are among those Forwarding allows.
LEMMA RolesAllowed ==
    ASSUME NEW t, NEW who
    PROVE  RolesIn(policy, t, Identify(policy.allowTagged, who).groups)
              \subseteq Contract!Roles(t, who)
<1> DEFINE groups == UNION who.caps
<1>1. Identify(policy.allowTagged, who).groups = groups
  BY DEF Identify
<1>2. Contract!Roles(t, who) = {t.groups[g] : g \in groups \cap DOMAIN t.groups}
                    \cup IF Len(policy.tenants) = 1 THEN {policy.defaultRole} ELSE {}
  BY DEF Contract!Roles
<1> HIDE DEF groups
<1> QED  BY <1>1, <1>2 DEF RolesIn

\* Who Identify knows is someone Forwarding lets act.
LEMMA KnownIsPerson ==
    ASSUME NEW who, Identify(policy.allowTagged, who).known
    PROVE  Contract!Person(who)
BY Zenon DEF Identify, Contract!Person, Absent, Contract!Absent

\* Forward, with claims just minted, is Forwarding's Send.
LEMMA ForwardSends ==
    ASSUME IInv, NEW r \in Request, pc[r] \in {"mint", "remint"},
           NEW tenant, NEW c, c = MintFor(r, tenant), c.status = 200, Forward(r, c),
           WantedTenant(r) \in {Absent, c.tenant},
           UNCHANGED <<env, table, peer, bound>>
    PROVE  Contract!Send(r)
<1> DEFINE i  == route[r]
           rt == bound[r][i]
           q  == query[r]
           who == peer[r]
<1>1. bound[r] \in Table /\ q \in Query /\ sent[r] = <<>> /\ pc \in [Request -> Steps]
  BY DEF IInv, TypeOK, Progress
<1>2. i \in DOMAIN bound[r] /\ Preferred(bound[r], q, i)
  <2>1. i = Match(bound[r], q) /\ i # 0
    BY DEF IInv, Progress
  <2> QED  BY <1>1, <2>1, MatchIsPreferred
<1>3. Phase[r] = "open" /\ Phase' = [Phase EXCEPT ![r] = "closed"]
  <2>1. pc' = [pc EXCEPT ![r] = "done"]
    BY DEF Forward, Answer
  <2> QED  BY <2>1, PhaseMoves DEF Phase, Steps
<1>4. c = Mint(policy, who, rt.audience, tenant)
  BY DEF MintFor
<1>5. /\ Identify(policy.allowTagged, who).known
      /\ c.audience = rt.audience
      /\ c.subject = who.user
  <2> HIDE DEF who, rt
  <2> QED  BY <1>4, MintEstablishes
<1>6. PICK j \in DOMAIN policy.tenants :
         /\ policy.tenants[j].id = c.tenant
         /\ c.roles = RolesIn(policy, policy.tenants[j],
                              Identify(policy.allowTagged, who).groups)
         /\ c.roles # {}
  <2> HIDE DEF who, rt
  <2> QED  BY <1>4, MintEstablishes
<1> DEFINE t   == policy.tenants[j]
           out == [upstream |-> rt.upstream, audience |-> rt.audience,
                   subject |-> who.user, tenant |-> t.id, roles |-> c.roles]
<1>7. Contract!Person(who)
  BY <1>5, KnownIsPerson
<1>8. c.roles \in (SUBSET Contract!Roles(t, who)) \ {{}}
  <2>1. c.roles \subseteq Contract!Roles(t, who)
    <3> HIDE DEF who
    <3> QED  BY <1>6, RolesAllowed
  <2> QED  BY <1>6, <2>1
<1>9. Contract!Asked(rt, q) \in {Contract!Absent, t.id}
  <2>1. Contract!Absent = Absent
    BY Zenon DEF Absent, Contract!Absent
  <2>2. Contract!Asked(rt, q) = WantedTenant(r)
    BY <2>1 DEF Contract!Asked, WantedTenant
  <2> QED  BY <1>6, <2>1, <2>2
<1>10. Delivered' = [Delivered EXCEPT ![r] = <<out>>]
  <2> DEFINE o == Outgoing(r, c)
  <2>1. Visible(o) = out
    BY <1>5, <1>6 DEF Outgoing, Visible
  <2> HIDE DEF o, out
  <2>2. /\ sent' = [sent EXCEPT ![r] = <<o>>] /\ DOMAIN sent = Request
    BY <1>1 DEF Forward, IInv, o
  <2>3. [k \in DOMAIN <<o>> |-> Visible(<<o>>[k])] = <<out>>
    BY <2>1
  <2>4. Delivered'[r] = <<out>>
    <3>1. sent'[r] = <<o>>
      BY <2>2
    <3>2. Delivered'[r] = [k \in DOMAIN sent'[r] |-> Visible(sent'[r][k])]
      BY DEF Delivered
    <3> QED  BY <3>1, <3>2, <2>3
  <2>5. \A s \in Request \ {r} : Delivered'[s] = Delivered[s]
    <3>1. \A s \in Request \ {r} : sent'[s] = sent[s]
      BY <2>2
    <3> QED  BY <3>1 DEF Delivered
  <2>6. /\ Delivered = [s \in Request |-> Delivered[s]]
        /\ Delivered' = [s \in Request |-> Delivered'[s]]
    BY DEF Delivered
  <2> QED  BY <2>4, <2>5, <2>6
<1>11. UNCHANGED <<policy, table, peer, query, bound>>
  BY DEF env
<1> QED
  BY <1>2, <1>3, <1>6, <1>7, <1>8, <1>9, <1>10, <1>11 DEF Contract!Send

\* An answer without a forward is Forwarding's Refuse.
LEMMA AnswerRefuses ==
    ASSUME IInv, NEW r \in Request, NEW code, pc[r] \in {"mint", "wait", "remint"},
           Answer(r, code), UNCHANGED <<env, table, peer, bound, sent>>
    PROVE  Contract!Refuse(r)
<1>1. Phase[r] = "open" /\ Phase' = [Phase EXCEPT ![r] = "closed"]
  BY PhaseMoves DEF Answer, Phase, Steps
<1>2. Delivered' = Delivered
  BY DEF Delivered
<1> QED  BY <1>1, <1>2 DEF Contract!Refuse, env

\* A handler that goes on is a step Forwarding does not see.
LEMMA GoingOnIsHidden ==
    ASSUME IInv, NEW r \in Request, pc[r] \in {"mint", "wait"},
           NEW x \in {"wait", "remint"}, pc' = [pc EXCEPT ![r] = x],
           UNCHANGED <<env, table, peer, bound, sent>>
    PROVE  UNCHANGED Contract!vars
<1>1. Phase' = Phase
  BY PhaseMoves DEF Phase, Steps
<1>2. Delivered' = Delivered
  BY DEF Delivered
<1> QED  BY <1>1, <1>2 DEF Contract!vars, env

\* Every step is a step of Forwarding or one it does not see.
LEMMA RefinesNext == IInv /\ [Next]_vars => [Contract!Next]_(Contract!vars)
<1> SUFFICES ASSUME IInv, [Next]_vars PROVE [Contract!Next]_(Contract!vars)
  OBVIOUS
<1>1. CASE UNCHANGED vars
  BY <1>1 DEF Contract!vars, vars, env, mine, Phase, Delivered
<1>2. ASSUME NEW t \in Table, Set(t) PROVE Contract!Swap
  <2>1. table' \in {u \in Table : TableValid(u)}
    BY <1>2 DEF IInv, TypeOK, Set
  <2>2. Phase' = Phase /\ Delivered' = Delivered
    BY <1>2 DEF Set, mine, Phase, Delivered
  <2> QED  BY <1>2, <2>1, <2>2 DEF Set, Contract!Swap, env, mine
<1>3. ASSUME NEW r \in Request, NEW who \in Peer, PeerChanges(r, who) PROVE Contract!Learn(r)
  <2>1. Phase' = Phase /\ Delivered' = Delivered
    BY <1>3 DEF PeerChanges, mine, Phase, Delivered
  <2> QED  BY <1>3, <2>1 DEF PeerChanges, Contract!Learn, env, mine
<1>4. ASSUME NEW r \in Request, Cancel(r) PROVE UNCHANGED Contract!vars
  <2>1. Phase' = Phase /\ Delivered' = Delivered
    BY <1>4 DEF Cancel, mine, Phase, Delivered
  <2> QED  BY <1>4, <2>1 DEF Cancel, Contract!vars, env, mine
<1>5. ASSUME NEW r \in Request, Arrive(r) PROVE Contract!Bind(r)
  <2>1. Phase[r] = "new" /\ Delivered' = Delivered
    BY <1>5 DEF Arrive, Phase, Delivered
  <2>2. \E x \in {"mint", "done"} : pc' = [pc EXCEPT ![r] = x]
    BY <1>5 DEF Arrive, Answer
  <2>3. \E p \in {"open", "closed"} : Phase' = [Phase EXCEPT ![r] = p]
    BY <2>2, PhaseMoves DEF Steps
  <2> QED  BY <1>5, <2>1, <2>3 DEF Arrive, Contract!Bind, env
<1>6. ASSUME NEW r \in Request, Authorize(r)
      PROVE  Contract!Refuse(r) \/ Contract!Send(r) \/ UNCHANGED Contract!vars
  <2> DEFINE c == MintFor(r, WantedTenant(r))
  <2>1. pc[r] = "mint" /\ UNCHANGED <<env, table, peer, bound>>
    BY <1>6 DEF Authorize
  <2>2. CASE Answer(r, c.status) /\ UNCHANGED sent
    BY <2>1, <2>2, AnswerRefuses
  <2>3. CASE pc' = [pc EXCEPT ![r] = "wait"] /\ UNCHANGED <<status, sent>>
    BY <2>1, <2>3, GoingOnIsHidden
  <2>4. CASE c.status = 200 /\ Forward(r, c)
    <3>1. WantedTenant(r) \in {Absent, c.tenant}
      BY <2>4, MintFound
    <3> QED  BY <2>1, <2>4, <3>1, ForwardSends
  <2> QED  BY <1>6, <2>2, <2>3, <2>4 DEF Authorize
<1>7. ASSUME NEW r \in Request, MintFails(r) \/ GateRefuses(r) \/ Abandon(r)
      PROVE  Contract!Refuse(r)
  BY <1>7, AnswerRefuses DEF MintFails, GateRefuses, Abandon
<1>8. ASSUME NEW r \in Request, GateAdmits(r) PROVE UNCHANGED Contract!vars
  BY <1>8, GoingOnIsHidden DEF GateAdmits
<1>9. ASSUME NEW r \in Request, Reauthorize(r)
      PROVE  Contract!Refuse(r) \/ Contract!Send(r)
  <2> DEFINE c == MintFor(r, claims[r].tenant)
  <2>1. pc[r] = "remint" /\ UNCHANGED <<env, table, peer, bound>>
    BY <1>9 DEF Reauthorize
  <2>2. CASE Answer(r, c.status) /\ UNCHANGED sent
    BY <2>1, <2>2, AnswerRefuses
  <2>3. CASE c.status = 200 /\ Forward(r, c)
    <3>1. claims[r].tenant \in {Absent, c.tenant}
      BY <2>3, MintFound
    <3>2. claims[r].tenant # Absent /\ WantedTenant(r) \in {Absent, claims[r].tenant}
      BY <2>1 DEF IInv, Progress
    <3> HIDE DEF c
    <3>3. WantedTenant(r) \in {Absent, c.tenant}
      BY <3>1, <3>2
    <3> QED  BY <2>1, <2>3, <3>3, ForwardSends DEF c
  <2> QED  BY <1>9, <2>2, <2>3 DEF Reauthorize
<1> QED
  BY <1>1, <1>2, <1>3, <1>4, <1>5, <1>6, <1>7, <1>8, <1>9 DEF Next, Serve, Contract!Next

\* ServeHTTP implements Forwarding.
THEOREM Implements == Spec => Refines
<1> QED  BY RefinesInit, RefinesNext, Invariance, PTL DEF Spec, Refines, Contract!Spec
=============================================================================

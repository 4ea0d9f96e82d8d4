---------------------------- MODULE RequestProxy ----------------------------
(***************************************************************************)
(* proxy.Proxy.ServeHTTP behind proxy.Dynamic: a request from its arrival  *)
(* to the backend or a refusal, while routes are replaced, the tailnet     *)
(* changes what it says about the caller, and the backend is waited for.   *)
(*                                                                         *)
(* The wait is WaitGate's: here Acquire answers, some time.  The token is  *)
(* KeyRotation's: here it is the claims it carries.                        *)
(***************************************************************************)
EXTENDS Router, Grants

CONSTANTS
    Request,    \* requests
    Query,      \* what a request asks for: host, path, tenant (TenantFrom), header names
    Table,      \* route tables, the ones that are refused among them
    Peer,       \* what the tailnet can say about a caller
    Policy,     \* tenant policies
    Header      \* header names

\* The header of the assertion.
Assertion == "X-Tailnet-Jwt-Assertion"

ASSUME Configuration ==
    /\ Assertion \in Header
    /\ <<>> \in Table
    /\ \A t \in Table : DOMAIN t = 1..Len(t) /\ Len(t) \in Nat
    /\ \A t \in Table : \A i \in DOMAIN t : t[i].pathPrefix \in Seq(STRING)
    /\ \A q \in Query : q.path \in Seq(STRING)

VARIABLES
    policy,     \* the tenant policy and AllowTagged, read when the process starts
    gated,      \* Config.Gate is set
    table,      \* Dynamic.current, <<>> when nil
    peer,       \* what WhoIs answers for each request's remote address
    query,      \* what each request asks for
    cancelled,  \* requests whose context is done
    pc,         \* where ServeHTTP is
    bound,      \* the table a request loaded
    route,      \* the route it matched, an index into bound
    claims,     \* the claims of the first Mint
    status,     \* what the caller is answered; 0 is nothing
    sent        \* what reached a backend

env  == <<policy, gated, query>>
mine == <<pc, bound, route, claims, status, sent>>
vars == <<env, table, peer, cancelled, mine>>

\* "mint", "wait" and "remint": before the first Mint, in Acquire, and after it.
Steps == {"new", "mint", "wait", "remint", "done"}

NoClaims == [status |-> 0]

Init ==
    /\ policy \in {p \in Policy : PolicyAccepted(p)}
    /\ gated \in BOOLEAN
    /\ table = <<>>
    /\ peer \in [Request -> Peer]
    /\ query \in [Request -> Query]
    /\ cancelled = {}
    /\ pc = [r \in Request |-> "new"]
    /\ bound = [r \in Request |-> <<>>]
    /\ route = [r \in Request |-> 0]
    /\ claims = [r \in Request |-> NoClaims]
    /\ status = [r \in Request |-> 0]
    /\ sent = [r \in Request |-> <<>>]

------------------------------------------------------------------------------
(* The world around a request. *)

\* NewRouter accepts the routes.
TableValid(t) == \A i \in DOMAIN t : RouteValid(t[i])

\* Mutation: Set installs what NewRouter refuses.
SetUnchecked(t) ==
    /\ table' = t
    /\ UNCHANGED <<env, peer, cancelled, mine>>

\* Dynamic.Set: no routes are no proxy, and a table that is not valid changes nothing.
Set(t) ==
    /\ table' = IF TableValid(t) THEN t ELSE table
    /\ UNCHANGED <<env, peer, cancelled, mine>>

\* The control plane changes a node, a grant or a group.  External.
PeerChanges(r, who) ==
    /\ peer' = [peer EXCEPT ![r] = who]
    /\ UNCHANGED <<env, table, cancelled, mine>>

\* The caller goes away.
Cancel(r) ==
    /\ pc[r] \notin {"new", "done"}
    /\ cancelled' = cancelled \cup {r}
    /\ UNCHANGED <<env, table, peer, mine>>

------------------------------------------------------------------------------
(* What goes to the backend. *)

\* Mutation: only the headers of the route that is taken are removed.
StrippedOfRoute(t, i) == {Assertion} \cup DOMAIN t[i].claimHeaders

\* StripAssertion, and the union of every route's ClaimHeaders (New).
Stripped(t, i) == {Assertion} \cup UNION {DOMAIN t[j].claimHeaders : j \in DOMAIN t}

\* claimValue; the empty set is the empty string, and a list is the set of its members.
ClaimValue(c, name) ==
    CASE name \in {"sub", "subject"} -> {c.subject}
      [] name = "email"   -> {c.email} \ {Absent}
      [] name = "name"    -> {c.name} \ {Absent}
      [] name = "node"    -> {c.node} \ {Absent}
      [] name = "tenant"  -> {c.tenant}
      [] name = "roles"   -> c.roles
      [] name = "groups"  -> c.groups
      [] name = "tenants" -> c.tenants
      [] OTHER            -> {}

\* A header that reaches the backend as the caller wrote it, or as the proxy did.
Callers == [by |-> "the caller"]

Proxys(values) == [by |-> "the proxy", values |-> values]

\* The headers the reverse proxy passes on: the claims that are not empty, which are
\* set last, the token (here its tenant), and what is left of the caller's own.
Headers(t, i, q, c) ==
    LET value(h) == IF h \in DOMAIN t[i].claimHeaders
                    THEN ClaimValue(c, t[i].claimHeaders[h])
                    ELSE {}
    IN  [h \in Header |-> IF value(h) # {} THEN Proxys(value(h))
                          ELSE IF h = Assertion THEN Proxys({c.tenant})
                          ELSE IF h \in q.headers \ Stripped(t, i) THEN Callers
                          ELSE Proxys({})]

\* The request as the backend of its route sees it, with the claims c.
Outgoing(r, c) ==
    LET rt == bound[r][route[r]] IN
    [upstream |-> rt.upstream,
     audience |-> c.audience,
     subject  |-> c.subject,
     tenant   |-> c.tenant,
     roles    |-> c.roles,
     headers  |-> Headers(bound[r], route[r], query[r], c)]

------------------------------------------------------------------------------
(* ServeHTTP. *)

\* Return to the caller.
Answer(r, code) ==
    /\ pc' = [pc EXCEPT ![r] = "done"]
    /\ status' = [status EXCEPT ![r] = code]

\* The reverse proxy's turn; a backend that fails is a bad gateway.
Forward(r, c) ==
    /\ sent' = [sent EXCEPT ![r] = Append(@, Outgoing(r, c))]
    /\ \E code \in {200, 502} : Answer(r, code)

\* Dynamic.ServeHTTP's load, strip and match.
Arrive(r) ==
    /\ pc[r] = "new"
    /\ bound' = [bound EXCEPT ![r] = table]
    /\ route' = [route EXCEPT ![r] = Match(table, query[r])]
    /\ IF table = <<>> THEN Answer(r, 503)
       ELSE IF route'[r] = 0 THEN Answer(r, 404)
       ELSE pc' = [pc EXCEPT ![r] = "mint"] /\ UNCHANGED status
    /\ UNCHANGED <<env, table, peer, cancelled, claims, sent>>

\* The tenant on arrival: the route's own before the one the request names.
WantedTenant(r) ==
    LET rt == bound[r][route[r]] IN
    IF rt.tenant # Absent THEN rt.tenant ELSE query[r].tenant

\* A Mint at this moment.
MintFor(r, tenant) == Mint(policy, peer[r], bound[r][route[r]].audience, tenant)

\* The first Mint: refuse, wait for the backend, or forward at once.
Authorize(r) ==
    /\ pc[r] = "mint"
    /\ LET c == MintFor(r, WantedTenant(r)) IN
       /\ claims' = [claims EXCEPT ![r] = c]
       /\ \/ c.status # 200 /\ Answer(r, c.status) /\ UNCHANGED sent
          \/ c.status = 200 /\ gated
             /\ pc' = [pc EXCEPT ![r] = "wait"] /\ UNCHANGED <<status, sent>>
          \/ c.status = 200 /\ ~gated /\ Forward(r, c)
    /\ UNCHANGED <<env, table, peer, cancelled, bound, route>>

\* Either Mint can fail to draw an id or to sign.
MintFails(r) ==
    /\ pc[r] \in {"mint", "remint"}
    /\ pc[r] = "remint" => r \notin cancelled
    /\ MintFor(r, IF pc[r] = "mint" THEN WantedTenant(r) ELSE claims[r].tenant).status = 200
    /\ Answer(r, 500)
    /\ UNCHANGED <<env, table, peer, cancelled, bound, route, claims, sent>>

\* Gate.Acquire returns.
GateAdmits(r) ==
    /\ pc[r] = "wait"
    /\ pc' = [pc EXCEPT ![r] = "remint"]
    /\ UNCHANGED <<env, table, peer, cancelled, bound, route, claims, status, sent>>

\* No room, no backend in time, or a caller that has gone.
GateRefuses(r) ==
    /\ pc[r] = "wait"
    /\ Answer(r, 503)
    /\ UNCHANGED <<env, table, peer, cancelled, bound, route, claims, sent>>

\* The caller went away while the gate was admitting it: no answer at all.
Abandon(r) ==
    /\ pc[r] = "remint"
    /\ r \in cancelled
    /\ Answer(r, 0)
    /\ UNCHANGED <<env, table, peer, cancelled, bound, route, claims, sent>>

\* Mutation: the second Mint chooses the tenant anew.
ReauthorizeAnew(r) ==
    /\ pc[r] = "remint"
    /\ r \notin cancelled
    /\ LET c == MintFor(r, WantedTenant(r)) IN
          \/ c.status # 200 /\ Answer(r, c.status) /\ UNCHANGED sent
          \/ c.status = 200 /\ Forward(r, c)
    /\ UNCHANGED <<env, table, peer, cancelled, bound, route, claims>>

\* Mutation: the token of the first Mint is forwarded after the wait.
ReauthorizeNever(r) ==
    /\ pc[r] = "remint"
    /\ r \notin cancelled
    /\ Forward(r, claims[r])
    /\ UNCHANGED <<env, table, peer, cancelled, bound, route, claims>>

\* The second Mint keeps the tenant.  Its claims go no further than Outgoing.
Reauthorize(r) ==
    /\ pc[r] = "remint"
    /\ r \notin cancelled
    /\ LET c == MintFor(r, claims[r].tenant) IN
          \/ c.status # 200 /\ Answer(r, c.status) /\ UNCHANGED sent
          \/ c.status = 200 /\ Forward(r, c)
    /\ UNCHANGED <<env, table, peer, cancelled, bound, route, claims>>

Serve(r) == Arrive(r) \/ Authorize(r) \/ MintFails(r) \/ GateAdmits(r)
            \/ GateRefuses(r) \/ Abandon(r) \/ Reauthorize(r)

Next ==
    \/ \E t \in Table : Set(t)
    \/ \E r \in Request : \/ \E who \in Peer : PeerChanges(r, who)
                          \/ Cancel(r)
                          \/ Serve(r)

Spec == Init /\ [][Next]_vars

------------------------------------------------------------------------------
(* Properties. *)

\* Types; whatever is offered, only tables that NewRouter accepts are served, and
\* a request beyond the match has a route of the table it loaded.
TypeOK ==
    /\ policy \in Policy /\ PolicyAccepted(policy)
    /\ gated \in BOOLEAN
    /\ table \in Table /\ TableValid(table)
    /\ peer \in [Request -> Peer]
    /\ query \in [Request -> Query]
    /\ cancelled \subseteq Request
    /\ pc \in [Request -> Steps]
    /\ bound \in [Request -> Table]
    /\ route \in [Request -> Nat]
    /\ status \in [Request -> {0, 200, 401, 403, 404, 500, 502, 503}]
    /\ \A r \in Request :
          /\ TableValid(bound[r])
          /\ pc[r] \in {"mint", "wait", "remint"} => route[r] \in DOMAIN bound[r]
          /\ Len(sent[r]) <= 1

\* A request that waited for its backend acts, when it is forwarded, for the tenant
\* it was first authorized for: a change of the caller's groups during the wait can
\* refuse it but never move it into another tenant (proxy.go, the second Mint).
TenantStays ==
    \A r \in Request : \A i \in DOMAIN sent[r] : sent[r][i].tenant = claims[r].tenant

\* No header that some route of the table fills with a claim, nor the assertion,
\* reaches a backend with a value of the caller's, also when the route taken does
\* not fill it or the claim is empty (proxy.go, strip then set).
HeadersVouched ==
    \A r \in Request : \A i \in DOMAIN sent[r] :
       LET out   == sent[r][i]
           names == UNION {DOMAIN bound[r][j].claimHeaders : j \in DOMAIN bound[r]}
       IN  \A h \in Header \cap (names \cup {Assertion}) : out.headers[h] # Callers

\* What Forwarding sees of pc, and of what was sent: everything but the headers.
Phase ==
    [r \in Request |-> IF pc[r] = "new" THEN "new"
                       ELSE IF pc[r] = "done" THEN "closed" ELSE "open"]

Visible(out) == [upstream |-> out.upstream, audience |-> out.audience,
                 subject |-> out.subject, tenant |-> out.tenant, roles |-> out.roles]

Delivered == [r \in Request |-> [i \in DOMAIN sent[r] |-> Visible(sent[r][i])]]

Contract ==
    INSTANCE Forwarding WITH
        Table  <- {t \in Table : TableValid(t)},
        Policy <- {p \in Policy : PolicyAccepted(p)},
        phase  <- Phase,
        sent   <- Delivered

\* ServeHTTP implements Forwarding: whatever happens to routes, groups and backends
\* on the way, a request is sent at most once, as the most specific route of the one
\* table it arrived under says, and for roles the caller holds at that moment.
Refines == Contract!Spec

------------------------------------------------------------------------------
(* The inductive invariant of the proofs. *)

\* Where ServeHTTP is says what it has done: nothing is sent before it is done, the
\* route is the one Match gives for its table, and who waits has been authorized for
\* the tenant that was asked for.
Progress(r) ==
    /\ pc[r] # "done" => sent[r] = <<>>
    /\ pc[r] \in {"mint", "wait", "remint"} =>
          route[r] = Match(bound[r], query[r]) /\ route[r] # 0
    /\ pc[r] \in {"wait", "remint"} =>
          /\ claims[r].status = 200
          /\ claims[r].tenant # Absent
          /\ WantedTenant(r) \in {Absent, claims[r].tenant}

IInv ==
    /\ TypeOK
    /\ DOMAIN claims = Request
    /\ DOMAIN sent = Request
    /\ \A r \in Request : Progress(r)
    /\ TenantStays
    /\ HeadersVouched
=============================================================================

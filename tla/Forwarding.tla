----------------------------- MODULE Forwarding -----------------------------
(***************************************************************************)
(* What the gateway promises about a request, whatever happens between its *)
(* arrival and its end: it is bound to the table served when it arrived,   *)
(* and it reaches a backend at most once, as a route of that table says,   *)
(* for a tenant that the tailnet and the policy give the caller at the     *)
(* moment it is sent.                                                      *)
(***************************************************************************)
EXTENDS Integers, Sequences

CONSTANTS
    Request,    \* requests
    Query,      \* what a request asks for
    Table,      \* route tables
    Peer,       \* what the tailnet can say about a caller
    Policy,     \* tenant policies
    Preferred(_, _, _)  \* a table's i-th route is a most specific one for a query

VARIABLES
    policy,     \* the tenant policy, fixed
    table,      \* the table served
    peer,       \* who is behind each request
    query,      \* what each request asks for, fixed
    phase,      \* "new", "open" or "closed"
    bound,      \* the table a request was bound to
    sent        \* what reached a backend

\* A value that is not given.
Absent == ""

vars == <<policy, table, peer, query, phase, bound, sent>>

\* The control plane says that the caller has a profile, and is a person or one of the
\* tagged nodes the operator lets in.
Person(who) ==
    /\ who.tailnet /\ who.whois /\ who.login # Absent /\ who.decodes
    /\ who.tagged => policy.allowTagged

\* What the policy lets the caller be in tenant t: a role that one of its groups
\* is mapped to there, or the default role of the only tenant.
Roles(t, who) ==
    {t.groups[g] : g \in (UNION who.caps) \cap DOMAIN t.groups}
        \cup IF Len(policy.tenants) = 1 THEN {policy.defaultRole} ELSE {}

\* The tenant that is asked for, the route before the request.
Asked(rt, q) == IF rt.tenant # Absent THEN rt.tenant ELSE q.tenant

Init ==
    /\ policy \in Policy
    /\ table = <<>>
    /\ peer \in [Request -> Peer]
    /\ query \in [Request -> Query]
    /\ phase = [r \in Request |-> "new"]
    /\ bound = [r \in Request |-> <<>>]
    /\ sent = [r \in Request |-> <<>>]

\* The operator changes the routes.
Swap ==
    /\ table' \in Table
    /\ UNCHANGED <<policy, peer, query, phase, bound, sent>>

\* The tailnet changes its mind about a caller.
Learn(r) ==
    /\ \E who \in Peer : peer' = [peer EXCEPT ![r] = who]
    /\ UNCHANGED <<policy, table, query, phase, bound, sent>>

\* A request takes the table served, and may find no route in it.
Bind(r) ==
    /\ phase[r] = "new"
    /\ \E p \in {"open", "closed"} : phase' = [phase EXCEPT ![r] = p]
    /\ bound' = [bound EXCEPT ![r] = table]
    /\ UNCHANGED <<policy, table, peer, query, sent>>

\* No identity, no tenant, no backend, no caller any more.
Refuse(r) ==
    /\ phase[r] = "open"
    /\ phase' = [phase EXCEPT ![r] = "closed"]
    /\ UNCHANGED <<policy, table, peer, query, bound, sent>>

Send(r) ==
    /\ phase[r] = "open"
    /\ phase' = [phase EXCEPT ![r] = "closed"]
    /\ Person(peer[r])
    /\ \E i \in DOMAIN bound[r], j \in DOMAIN policy.tenants :
          LET rt == bound[r][i]
              t  == policy.tenants[j]
          IN  /\ Preferred(bound[r], query[r], i)
              /\ Asked(rt, query[r]) \in {Absent, t.id}
              /\ \E roles \in (SUBSET Roles(t, peer[r])) \ {{}} :
                    sent' = [sent EXCEPT ![r] = <<[upstream |-> rt.upstream,
                                                   audience |-> rt.audience,
                                                   subject  |-> peer[r].user,
                                                   tenant   |-> t.id,
                                                   roles    |-> roles]>>]
    /\ UNCHANGED <<policy, table, peer, query, bound>>

Next == Swap \/ \E r \in Request : Learn(r) \/ Bind(r) \/ Refuse(r) \/ Send(r)

Spec == Init /\ [][Next]_vars
=============================================================================

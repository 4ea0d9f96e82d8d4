------------------------------- MODULE Grants -------------------------------
(***************************************************************************)
(* Who a caller is and for which tenants it may act: tsnetid.Source, the   *)
(* tenant policy file, Grant and the decision of Signer.Mint.              *)
(*                                                                         *)
(* A peer is what the tailnet's control plane answers about the remote     *)
(* address of a connection: it is a tailnet address, WhoIs finds a node,   *)
(* the node is tagged, its user, login, display name and node name, the    *)
(* capability grant decodes, and the grant's rules, each a set of groups.  *)
(* Lists whose order reaches nobody (groups, roles) are sets.              *)
(***************************************************************************)
EXTENDS Integers, Sequences

\* The empty string is, as in the code, the absent value.
Absent == ""

------------------------------------------------------------------------------
(* tsnetid/tsnetid.go *)

\* A login name with an "@" in it, the only kind that becomes an email claim.
Address == "address"

\* Source.Identify and Source.identity.  Every refusal wraps ErrNoIdentity.  The
\* capability is a list of rules, whose groups are joined.
Identify(allowTagged, peer) ==
    [known   |-> /\ peer.tailnet
                 /\ peer.whois
                 /\ ~peer.tagged \/ allowTagged
                 /\ peer.login # Absent
                 /\ peer.decodes,
     subject |-> peer.user,
     login   |-> peer.login,
     name    |-> peer.name,
     node    |-> peer.node,
     groups  |-> UNION peer.caps]

------------------------------------------------------------------------------
(* policy.go and tenant.go.  A policy also says whether tagged nodes are identified. *)

\* PolicyFile.Resolver's checks.  It does not compare ids with each other.
PolicyAccepted(p) ==
    /\ p.tenants # <<>>
    /\ \A i \in DOMAIN p.tenants : p.tenants[i].id # Absent
    /\ \A i, j \in DOMAIN p.tenants : p.tenants[i].default /\ p.tenants[j].default => i = j

\* The roles an identity with these groups holds in a tenant; none is no access.
\* The default role counts only where there is no other tenant.
RolesIn(p, t, groups) ==
    LET mapped == {t.groups[g] : g \in groups \cap DOMAIN t.groups} IN
    IF mapped = {} /\ p.defaultRole # Absent /\ Len(p.tenants) = 1
    THEN {p.defaultRole}
    ELSE mapped

\* The resolver's answer: the tenants that are reached, at their places in the file,
\* and the default.
Resolve(p, id) ==
    LET reached == {i \in DOMAIN p.tenants : RolesIn(p, p.tenants[i], id.groups) # {}}
        marked  == {i \in reached : p.tenants[i].default \/ reached = {i}}
    IN  [tenants |-> [i \in reached |->
                         [id    |-> p.tenants[i].id,
                          roles |-> RolesIn(p, p.tenants[i], id.groups)]],
         default |-> IF marked = {} THEN Absent ELSE p.tenants[CHOOSE i \in marked : TRUE].id]

\* Grant.Valid.  A role may be empty and an id may be repeated in a policy file.
GrantValid(g) ==
    /\ \A i \in DOMAIN g.tenants : Absent \notin g.tenants[i].roles
    /\ \A i, j \in DOMAIN g.tenants : g.tenants[i].id = g.tenants[j].id => i = j
    /\ g.default # Absent => \E i \in DOMAIN g.tenants : g.tenants[i].id = g.default

------------------------------------------------------------------------------
(* signer/signer.go *)

\* Signer.Mint as far as it decides: the claims, or the status proxy.refuse makes
\* of the error.  The times, the id and the signature are in KeyRotation.
Mint(p, peer, audience, tenant) ==
    LET id   == Identify(p.allowTagged, peer)
        g    == Resolve(p, id)
        want == IF tenant = Absent THEN g.default ELSE tenant
        held == {i \in DOMAIN g.tenants : g.tenants[i].id = want}
    IN  IF ~id.known THEN [status |-> 401]
        ELSE IF ~GrantValid(g) \/ want = Absent \/ held = {} THEN [status |-> 403]
        ELSE [status   |-> 200,
              subject  |-> id.subject,
              email    |-> IF id.login = Address THEN id.login ELSE Absent,
              name     |-> id.name,
              node     |-> id.node,
              audience |-> audience,
              tenant   |-> want,
              tenants  |-> {g.tenants[i].id : i \in DOMAIN g.tenants},
              roles    |-> g.tenants[CHOOSE i \in held : TRUE].roles,
              groups   |-> id.groups]
=============================================================================

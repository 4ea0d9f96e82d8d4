--------------------------- MODULE MCRequestProxy ---------------------------
(* Small tables, callers and policies that tell the rules apart. *)
EXTENDS RequestProxy

NoMap == <<>>
Rt(up, aud, hosts, path, tenant, headers) ==
    [upstream |-> up, audience |-> aud, hostnames |-> hosts, pathPrefix |-> path,
     tenant |-> tenant, claimHeaders |-> headers]

Wild  == <<"*", "net">>
App   == <<"app", "net">>
Root  == <<"", "">>
Admin == <<"", "admin", "">>

\* A wildcard with a long path against an exact name, a pinned tenant, a header
\* only the other route fills, and tables that Set refuses or that are empty.
MCTable ==
    {<<>>,
     <<Rt("u1", "a1", {Wild}, Admin, "", [X |-> "roles"]),
       Rt("u2", "a2", {App}, Root, "", [Y |-> "email"])>>,
     <<Rt("u1", "a1", {}, EmptyPath, "", NoMap),
       Rt("u2", "a2", {}, Admin, "t2", [X |-> "tenant"])>>,
     <<Rt("u3", "a3", {App}, Root, "", NoMap), Rt("u1", "", {Wild}, Root, "", NoMap)>>}

Q(host, path, tenant) ==
    [host |-> host, path |-> path, tenant |-> tenant, headers |-> {Assertion, "X", "Y", "Z"}]
MCQuery ==
    {Q(<<"app", "net", "">>, <<"", "admin">>, ""),
     Q(<<"x", "app", "net">>, <<"", "admin", "users">>, "t1"),
     Q(App, <<"", "administrator">>, "t2"),
     Q(<<"other">>, <<"", "x">>, "")}

Who(tailnet, whois, tagged, login, decodes, caps) ==
    [tailnet |-> tailnet, whois |-> whois, tagged |-> tagged, user |-> "u",
     login |-> login, name |-> "", node |-> "d", decodes |-> decodes, caps |-> caps]
MCPeer ==
    {Who(FALSE, TRUE, FALSE, Address, TRUE, {{"g1"}}),
     Who(TRUE, TRUE, TRUE, "tagged-devices", TRUE, {{"g1"}}),
     Who(TRUE, TRUE, FALSE, Address, FALSE, {{"g2"}}),
     Who(TRUE, TRUE, FALSE, Address, TRUE, {}),
     Who(TRUE, TRUE, FALSE, "handle", TRUE, {{"g1"}}),
     Who(TRUE, TRUE, FALSE, Address, TRUE, {{"g1"}, {"g2"}}),
     Who(TRUE, TRUE, FALSE, Address, TRUE, {{"g2"}})}

Tn(id, groups, default) == [id |-> id, groups |-> groups, default |-> default]
MCPolicy ==
    {[tenants |-> <<Tn("t1", [g1 |-> "r1"], FALSE), Tn("t2", [g2 |-> "r2"], FALSE)>>,
      defaultRole |-> "viewer", allowTagged |-> FALSE],
     [tenants |-> <<Tn("t1", [g1 |-> "r1", g2 |-> "r2"], FALSE),
                    Tn("t2", [g2 |-> "r2"], TRUE)>>,
      defaultRole |-> "", allowTagged |-> FALSE],
     [tenants |-> <<Tn("t1", [g1 |-> "r1"], FALSE)>>, defaultRole |-> "viewer", allowTagged |-> TRUE],
     [tenants |-> <<Tn("t1", [g1 |-> ""], FALSE), Tn("t1", [g2 |-> "r2"], FALSE)>>,
      defaultRole |-> "", allowTagged |-> FALSE],
     [tenants |-> <<>>, defaultRole |-> "", allowTagged |-> FALSE]}

MCHeader == {Assertion, "X", "Y", "Z"}
=============================================================================

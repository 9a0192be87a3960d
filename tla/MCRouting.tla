------------------------------ MODULE MCRouting ------------------------------
(* Families of tables for Routing: each varies what one property is about. *)
EXTENDS Routing, TLC

CONSTANTS app, wild, far,                       \* names of rows
          appHost, sibling, farHost, stranger,  \* hostnames
          root, farRoot,
          slash, acme, admin, inner, dump, git, \* dump: "/admin/dump.sql", git: "/.git/"
          office, wan, gate,                    \* client addresses and a proxy
          everyone, officeNet, typo,
          l1, p1, k1, k2, ipl, h1, h2, r1, d1, service, ip

MCMatches == (app :> {appHost}) @@ (wild :> {appHost, sibling}) @@ (far :> {farHost})
MCRoot == [x \in {app, wild, appHost, sibling} |-> root]
          @@ [x \in {far, farHost} |-> farRoot] @@ (stranger :> None)
MCWithin == (slash :> Paths) @@ (admin :> {admin, inner, dump})
            @@ [p \in {acme, inner, dump, git} |-> {p}]
MCContains == (everyone :> Addresses) @@ (officeNet :> {office}) @@ (typo :> {})

Host(id, name) ==
  [id |-> id, names |-> {name}, enabled |-> TRUE, cert |-> None, forced |-> FALSE,
   provider |-> None, list |-> None, preserve |-> FALSE, scheme |-> "http",
   at |-> service, locations |-> {}, exploits |-> FALSE, advanced |-> FALSE]

Route(id, name) ==
  [id |-> id, names |-> {name}, enabled |-> TRUE, cert |-> None, forced |-> FALSE,
   exploits |-> FALSE, advanced |-> FALSE]

NoLoop == [enabled |-> FALSE, unknown |-> FALSE,
           ipLists |-> [i \in IpLists |-> {wan}], rules |-> {}]
Loop(unknown, rules) ==
  [NoLoop EXCEPT !.enabled = TRUE, !.unknown = unknown, !.rules = rules]
RuleOn(match, value, block) ==
  [enabled |-> TRUE, hosts |-> {}, block |-> block, match |-> match, value |-> value]

OpenList == [rules |-> <<>>, any |-> FALSE, auth |-> FALSE, file |-> FALSE]

Tables(hosts, redirects, deads) ==
  [hosts |-> hosts, redirects |-> redirects, deads |-> deads,
   lists |-> [l \in Lists |-> OpenList], providers |-> [p \in Providers |-> {}],
   stored |-> {k1}, zentloop |-> NoLoop, nofile |-> 1024]

Sub == [path |-> admin, scheme |-> "http", at |-> None]
DeepSub == [path |-> inner, scheme |-> "https", at |-> ip]

(* An access list on a host with a sub-location, a provider, forced HTTPS  *)
(* and a ZentLoop rule.                                                    *)
UsedRules == [allow : BOOLEAN, net : Nets]
RuleLists == {<<>>} \cup {<<a>> : a \in UsedRules} \cup {<<a, b>> : a, b \in UsedRules}

GuardFamily ==
  {[Tables(<<[Host(h1, app) EXCEPT !.list = l1, !.provider = p, !.cert = k1,
                                   !.forced = f, !.locations = {Sub},
                                   !.advanced = f]>>, <<>>, <<>>)
      EXCEPT !.lists = (l1 :> [rules |-> rs, any |-> any, auth |-> auth, file |-> TRUE]),
             !.zentloop = z] :
     rs \in RuleLists, any \in BOOLEAN, auth \in BOOLEAN, f \in BOOLEAN,
     p \in {None, p1}, z \in {NoLoop, Loop(FALSE, {RuleOn("path_exact", inner, FALSE)})}}

(* Hosts, redirects and 404 hosts with and without TLS, on names that      *)
(* overlap, with the catch-all off, on and on for unknown hosts.           *)
NameFamily ==
  {[Tables(<<[Host(h1, n) EXCEPT !.cert = k, !.enabled = e]>>,
           <<[Route(r1, m) EXCEPT !.cert = kr, !.exploits = TRUE]>>,
           <<[Route(d1, far) EXCEPT !.cert = kd, !.forced = e, !.advanced = ~e]>>)
      EXCEPT !.zentloop = z] :
     n \in {app, far}, m \in {wild, far}, e \in BOOLEAN, k \in {None, k1},
     kr \in {None, k1, k2}, kd \in {None, k1, k2},
     z \in {NoLoop, Loop(FALSE, {}), Loop(TRUE, {})}}

(* ZentLoop rules beside custom locations, the exploit filter and a        *)
(* default location of the host's own.                                     *)
LoopRules ==
  {RuleOn("source_ip_list", ipl, b) : b \in BOOLEAN}
    \cup {RuleOn(m, v, b) : m \in {"path_exact", "path_prefix"},
                            v \in {slash, admin, inner}, b \in BOOLEAN}
    \cup {[RuleOn("path_prefix", admin, TRUE) EXCEPT !.hosts = {h2}],
          [RuleOn("path_prefix", admin, TRUE) EXCEPT !.enabled = FALSE]}

RuleFamily ==
  {[Tables(<<[Host(h1, app) EXCEPT !.locations = ls, !.exploits = x, !.advanced = x,
                                   !.provider = p1]>>, <<>>, <<>>)
      EXCEPT !.zentloop = Loop(FALSE, {a, b})] :
     ls \in {{}, {Sub}, {DeepSub}}, x \in BOOLEAN, a, b \in LoopRules}

(* Two hosts on shared or separate backends, at the edges of the file      *)
(* limit.                                                                  *)
PoolFamily ==
  {[Tables(<<[Host(h1, app) EXCEPT !.preserve = g, !.scheme = s, !.at = ip],
             [Host(h2, far) EXCEPT !.preserve = h, !.scheme = "https", !.at = at,
                                   !.locations = ls]>>, <<>>, <<>>)
      EXCEPT !.nofile = n] :
     g, h \in BOOLEAN, s \in {"http", "https"}, at \in {service, ip},
     ls \in {{}, {Sub, DeepSub}},
     n \in {0, 1, 3, 16, 64, 65, 127, 128, 129, 256, 1024, 17000, 1048576}}

MCSettings == UNION {GuardFamily, NameFamily, RuleFamily, PoolFamily}

Clients == {<<office, None>>, <<wan, None>>, <<wan, office>>, <<gate, office>>,
            <<gate, wan>>}

MCRequests ==
  {[host |-> x, tls |-> t, path |-> p, peer |-> c[1], claimed |-> c[2], login |-> l] :
     x \in Hostnames, t \in BOOLEAN, p \in Paths, c \in Clients, l \in BOOLEAN}
=============================================================================

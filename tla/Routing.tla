------------------------------ MODULE Routing ------------------------------
(***************************************************************************)
(* What proxy.Manager.render makes of the tables, and what OpenResty then  *)
(* answers to a request (internal/proxy/manager.go).                       *)
(*                                                                         *)
(* Every routing row becomes one or two server blocks; a host's block      *)
(* joins its own locations, the ZentLoop rules that apply to it, its       *)
(* access list and the exploit filter.  Which of them decides is settled   *)
(* by nginx: a server-level `if` first, then one location, then the        *)
(* access phase unless the location has returned already.  Those rules of  *)
(* nginx are external and modelled as render relies on them.               *)
(*                                                                         *)
(* Abstractions.  Server names, paths and addresses are members of small   *)
(* sets with the relations nginx computes from their text: the hostnames   *)
(* a name stands for, the paths that begin with a path, the addresses in   *)
(* a network.  Advanced configuration is kept only as far as it brings a   *)
(* default location of its own.  Headers other than the client address,    *)
(* caching, HSTS, HTTP/2, analytics formats and streams are left out.      *)
(***************************************************************************)
EXTENDS Naturals, Sequences, FiniteSets

CONSTANTS
  Names,       \* server names of the rows, wildcards included
  Hostnames,   \* hostnames clients ask for
  Matches,     \* Matches[n]: the hostnames server name n stands for
  Roots,       \* registrable domains
  Root,        \* Root[x]: the one of a name or hostname, None for an address
  Paths,       \* request paths and location paths
  Within,      \* Within[p]: the paths that begin with p
  Slash,       \* the path "/"
  Acme,        \* the path "/.well-known/acme-challenge/"
  Repositories,  \* the paths of version control directories
  Copies,        \* the paths of backups, swap files and dumps
  Addresses,   \* client and proxy addresses
  Nets,        \* addresses and networks of access rules
  Contains,    \* Contains[n]: the addresses in network n
  All,         \* the network "all"
  Malformed,   \* texts validAccessAddress refuses
  Lists, Providers, Certs, IpLists, Ids,  \* ids of the tables
  Backends,    \* upstream addresses
  Numeric,     \* the upstream addresses that are IP literals
  Hops,        \* trustedTransportHops
  Settings,    \* the tables a run starts from
  Requests,    \* the requests a run sends
  None         \* NULL, nothing

ASSUME RelationsAssumption ==
  /\ IsFiniteSet(Names)
  /\ Matches \in [Names -> SUBSET Hostnames]
  /\ Root \in [Names \cup Hostnames -> Roots \cup {None}]
  /\ {Slash, Acme} \subseteq Paths
  /\ Repositories \subseteq Paths /\ Copies \subseteq Paths
  /\ Contains \in [Nets -> SUBSET Addresses]
  /\ All \in Nets /\ Contains[All] = Addresses
  /\ Malformed \subseteq Nets \ {All}
  /\ \A n \in Malformed : Contains[n] = {}
  /\ Numeric \subseteq Backends
  /\ Hops \subseteq Addresses
  /\ None \notin UNION {Ids, Lists, Providers, Certs, Backends, Addresses}

\* To begin with is a partial order of texts; those that begin one path are
\* finitely many, and comparable.
ASSUME PrefixAssumption ==
  /\ Within \in [Paths -> SUBSET Paths]
  /\ \A p \in Paths :
       /\ p \in Within[p] /\ p \in Within[Slash]
       /\ IsFiniteSet({q \in Paths : p \in Within[q]})
  /\ \A p, q \in Paths :
       /\ q \in Within[p] => Within[q] \subseteq Within[p]
       /\ q \in Within[p] /\ p \in Within[q] => p = q
       /\ Within[p] \cap Within[q] # {} => q \in Within[p] \/ p \in Within[q]

CustomLocation == [path : Paths \ {Slash}, scheme : {"http", "https"},
                   at : Backends \cup {None}]

Rule == [allow : BOOLEAN, net : Nets]

AccessList == [rules : Seq(Rule), any : BOOLEAN, auth : BOOLEAN, file : BOOLEAN]

ZentLoopRule ==
  [enabled : BOOLEAN, hosts : SUBSET Ids, block : BOOLEAN,
   match : {"source_ip_list"}, value : IpLists]
  \cup
  [enabled : BOOLEAN, hosts : SUBSET Ids, block : BOOLEAN,
   match : {"path_exact", "path_prefix"}, value : Paths]

Request == [host : Hostnames, tls : BOOLEAN, path : Paths, peer : Addresses,
            claimed : Addresses \cup {None}, login : BOOLEAN]

ASSUME RequestsAssumption == Requests \subseteq Request

VARIABLES
  tables,     \* the rows Apply has read
  conf,       \* the nginx.conf OpenResty runs, None before the first one
  exchange    \* the last request, the row that answered it and the answer

vars == <<tables, conf, exchange>>

----------------------------------------------------------------------------
\* Rows and what they reference

\* The positions of the enabled rows of a table, and those rows.
Enabled(rows) == {i \in DOMAIN rows : rows[i].enabled}
Listed(rows) == {rows[i] : i \in Enabled(rows)}

\* The blocks of a file: the hosts in their order, then the redirects, then
\* the 404 hosts.
Places(t) ==
  UNION {{1} \X Enabled(t.hosts), {2} \X Enabled(t.redirects), {3} \X Enabled(t.deads)}

Before(p, q) ==
  \/ p[1] < q[1]
  \/ p[1] = q[1] /\ p[2] < q[2]

RowAt(t, p) ==
  CASE p[1] = 1 -> t.hosts[p[2]]
    [] p[1] = 2 -> t.redirects[p[2]]
    [] p[1] = 3 -> t.deads[p[2]]

Rows(t) == {RowAt(t, p) : p \in Places(t)}

Claimed(rows) == UNION {Matches[n] : n \in UNION {row.names : row \in rows}}

\* zentLoopRootDomains: the roots of the enabled proxy hosts only.
RootDomains(t) ==
  {Root[n] : n \in UNION {h.names : h \in Listed(t.hosts)}} \ {None}

\* A managed provider and the transport hops, or nothing without a provider.
Trusted(t, provider) ==
  IF provider = None THEN {} ELSE t.providers[provider] \cup Hops

----------------------------------------------------------------------------
\* Upstream pools and capacity

\* effectiveLocationTarget: a location without an address uses the host's.
Target(h, loc) ==
  [scheme |-> loc.scheme, at |-> IF loc.at = None THEN h.at ELSE loc.at]

\* Mutant: pools are shared by address even when the SNI follows the request.
SharedPool(h, target) ==
  [scheme |-> target.scheme, at |-> target.at, host |-> None, keepalive |-> TRUE]

\* The SNI of a numeric https target follows the request's hostname.
DynamicSni(h, target) ==
  h.preserve /\ target.scheme = "https" /\ target.at \in Numeric

Pool(h, target) ==
  [scheme |-> target.scheme, at |-> target.at,
   host |-> IF DynamicSni(h, target) THEN h.id ELSE None,
   keepalive |-> ~DynamicSni(h, target)]

\* The name OpenResty sends to the backend in the TLS handshake.
Sni(h, target, hostname) ==
  CASE target.scheme = "http" -> None
    [] target.scheme = "https" /\ target.at \notin Numeric -> target.at
    [] target.scheme = "https" /\ target.at \in Numeric ->
         IF h.preserve THEN hostname ELSE None

DefaultLocation(h) == [path |-> Slash, scheme |-> h.scheme, at |-> h.at]

Pools(t) ==
  UNION {{Pool(h, Target(h, loc)) : loc \in h.locations \cup {DefaultLocation(h)}} :
           h \in Listed(t.hosts)}

\* The tables are finite and hold what the handlers let pass; an id names one
\* row.
ASSUME SettingsAssumption ==
  \A t \in Settings :
    /\ t.nofile \in Nat
    /\ IsFiniteSet(Places(t)) /\ IsFiniteSet(Pools(t))
    /\ \A p \in Places(t) :
         /\ p[2] \in Nat
         /\ RowAt(t, p).id \in Ids /\ RowAt(t, p).names \subseteq Names
         /\ \A q \in Places(t) : RowAt(t, p).id = RowAt(t, q).id => p = q
    /\ \A h \in Listed(t.hosts) :
         /\ h.scheme \in {"http", "https"}
         /\ h.list \in Lists \cup {None}
         /\ h.locations \subseteq CustomLocation
    /\ \A l \in Lists : t.lists[l] \in AccessList
    /\ t.zentloop.rules \subseteq ZentLoopRule

Smaller(a, b) == IF a < b THEN a ELSE b
Larger(a, b) == IF a > b THEN a ELSE b

\* Mutant: the reserve is forgotten when few files may be open.
UnreservedConnections(nofile) == Larger(Smaller(nofile, 16384), 64)

WorkerConnections(nofile) ==
  LET limit == IF nofile = 0 THEN 1024 ELSE nofile
      reserve == Larger(limit \div 16, 64)
      available == IF limit > reserve THEN limit - reserve ELSE limit \div 2
      capped == Smaller(available, 16384)
  IN Larger(IF capped < 64 THEN limit ELSE capped, 1)

KeepalivePerUpstream(nofile, pools) ==
  LET idleBudget == Larger(WorkerConnections(nofile) \div 4, 1)
  IN Smaller(Larger(idleBudget \div Larger(pools, 1), 1), 64)

ZentLoopKeepalive(nofile, pools) == Smaller(KeepalivePerUpstream(nofile, pools), 16)

----------------------------------------------------------------------------
\* Locations

Status(code) == [kind |-> code, to |-> None]
Divert == [kind |-> "zentloop", to |-> None]

Location(match, path, does) == [match |-> match, path |-> path, does |-> does]

Challenge == Location("final", Acme, [kind |-> "challenge", to |-> None])

ProxyLocation(h, loc) ==
  LET target == Target(h, loc)
  IN Location("prefix", loc.path,
              [kind |-> "backend", to |-> [target |-> target, pool |-> Pool(h, target)]])

\* The exploit filter: an expression is given by the paths it matches.  Hosts
\* have both, redirects the first one alone.
Filter(row, expressions) ==
  IF row.exploits THEN {Location("regex", e, Status("404")) : e \in expressions} ELSE {}

\* Mutant: a rule without hosts applies to none instead of all.
ListedRulesFor(t, id) ==
  {r \in t.zentloop.rules : t.zentloop.enabled /\ r.enabled /\ id \in r.hosts}

\* zentLoopRulesForHost
RulesFor(t, id) ==
  {r \in t.zentloop.rules :
     t.zentloop.enabled /\ r.enabled /\ (r.hosts = {} \/ id \in r.hosts)}

SourcesFor(t, id, block) ==
  UNION {t.zentloop.ipLists[r.value] :
           r \in {q \in RulesFor(t, id) : q.match = "source_ip_list" /\ q.block = block}}

RuleLocations(t, id) ==
  {Location(IF r.match = "path_exact" THEN "exact" ELSE "final", r.value,
            IF r.block THEN Status("403") ELSE Divert) :
     r \in {q \in RulesFor(t, id) : q.match # "source_ip_list"}}

HostLocations(t, h) ==
  UNION {{Challenge}, RuleLocations(t, h.id), Filter(h, {Repositories, Copies}),
         {ProxyLocation(h, loc) : loc \in h.locations},
         {IF h.advanced
          THEN Location("prefix", Slash, [kind |-> "advanced", to |-> None])
          ELSE ProxyLocation(h, DefaultLocation(h))}}

\* An advanced default location stands beside the one a redirect or a 404
\* host always has.
OwnLocations(row) ==
  IF row.advanced
  THEN {Location("prefix", Slash, [kind |-> "advanced", to |-> None])} ELSE {}

----------------------------------------------------------------------------
\* Server blocks

Open == [rules |-> <<>>, any |-> FALSE, login |-> FALSE]

\* Mutant: the whitelist is not closed.
UnclosedGuard(t, list) ==
  IF list = None THEN Open
  ELSE LET l == t.lists[list]
       IN [rules |-> l.rules, any |-> l.any, login |-> l.auth /\ l.file]

Guard(t, list) ==
  IF list = None THEN Open
  ELSE LET l == t.lists[list]
           kept == {i \in DOMAIN l.rules : l.rules[i].net \notin Malformed}
           hasAllow == \E i \in kept : l.rules[i].allow
           hasDenyAll == \E i \in kept : ~l.rules[i].allow /\ l.rules[i].net = All
           closing == IF hasAllow /\ ~hasDenyAll THEN {Len(l.rules) + 1} ELSE {}
       IN [rules |-> [i \in kept \cup closing |->
                        IF i \in kept THEN l.rules[i] ELSE [allow |-> FALSE, net |-> All]],
           any |-> l.any,
           login |-> l.auth /\ l.file]

Server(row, locations) ==
  [row |-> row.id, names |-> row.names, trusted |-> {}, refuse |-> {},
   divert |-> {}, guard |-> Open, locations |-> locations]

Moved(row) ==
  Server(row, {Challenge, Location("prefix", Slash, Status("301"))})

RedirectsToTls(row, tls) == ~tls /\ row.forced /\ row.cert # None

HostServer(t, h, tls) ==
  IF RedirectsToTls(h, tls) THEN Moved(h)
  ELSE [Server(h, HostLocations(t, h)) EXCEPT
          !.trusted = Trusted(t, h.provider),
          !.refuse = SourcesFor(t, h.id, TRUE),
          !.divert = SourcesFor(t, h.id, FALSE),
          !.guard = Guard(t, h.list)]

RedirectServer(t, row, tls) ==
  IF RedirectsToTls(row, tls) THEN Moved(row)
  ELSE Server(row, UNION {{Challenge, Location("prefix", Slash, Status("redirect"))},
                          Filter(row, {Repositories}), OwnLocations(row)})

DeadServer(t, row, tls) ==
  IF RedirectsToTls(row, tls) THEN Moved(row)
  ELSE Server(row, {Challenge, Location("prefix", Slash, Status("404"))}
                   \cup OwnLocations(row))

ServerAt(t, p, tls) ==
  CASE p[1] = 1 -> HostServer(t, RowAt(t, p), tls)
    [] p[1] = 2 -> RedirectServer(t, RowAt(t, p), tls)
    [] p[1] = 3 -> DeadServer(t, RowAt(t, p), tls)

\* A TLS server needs the files of a certificate; a 404 host asks only for
\* the row of one.
HasTls(t, p) ==
  IF p[1] = 3 THEN RowAt(t, p).cert # None ELSE RowAt(t, p).cert \in t.stored

Servers(t, tls) ==
  [p \in {q \in Places(t) : tls => HasTls(t, q)} |-> ServerAt(t, p, tls)]

\* Mutant: the hostnames of redirects and 404 hosts are not known.
HostsOnlyConf(t) ==
  [servers |-> [tls \in BOOLEAN |-> Servers(t, tls)],
   known |-> Claimed(Listed(t.hosts)), dead |-> Claimed(Listed(t.deads)),
   roots |-> RootDomains(t), bridge |-> t.zentloop.enabled,
   unknown |-> t.zentloop.unknown,
   pools |-> Cardinality(Pools(t)) + (IF t.zentloop.enabled THEN 1 ELSE 0)]

RenderedConf(t) ==
  [servers |-> [tls \in BOOLEAN |-> Servers(t, tls)],
   known |-> Claimed(Rows(t)), dead |-> Claimed(Listed(t.deads)),
   roots |-> RootDomains(t), bridge |-> t.zentloop.enabled,
   unknown |-> t.zentloop.unknown,
   pools |-> Cardinality(Pools(t)) + (IF t.zentloop.enabled THEN 1 ELSE 0)]

\* What `openresty -t` refuses: a location or a 404 hostname given twice, a
\* certificate without files.
Accepted(t) ==
  /\ \A tls \in BOOLEAN : \A p \in DOMAIN Servers(t, tls) :
       \A k, l \in Servers(t, tls)[p].locations :
         k.path = l.path /\ (k.match = "exact" <=> l.match = "exact") => k = l
  /\ \A i, j \in Enabled(t.deads) :
       i # j => t.deads[i].names \cap t.deads[j].names = {}
  /\ \A row \in Listed(t.deads) : row.cert # None => row.cert \in t.stored

----------------------------------------------------------------------------
\* OpenResty

\* The server names that stand for the hostname, each at its block.
Claims(servers, hostname) ==
  {c \in (DOMAIN servers) \X Names :
     c[2] \in servers[c[1]].names /\ hostname \in Matches[c[2]]}

\* The most specific server name wins; of equals, the first block.
Chosen(servers, hostname) ==
  LET claims == Claims(servers, hostname)
      nearest == {c \in claims :
                    \A d \in claims : Matches[d[2]] \subseteq Matches[c[2]]
                                        => Matches[d[2]] = Matches[c[2]]}
      first == CHOOSE c \in nearest : \A d \in nearest : ~Before(d[1], c[1])
  IN servers[first[1]]

LocationOf(s, path) ==
  LET exact == {l \in s.locations : l.match = "exact" /\ l.path = path}
      prefix == {l \in s.locations : l.match \in {"final", "prefix"}
                                       /\ path \in Within[l.path]}
      longest == CHOOSE l \in prefix : \A k \in prefix : l.path \in Within[k.path]
      regex == {l \in s.locations : l.match = "regex" /\ path \in l.path}
  IN IF exact # {} THEN CHOOSE l \in exact : TRUE
     ELSE IF regex # {} /\ longest.match = "prefix" THEN CHOOSE l \in regex : TRUE
     ELSE longest

\* ngx_http_realip: the header counts only when a trusted peer sends it.
Client(trusted, r) ==
  IF r.peer \in trusted /\ r.claimed # None THEN r.claimed ELSE r.peer

\* ngx_http_access: the first rule that matches decides.
AddressVerdict(guard, address) ==
  LET hits == {i \in DOMAIN guard.rules : address \in Contains[guard.rules[i].net]}
      first == CHOOSE i \in hits : \A j \in hits : i <= j
  IN IF hits = {} THEN "declined"
     ELSE IF guard.rules[first].allow THEN "granted" ELSE "refused"

LoginVerdict(guard, login) ==
  IF ~guard.login THEN "declined" ELSE IF login THEN "granted" ELSE "refused"

\* The access phase: satisfy any, satisfy all.
Passes(guard, address, login) ==
  LET verdicts == {AddressVerdict(guard, address), LoginVerdict(guard, login)}
  IN \/ "refused" \notin verdicts
     \/ guard.any /\ "granted" \in verdicts

\* What a location returns is sent before the access phase.
AnswerOf(s, r) ==
  LET client == Client(s.trusted, r)
      does == IF client \in s.refuse THEN Status("403")
              ELSE IF client \in s.divert THEN Divert
              ELSE LocationOf(s, r.path).does
  IN IF does.kind \in {"backend", "advanced", "zentloop", "challenge"}
          /\ ~Passes(s.guard, client, r.login)
     THEN Status("denied") ELSE does

\* The default servers of port 80 and port 443.
CatchAll(c, r) ==
  IF r.tls /\ r.host \in c.dead THEN Status("404")
  ELSE IF r.tls /\ r.host \in c.known THEN Status("421")
  ELSE IF c.bridge /\ ~c.unknown /\ Root[r.host] \notin c.roots THEN Status("404")
  ELSE IF ~r.tls /\ r.path \in Within[Acme] THEN Challenge.does
  ELSE IF c.bridge THEN Divert ELSE Status("404")

Reply(c, r) ==
  IF Claims(c.servers[r.tls], r.host) = {}
  THEN [request |-> r, row |-> None, answer |-> CatchAll(c, r)]
  ELSE LET s == Chosen(c.servers[r.tls], r.host)
       IN [request |-> r, row |-> s.row, answer |-> AnswerOf(s, r)]

----------------------------------------------------------------------------
Init ==
  /\ tables \in Settings
  /\ conf = None
  /\ exchange = None

\* Apply: a file OpenResty refuses leaves the previous one in place.
Apply ==
  /\ conf = None
  /\ Accepted(tables)
  /\ conf' = RenderedConf(tables)
  /\ UNCHANGED <<tables, exchange>>

Refuse ==
  /\ conf = None
  /\ ~Accepted(tables)
  /\ UNCHANGED vars

Serve(r) ==
  /\ conf # None
  /\ exchange = None
  /\ exchange' = Reply(conf, r)
  /\ UNCHANGED <<tables, conf>>

\* Requests do not influence each other: one at a time is enough.
Close ==
  /\ exchange # None
  /\ exchange' = None
  /\ UNCHANGED <<tables, conf>>

Next == Apply \/ Refuse \/ Close \/ \E r \in Requests : Serve(r)

Spec == Init /\ [][Next]_vars

----------------------------------------------------------------------------
\* Properties

\* OpenResty runs nothing but a tested rendering of the tables, and answers
\* from it.
TypeOK ==
  /\ tables \in Settings
  /\ conf # None => conf = RenderedConf(tables) /\ Accepted(tables)
  /\ exchange # None =>
       /\ conf # None
       /\ exchange.request \in Requests
       /\ exchange = Reply(conf, exchange.request)

Answered(row) == exchange # None /\ exchange.row = row.id
Kind == exchange.answer.kind

Hosts == Listed(tables.hosts)

\* What an access list promises, by its rules as they were entered.
AddressAllowed(list, address) ==
  \/ \E i \in DOMAIN list.rules :
       /\ list.rules[i].allow /\ address \in Contains[list.rules[i].net]
       /\ \A j \in 1..(i - 1) : address \notin Contains[list.rules[j].net]
  \/ \A i \in DOMAIN list.rules :
       ~list.rules[i].allow /\ address \notin Contains[list.rules[i].net]

Admits(list, address, login) ==
  LET byAddress == list.rules # <<>>
      byLogin == list.auth /\ list.file
      allowed == AddressAllowed(list, address)
  IN IF list.any /\ byAddress /\ byLogin THEN allowed \/ login
     ELSE (byAddress => allowed) /\ (byLogin => login)

\* An allow list of which something that closes it can be read.
Readable(list) ==
  (\E i \in DOMAIN list.rules : list.rules[i].allow) =>
     \E i \in DOMAIN list.rules :
       /\ list.rules[i].net \notin Malformed
       /\ list.rules[i].allow \/ list.rules[i].net = All

\* A request that reaches anything behind a proxy host with an access list,
\* whichever location took it there and whether the host's own backend or
\* ZentLoop answers, satisfies that list: an allow list is a whitelist, unless
\* none of its allow entries can be read.
GuardedEverywhere ==
  \A h \in Hosts :
       /\ Answered(h) /\ Kind \in {"backend", "advanced", "zentloop"}
       /\ h.list # None /\ Readable(tables.lists[h.list])
    => Admits(tables.lists[h.list],
              Client(Trusted(tables, h.provider), exchange.request),
              exchange.request.login)

\* The catch-all hands ZentLoop only hostnames that no enabled row claims,
\* and, unless unknown hosts are forwarded, only those below the root domain
\* of an enabled proxy host.
OnlyStrangersAreCaught ==
  exchange # None /\ exchange.row = None /\ Kind = "zentloop" =>
    /\ tables.zentloop.enabled
    /\ \A row \in Rows(tables) :
         \A n \in row.names : exchange.request.host \notin Matches[n]
    /\ \/ tables.zentloop.unknown
       \/ \E h \in Hosts : \E n \in h.names : Root[n] = Root[exchange.request.host]

\* The rule concerns the request: by its client or by its path.
Flags(rule, h, r) ==
  /\ tables.zentloop.enabled /\ rule.enabled
  /\ rule.hosts = {} \/ h.id \in rule.hosts
  /\ CASE rule.match = "source_ip_list" ->
            Client(Trusted(tables, h.provider), r) \in tables.zentloop.ipLists[rule.value]
       [] rule.match = "path_exact" -> r.path = rule.value
       [] rule.match = "path_prefix" ->
            /\ r.path \in Within[rule.value]
            /\ ~\E loc \in h.locations :
                  loc.path \in Within[rule.value] /\ r.path \in Within[loc.path]

\* A request that an enabled ZentLoop rule concerns never reaches the
\* backend of the host, through whichever of its locations, except through a
\* custom location below the prefix of the rule.
FlaggedStaysOut ==
  \A h \in Hosts :
    Answered(h) /\ Kind \in {"backend", "advanced"} =>
      ~\E rule \in tables.zentloop.rules : Flags(rule, h, exchange.request)

\* Two proxied requests that may travel on the same idle connection agree on
\* the backend and on the name sent in its TLS handshake.
PoolsAreSafe ==
  \A g, h \in Hosts :
    \A k \in g.locations \cup {DefaultLocation(g)},
       l \in h.locations \cup {DefaultLocation(h)} :
      LET a == Target(g, k)
          b == Target(h, l)
      IN Pool(g, a) = Pool(h, b) /\ (Pool(g, a).keepalive \/ g.id # h.id) =>
           /\ a = b
           /\ \A x \in UNION {Matches[n] : n \in g.names},
                 y \in UNION {Matches[n] : n \in h.names} :
                Sni(g, a, x) = Sni(h, b, y)

\* Of a file limit of 128 or more, a sixteenth, and at least 64 files, is left
\* to listeners, logs and resolvers when OpenResty has opened every connection
\* it is told it may open; and, for any limit, the idle connections of all
\* pools together take at most a quarter of these connections as long as every
\* pool can have one.  Below 128 nothing is left: the code then hands the whole
\* limit to connections (manager.go:73), which its own comment excludes
\* (manager.go:56-58), so no reserve is claimed there.
CapacityFits ==
  conf # None =>
    LET limit == IF tables.nofile = 0 THEN 1024 ELSE tables.nofile
        workers == WorkerConnections(tables.nofile)
        idle == conf.pools * KeepalivePerUpstream(tables.nofile, conf.pools)
    IN /\ limit >= 128 => workers + Larger(limit \div 16, 64) <= limit
       /\ idle <= Larger(workers \div 4, conf.pools)
=============================================================================

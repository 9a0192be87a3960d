---------------------------- MODULE RoutingProof ----------------------------
(***************************************************************************)
(* Proofs about Routing, for any tables: upstream pools that share idle    *)
(* connections agree on the backend and on the name of the TLS handshake,  *)
(* and the capacities derived from the file limit fit it, for any limit    *)
(* and any number of pools.                                                *)
(***************************************************************************)
EXTENDS Routing, FiniteSetTheorems, TLAPS

(* Of a limit with room for it, the reserve is kept back; a smaller one is *)
(* given away as a whole.                                                  *)
LEMMA WorkersFit ==
  ASSUME NEW nofile \in Nat
  PROVE  LET limit == IF nofile = 0 THEN 1024 ELSE nofile
         IN /\ WorkerConnections(nofile) \in Nat \ {0}
            /\ limit < 128 => WorkerConnections(nofile) = limit
            /\ limit >= 128 => WorkerConnections(nofile) + Larger(limit \div 16, 64) <= limit
BY SMTT(30) DEF WorkerConnections, Larger, Smaller

(* A share of a budget, taken as often as there are shares, stays within   *)
(* it.                                                                     *)
LEMMA SharesFit ==
  ASSUME NEW budget \in Nat, NEW shares \in Nat \ {0}
  PROVE  /\ budget \div shares \in Nat
         /\ shares * (budget \div shares) <= budget
OBVIOUS

LEMMA ProductGrows ==
  ASSUME NEW n \in Nat, NEW a \in Nat, NEW b \in Nat, a <= b
  PROVE  n * a <= n * b
OBVIOUS

(* The idle connections of all pools together are a quarter of what a      *)
(* worker may open, or one for each pool.                                  *)
LEMMA IdleFits ==
  ASSUME NEW nofile \in Nat, NEW pools \in Nat
  PROVE  pools * KeepalivePerUpstream(nofile, pools)
           <= Larger(WorkerConnections(nofile) \div 4, pools)
<1> DEFINE workers == WorkerConnections(nofile)
           budget == Larger(workers \div 4, 1)
           share == budget \div pools
<1>1. workers \in Nat \ {0}
  BY WorkersFit
<1> HIDE DEF workers
<1>2. budget \in Nat /\ (workers \div 4) \in Nat
  BY <1>1 DEF Larger
<1>3. CASE pools = 0
  <2>1. KeepalivePerUpstream(nofile, pools) \in Nat
    BY <1>1, <1>3 DEF KeepalivePerUpstream, Smaller, Larger, workers
  <2> QED
    BY <2>1, <1>2, <1>3 DEF Larger, workers
<1>4. CASE pools # 0
  <2>1. KeepalivePerUpstream(nofile, pools) = Smaller(Larger(share, 1), 64)
    BY <1>4 DEF KeepalivePerUpstream, Larger, workers
  <2>2. share \in Nat /\ pools * share <= budget
    BY <1>2, <1>4, SharesFit
  <2> HIDE DEF share
  <2>3. CASE share = 0
    <3>1. KeepalivePerUpstream(nofile, pools) = 1
      BY <2>1, <2>3 DEF Smaller, Larger
    <3> QED
      BY <3>1, <1>2 DEF Larger, workers
  <2>4. CASE share # 0
    <3>1. /\ KeepalivePerUpstream(nofile, pools) \in Nat
          /\ KeepalivePerUpstream(nofile, pools) <= share
      BY <2>1, <2>2, <2>4 DEF Smaller, Larger
    <3>2. pools * KeepalivePerUpstream(nofile, pools) <= budget
      <4> HIDE DEF budget
      <4> DEFINE kept == KeepalivePerUpstream(nofile, pools)
      <4> HIDE DEF kept
      <4>1. pools * kept <= pools * share
        BY <3>1, <2>2, ProductGrows DEF kept
      <4>2. pools * kept \in Nat /\ pools * share \in Nat
        BY <3>1, <2>2 DEF kept
      <4> QED
        BY <4>1, <4>2, <2>2, <1>2 DEF kept
    <3>3. budget <= Larger(workers \div 4, pools)
      BY <1>2, <1>4 DEF Larger
    <3> QED
      BY <3>1, <3>2, <3>3, <1>2 DEF Larger, workers
  <2> QED
    BY <2>3, <2>4
<1> QED
  BY <1>3, <1>4

-----------------------------------------------------------------------------
(* What OpenResty chooses exists. *)

(* A finite set that is not empty has an element below which there is none *)
(* in a transitive and irreflexive relation.                               *)
LEMMA MinimalExists ==
  ASSUME NEW S, IsFiniteSet(S), S # {}, NEW R,
         \A x, y, z \in S : <<x, y>> \in R /\ <<y, z>> \in R => <<x, z>> \in R,
         \A x \in S : <<x, x>> \notin R
  PROVE  \E x \in S : \A y \in S : <<y, x>> \notin R
<1> DEFINE Below(x) == {y \in S : <<y, x>> \in R}
           Family == {Below(x) : x \in S}
<1>1. IsWellFoundedOn(StrictSubsetOrdering(S), SUBSET S)
  BY FS_StrictSubsetOrderingWellFounded, FS_FiniteSubsetsOfFinite
<1>2. Family \subseteq SUBSET S /\ Family # {}
  <2>1. PICK x \in S : TRUE
    OBVIOUS
  <2>2. Below(x) \in Family
    OBVIOUS
  <2>3. Family \subseteq SUBSET S
    OBVIOUS
  <2> HIDE DEF Family
  <2> QED BY <2>2, <2>3
<1>3. PICK T \in Family : \A U \in Family : <<U, T>> \notin StrictSubsetOrdering(S)
  <2> HIDE DEF Family
  <2> QED BY <1>1, <1>2, WFMin
<1>4. PICK x \in S : T = Below(x)
  BY <1>3
<1>5. ASSUME NEW y \in S, <<y, x>> \in R PROVE FALSE
  <2>1. Below(y) \subseteq Below(x)
    BY <1>5
  <2>2. y \in Below(x) /\ y \notin Below(y)
    BY <1>5
  <2>3. <<Below(y), T>> \in StrictSubsetOrdering(S)
    BY <1>4, <2>1, <2>2 DEF StrictSubsetOrdering
  <2> QED BY <1>3, <2>3
<1> QED BY <1>5

LEMMA LeastExists ==
  ASSUME NEW S, S \subseteq Nat, S # {}
  PROVE  \E i \in S : \A j \in S : i <= j
<1>1. PICK n \in S : TRUE
  OBVIOUS
<1> DEFINE low == S \cap (0..n)
           Less == {w \in low \X low : w[1] < w[2]}
<1>2. low # {} /\ IsFiniteSet(low) /\ low \subseteq Nat
  <2>1. n \in low /\ low \subseteq 0..n /\ low \subseteq Nat
    BY <1>1
  <2>2. IsFiniteSet(0..n)
    BY <1>1, FS_Interval
  <2> HIDE DEF low
  <2> QED BY <2>1, <2>2, FS_Subset
<1>3. \E i \in low : \A j \in low : <<j, i>> \notin Less
  <2> HIDE DEF low
  <2>1. \A i, j, k \in low : <<i, j>> \in Less /\ <<j, k>> \in Less => <<i, k>> \in Less
    BY <1>2
  <2>2. \A i \in low : <<i, i>> \notin Less
    BY <1>2
  <2> HIDE DEF Less
  <2> QED BY <1>2, <2>1, <2>2, MinimalExists
<1>4. PICK i \in low : \A j \in low : <<j, i>> \notin Less
  BY <1>3
<1>5. ASSUME NEW j \in S PROVE i <= j
  <2>1. i \in Nat /\ j \in Nat /\ n \in Nat /\ i <= n
    BY <1>1
  <2>2. CASE j <= n
    <3>1. j \in low
      BY <2>1, <2>2
    <3>2. ~(j < i)
      BY <1>4, <3>1
    <3> QED BY <2>1, <3>2
  <2> QED BY <2>1, <2>2
<1> QED BY <1>5

(* A hostname that some block claims is answered by one of the blocks.     *)
LEMMA ChosenIsBlock ==
  ASSUME NEW f, NEW x, IsFiniteSet(DOMAIN f), DOMAIN f \subseteq Nat \X Nat,
         Claims(f, x) # {}
  PROVE  \E p \in DOMAIN f : Chosen(f, x) = f[p]
<1> DEFINE claims == Claims(f, x)
           nearest == {c \in claims :
                         \A d \in claims : Matches[d[2]] \subseteq Matches[c[2]]
                                             => Matches[d[2]] = Matches[c[2]]}
           Nearer == {w \in claims \X claims :
                        /\ Matches[w[1][2]] \subseteq Matches[w[2][2]]
                        /\ Matches[w[1][2]] # Matches[w[2][2]]}
           Earlier == {w \in nearest \X nearest : Before(w[1][1], w[2][1])}
<1>1. claims \subseteq (DOMAIN f) \X Names
  BY DEF Claims
<1>0. claims # {} /\ IsFiniteSet(claims)
  BY <1>1, RelationsAssumption, FS_Product, FS_Subset
<1>2. \E c \in claims : \A d \in claims : <<d, c>> \notin Nearer
  <2> HIDE DEF claims
  <2>1. \A a, b, c \in claims : <<a, b>> \in Nearer /\ <<b, c>> \in Nearer => <<a, c>> \in Nearer
    OBVIOUS
  <2>2. \A a \in claims : <<a, a>> \notin Nearer
    OBVIOUS
  <2> HIDE DEF Nearer
  <2> QED BY <1>0, <2>1, <2>2, MinimalExists
<1>3. nearest # {} /\ IsFiniteSet(nearest)
  <2> HIDE DEF claims
  <2>1. nearest # {}
    BY <1>2
  <2> QED BY <1>0, <2>1, FS_Subset
<1>4. \A c \in nearest : c[1] \in DOMAIN f /\ c[1][1] \in Nat /\ c[1][2] \in Nat
  BY <1>1
<1>5. \E c \in nearest : \A d \in nearest : <<d, c>> \notin Earlier
  <2> HIDE DEF nearest
  <2>1. \A a, b, c \in nearest : <<a, b>> \in Earlier /\ <<b, c>> \in Earlier => <<a, c>> \in Earlier
    BY <1>4 DEF Before
  <2>2. \A a \in nearest : <<a, a>> \notin Earlier
    BY <1>4 DEF Before
  <2> HIDE DEF Earlier
  <2> QED BY <1>3, <2>1, <2>2, MinimalExists
<1>6. \E c \in nearest : \A d \in nearest : ~Before(d[1], c[1])
  <2> HIDE DEF nearest
  <2> QED BY <1>5
<1> DEFINE first == CHOOSE c \in nearest : \A d \in nearest : ~Before(d[1], c[1])
<1>7. first \in nearest
  <2> HIDE DEF nearest
  <2> QED BY <1>6
<1>8. Chosen(f, x) = f[first[1]]
  BY DEF Chosen
<1> QED BY <1>4, <1>7, <1>8

(* Every host has its place, and an id of its own.                         *)
LEMMA HostsInPlace ==
  ASSUME tables \in Settings, NEW h \in Hosts
  PROVE  /\ h.id \in Ids /\ h.names \subseteq Names
         /\ \A p \in Places(tables) :
              RowAt(tables, p).id = h.id => p[1] = 1 /\ RowAt(tables, p) = h
<1>1. PICK i \in Enabled(tables.hosts) : h = tables.hosts[i]
  BY DEF Hosts, Listed
<1>2. <<1, i>> \in Places(tables) /\ RowAt(tables, <<1, i>>) = h
  BY <1>1 DEF Places, RowAt
<1> QED BY <1>2, SettingsAssumption

(* A server with a location "/" takes every request to one of its          *)
(* locations: to an exact one, to an expression, or to the longest prefix. *)
LEMMA LocationFound ==
  ASSUME NEW s, NEW path \in Paths,
         \A l \in s.locations : l.match \in {"final", "prefix"} => l.path \in Paths,
         \E l \in s.locations : l.match = "prefix" /\ l.path = Slash
  PROVE  LET to == LocationOf(s, path) IN
         /\ to \in s.locations
         /\ (\E l \in s.locations : l.match = "exact" /\ l.path = path)
              => to.match = "exact" /\ to.path = path
         /\ \/ to.match \in {"exact", "regex"}
            \/ /\ to.match \in {"final", "prefix"} /\ path \in Within[to.path]
               /\ \A k \in s.locations :
                    k.match \in {"final", "prefix"} /\ path \in Within[k.path]
                      => to.path \in Within[k.path]
<1> DEFINE exact == {l \in s.locations : l.match = "exact" /\ l.path = path}
           prefix == {l \in s.locations : l.match \in {"final", "prefix"}
                                            /\ path \in Within[l.path]}
           longest == CHOOSE l \in prefix : \A k \in prefix : l.path \in Within[k.path]
           regex == {l \in s.locations : l.match = "regex" /\ path \in l.path}
           ways == {l.path : l \in prefix}
           Longer == {w \in ways \X ways : w[1] \in Within[w[2]] /\ w[1] # w[2]}
<1>1. \A l \in prefix : l.path \in Paths /\ path \in Within[l.path]
  OBVIOUS
<1>2. prefix # {}
  BY PrefixAssumption
<1>3. IsFiniteSet(ways) /\ ways # {} /\ ways \subseteq Paths
  <2>1. ways \subseteq {q \in Paths : path \in Within[q]}
    BY <1>1
  <2> HIDE DEF ways
  <2>2. IsFiniteSet(ways)
    BY <2>1, PrefixAssumption, FS_Subset
  <2>3. ways # {}
    BY <1>2 DEF ways
  <2> QED BY <2>1, <2>2, <2>3
<1>4. \E w \in ways : \A v \in ways : <<v, w>> \notin Longer
  <2> HIDE DEF ways
  <2>1. \A u, v, w \in ways : <<u, v>> \in Longer /\ <<v, w>> \in Longer => <<u, w>> \in Longer
    BY <1>3, PrefixAssumption
  <2>2. \A w \in ways : <<w, w>> \notin Longer
    OBVIOUS
  <2> HIDE DEF Longer
  <2> QED BY <1>3, <2>1, <2>2, MinimalExists
<1>5. \E l \in prefix : \A k \in prefix : l.path \in Within[k.path]
  <2>1. PICK w \in ways : \A v \in ways : ~(v \in Within[w] /\ v # w)
    BY <1>4
  <2>2. PICK l \in prefix : l.path = w
    OBVIOUS
  <2>3. ASSUME NEW k \in prefix PROVE l.path \in Within[k.path]
    <3>1. /\ l.path \in Paths /\ k.path \in Paths
          /\ Within[l.path] \cap Within[k.path] # {}
      BY <1>1
    <3>2. k.path \in Within[l.path] \/ l.path \in Within[k.path]
      BY <3>1, PrefixAssumption
    <3>3. k.path \in ways
      OBVIOUS
    <3>4. k.path \in Within[l.path] => k.path = l.path
      BY <2>1, <2>2, <3>3
    <3> QED BY <3>1, <3>2, <3>4, PrefixAssumption
  <2> QED BY <2>3
<1>6. longest \in prefix /\ \A k \in prefix : longest.path \in Within[k.path]
  <2> HIDE DEF prefix
  <2> QED BY <1>5
<1>7. LocationOf(s, path) =
        IF exact # {} THEN CHOOSE l \in exact : TRUE
        ELSE IF regex # {} /\ longest.match = "prefix" THEN CHOOSE l \in regex : TRUE
        ELSE longest
  BY DEF LocationOf
<1> HIDE DEF longest
<1>8. CASE exact # {}
  <2>1. LocationOf(s, path) \in exact
    BY <1>7, <1>8
  <2> QED BY <2>1
<1>9. CASE exact = {} /\ regex # {} /\ longest.match = "prefix"
  <2>1. LocationOf(s, path) \in regex
    BY <1>7, <1>9
  <2> QED BY <1>9, <2>1
<1>10. CASE exact = {} /\ ~(regex # {} /\ longest.match = "prefix")
  <2>1. LocationOf(s, path) = longest
    BY <1>7, <1>10
  <2> QED BY <1>6, <1>10, <2>1
<1> QED BY <1>8, <1>9, <1>10

-----------------------------------------------------------------------------
(* The tables stay those Apply has read, and OpenResty runs and answers    *)
(* from nothing but a tested rendering of them.                            *)
THEOREM TypeCorrect == Spec => []TypeOK
<1>1. Init => TypeOK
  BY Zenon DEF Init, TypeOK
<1>2. TypeOK /\ [Next]_vars => TypeOK'
  <2> SUFFICES ASSUME TypeOK, [Next]_vars
               PROVE  TypeOK'
    OBVIOUS
  <2>1. CASE Apply
    BY <2>1, Zenon DEF TypeOK, Apply
  <2>2. CASE Refuse
    BY <2>2, Zenon DEF Refuse, vars, TypeOK
  <2>3. CASE Close
    BY <2>3, Zenon DEF Close, TypeOK
  <2>4. ASSUME NEW r \in Requests, Serve(r)
        PROVE  TypeOK'
    <3>1. UNCHANGED <<tables, conf>> /\ conf # None /\ exchange' = Reply(conf, r)
      BY <2>4, Zenon DEF Serve
    <3>2. exchange'.request = r
      BY <3>1 DEF Reply
    <3> QED
      BY <3>1, <3>2, Zenon DEF TypeOK
  <2>5. CASE UNCHANGED vars
    BY <2>5, Zenon DEF vars, TypeOK
  <2> QED
    BY <2>1, <2>2, <2>3, <2>4, <2>5 DEF Next
<1> QED
  BY <1>1, <1>2, PTL DEF Spec

(* For any number of pools, what OpenResty is told it may open leaves the  *)
(* reserve of any file limit of 128 or more, and the idle connections stay *)
(* within their budget for any limit (computeRuntimeCapacity).  Below 128  *)
(* there is no reserve: WorkersFit shows that connections get it all.      *)
THEOREM CapacityHold == Spec => []CapacityFits
<1>1. TypeOK => CapacityFits
  <2> SUFFICES ASSUME TypeOK, conf # None
               PROVE  CapacityFits
    BY DEF CapacityFits
  <2>1. tables.nofile \in Nat /\ IsFiniteSet(Pools(tables))
    BY SettingsAssumption, Zenon DEF TypeOK
  <2>2. conf.pools = Cardinality(Pools(tables)) + (IF tables.zentloop.enabled THEN 1 ELSE 0)
    BY DEF TypeOK, RenderedConf
  <2>3. conf.pools \in Nat
    <3>1. Cardinality(Pools(tables)) \in Nat
      BY <2>1, FS_CardinalityType
    <3> QED
      BY <2>2, <3>1
  <2> QED
    BY <2>1, <2>3, WorkersFit, IdleFits DEF CapacityFits
<1> QED
  BY <1>1, TypeCorrect, PTL

(* For any hosts and locations, two that may share an idle connection      *)
(* agree on the backend and on the name of its TLS handshake: a pool whose *)
(* name follows the request belongs to one host and keeps nothing idle     *)
(* (upstreamPoolIdentity).                                                 *)
THEOREM PoolsHold == Spec => []PoolsAreSafe
<1>1. TypeOK => PoolsAreSafe
  <2> SUFFICES ASSUME TypeOK, NEW g \in Hosts, NEW h \in Hosts,
                      NEW k \in g.locations \cup {DefaultLocation(g)},
                      NEW l \in h.locations \cup {DefaultLocation(h)},
                      Pool(g, Target(g, k)) = Pool(h, Target(h, l)),
                      Pool(g, Target(g, k)).keepalive \/ g.id # h.id
               PROVE  /\ Target(g, k) = Target(h, l)
                      /\ \A x \in UNION {Matches[n] : n \in g.names},
                            y \in UNION {Matches[n] : n \in h.names} :
                           Sni(g, Target(g, k), x) = Sni(h, Target(h, l), y)
    BY DEF PoolsAreSafe
  <2> DEFINE a == Target(g, k)
             b == Target(h, l)
  <2>1. g.id # None /\ h.id # None
    BY HostsInPlace, RelationsAssumption DEF TypeOK
  <2>2. k.scheme \in {"http", "https"}
    <3>1. g.scheme \in {"http", "https"} /\ g.locations \subseteq CustomLocation
      BY SettingsAssumption DEF TypeOK, Hosts
    <3>2. CASE k \in g.locations
      BY <3>1, <3>2 DEF CustomLocation
    <3>3. CASE k = DefaultLocation(g)
      BY <3>1, <3>3 DEF DefaultLocation
    <3> QED
      BY <3>2, <3>3
  <2>3. /\ a = [scheme |-> k.scheme, at |-> a.at]
        /\ b = [scheme |-> l.scheme, at |-> b.at]
    BY DEF Target
  <2> HIDE DEF a, b
  <2>4. a.scheme = b.scheme /\ a.at = b.at
    BY DEF Pool, a, b
  <2>5. a = b
    BY <2>3, <2>4
  <2>6. DynamicSni(g, a) <=> DynamicSni(h, b)
    BY <2>1 DEF Pool, a, b
  <2>7. ~DynamicSni(g, a)
    BY <2>6 DEF Pool, a, b
  <2>8. ASSUME NEW x, NEW y
        PROVE  Sni(g, a, x) = Sni(h, b, y)
    BY <2>2, <2>3, <2>5, <2>6, <2>7 DEF Sni, DynamicSni
  <2> QED
    BY <2>5, <2>8 DEF a, b
<1> QED
  BY <1>1, TypeCorrect, PTL

-----------------------------------------------------------------------------
(* Which block answers, and what its answer says. *)

LEMMA BlocksFinite ==
  ASSUME tables \in Settings, NEW tls \in BOOLEAN
  PROVE  /\ DOMAIN Servers(tables, tls) \subseteq Places(tables)
         /\ IsFiniteSet(DOMAIN Servers(tables, tls))
         /\ Places(tables) \subseteq Nat \X Nat
<1>1. DOMAIN Servers(tables, tls) \subseteq Places(tables)
  BY DEF Servers
<1>2. Places(tables) \subseteq Nat \X Nat
  <2>1. ASSUME NEW p \in Places(tables) PROVE p \in Nat \X Nat
    <3>1. p[2] \in Nat
      BY SettingsAssumption
    <3>2. p = <<p[1], p[2]>> /\ p[1] \in {1, 2, 3}
      BY DEF Places
    <3> QED BY <3>1, <3>2
  <2> QED BY <2>1
<1> QED BY <1>1, <1>2, SettingsAssumption, FS_Subset

(* A block carries the id of its row.                                      *)
LEMMA BlockRow ==
  ASSUME NEW t, NEW p \in Places(t), NEW tls
  PROVE  ServerAt(t, p, tls).row = RowAt(t, p).id
<1>1. p[1] \in {1, 2, 3}
  BY DEF Places
<1>2. \A row : Moved(row).row = row.id
  BY DEF Moved, Server
<1>3. \A h : HostServer(t, h, tls).row = h.id
  BY <1>2 DEF HostServer, Server
<1>4. \A row : RedirectServer(t, row, tls).row = row.id /\ DeadServer(t, row, tls).row = row.id
  BY <1>2 DEF RedirectServer, DeadServer, Server
<1> QED BY <1>1, <1>3, <1>4 DEF ServerAt

(* A hostname that a block claims is answered by a block, in the name of   *)
(* its row.                                                                *)
LEMMA BlockAnswers ==
  ASSUME TypeOK, exchange # None,
         Claims(Servers(tables, exchange.request.tls), exchange.request.host) # {}
  PROVE  LET r == exchange.request IN
           \E p \in DOMAIN Servers(tables, r.tls) :
             /\ p \in Places(tables)
             /\ exchange.row = RowAt(tables, p).id
             /\ exchange.answer = AnswerOf(ServerAt(tables, p, r.tls), r)
<1> DEFINE r == exchange.request
           f == Servers(tables, r.tls)
<1>1. /\ tables \in Settings /\ r \in Request
      /\ exchange = Reply(conf, r) /\ conf = RenderedConf(tables)
  BY RequestsAssumption DEF TypeOK
<1>2. r.tls \in BOOLEAN
  BY <1>1 DEF Request
<1>3. conf.servers[r.tls] = f
  BY <1>1, <1>2 DEF RenderedConf
<1>4. /\ Claims(f, r.host) # {}
      /\ exchange.row = Chosen(f, r.host).row
      /\ exchange.answer = AnswerOf(Chosen(f, r.host), r)
  BY <1>1, <1>3 DEF Reply
<1>5. PICK p \in DOMAIN f : Chosen(f, r.host) = f[p]
  <2> HIDE DEF f
  <2> QED BY <1>1, <1>2, <1>4, BlocksFinite, ChosenIsBlock DEF f
<1>6. p \in Places(tables) /\ f[p] = ServerAt(tables, p, r.tls)
  BY <1>5 DEF Servers
<1> QED BY <1>4, <1>5, <1>6, BlockRow

(* The default servers answer what no block claims, and only that.         *)
LEMMA OthersAnswered ==
  ASSUME TypeOK, exchange # None
  PROVE  LET r == exchange.request IN
           /\ r \in Request /\ conf = RenderedConf(tables)
           /\ exchange.row = None <=> Claims(Servers(tables, r.tls), r.host) = {}
           /\ exchange.row = None => exchange.answer = CatchAll(conf, r)
<1> DEFINE r == exchange.request
           f == Servers(tables, r.tls)
<1>1. /\ tables \in Settings /\ r \in Request
      /\ exchange = Reply(conf, r) /\ conf = RenderedConf(tables)
  BY RequestsAssumption DEF TypeOK
<1>2. r.tls \in BOOLEAN
  BY <1>1 DEF Request
<1>3. conf.servers[r.tls] = f
  BY <1>1, <1>2 DEF RenderedConf
<1>4. ASSUME Claims(f, r.host) # {} PROVE exchange.row # None
  <2>1. PICK p \in Places(tables) : exchange.row = RowAt(tables, p).id
    BY <1>4, BlockAnswers
  <2> QED BY <1>1, <2>1, SettingsAssumption, RelationsAssumption
<1>5. ASSUME Claims(f, r.host) = {}
      PROVE  exchange.row = None /\ exchange.answer = CatchAll(conf, r)
  BY <1>1, <1>3, <1>5 DEF Reply
<1> QED BY <1>1, <1>4, <1>5

(* What answers in the name of a host is the block of that host, and that  *)
(* block has no two locations for the same path.                           *)
LEMMA HostAnswers ==
  ASSUME TypeOK, NEW h \in Hosts, Answered(h)
  PROVE  LET r == exchange.request
             s == HostServer(tables, h, r.tls)
         IN /\ r \in Request
            /\ exchange.answer = AnswerOf(s, r)
            /\ \A k, l \in s.locations :
                 k.path = l.path /\ (k.match = "exact" <=> l.match = "exact") => k = l
<1> DEFINE r == exchange.request
           f == Servers(tables, r.tls)
<1>1. exchange # None /\ exchange.row = h.id /\ tables \in Settings /\ Accepted(tables)
  BY DEF Answered, TypeOK
<1>2. r \in Request /\ r.tls \in BOOLEAN /\ Claims(f, r.host) # {}
  <2>1. exchange.row # None
    BY <1>1, HostsInPlace, RelationsAssumption
  <2> QED BY <1>1, <2>1, OthersAnswered DEF Request
<1>3. PICK p \in DOMAIN f :
        /\ p \in Places(tables)
        /\ exchange.row = RowAt(tables, p).id
        /\ exchange.answer = AnswerOf(ServerAt(tables, p, r.tls), r)
  BY <1>1, <1>2, BlockAnswers
<1>4. p[1] = 1 /\ RowAt(tables, p) = h
  BY <1>1, <1>3, HostsInPlace
<1>5. ServerAt(tables, p, r.tls) = HostServer(tables, h, r.tls)
  BY <1>4 DEF ServerAt
<1>6. f[p] = HostServer(tables, h, r.tls)
  BY <1>3, <1>5 DEF Servers
<1>7. \A k, l \in f[p].locations :
        k.path = l.path /\ (k.match = "exact" <=> l.match = "exact") => k = l
  BY <1>1, <1>2, <1>3 DEF Accepted
<1> QED BY <1>2, <1>3, <1>5, <1>6, <1>7

(* A host that redirects to HTTPS answers with that, or with a challenge.  *)
LEMMA MovedAnswers ==
  ASSUME NEW row, NEW r \in Request
  PROVE  AnswerOf(Moved(row), r).kind \in {"301", "challenge", "denied"}
<1> DEFINE s == Moved(row)
           slash == Location("prefix", Slash, Status("301"))
           to == LocationOf(s, r.path)
<1>1. s.locations = {Challenge, slash} /\ s.refuse = {} /\ s.divert = {}
  BY DEF Moved, Server
<1>2. /\ Challenge.match = "final" /\ Challenge.path = Acme
      /\ Challenge.does.kind = "challenge"
      /\ slash.match = "prefix" /\ slash.path = Slash /\ slash.does.kind = "301"
  BY DEF Challenge, Location, Status
<1>3. r.path \in Paths /\ Slash \in Paths /\ Acme \in Paths
  BY RelationsAssumption DEF Request
<1> HIDE DEF s, slash
<1>4. to \in {Challenge, slash}
  BY <1>1, <1>2, <1>3, LocationFound
<1>5. AnswerOf(s, r) \in {Status("denied"), to.does}
  BY <1>1 DEF AnswerOf
<1> QED BY <1>2, <1>4, <1>5 DEF Status, s

(* The block of a host that does not redirect to HTTPS.                    *)
LEMMA HostBlock ==
  ASSUME NEW t, NEW h, NEW tls, ~RedirectsToTls(h, tls)
  PROVE  /\ HostServer(t, h, tls).trusted = Trusted(t, h.provider)
         /\ HostServer(t, h, tls).refuse = SourcesFor(t, h.id, TRUE)
         /\ HostServer(t, h, tls).divert = SourcesFor(t, h.id, FALSE)
         /\ HostServer(t, h, tls).guard = Guard(t, h.list)
         /\ HostServer(t, h, tls).locations = HostLocations(t, h)
BY DEF HostServer, Server

LEMMA HostDoesNotMove ==
  ASSUME TypeOK, NEW h \in Hosts, Answered(h), Kind \in {"backend", "advanced", "zentloop"}
  PROVE  ~RedirectsToTls(h, exchange.request.tls)
BY HostAnswers, MovedAnswers DEF Kind, HostServer

-----------------------------------------------------------------------------
(* Access lists. *)

(* What gets through the access phase of a guard is admitted by its list.  *)
LEMMA GuardAdmits ==
  ASSUME NEW list \in AccessList, Readable(list), NEW address \in Addresses,
         NEW login \in BOOLEAN,
         NEW t, NEW id, id # None, t.lists[id] = list,
         Passes(Guard(t, id), address, login)
  PROVE  Admits(list, address, login)
<1> DEFINE g == Guard(t, id)
           rules == list.rules
           kept == {i \in DOMAIN rules : rules[i].net \notin Malformed}
           hasAllow == \E i \in kept : rules[i].allow
           hasDenyAll == \E i \in kept : ~rules[i].allow /\ rules[i].net = All
           closing == IF hasAllow /\ ~hasDenyAll THEN {Len(rules) + 1} ELSE {}
           line == [i \in kept \cup closing |->
                      IF i \in kept THEN rules[i] ELSE [allow |-> FALSE, net |-> All]]
           hits == {i \in DOMAIN line : address \in Contains[line[i].net]}
           first == CHOOSE i \in hits : \A j \in hits : i <= j
           verdict == AddressVerdict(g, address)
<1>1. g.rules = line /\ g.any = list.any /\ g.login = (list.auth /\ list.file)
  BY DEF Guard
<1>2. /\ rules \in Seq(Rule) /\ DOMAIN rules = 1..Len(rules) /\ Len(rules) \in Nat
      /\ \A i \in DOMAIN rules : rules[i].net \in Nets
      /\ list.any \in BOOLEAN /\ list.auth \in BOOLEAN /\ list.file \in BOOLEAN
  <2>1. /\ rules \in Seq(Rule)
        /\ list.any \in BOOLEAN /\ list.auth \in BOOLEAN /\ list.file \in BOOLEAN
    BY DEF AccessList
  <2>2. DOMAIN rules = 1..Len(rules) /\ Len(rules) \in Nat
    BY <2>1
  <2>3. ASSUME NEW i \in DOMAIN rules PROVE rules[i].net \in Nets
    <3>1. rules[i] \in Rule
      BY <2>1, <2>2
    <3> QED BY <3>1 DEF Rule
  <2> QED BY <2>1, <2>2, <2>3
<1>3. DOMAIN line = kept \cup closing /\ DOMAIN line \subseteq Nat
  BY <1>2
<1>4. verdict = IF hits = {} THEN "declined"
                ELSE IF line[first].allow THEN "granted" ELSE "refused"
  BY <1>1 DEF AddressVerdict
<1>5. ASSUME hits # {} PROVE first \in hits /\ \A j \in hits : first <= j
  <2>1. hits \subseteq Nat
    BY <1>3
  <2> HIDE DEF hits
  <2>2. \E i \in hits : \A j \in hits : i <= j
    BY <1>5, <2>1, LeastExists
  <2> QED BY <2>2
<1>6. verdict = "granted" => AddressAllowed(list, address)
  <2> SUFFICES ASSUME hits # {}, line[first].allow PROVE AddressAllowed(list, address)
    BY <1>4
  <2>0. first \in hits
    BY <1>5
  <2>1. first \in hits /\ first \in kept /\ rules[first].allow
        /\ address \in Contains[rules[first].net]
    <3> HIDE DEF first
    <3>1. first \in kept
      BY <2>0
    <3>2. line[first] = rules[first]
      BY <2>0, <3>1
    <3> QED BY <2>0, <3>1, <3>2
  <2>2. ASSUME NEW j \in 1..(first - 1), address \in Contains[rules[j].net] PROVE FALSE
    <3>0. first \in Nat /\ first <= Len(rules)
      <4>1. first \in 1..Len(rules)
        BY <1>2, <2>1
      <4>2. Len(rules) \in Nat
        BY <1>2
      <4> HIDE DEF first, rules
      <4> QED BY <4>1, <4>2
    <3>1. j \in DOMAIN rules /\ j < first /\ j \in Nat
      <4> HIDE DEF first, kept, line, hits
      <4>1. j \in 1..(first - 1)
        BY <2>2
      <4> QED BY <1>2, <3>0, <4>1
    <3>2. j \in kept
      BY <1>2, <2>2, <3>1, RelationsAssumption
    <3>3. j \in hits
      BY <2>2, <3>2
    <3>4. first <= j
      BY <1>5, <3>3
    <3>5. first \in Nat /\ j \in Nat
      BY <3>0, <3>1
    <3> HIDE DEF first
    <3> QED BY <3>1, <3>4, <3>5
  <2> QED BY <2>1, <2>2 DEF AddressAllowed
<1>7. verdict = "declined" => AddressAllowed(list, address)
  <2> SUFFICES ASSUME hits = {} PROVE AddressAllowed(list, address)
    BY <1>4
  <2>1. \A i \in kept : address \notin Contains[rules[i].net]
    BY <1>3
  <2>2. ~hasDenyAll
    BY <2>1, RelationsAssumption
  <2>3. closing = {}
    <3> SUFFICES ASSUME closing # {} PROVE FALSE
      OBVIOUS
    <3> DEFINE last == Len(rules) + 1
    <3>1. last \in DOMAIN line /\ last \notin kept
      BY <1>2
    <3>2. line[last] = [allow |-> FALSE, net |-> All]
      BY <3>1
    <3>3. last \in hits
      BY <3>1, <3>2, RelationsAssumption
    <3> QED BY <3>3
  <2>4. ~hasAllow
    BY <2>2, <2>3
  <2>5. \A i \in DOMAIN rules : ~rules[i].allow
    BY <2>2, <2>4 DEF Readable
  <2>6. \A i \in DOMAIN rules : address \notin Contains[rules[i].net]
    BY <1>2, <2>1, RelationsAssumption
  <2> QED BY <2>5, <2>6 DEF AddressAllowed
<1>8. verdict \in {"declined", "granted", "refused"}
  BY <1>4
<1>9. rules = <<>> => verdict = "declined"
  BY <1>4
<1> HIDE DEF verdict, g
<1>10. LoginVerdict(g, login) = IF ~(list.auth /\ list.file) THEN "declined"
                                ELSE IF login THEN "granted" ELSE "refused"
  BY <1>1 DEF LoginVerdict, g
<1>11. \/ verdict # "refused" /\ LoginVerdict(g, login) # "refused"
       \/ list.any /\ (verdict = "granted" \/ LoginVerdict(g, login) = "granted")
  BY <1>1 DEF Passes, verdict, g
<1> QED BY <1>2, <1>6, <1>7, <1>8, <1>9, <1>10, <1>11 DEF Admits

(* An answer from behind a host has come from one of its locations, for a  *)
(* client that no rule about sources stops and the access phase lets pass. *)
LEMMA AnswerPasses ==
  ASSUME NEW s, NEW r, AnswerOf(s, r).kind \in {"backend", "advanced", "zentloop"}
  PROVE  /\ Passes(s.guard, Client(s.trusted, r), r.login)
         /\ AnswerOf(s, r).kind # "zentloop" =>
              /\ Client(s.trusted, r) \notin s.refuse \cup s.divert
              /\ AnswerOf(s, r) = LocationOf(s, r.path).does
BY DEF AnswerOf, Status, Divert

(* For any tables and requests, what reaches anything behind a host with   *)
(* an access list satisfies that list, whichever location takes it there:  *)
(* renderHosts puts the list at the server, closes an allow list and puts  *)
(* the trusted providers above it.                                         *)
THEOREM GuardedHold == Spec => []GuardedEverywhere
<1>1. TypeOK => GuardedEverywhere
  <2> SUFFICES ASSUME TypeOK, NEW h \in Hosts, Answered(h),
                      Kind \in {"backend", "advanced", "zentloop"},
                      h.list # None, Readable(tables.lists[h.list])
               PROVE  Admits(tables.lists[h.list],
                             Client(Trusted(tables, h.provider), exchange.request),
                             exchange.request.login)
    BY DEF GuardedEverywhere
  <2> DEFINE r == exchange.request
             s == HostServer(tables, h, r.tls)
             client == Client(Trusted(tables, h.provider), r)
  <2>1. r \in Request /\ exchange.answer = AnswerOf(s, r)
    BY HostAnswers
  <2>2. s.trusted = Trusted(tables, h.provider) /\ s.guard = Guard(tables, h.list)
    BY HostDoesNotMove, HostBlock
  <2>3. Passes(Guard(tables, h.list), client, r.login)
    <3> HIDE DEF s
    <3> QED BY <2>1, <2>2, AnswerPasses DEF Kind
  <2>4. client \in Addresses /\ r.login \in BOOLEAN
    BY <2>1 DEF Client, Request
  <2>5. tables.lists[h.list] \in AccessList
    BY SettingsAssumption DEF TypeOK, Hosts
  <2> HIDE DEF client, r
  <2> QED
    BY <2>3, <2>4, <2>5, GuardAdmits DEF client, r
<1> QED
  BY <1>1, TypeCorrect, PTL

-----------------------------------------------------------------------------
(* The catch-all. *)

LEMMA BlockNames ==
  ASSUME NEW t, NEW p \in Places(t), NEW tls
  PROVE  ServerAt(t, p, tls).names = RowAt(t, p).names
<1>1. p[1] \in {1, 2, 3}
  BY DEF Places
<1>2. \A row : Moved(row).names = row.names
  BY DEF Moved, Server
<1>3. \A h : HostServer(t, h, tls).names = h.names
  BY <1>2 DEF HostServer, Server
<1>4. \A row : /\ RedirectServer(t, row, tls).names = row.names
               /\ DeadServer(t, row, tls).names = row.names
  BY <1>2 DEF RedirectServer, DeadServer, Server
<1> QED BY <1>1, <1>3, <1>4 DEF ServerAt

(* For any tables and requests, ZentLoop gets from the default servers     *)
(* only hostnames that no row claims, and unless unknown hosts are         *)
(* forwarded only those of a root domain in use (renderDefaultServers).    *)
THEOREM StrangersHold == Spec => []OnlyStrangersAreCaught
<1>1. TypeOK => OnlyStrangersAreCaught
  <2> SUFFICES ASSUME TypeOK, exchange # None, exchange.row = None, Kind = "zentloop"
               PROVE  /\ tables.zentloop.enabled
                      /\ \A row \in Rows(tables) :
                           \A n \in row.names : exchange.request.host \notin Matches[n]
                      /\ \/ tables.zentloop.unknown
                         \/ \E h \in Hosts : \E n \in h.names :
                              Root[n] = Root[exchange.request.host]
    BY DEF OnlyStrangersAreCaught
  <2> DEFINE r == exchange.request
             f == Servers(tables, r.tls)
  <2>1. /\ r \in Request /\ conf = RenderedConf(tables) /\ tables \in Settings
        /\ Claims(f, r.host) = {} /\ exchange.answer = CatchAll(conf, r)
    BY OthersAnswered DEF TypeOK
  <2>2. /\ conf.known = Claimed(Rows(tables)) /\ conf.roots = RootDomains(tables)
        /\ conf.bridge = tables.zentloop.enabled /\ conf.unknown = tables.zentloop.unknown
    BY <2>1 DEF RenderedConf
  <2>3. /\ conf.bridge
        /\ r.tls => r.host \notin conf.known
        /\ conf.unknown \/ Root[r.host] \in conf.roots
    BY <2>1 DEF Kind, CatchAll, Status, Divert, Challenge, Location
  <2>4. ASSUME NEW row \in Rows(tables), NEW n \in row.names, r.host \in Matches[n]
        PROVE  FALSE
    <3>1. CASE r.tls
      BY <2>2, <2>3, <2>4, <3>1 DEF Claimed
    <3>2. CASE ~r.tls
      <4>1. PICK p \in Places(tables) : row = RowAt(tables, p)
        BY DEF Rows
      <4>2. n \in Names
        BY <2>1, <4>1, SettingsAssumption
      <4>3. p \in DOMAIN f /\ f[p] = ServerAt(tables, p, r.tls)
        BY <3>2, <4>1 DEF Servers
      <4>4. n \in f[p].names
        BY <4>1, <4>3, BlockNames
      <4>5. <<p, n>> \in Claims(f, r.host)
        <5> HIDE DEF f
        <5> QED BY <2>4, <4>2, <4>3, <4>4 DEF Claims
      <4> QED BY <2>1, <4>5
    <3> QED BY <3>1, <3>2
  <2>5. ASSUME ~tables.zentloop.unknown
        PROVE  \E h \in Hosts : \E n \in h.names : Root[n] = Root[r.host]
    BY <2>2, <2>3, <2>5 DEF RootDomains, Hosts
  <2> QED
    BY <2>2, <2>3, <2>4, <2>5
<1> QED
  BY <1>1, TypeCorrect, PTL

-----------------------------------------------------------------------------
(* ZentLoop rules at a host. *)

LEMMA RuleLocationKind ==
  ASSUME tables \in Settings, NEW id, NEW l \in RuleLocations(tables, id)
  PROVE  l.match \in {"exact", "final"} /\ l.path \in Paths /\ l.does.kind \in {"403", "zentloop"}
<1>1. PICK q \in RulesFor(tables, id) :
        /\ q.match # "source_ip_list"
        /\ l = Location(IF q.match = "path_exact" THEN "exact" ELSE "final", q.value,
                        IF q.block THEN Status("403") ELSE Divert)
  BY DEF RuleLocations
<1>2. q \in ZentLoopRule
  BY SettingsAssumption DEF RulesFor
<1>3. q.value \in Paths
  BY <1>1, <1>2 DEF ZentLoopRule
<1> QED BY <1>1, <1>3 DEF Location, Status, Divert

(* The locations of a host's block by their origin.                        *)
LEMMA HostLocationKind ==
  ASSUME tables \in Settings, NEW h \in Hosts, NEW l \in HostLocations(tables, h)
  PROVE  \/ l = Challenge
         \/ l \in RuleLocations(tables, h.id)
         \/ l.match = "regex" /\ l.does.kind = "404"
         \/ l.match = "prefix" /\ \E loc \in h.locations : l.path = loc.path /\ loc.path \in Paths
         \/ l.match = "prefix" /\ l.path = Slash
<1>1. h.locations \subseteq CustomLocation
  BY SettingsAssumption DEF Hosts
<1>2. \A loc \in h.locations : loc.path \in Paths
  BY <1>1 DEF CustomLocation
<1>3. \A loc : ProxyLocation(h, loc).match = "prefix" /\ ProxyLocation(h, loc).path = loc.path
  BY DEF ProxyLocation, Location
<1>4. \A k \in Filter(h, {Repositories, Copies}) : k.match = "regex" /\ k.does.kind = "404"
  BY DEF Filter, Location, Status
<1>5. DefaultLocation(h).path = Slash
  BY DEF DefaultLocation
<1>6. \/ l = Challenge
      \/ l \in RuleLocations(tables, h.id)
      \/ l \in Filter(h, {Repositories, Copies})
      \/ \E loc \in h.locations : l = ProxyLocation(h, loc)
      \/ l = Location("prefix", Slash, [kind |-> "advanced", to |-> None])
      \/ l = ProxyLocation(h, DefaultLocation(h))
  <2> DEFINE filter == Filter(h, {Repositories, Copies})
             rules == RuleLocations(tables, h.id)
  <2>1. HostLocations(tables, h) =
          UNION {{Challenge}, rules, filter, {ProxyLocation(h, loc) : loc \in h.locations},
                 {IF h.advanced
                  THEN Location("prefix", Slash, [kind |-> "advanced", to |-> None])
                  ELSE ProxyLocation(h, DefaultLocation(h))}}
    BY Zenon DEF HostLocations
  <2> HIDE DEF filter, rules
  <2>2. \/ l = Challenge
        \/ l \in rules
        \/ l \in filter
        \/ \E loc \in h.locations : l = ProxyLocation(h, loc)
        \/ l = Location("prefix", Slash, [kind |-> "advanced", to |-> None])
        \/ l = ProxyLocation(h, DefaultLocation(h))
    BY <2>1
  <2> QED BY <2>2 DEF filter, rules
<1> QED BY <1>2, <1>3, <1>4, <1>5, <1>6 DEF Location

(* A block of a host always finds a location.                              *)
LEMMA HostLocationsFound ==
  ASSUME tables \in Settings, NEW h \in Hosts
  PROVE  /\ \A l \in HostLocations(tables, h) : l.match \in {"final", "prefix"} => l.path \in Paths
         /\ \E l \in HostLocations(tables, h) : l.match = "prefix" /\ l.path = Slash
<1>1. Challenge.path \in Paths /\ Slash \in Paths
  BY RelationsAssumption DEF Challenge, Location
<1>2. ASSUME NEW l \in HostLocations(tables, h), l.match \in {"final", "prefix"}
      PROVE  l.path \in Paths
  BY <1>1, <1>2, HostLocationKind, RuleLocationKind
<1> DEFINE own == IF h.advanced
                  THEN Location("prefix", Slash, [kind |-> "advanced", to |-> None])
                  ELSE ProxyLocation(h, DefaultLocation(h))
<1>3. own \in HostLocations(tables, h)
  BY DEF HostLocations
<1>4. own.match = "prefix" /\ own.path = Slash
  BY DEF ProxyLocation, DefaultLocation, Location
<1> QED BY <1>2, <1>3, <1>4

(* For any tables and requests, what a rule concerns stays away from the   *)
(* backend: renderZentLoopServerRules puts sources before the locations,   *)
(* exact rules first and prefix rules where no expression overrides them.  *)
THEOREM FlaggedHold == Spec => []FlaggedStaysOut
<1>1. TypeOK => FlaggedStaysOut
  <2> SUFFICES ASSUME TypeOK, NEW h \in Hosts, Answered(h), Kind \in {"backend", "advanced"},
                      NEW rule \in tables.zentloop.rules, Flags(rule, h, exchange.request)
               PROVE  FALSE
    BY DEF FlaggedStaysOut
  <2> DEFINE r == exchange.request
             s == HostServer(tables, h, r.tls)
             client == Client(Trusted(tables, h.provider), r)
             to == LocationOf(s, r.path)
             mine == Location(IF rule.match = "path_exact" THEN "exact" ELSE "final", rule.value,
                              IF rule.block THEN Status("403") ELSE Divert)
  <2>1. /\ tables \in Settings /\ r \in Request /\ exchange.answer = AnswerOf(s, r)
        /\ \A k, l \in s.locations :
             k.path = l.path /\ (k.match = "exact" <=> l.match = "exact") => k = l
    BY HostAnswers DEF TypeOK
  <2>2. /\ s.trusted = Trusted(tables, h.provider)
        /\ s.refuse = SourcesFor(tables, h.id, TRUE)
        /\ s.divert = SourcesFor(tables, h.id, FALSE)
        /\ s.locations = HostLocations(tables, h)
    BY HostDoesNotMove, HostBlock
  <2>3. rule \in RulesFor(tables, h.id) /\ rule \in ZentLoopRule
    BY <2>1, SettingsAssumption DEF Flags, RulesFor
  <2> HIDE DEF s
  <2>4. client \notin s.refuse \cup s.divert /\ to.does.kind \in {"backend", "advanced"}
    <3>1. AnswerOf(s, r).kind \in {"backend", "advanced"}
      BY <2>1 DEF Kind
    <3>2. Client(s.trusted, r) = client
      BY <2>2
    <3>3. client \notin s.refuse \cup s.divert /\ AnswerOf(s, r) = to.does
      BY <3>1, <3>2, AnswerPasses
    <3> QED BY <3>1, <3>3
  <2>5. CASE rule.match = "source_ip_list"
    <3>1. client \in tables.zentloop.ipLists[rule.value]
      BY <2>5 DEF Flags
    <3>2. rule.block \in BOOLEAN
      BY <2>3 DEF ZentLoopRule
    <3>3. client \in SourcesFor(tables, h.id, rule.block)
      BY <2>3, <2>5, <3>1 DEF SourcesFor
    <3> QED BY <2>2, <2>4, <3>2, <3>3
  <2>6. ASSUME rule.match \in {"path_exact", "path_prefix"}
        PROVE  /\ mine \in s.locations /\ mine.path = rule.value
               /\ mine.does.kind \in {"403", "zentloop"}
               /\ rule.value \in Paths
               /\ mine.match = IF rule.match = "path_exact" THEN "exact" ELSE "final"
    <3>1. mine \in RuleLocations(tables, h.id)
      BY <2>3, <2>6 DEF RuleLocations
    <3>2. mine \in s.locations
      BY <2>2, <3>1 DEF HostLocations
    <3>3. mine.path = rule.value /\ mine.match = IF rule.match = "path_exact" THEN "exact" ELSE "final"
      BY DEF Location
    <3> HIDE DEF mine
    <3> QED BY <2>1, <3>1, <3>2, <3>3, RuleLocationKind
  <2>7. /\ to \in s.locations
        /\ (\E l \in s.locations : l.match = "exact" /\ l.path = r.path)
             => to.match = "exact" /\ to.path = r.path
        /\ \/ to.match \in {"exact", "regex"}
           \/ /\ to.match \in {"final", "prefix"} /\ r.path \in Within[to.path]
              /\ \A k \in s.locations :
                   k.match \in {"final", "prefix"} /\ r.path \in Within[k.path]
                     => to.path \in Within[k.path]
    <3>1. r.path \in Paths
      BY <2>1 DEF Request
    <3> QED BY <2>1, <2>2, <3>1, HostLocationsFound, LocationFound
  <2> HIDE DEF to, mine
  <2>8. CASE rule.match = "path_exact"
    <3>1. r.path = rule.value
      BY <2>8 DEF Flags
    <3>2. to = mine
      BY <2>1, <2>6, <2>7, <2>8, <3>1
    <3> QED BY <2>4, <2>6, <2>8, <3>2
  <2>9. CASE rule.match = "path_prefix"
    <3>1. /\ r.path \in Within[rule.value]
          /\ ~\E loc \in h.locations :
               loc.path \in Within[rule.value] /\ r.path \in Within[loc.path]
      BY <2>9 DEF Flags
    <3>2. to # Challenge /\ to \notin RuleLocations(tables, h.id) /\ to.does.kind # "404"
      BY <2>1, <2>4, RuleLocationKind DEF Challenge, Location
    <3>3. /\ to.match = "prefix"
          /\ to.path = Slash \/ \E loc \in h.locations : to.path = loc.path
      BY <2>1, <2>2, <2>7, <3>2, HostLocationKind
    <3>4. r.path \in Within[to.path] /\ to.path \in Within[rule.value]
      BY <2>6, <2>7, <2>9, <3>1, <3>3
    <3>5. to.path = Slash
      BY <3>1, <3>3, <3>4
    <3>6. rule.value = Slash
      BY <2>6, <2>9, <3>4, <3>5, PrefixAssumption, RelationsAssumption
    <3>7. to = mine
      BY <2>1, <2>6, <2>7, <2>9, <3>3, <3>5, <3>6
    <3> QED BY <2>6, <2>9, <3>3, <3>7
  <2>10. rule.match \in {"source_ip_list", "path_exact", "path_prefix"}
    BY <2>3 DEF ZentLoopRule
  <2> QED
    BY <2>5, <2>8, <2>9, <2>10
<1> QED
  BY <1>1, TypeCorrect, PTL
=============================================================================

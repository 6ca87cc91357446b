------------------------- MODULE GatewayTableProofs -------------------------
(***************************************************************************)
(* Theorems about GatewayTable, for endpoints of any number of services    *)
(* and uris: the types of its variables, and that a gateway that has been  *)
(* started routes by the services of its endpoint, which leave no choice.  *)
(***************************************************************************)
EXTENDS GatewayTable, TLAPS

(***************************************************************************)
(* What the two loops have done so far, by the definitions that know no    *)
(* loop: hostMap stands for the services before i, uriMap for the uris     *)
(* before j of service i.                                                  *)
(***************************************************************************)
InLoop ==
    /\ pc = "pipeline" => i = 1 /\ hostMap = Nothing
    /\ pc = "uris" => i <= Len(services) /\ j <= Len(uris) + 1
    /\ pc \in {"services", "uris"} => MapsHosts(hostMap, services, i - 1)
    /\ pc = "uris" => MapsUris(uriMap, uris, j - 1)

Done ==
    /\ pc = "start" => MapsHosts(table, services, Len(services))
    /\ pc # "returned" => result = "none"
    /\ StartedByItsServices

TableInv == TypeOK /\ InLoop /\ Done

-----------------------------------------------------------------------------
(* Lemmas about the operators *)

LEMMA ElementType ==
    ASSUME NEW S, NEW s \in Seq(S), NEW k \in 1 .. Len(s)
    PROVE  s[k] \in S
OBVIOUS

LEMMA IntervalIs ==
    ASSUME NEW n \in Int, NEW m \in Int
    PROVE  /\ n \in 1 .. m <=> n > 0 /\ n <= m
           /\ n > 0 /\ n <= m => n \in 0 .. m
OBVIOUS

\* A name for the number of unsigned shorts, which provers that count in unary
\* are not to see.
Shorts == 65536

LEMMA CastKeeps ==
    ASSUME NEW n \in Int, n > 0, n <= MaxPort
    PROVE  n % Shorts = n
BY SMT DEF MaxPort, Shorts

LEMMA MaxPortType == MaxPort \in Int
BY SMT DEF MaxPort

LEMMA ResolvedIs ==
    ASSUME NEW uri
    PROVE  Resolved(uri) = [ipaddress |-> uri.host, port |-> uri.port % Shorts]
BY SMT DEF Resolved, Shorts

\* The cast to unsigned short changes no port that Usable lets through.
LEMMA ResolvedUri ==
    ASSUME NEW uri \in Uri
    PROVE  /\ Usable(uri) <=> uri.host # NoHost /\ InRange(uri)
           /\ Usable(uri) =>
                 /\ Resolved(uri) = [ipaddress |-> uri.host, port |-> uri.port]
                 /\ Resolved(uri) \in ResolvedService
<1> DEFINE port == uri.port
           host == uri.host
<1>1. port \in Int /\ host \in Hosts \cup {NoHost}
  BY DEF Uri
<1>2. /\ Usable(uri) <=> host # NoHost /\ port > 0 /\ port <= MaxPort
      /\ InRange(uri) <=> port \in 1 .. MaxPort
      /\ Resolved(uri) = [ipaddress |-> host, port |-> port % Shorts]
  BY ResolvedIs, Zenon DEF Usable, InRange
<1>3. ResolvedService = [ipaddress : Hosts, port : 0 .. MaxPort]
  BY Zenon DEF ResolvedService
<1> HIDE DEF port, host
<1>4. ASSUME Usable(uri)
      PROVE  /\ Resolved(uri) = [ipaddress |-> host, port |-> port]
             /\ Resolved(uri) \in ResolvedService
  <2>1. port > 0 /\ port <= MaxPort /\ host \in Hosts
    BY <1>1, <1>2, <1>4, Zenon
  <2>2. port % Shorts = port
    BY <1>1, <2>1, CastKeeps, Zenon
  <2>3. port \in 0 .. MaxPort
    BY <1>1, <2>1, IntervalIs, MaxPortType, Zenon
  <2>4. Resolved(uri) = [ipaddress |-> host, port |-> port]
    BY <1>2, <2>2, Zenon
  <2> QED
    BY <1>3, <2>1, <2>3, <2>4
<1>5. Usable(uri) <=> host # NoHost /\ InRange(uri)
  BY <1>1, <1>2, IntervalIs, MaxPortType, Zenon
<1> QED
  BY <1>4, <1>5 DEF port, host

LEMMA PutType ==
    ASSUME NEW m, NEW K, NEW V, NEW key \in K, NEW value \in V,
           DOMAIN m \subseteq K, m \in [DOMAIN m -> V]
    PROVE  /\ DOMAIN Put(m, key, value) = DOMAIN m \cup {key}
           /\ Put(m, key, value) \in [DOMAIN m \cup {key} -> V]
           /\ Put(m, key, value)[key] = value
           /\ \A k \in DOMAIN m \ {key} : Put(m, key, value)[k] = m[k]
BY DEF Put

LEMMA NothingType == IsUriMap(Nothing) /\ IsHostMap(Nothing)
BY DEF IsUriMap, IsHostMap, Nothing

LEMMA NothingMaps ==
    ASSUME NEW list
    PROVE  MapsUris(Nothing, list, 0) /\ MapsHosts(Nothing, list, 0)
BY DEF MapsUris, MapsHosts, Nothing

\* An unusable uri adds nothing.
LEMMA SkipMaps ==
    ASSUME NEW m, NEW us \in Seq(Uri), NEW n \in Nat, n + 1 <= Len(us),
           MapsUris(m, us, n), ~Usable(us[n + 1])
    PROVE  MapsUris(m, us, n + 1)
<1>1. us[n + 1] \in Uri
  BY ElementType
<1>2. \A p \in Paths : ~Names(us[n + 1], p)
  BY <1>1, ResolvedUri DEF Names
<1>3. 1 .. n + 1 = (1 .. n) \cup {n + 1}
  OBVIOUS
<1> QED
  BY <1>2, <1>3 DEF MapsUris

\* The first usable uri of a path is kept.
LEMMA EmplaceMaps ==
    ASSUME NEW m, NEW us \in Seq(Uri), NEW n \in Nat, n + 1 <= Len(us),
           IsUriMap(m), MapsUris(m, us, n), Usable(us[n + 1])
    PROVE  LET uri == us[n + 1]
               after == IF uri.path \in DOMAIN m THEN m
                        ELSE Put(m, uri.path, Resolved(uri))
           IN  IsUriMap(after) /\ MapsUris(after, us, n + 1)
<1> DEFINE uri == us[n + 1]
           after == IF uri.path \in DOMAIN m THEN m
                    ELSE Put(m, uri.path, Resolved(uri))
<1> SUFFICES IsUriMap(after) /\ MapsUris(after, us, n + 1)
  OBVIOUS
<1>1. uri \in Uri /\ uri.path \in Paths
  <2>1. n + 1 \in 1 .. Len(us)
    OBVIOUS
  <2>2. uri \in Uri
    BY <2>1, ElementType
  <2> QED
    BY <2>2 DEF Uri
<1>2. /\ Resolved(uri) = [ipaddress |-> uri.host, port |-> uri.port]
      /\ Resolved(uri) \in ResolvedService
  BY <1>1, ResolvedUri
<1>3. \A p \in Paths : Names(uri, p) <=> p = uri.path
  BY <1>1, ResolvedUri DEF Names
<1>4. /\ 1 .. n + 1 = (1 .. n) \cup {n + 1}
      /\ 1 .. (n + 1) - 1 = 1 .. n
  OBVIOUS
<1> HIDE DEF uri
<1>5. CASE uri.path \in DOMAIN m
  <2>1. \E k \in 1 .. n : Names(us[k], uri.path)
    BY <1>1, <1>5 DEF MapsUris
  <2>2. \A p \in Paths : p \in DOMAIN m <=> \E k \in 1 .. n + 1 : Names(us[k], p)
    BY <1>3, <1>4, <2>1 DEF MapsUris, uri
  <2>3. MapsUris(m, us, n + 1)
    BY <1>4, <2>2 DEF MapsUris
  <2>4. after = m
    BY <1>5
  <2> QED
    BY <2>3, <2>4
<1>6. CASE uri.path \notin DOMAIN m
  <2>1. after = Put(m, uri.path, Resolved(uri))
    BY <1>6
  <2>2. /\ DOMAIN after = DOMAIN m \cup {uri.path}
        /\ after \in [DOMAIN m \cup {uri.path} -> ResolvedService]
        /\ after[uri.path] = [ipaddress |-> uri.host, port |-> uri.port]
        /\ \A p \in DOMAIN m \ {uri.path} : after[p] = m[p]
    <3>1. m \in [DOMAIN m -> ResolvedService] /\ DOMAIN m \subseteq Paths
      BY DEF IsUriMap
    <3> DEFINE service == Resolved(uri)
               put == Put(m, uri.path, service)
    <3> HIDE DEF service
    <3>2. service = [ipaddress |-> uri.host, port |-> uri.port]
          /\ service \in ResolvedService
      BY <1>2 DEF service
    <3>3. /\ DOMAIN put = DOMAIN m \cup {uri.path}
          /\ put \in [DOMAIN m \cup {uri.path} -> ResolvedService]
          /\ put[uri.path] = service
          /\ \A p \in DOMAIN m \ {uri.path} : put[p] = m[p]
      BY <1>1, <3>1, <3>2 DEF Put
    <3> HIDE DEF put, after
    <3>4. after = put
      BY <2>1 DEF put, service
    <3> QED
      BY <3>2, <3>3, <3>4
  <2> HIDE DEF after
  <2>3. IsUriMap(after)
    BY <1>1, <2>2 DEF IsUriMap
  <2>4. \A k \in 1 .. n : ~Names(us[k], uri.path)
    BY <1>1, <1>6 DEF MapsUris
  <2>5. \A p \in Paths : p \in DOMAIN after <=> \E k \in 1 .. n + 1 : Names(us[k], p)
    BY <1>1, <1>3, <1>4, <2>2 DEF MapsUris, uri
  <2>6. ASSUME NEW p \in DOMAIN after
        PROVE  \E k \in 1 .. n + 1 :
                  /\ Names(us[k], p)
                  /\ \A l \in 1 .. k - 1 : ~Names(us[l], p)
                  /\ after[p] = [ipaddress |-> us[k].host, port |-> us[k].port]
    <3>1. CASE p = uri.path
      BY <1>1, <1>3, <1>4, <2>2, <2>4, <3>1 DEF uri
    <3>2. CASE p # uri.path
      <4>1. p \in DOMAIN m /\ after[p] = m[p]
        BY <2>2, <3>2
      <4> QED
        BY <1>4, <4>1 DEF MapsUris
    <3> QED
      BY <3>1, <3>2
  <2>7. MapsUris(after, us, n + 1)
    BY <2>5, <2>6 DEF MapsUris
  <2> QED
    BY <2>3, <2>7
<1> QED
  BY <1>5, <1>6

\* The last service of a host name is kept.
LEMMA StoreMaps ==
    ASSUME NEW m, NEW um, NEW ss \in Seq(Service), NEW n \in Nat, n + 1 <= Len(ss),
           IsHostMap(m), IsUriMap(um), MapsHosts(m, ss, n),
           MapsUris(um, ss[n + 1].uris, Len(ss[n + 1].uris))
    PROVE  LET after == Put(m, ss[n + 1].hostname, um)
           IN  IsHostMap(after) /\ MapsHosts(after, ss, n + 1)
<1> DEFINE name == ss[n + 1].hostname
           after == Put(m, name, um)
           maps == {um} \cup {m[h] : h \in DOMAIN m}
<1> SUFFICES IsHostMap(after) /\ MapsHosts(after, ss, n + 1)
  OBVIOUS
<1>1. name \in Hostnames
  <2>1. n + 1 \in 1 .. Len(ss)
    OBVIOUS
  <2>2. ss[n + 1] \in Service
    BY <2>1, ElementType
  <2> QED
    BY <2>2 DEF Service
<1>2. m \in [DOMAIN m -> maps] /\ DOMAIN m \subseteq Hostnames
  BY DEF IsHostMap
<1>3. /\ DOMAIN after = DOMAIN m \cup {name}
      /\ after \in [DOMAIN m \cup {name} -> maps]
      /\ after[name] = um
      /\ \A h \in DOMAIN m \ {name} : after[h] = m[h]
  <2>1. um \in maps
    OBVIOUS
  <2> HIDE DEF name, maps
  <2> QED
    BY <1>2, <2>1 DEF Put
<1>4. 1 .. n + 1 = (1 .. n) \cup {n + 1}
  OBVIOUS
<1>5. after = [h \in DOMAIN after |-> after[h]]
  BY DEF Put
<1> HIDE DEF after, maps
<1>6. IsHostMap(after)
  BY <1>1, <1>2, <1>3, <1>5 DEF IsHostMap
<1>7. \A h \in Hostnames :
          h \in DOMAIN after <=> \E k \in 1 .. n + 1 : ss[k].hostname = h
  BY <1>1, <1>3, <1>4 DEF MapsHosts
<1>8. ASSUME NEW h \in DOMAIN after
      PROVE  \E k \in 1 .. n + 1 :
                /\ ss[k].hostname = h
                /\ \A l \in k + 1 .. n + 1 : ss[l].hostname # h
                /\ MapsUris(after[h], ss[k].uris, Len(ss[k].uris))
  <2>1. CASE h = name
    <3>1. n + 1 \in 1 .. n + 1 /\ (n + 1) + 1 .. n + 1 = {}
      OBVIOUS
    <3>2. MapsUris(after[h], ss[n + 1].uris, Len(ss[n + 1].uris))
      BY <1>3, <2>1
    <3> QED
      BY <2>1, <3>1, <3>2
  <2>2. CASE h # name
    <3>1. h \in DOMAIN m /\ after[h] = m[h]
      BY <1>3, <2>2
    <3>2. PICK k \in 1 .. n :
              /\ ss[k].hostname = h
              /\ \A l \in k + 1 .. n : ss[l].hostname # h
              /\ MapsUris(m[h], ss[k].uris, Len(ss[k].uris))
      BY <3>1 DEF MapsHosts
    <3>3. k \in 1 .. n + 1 /\ k + 1 .. n + 1 = (k + 1 .. n) \cup {n + 1}
      OBVIOUS
    <3> QED
      BY <2>2, <3>1, <3>2, <3>3
  <2> QED
    BY <2>1, <2>2
<1> QED
  BY <1>6, <1>7, <1>8 DEF MapsHosts

-----------------------------------------------------------------------------
(* The definition that knows no loop leaves no choice *)

LEMMA OneUriMap ==
    ASSUME NEW us, NEW n \in Nat, NEW m1, NEW m2,
           IsUriMap(m1), IsUriMap(m2), MapsUris(m1, us, n), MapsUris(m2, us, n)
    PROVE  m1 = m2
<1>1. DOMAIN m1 = DOMAIN m2
  BY DEF IsUriMap, MapsUris
<1>2. ASSUME NEW p \in DOMAIN m1
      PROVE  m1[p] = m2[p]
  <2>1. PICK k1 \in 1 .. n :
            /\ Names(us[k1], p)
            /\ \A l \in 1 .. k1 - 1 : ~Names(us[l], p)
            /\ m1[p] = [ipaddress |-> us[k1].host, port |-> us[k1].port]
    BY DEF MapsUris
  <2>2. PICK k2 \in 1 .. n :
            /\ Names(us[k2], p)
            /\ \A l \in 1 .. k2 - 1 : ~Names(us[l], p)
            /\ m2[p] = [ipaddress |-> us[k2].host, port |-> us[k2].port]
    BY <1>1 DEF MapsUris
  <2>3. k1 = k2
    <3>1. ~(k1 < k2) /\ ~(k2 < k1)
      BY <2>1, <2>2
    <3> QED
      BY <3>1
  <2> QED
    BY <2>1, <2>2, <2>3
<1>3. /\ m1 = [p \in DOMAIN m1 |-> m1[p]]
      /\ m2 = [p \in DOMAIN m2 |-> m2[p]]
  BY DEF IsUriMap
<1> QED
  BY <1>1, <1>2, <1>3

LEMMA OneHostMap ==
    ASSUME NEW ss, NEW n \in Nat, NEW m1, NEW m2,
           \A k \in 1 .. n : Len(ss[k].uris) \in Nat,
           IsHostMap(m1), IsHostMap(m2), MapsHosts(m1, ss, n), MapsHosts(m2, ss, n)
    PROVE  m1 = m2
<1>1. DOMAIN m1 = DOMAIN m2
  BY DEF IsHostMap, MapsHosts
<1>2. ASSUME NEW h \in DOMAIN m1
      PROVE  m1[h] = m2[h]
  <2>1. PICK k1 \in 1 .. n :
            /\ ss[k1].hostname = h
            /\ \A l \in k1 + 1 .. n : ss[l].hostname # h
            /\ MapsUris(m1[h], ss[k1].uris, Len(ss[k1].uris))
    BY DEF MapsHosts
  <2>2. PICK k2 \in 1 .. n :
            /\ ss[k2].hostname = h
            /\ \A l \in k2 + 1 .. n : ss[l].hostname # h
            /\ MapsUris(m2[h], ss[k2].uris, Len(ss[k2].uris))
    BY <1>1 DEF MapsHosts
  <2>3. k1 = k2
    <3>1. ~(k1 < k2) /\ ~(k2 < k1)
      BY <2>1, <2>2
    <3> QED
      BY <3>1
  <2>4. IsUriMap(m1[h]) /\ IsUriMap(m2[h])
    BY <1>1 DEF IsHostMap
  <2> QED
    BY <2>1, <2>2, <2>3, <2>4, OneUriMap
<1>3. /\ m1 = [h \in DOMAIN m1 |-> m1[h]]
      /\ m2 = [h \in DOMAIN m2 |-> m2[h]]
  BY DEF IsHostMap
<1> QED
  BY <1>1, <1>2, <1>3

\* A list of services has at most one table: what StartedByItsServices says of
\* a started gateway settles every entry of the map SetApiGatewayConfig is given.
THEOREM TableIsDetermined ==
    ASSUME NEW ss \in Seq(Service), NEW m1, NEW m2,
           IsHostMap(m1), IsHostMap(m2),
           MapsHosts(m1, ss, Len(ss)), MapsHosts(m2, ss, Len(ss))
    PROVE  m1 = m2
<1>1. Len(ss) \in Nat
  OBVIOUS
<1>2. ASSUME NEW k \in 1 .. Len(ss)
      PROVE  Len(ss[k].uris) \in Nat
  <2>1. ss[k] \in Service
    BY ElementType
  <2>2. ss[k].uris \in Seq(Uri)
    BY <2>1 DEF Service
  <2> QED
    BY <2>2
<1> QED
  BY <1>1, <1>2, OneHostMap

-----------------------------------------------------------------------------
LEMMA InitTable == Init => TableInv
<1> SUFFICES ASSUME Init PROVE TableInv
  OBVIOUS
<1>1. services \in Seq(Service) /\ Len(services) \in Nat
  BY EndPointsAssumption DEF Init
<1>2. TypeOK
  BY <1>1, NothingType DEF Init, TypeOK
<1> QED
  BY <1>2 DEF Init, TableInv, InLoop, Done, StartedByItsServices

LEMMA StepTable == TableInv /\ [Next]_vars => TableInv'
<1> SUFFICES ASSUME TableInv, [Next]_vars PROVE TableInv'
  OBVIOUS
<1>1. TypeOK /\ InLoop /\ Done
  BY DEF TableInv
<1>2. services \in Seq(Service) /\ Len(services) \in Nat
  BY <1>1 DEF TypeOK
<1>12. ASSUME i <= Len(services)
       PROVE  services[i] \in Service /\ uris \in Seq(Uri) /\ Len(uris) \in Nat
  <2>1. i \in 1 .. Len(services)
    BY <1>1, <1>2, <1>12 DEF TypeOK
  <2>2. services[i] \in Service
    BY <1>2, <2>1, ElementType
  <2>3. uris \in Seq(Uri)
    BY <2>2 DEF Service, uris
  <2> QED
    BY <2>2, <2>3
<1>3. CASE SetPipeline
  <2>1. TypeOK'
    BY <1>1, <1>3 DEF TypeOK, SetPipeline, Return
  <2>2. InLoop'
    BY <1>1, <1>3, NothingMaps DEF InLoop, SetPipeline, Return
  <2>3. Done'
    BY <1>1, <1>3 DEF Done, StartedByItsServices, SetPipeline, Return
  <2> QED
    BY <2>1, <2>2, <2>3 DEF TableInv
<1>4. CASE NextService
  <2>1. TypeOK'
    BY <1>1, <1>4, NothingType DEF TypeOK, NextService
  <2>2. services[i] \in Service /\ uris \in Seq(Uri) /\ Len(uris) \in Nat
    BY <1>12, <1>4 DEF NextService
  <2>3. InLoop'
    BY <1>1, <1>4, <2>2, NothingMaps DEF InLoop, NextService, uris
  <2>4. Done'
    BY <1>1, <1>4 DEF Done, StartedByItsServices, NextService
  <2> QED
    BY <2>1, <2>3, <2>4 DEF TableInv
<1>5. ASSUME pc = "uris"
      PROVE  /\ i <= Len(services) /\ i \in Nat /\ j \in Nat
             /\ services[i] \in Service
             /\ uris \in Seq(Uri) /\ Len(uris) \in Nat
             /\ j - 1 \in Nat /\ (j - 1) + 1 = j
             /\ i - 1 \in Nat /\ (i - 1) + 1 = i
  <2>1. i <= Len(services) /\ i \in Nat \ {0} /\ j \in Nat \ {0}
    BY <1>1, <1>2, <1>5 DEF TypeOK, InLoop
  <2> QED
    BY <1>12, <2>1
<1>6. CASE SkipUri
  <2>1. TypeOK'
    BY <1>1, <1>6 DEF TypeOK, SkipUri
  <2>2. MapsUris(uriMap, uris, j)
    BY <1>1, <1>5, <1>6, SkipMaps DEF InLoop, SkipUri
  <2>3. uris' = uris
    BY <1>6 DEF SkipUri, uris
  <2>4. InLoop'
    BY <1>1, <1>5, <1>6, <2>2, <2>3, SMTT(30) DEF InLoop, SkipUri
  <2>5. Done'
    BY <1>1, <1>6 DEF Done, StartedByItsServices, SkipUri
  <2> QED
    BY <2>1, <2>4, <2>5 DEF TableInv
<1>7. CASE EmplaceUri
  <2>1. IsUriMap(uriMap') /\ MapsUris(uriMap', uris, j)
    BY <1>1, <1>5, <1>7, EmplaceMaps DEF TypeOK, InLoop, EmplaceUri
  <2>2. TypeOK'
    BY <1>1, <1>7, <2>1 DEF TypeOK, EmplaceUri
  <2>3. uris' = uris
    BY <1>7 DEF EmplaceUri, uris
  <2>4. InLoop'
    BY <1>1, <1>5, <1>7, <2>1, <2>3, SMTT(30) DEF InLoop, EmplaceUri
  <2>5. Done'
    BY <1>1, <1>7 DEF Done, StartedByItsServices, EmplaceUri
  <2> QED
    BY <2>2, <2>4, <2>5 DEF TableInv
<1>8. CASE StoreUriMap
  <2>1. j - 1 = Len(uris)
    BY <1>1, <1>5, <1>8, SMTT(30) DEF InLoop, StoreUriMap
  <2>2. MapsUris(uriMap, services[i].uris, Len(services[i].uris))
    BY <1>1, <1>8, <2>1 DEF InLoop, StoreUriMap, uris
  <2>3. IsHostMap(hostMap') /\ MapsHosts(hostMap', services, i)
    BY <1>1, <1>2, <1>5, <1>8, <2>2, StoreMaps DEF TypeOK, InLoop, StoreUriMap
  <2>4. TypeOK'
    BY <1>1, <1>5, <1>8, <2>3 DEF TypeOK, StoreUriMap
  <2>5. InLoop'
    BY <1>1, <1>5, <1>8, <2>3 DEF InLoop, StoreUriMap
  <2>6. Done'
    BY <1>1, <1>8 DEF Done, StartedByItsServices, StoreUriMap
  <2> QED
    BY <2>4, <2>5, <2>6 DEF TableInv
<1>9. CASE SetApiGatewayConfig
  <2>1. TypeOK'
    BY <1>1, <1>9 DEF TypeOK, SetApiGatewayConfig
  <2>2. i - 1 = Len(services)
    BY <1>1, <1>2, <1>9 DEF TypeOK, SetApiGatewayConfig
  <2>3. MapsHosts(table, services, Len(services))'
    BY <1>1, <1>9, <2>2 DEF InLoop, SetApiGatewayConfig
  <2>4. InLoop'
    BY <1>9 DEF InLoop, SetApiGatewayConfig
  <2>5. Done'
    BY <1>1, <1>9, <2>3 DEF Done, StartedByItsServices, SetApiGatewayConfig
  <2> QED
    BY <2>1, <2>4, <2>5 DEF TableInv
<1>10. CASE Start
  <2>1. TypeOK'
    BY <1>1, <1>10 DEF TypeOK, Start, Return
  <2>2. InLoop'
    BY <1>10 DEF InLoop, Start, Return
  <2>3. Done'
    BY <1>1, <1>10 DEF Done, StartedByItsServices, Start, Return
  <2> QED
    BY <2>1, <2>2, <2>3 DEF TableInv
<1>11. CASE UNCHANGED vars
  BY <1>1, <1>11 DEF TableInv, TypeOK, InLoop, Done, StartedByItsServices, uris, vars
<1> QED
  BY <1>3, <1>4, <1>6, <1>7, <1>8, <1>9, <1>10, <1>11 DEF Next

LEMMA TableInvariant == Spec => []TableInv
BY InitTable, StepTable, PTL DEF Spec

\* The variables of startGatewayServer keep their types: only addresses with a
\* host and a port of 16 bits get into a table.
THEOREM TypeCorrect == Spec => []TypeOK
<1>1. TableInv => TypeOK
  BY DEF TableInv
<1> QED
  BY <1>1, TableInvariant, PTL

\* A gateway that has been started routes every path of every host name to the
\* address its endpoint gives, for any number of services and uris.
THEOREM GatewayRoutesByItsServices == Spec => []StartedByItsServices
<1>1. TableInv => StartedByItsServices
  BY DEF TableInv, Done
<1> QED
  BY <1>1, TableInvariant, PTL

=============================================================================

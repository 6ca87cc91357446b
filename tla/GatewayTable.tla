---------------------------- MODULE GatewayTable ----------------------------
(***************************************************************************)
(* startGatewayServer: how the services of one API gateway endpoint become *)
(* the table by which its socket routes, host name by host name and path   *)
(* by path.  Within a service the first usable URI of a path is kept,      *)
(* among services the last with a host name.                               *)
(***************************************************************************)
EXTENDS Sequences, Integers

CONSTANTS
    Hostnames,   \* values of service/@hostname
    Paths,       \* values of uri/@path
    Hosts,       \* texts of uri/host that are not empty
    NoHost,      \* the empty text, or no <host> at all
    EndPoints    \* lists of services an endpoint may have

\* A <port> that is missing leaves the int uninitialised: any integer.
Uri == [path : Paths, host : Hosts \cup {NoHost}, port : Int]

Service == [hostname : Hostnames, uris : Seq(Uri)]

ASSUME EndPointsAssumption == EndPoints \subseteq Seq(Service)
ASSUME NoHostAssumption == NoHost \notin Hosts

VARIABLES
    services,   \* endpoint.services
    pc,         \* where startGatewayServer is
    i, j,       \* its loops over the services and over the uris of one
    uriMap,     \* path -> RESOLVED_SERVICE, of service i
    hostMap,    \* host name -> uriMap, of the services before i
    table,      \* what the socket was given by SetApiGatewayConfig
    result      \* "none" until startGatewayServer has returned

vars == <<services, pc, i, j, uriMap, hostMap, table, result>>

MaxPort == 65535

ResolvedService == [ipaddress : Hosts, port : 0 .. MaxPort]

\* std::map: m[key] = value.
Put(m, key, value) ==
    [k \in DOMAIN m \cup {key} |-> IF k = key THEN value ELSE m[k]]

Nothing == [k \in {} |-> k]

IsUriMap(m) ==
    /\ DOMAIN m \subseteq Paths
    /\ m \in [DOMAIN m -> ResolvedService]

IsHostMap(m) ==
    /\ DOMAIN m \subseteq Hostnames
    /\ m = [h \in DOMAIN m |-> m[h]]
    /\ \A h \in DOMAIN m : IsUriMap(m[h])

TypeOK ==
    /\ services \in Seq(Service)
    /\ pc \in {"pipeline", "services", "uris", "start", "returned"}
    /\ i \in 1 .. Len(services) + 1
    /\ j \in Nat \ {0}
    /\ IsUriMap(uriMap)
    /\ IsHostMap(hostMap)
    /\ IsHostMap(table)
    /\ result \in {"none", "ok", "error"}

Init ==
    /\ services \in EndPoints
    /\ pc = "pipeline"
    /\ i = 1
    /\ j = 1
    /\ uriMap = Nothing
    /\ hostMap = Nothing
    /\ table = Nothing
    /\ result = "none"

-----------------------------------------------------------------------------
Return(status) ==
    /\ pc' = "returned"
    /\ result' = status

SetPipeline ==
    /\ pc = "pipeline"
    /\ \/ pc' = "services" /\ UNCHANGED result
       \/ Return("error")
    /\ UNCHANGED <<services, i, j, uriMap, hostMap, table>>

\* Faulty variant: one map for all services.
SharedNextService ==
    /\ pc = "services" /\ i <= Len(services)
    /\ j' = 1
    /\ pc' = "uris"
    /\ UNCHANGED <<services, i, uriMap, hostMap, table, result>>

NextService ==
    /\ pc = "services" /\ i <= Len(services)
    /\ uriMap' = Nothing
    /\ j' = 1
    /\ pc' = "uris"
    /\ UNCHANGED <<services, i, hostMap, table, result>>

uris == services[i].uris

\* Faulty variant: an empty host is not skipped.
FaultyUsable(uri) == uri.port > 0 /\ uri.port <= MaxPort

Usable(uri) == uri.host # NoHost /\ uri.port > 0 /\ uri.port <= MaxPort

\* The port is cast to unsigned short.
Resolved(uri) == [ipaddress |-> uri.host, port |-> uri.port % 65536]

SkipUri ==
    /\ pc = "uris" /\ j <= Len(uris)
    /\ ~Usable(uris[j])
    /\ j' = j + 1
    /\ UNCHANGED <<services, pc, i, uriMap, hostMap, table, result>>

\* emplace leaves an entry that is there.
EmplaceUri ==
    /\ pc = "uris" /\ j <= Len(uris)
    /\ Usable(uris[j])
    /\ uriMap' = IF uris[j].path \in DOMAIN uriMap THEN uriMap
                 ELSE Put(uriMap, uris[j].path, Resolved(uris[j]))
    /\ j' = j + 1
    /\ UNCHANGED <<services, pc, i, hostMap, table, result>>

StoreUriMap ==
    /\ pc = "uris" /\ j > Len(uris)
    /\ hostMap' = Put(hostMap, services[i].hostname, uriMap)
    /\ i' = i + 1
    /\ pc' = "services"
    /\ UNCHANGED <<services, j, uriMap, table, result>>

SetApiGatewayConfig ==
    /\ pc = "services" /\ i > Len(services)
    /\ table' = hostMap
    /\ pc' = "start"
    /\ UNCHANGED <<services, i, j, uriMap, hostMap, result>>

Start ==
    /\ pc = "start"
    /\ Return("ok") \/ Return("error")
    /\ UNCHANGED <<services, i, j, uriMap, hostMap, table>>

Next ==
    \/ SetPipeline
    \/ NextService
    \/ SkipUri
    \/ EmplaceUri
    \/ StoreUriMap
    \/ SetApiGatewayConfig
    \/ Start

Spec == Init /\ [][Next]_vars

-----------------------------------------------------------------------------
(* The table by a definition that knows no loop *)

InRange(uri) == uri.port \in 1 .. MaxPort

Names(uri, p) == uri.path = p /\ uri.host # NoHost /\ InRange(uri)

\* Among the first n uris of us, those in m and no others have an entry, which
\* is the address of the first of its path.
MapsUris(m, us, n) ==
    /\ \A p \in Paths : p \in DOMAIN m <=> \E k \in 1 .. n : Names(us[k], p)
    /\ \A p \in DOMAIN m : \E k \in 1 .. n :
          /\ Names(us[k], p)
          /\ \A l \in 1 .. k - 1 : ~Names(us[l], p)
          /\ m[p] = [ipaddress |-> us[k].host, port |-> us[k].port]

MapsHosts(m, ss, n) ==
    /\ \A h \in Hostnames : h \in DOMAIN m <=> \E k \in 1 .. n : ss[k].hostname = h
    /\ \A h \in DOMAIN m : \E k \in 1 .. n :
          /\ ss[k].hostname = h
          /\ \A l \in k + 1 .. n : ss[l].hostname # h
          /\ MapsUris(m[h], ss[k].uris, Len(ss[k].uris))

\* A gateway that has been started routes by the services of its endpoint: a
\* path of a host to the address the first usable uri of the last service of
\* that host gives, its port unchanged by the 16 bits it is kept in, nothing
\* from an unusable uri and nothing from another service.
StartedByItsServices ==
    result = "ok" => MapsHosts(table, services, Len(services))

=============================================================================

--------------------------- MODULE ProxyEndPoints ---------------------------
(***************************************************************************)
(* The proxy endpoints as data: what ResolveProxyServerConfigurations      *)
(* makes of a configuration, which of the running sockets proxySocketsMap  *)
(* leads to, and how updateProxyEndPointService edits a configuration.     *)
(* Sockets are numbered like the endpoints they were started from.         *)
(***************************************************************************)
EXTENDS ConfigParser

CONSTANTS
    InitialConfig,   \* the proxy configuration every socket was started from
    Plugins,         \* pipelines whose plugin library loads
    LibuvPipeline,   \* "ClickHouseLibuvPipeline", see initProxyServers
    Documents,       \* documents that may be posted
    ServiceEdits     \* service requests that may be posted

ASSUME DocumentsAssumption == Documents \subseteq XmlDocument
ASSUME ServiceEditsAssumption == ServiceEdits \subseteq XmlEndPointService
ASSUME LibuvAssumption == LibuvPipeline \in Pipelines

-----------------------------------------------------------------------------
(* ResolveProxyServerConfigurations *)

Hosted(services) == [i \in DOMAIN services |-> services[i].host]

ResolvedEndPoint == [name : EndpointNames, services : Seq(Hosts)]

(***************************************************************************)
(* The resolution throws on a port out of range and when registerPipeline  *)
(* finds no plugin; nothing is returned unless every endpoint resolves.    *)
(***************************************************************************)
Resolvable(config) ==
    \A i \in DOMAIN config : /\ config[i].proxyPort = "inRange"
                             /\ config[i].pipeline \in Plugins

\* Faulty variant: the result of the previous endpoint is not cleared.
FaultyResolve(config) ==
    [i \in DOMAIN config |-> [name |-> config[i].endPointName,
                              services |-> IF i = 1 THEN Hosted(config[1].services)
                                           ELSE Hosted(config[i - 1].services)
                                                    \o Hosted(config[i].services)]]

Resolve(config) ==
    [i \in DOMAIN config |-> [name |-> config[i].endPointName,
                              services |-> Hosted(config[i].services)]]

\* The sockets run, so the configuration they were started from resolved.
ASSUME InitialConfigAssumption ==
    /\ InitialConfig \in ProxyConfig
    /\ Resolvable(InitialConfig)

-----------------------------------------------------------------------------
(* The running sockets: one per endpoint of the initial configuration. *)

Sockets == DOMAIN InitialConfig

Name(s) == InitialConfig[s].endPointName

(***************************************************************************)
(* proxySocketsMap as initProxyServers leaves it: a libuv socket is never  *)
(* entered, and of two endpoints with one name the later overwrites the    *)
(* entry of the earlier.                                                   *)
(***************************************************************************)
Entered(name) ==
    {s \in Sockets : Name(s) = name /\ InitialConfig[s].pipeline # LibuvPipeline}

RegisteredNames == {name \in EndpointNames : Entered(name) # {}}

proxySocketsMap ==
    [name \in RegisteredNames |->
        CHOOSE s \in Entered(name) : \A t \in Entered(name) : t <= s]

-----------------------------------------------------------------------------
(* The edit that updateProxyEndPointService makes to its copy. *)

Matching(config, name) ==
    {i \in DOMAIN config : config[i].endPointName = name}

First(config, name) ==
    CHOOSE i \in Matching(config, name) :
        \A j \in Matching(config, name) : i <= j

\* Faulty variant: only the first service of that name is erased.
FaultyWithout(services, name) ==
    LET named == {i \in DOMAIN services : services[i].name = name}
        i == CHOOSE k \in named : \A n \in named : k <= n
    IN  IF named = {} THEN {services}
        ELSE {SubSeq(services, 1, i - 1) \o SubSeq(services, i + 1, Len(services))}

(***************************************************************************)
(* std::remove_if and erase: the services not called name, in their order. *)
(***************************************************************************)
Without(services, name) ==
    LET kept == {i \in DOMAIN services : services[i].name # name}
        place(i) == Cardinality({j \in kept : j <= i})
    IN  {rest \in [1 .. Cardinality(kept) -> {services[i] : i \in kept}] :
            \A i \in kept : rest[place(i)] = services[i]}

(***************************************************************************)
(* Only the first endpoint with the requested name is edited.  A "delete"  *)
(* removes every service of that name; an "add" appends without looking.   *)
(***************************************************************************)
EditedServices(services, edit) ==
    IF edit.operation = "add"
    THEN {Append(services, service) : service \in ReadService(edit.service)}
    ELSE Without(services, edit.service.name)

Edited(config, edit) ==
    LET first == First(config, edit.name)
    IN  {[config EXCEPT ![first].services = services] :
            services \in EditedServices(config[first].services, edit)}

\* The services of the last endpoint with the given name: the loop of
\* updateProxyServers gives them to the socket last.
LastHosted(config, name) ==
    LET last == CHOOSE i \in Matching(config, name) :
                    \A j \in Matching(config, name) : j <= i
    IN  Hosted(config[last].services)

-----------------------------------------------------------------------------
(***************************************************************************)
(* What an unlocked access may make of m_ProxyConfig while it goes from a  *)
(* to b: as many endpoints, and as many services of each, as the one or    *)
(* the other has, and in each place every field from the one or the other, *)
(* the machine and the port of a backend too.                              *)
(***************************************************************************)
AtEither(a, b, i) == {list[i] : list \in {l \in {a, b} : i \in DOMAIN l}}

MixedService(a, b, i) ==
    LET either == AtEither(a, b, i)
    IN  [name : {s.name : s \in either},
         host : [machine : {s.host.machine : s \in either},
                 port : {s.host.port : s \in either}]]

MixedServices(a, b) ==
    UNION {Picks([i \in DOMAIN l |-> MixedService(a, b, i)]) : l \in {a, b}}

MixedEndPoint(a, b, i) ==
    LET either == AtEither(a, b, i)
    IN  [endPointName : {e.endPointName : e \in either},
         proxyPort : {e.proxyPort : e \in either},
         pipeline : {e.pipeline : e \in either},
         services : UNION {MixedServices(e.services, f.services) :
                              e \in either, f \in either}]

Mixtures(a, b) ==
    UNION {Picks([i \in DOMAIN l |-> MixedEndPoint(a, b, i)]) : l \in {a, b}}

=============================================================================

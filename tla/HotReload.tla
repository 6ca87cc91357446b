----------------------------- MODULE HotReload -----------------------------
(***************************************************************************)
(* Hot reload of the proxy endpoints through the management API.           *)
(*                                                                         *)
(* A worker is a thread of an HTTP protocol server that runs the callback  *)
(* updateConfiguration (a whole XML document) or updateEndPointService     *)
(* (one service added to or deleted from an endpoint).  Both change        *)
(* ConfigSingleton::m_ProxyConfig and then call updateProxyServers, which  *)
(* resolves the whole configuration and rebuilds, socket by socket, the    *)
(* server list of every load balancer registered in proxySocketsMap.       *)
(* Client connections read those lists at any moment, so every state of    *)
(* them is one a connection may be routed by.                              *)
(*                                                                         *)
(* A step is one access to state that several threads see: the parse that  *)
(* assigns m_ProxyConfig, getProxyConfig, setProxyConfig, the resolution,  *)
(* and each call on a socket or on its load balancer.  Accesses to         *)
(* m_ProxyConfig that no lock keeps apart may also overlap (below).        *)
(***************************************************************************)
EXTENDS ProxyEndPoints

CONSTANTS
    Workers,      \* threads that run management callbacks
    MaxServices   \* bound: no "add" is posted beyond that many services

ASSUME MaxServicesAssumption == MaxServices \in Nat

-----------------------------------------------------------------------------
VARIABLES
    proxyConfig,  \* m_ProxyConfig
    target,       \* target[s]: services last given to socket s by SetConfigValues
    servers,      \* servers[s]: server list of the load balancer of socket s
    up,           \* FALSE once the process has died
    pc,           \* pc[w]: what worker w does next
    request,      \* request[w]: the request w works on, or its last one
    reply,        \* reply[w]: status of the last answer, "none" while working
    draft,        \* draft[w]: local copy of the configuration being edited
    resolved,     \* resolved[w]: local result of the resolution
    pos,          \* pos[w]: endpoint of resolved[w] the loop is at
    added,        \* added[w]: how many of its services have been added
    torn          \* history: two accesses to m_ProxyConfig have overlapped, and
                  \* a mixture of two configurations has come of it

live == <<target, servers>>
locals == <<draft, resolved, pos, added>>
vars == <<proxyConfig, target, servers, up, pc, request, reply,
          draft, resolved, pos, added, torn>>

NoRequest == [kind |-> "none"]

Requests ==
    [kind : {"configuration"}, document : Documents]
        \cup [kind : {"service"}, edit : ServiceEdits]

Labels == {"idle", "load", "gateway", "looping", "parse", "get", "set",
           "resolve", "update", "remove", "add"}

TypeOK ==
    /\ proxyConfig \in ProxyConfig
    /\ target \in [Sockets -> Seq(Hosts)]
    /\ servers \in [Sockets -> Seq(Hosts)]
    /\ up \in BOOLEAN
    /\ pc \in [Workers -> Labels]
    /\ request \in [Workers -> Requests \cup {NoRequest}]
    /\ reply \in [Workers -> {"none", "ok", "error"}]
    /\ draft \in [Workers -> ProxyConfig]
    /\ resolved \in [Workers -> Seq(ResolvedEndPoint)]
    /\ pos \in [Workers -> Nat]
    /\ added \in [Workers -> Nat]
    /\ torn \in BOOLEAN

Init ==
    /\ proxyConfig = InitialConfig
    /\ target = [s \in Sockets |-> Hosted(InitialConfig[s].services)]
    /\ servers = target
    /\ up = TRUE
    /\ pc = [w \in Workers |-> "idle"]
    /\ request = [w \in Workers |-> NoRequest]
    /\ reply = [w \in Workers |-> "none"]
    /\ draft = [w \in Workers |-> << >>]
    /\ resolved = [w \in Workers |-> << >>]
    /\ pos = [w \in Workers |-> 0]
    /\ added = [w \in Workers |-> 0]
    /\ torn = FALSE

-----------------------------------------------------------------------------
At(w, label) == up /\ pc[w] = label

Goto(w, label) == pc' = [pc EXCEPT ![w] = label]

\* The callback returns; its locals are gone.
Answer(w, status) ==
    /\ Goto(w, "idle")
    /\ reply' = [reply EXCEPT ![w] = status]
    /\ draft' = [draft EXCEPT ![w] = << >>]
    /\ resolved' = [resolved EXCEPT ![w] = << >>]
    /\ pos' = [pos EXCEPT ![w] = 0]
    /\ added' = [added EXCEPT ![w] = 0]
    /\ UNCHANGED request

WithinBound(r) ==
    (r.kind = "service" /\ r.edit.operation = "add") =>
        \A i \in Matching(proxyConfig, r.edit.name) :
            Len(proxyConfig[i].services) < MaxServices

\* A client posts a document to /configuration or a service to /updateService.
Receive(w) ==
    /\ At(w, "idle")
    /\ \E r \in Requests :
          /\ WithinBound(r)
          /\ request' = [request EXCEPT ![w] = r]
          /\ Goto(w, IF r.kind = "configuration" THEN "load" ELSE "parse")
    /\ reply' = [reply EXCEPT ![w] = "none"]
    /\ UNCHANGED <<proxyConfig, live, up, locals, torn>>

-----------------------------------------------------------------------------
(* updateConfiguration: LoadConfigurationsFromString, outside every lock. *)

Document(w) == request[w].document

Rooted(w) == Document(w).form = "rooted"

ReadsSections(w) ==
    /\ Rooted(w)
    /\ LoadProtocolServerConfigurations(Document(w).protocolServers) = "returns"

\* The XMLError returned for a malformed document is dropped.
LoadMalformed(w) ==
    /\ At(w, "load")
    /\ ~Rooted(w)
    /\ Goto(w, "resolve")
    /\ UNCHANGED <<proxyConfig, live, up, request, reply, locals>>

\* The protocol section comes first: it throws before the proxy section.
LoadThrows(w) ==
    /\ At(w, "load")
    /\ Rooted(w)
    /\ ~ReadsSections(w)
    /\ Answer(w, "error")
    /\ UNCHANGED <<proxyConfig, live, up>>

\* The proxy section is assigned before the gateway section is looked at.
LoadProxySection(w) ==
    /\ At(w, "load")
    /\ ReadsSections(w)
    /\ proxyConfig' \in
          LoadProxyServerConfigurations(Document(w).clusters, proxyConfig)
    /\ Goto(w, "gateway")
    /\ UNCHANGED <<live, up, request, reply, locals>>

GatewayResult(w) == LoadApiGatewayConfigurations(Document(w).gateway)

LoadGatewaySection(w) ==
    /\ At(w, "gateway")
    /\ \/ /\ GatewayResult(w) = "returns"
          /\ Goto(w, "resolve")
          /\ UNCHANGED <<up, request, reply, locals>>
       \/ /\ GatewayResult(w) = "loops"
          /\ Goto(w, "looping")
          /\ UNCHANGED <<up, request, reply, locals>>
       \/ /\ GatewayResult(w) = "throws"
          /\ Answer(w, "error")
          /\ UNCHANGED up
       \/ /\ GatewayResult(w) = "crashes"
          /\ up' = FALSE
          /\ UNCHANGED <<pc, request, reply, locals>>
    /\ UNCHANGED <<proxyConfig, live>>

-----------------------------------------------------------------------------
(* updateEndPointService and updateProxyEndPointService *)

Edit(w) == request[w].edit

LoadEndpointServiceFromString(w) ==
    /\ At(w, "parse")
    /\ \/ /\ ParsesAsEdit(Edit(w))
          /\ Goto(w, "get")
          /\ UNCHANGED <<request, reply, locals>>
       \/ /\ ~ParsesAsEdit(Edit(w))
          /\ Answer(w, "error")
    /\ UNCHANGED <<proxyConfig, live, up>>

\* The edit of the configuration that was read.
EditCopy(w, config) ==
    /\ At(w, "get")
    /\ \/ /\ Matching(config, Edit(w).name) # {}
          /\ \E edited \in Edited(config, Edit(w)) :
                draft' = [draft EXCEPT ![w] = edited]
          /\ Goto(w, "set")
          /\ UNCHANGED <<request, reply, resolved, pos, added>>
       \/ /\ Matching(config, Edit(w).name) = {}
          /\ Answer(w, "error")
    /\ UNCHANGED <<proxyConfig, live, up>>

\* The copy is taken under m_configMutex, which is released before the edit.
GetProxyConfig(w) == EditCopy(w, proxyConfig)

SetProxyConfig(w) ==
    /\ At(w, "set")
    /\ proxyConfig' = draft[w]
    /\ Goto(w, "resolve")
    /\ UNCHANGED <<live, up, request, reply, locals>>

-----------------------------------------------------------------------------
(* updateProxyServers *)

\* Faulty variant: an endpoint that does not resolve stops nothing.
FaultyResolveProxyServerConfigurations(w) ==
    /\ At(w, "resolve")
    /\ resolved' = [resolved EXCEPT ![w] = Resolve(proxyConfig)]
    /\ pos' = [pos EXCEPT ![w] = 1]
    /\ Goto(w, "update")
    /\ UNCHANGED <<request, reply, draft, added, proxyConfig, live, up>>

\* The resolution of the configuration that was read.
ResolveCopy(w, config) ==
    /\ At(w, "resolve")
    /\ \/ /\ Resolvable(config)
          /\ resolved' = [resolved EXCEPT ![w] = Resolve(config)]
          /\ pos' = [pos EXCEPT ![w] = 1]
          /\ Goto(w, "update")
          /\ UNCHANGED <<request, reply, draft, added>>
       \/ /\ ~Resolvable(config)
          /\ Answer(w, "error")
    /\ UNCHANGED <<proxyConfig, live, up>>

ResolveProxyServerConfigurations(w) == ResolveCopy(w, proxyConfig)

Current(w) == resolved[w][pos[w]]

\* Faulty variant: the loop stops one endpoint early.
FaultyRemaining(w) == pos[w] \in DOMAIN resolved[w] /\ pos[w] < Len(resolved[w])

Remaining(w) == pos[w] \in DOMAIN resolved[w]

\* No socket registered: logged, and the loop goes on.
SkipEndPoint(w) ==
    /\ At(w, "update")
    /\ Remaining(w)
    /\ Current(w).name \notin RegisteredNames
    /\ pos' = [pos EXCEPT ![w] = @ + 1]
    /\ UNCHANGED <<proxyConfig, live, up, pc, request, reply,
                   draft, resolved, added>>

\* updateProxyConfig.  Whether SetConfigValues, which lies outside src/, itself
\* adds the services to the load balancer is left open.
SetConfigValues(w) ==
    /\ At(w, "update")
    /\ Remaining(w)
    /\ Current(w).name \in RegisteredNames
    /\ LET s == proxySocketsMap[Current(w).name]
       IN  /\ target' = [target EXCEPT ![s] = Current(w).services]
           /\ \/ UNCHANGED servers
              \/ servers' = [servers EXCEPT ![s] = @ \o Current(w).services]
    /\ Goto(w, "remove")
    /\ UNCHANGED <<proxyConfig, up, request, reply, locals>>

Socket(w) == proxySocketsMap[Current(w).name]

\* Faulty variant: the old servers stay.
FaultyRemoveAllServers(w) ==
    /\ At(w, "remove")
    /\ added' = [added EXCEPT ![w] = 0]
    /\ Goto(w, "add")
    /\ UNCHANGED <<proxyConfig, live, up, request, reply,
                   draft, resolved, pos>>

RemoveAllServers(w) ==
    /\ At(w, "remove")
    /\ servers' = [servers EXCEPT ![Socket(w)] = << >>]
    /\ added' = [added EXCEPT ![w] = 0]
    /\ Goto(w, "add")
    /\ UNCHANGED <<proxyConfig, target, up, request, reply,
                   draft, resolved, pos>>

AddServer(w) ==
    /\ At(w, "add")
    /\ added[w] < Len(Current(w).services)
    /\ servers' = [servers EXCEPT
                      ![Socket(w)] = Append(@, Current(w).services[added[w] + 1])]
    /\ added' = [added EXCEPT ![w] = @ + 1]
    /\ UNCHANGED <<proxyConfig, target, up, pc, request, reply,
                   draft, resolved, pos>>

\* Faulty variant: the loop over the services may be left early.
HastyNextEndPoint(w) ==
    /\ At(w, "add")
    /\ pos' = [pos EXCEPT ![w] = @ + 1]
    /\ Goto(w, "update")
    /\ UNCHANGED <<proxyConfig, live, up, request, reply,
                   draft, resolved, added>>

\* Faulty variant: the loop over the endpoints does not advance.
StuckNextEndPoint(w) ==
    /\ At(w, "add")
    /\ added[w] = Len(Current(w).services)
    /\ Goto(w, "update")
    /\ UNCHANGED <<proxyConfig, live, up, request, reply,
                   draft, resolved, pos, added>>

NextEndPoint(w) ==
    /\ At(w, "add")
    /\ added[w] = Len(Current(w).services)
    /\ pos' = [pos EXCEPT ![w] = @ + 1]
    /\ Goto(w, "update")
    /\ UNCHANGED <<proxyConfig, live, up, request, reply,
                   draft, resolved, added>>

AllUpdated(w) ==
    /\ At(w, "update")
    /\ ~Remaining(w)
    /\ Answer(w, "ok")
    /\ UNCHANGED <<proxyConfig, live, up>>

-----------------------------------------------------------------------------
(***************************************************************************)
(* Accesses to m_ProxyConfig.  getProxyConfig and setProxyConfig hold      *)
(* m_configMutex; the load and the resolution do not.  Two conflicting     *)
(* accesses that nothing orders are a data race: besides the outcomes of   *)
(* the steps in either order, the reader may get a mixture of the old and  *)
(* the new configuration, two writers may leave a mixture of theirs, and   *)
(* following a pointer into what is being replaced can end the process.    *)
(* Bound: an access overlaps with one other.                               *)
(***************************************************************************)
Writes(w) ==
    \/ At(w, "load") /\ ReadsSections(w) /\ ~Rejected(Document(w).clusters)
    \/ At(w, "set")

Reads(w) == At(w, "get") \/ At(w, "resolve")

Locked(w) == pc[w] \in {"get", "set"}

Racing(v, w) ==
    /\ v # w
    /\ Writes(v)
    /\ Writes(w) \/ Reads(w)
    /\ ~(Locked(v) /\ Locked(w))

Written(w) ==
    IF pc[w] = "set" THEN {draft[w]}
    ELSE LoadProxyServerConfigurations(Document(w).clusters, proxyConfig)

\* w reads while v is about to assign, or assigning, another configuration.
TornRead(v, w) ==
    /\ Racing(v, w)
    /\ \E new \in Written(v) : \E config \in Mixtures(proxyConfig, new) :
          EditCopy(w, config) \/ ResolveCopy(w, config)
    /\ torn' = TRUE

AfterWrite(w) == IF pc[w] = "set" THEN "resolve" ELSE "gateway"

TornWrite(v, w) ==
    /\ Racing(v, w) /\ Writes(w)
    /\ \E a \in Written(v), b \in Written(w) : proxyConfig' \in Mixtures(a, b)
    /\ pc' = [pc EXCEPT ![v] = AfterWrite(v), ![w] = AfterWrite(w)]
    /\ torn' = TRUE
    /\ UNCHANGED <<live, up, request, reply, locals>>

\* Loads assign m_ProtocolServerConfig and m_ApiGatewayServerConfig as well.
WritesOtherSection(w, label) ==
    \/ /\ label = "load" /\ At(w, "load") /\ Rooted(w)
       /\ \A i \in DOMAIN Document(w).protocolServers :
             Document(w).protocolServers[i] = "complete"
    \/ label = "gateway" /\ At(w, "gateway") /\ GatewayResult(w) = "returns"

LoadsCollide(v, w) ==
    /\ v # w
    /\ \E label \in {"load", "gateway"} :
          WritesOtherSection(v, label) /\ WritesOtherSection(w, label)

Race ==
    /\ \E v, w \in Workers : Racing(v, w) \/ LoadsCollide(v, w)
    /\ up' = FALSE
    /\ UNCHANGED <<proxyConfig, live, pc, request, reply, locals, torn>>

-----------------------------------------------------------------------------
Act(w) ==
    \/ LoadMalformed(w)
    \/ LoadThrows(w)
    \/ LoadProxySection(w)
    \/ LoadGatewaySection(w)
    \/ LoadEndpointServiceFromString(w)
    \/ GetProxyConfig(w)
    \/ SetProxyConfig(w)
    \/ ResolveProxyServerConfigurations(w)
    \/ SkipEndPoint(w)
    \/ SetConfigValues(w)
    \/ RemoveAllServers(w)
    \/ AddServer(w)
    \/ NextEndPoint(w)
    \/ AllUpdated(w)

Step(w) == Act(w) /\ UNCHANGED torn

Next ==
    \/ \E w \in Workers : Receive(w) \/ Step(w)
    \/ \E v, w \in Workers : TornRead(v, w) \/ TornWrite(v, w)
    \/ Race

Spec == Init /\ [][Next]_vars

\* A thread that runs a callback keeps running; clients need not post anything.
FairSpec == Spec /\ \A w \in Workers : WF_vars(Step(w))

-----------------------------------------------------------------------------
(* What the hot reload promises *)

NamedHosts(name) ==
    UNION ({{InitialConfig[i].services[j].host :
                j \in DOMAIN InitialConfig[i].services} :
            i \in Matching(InitialConfig, name)}
        \cup {ReadHost(e.service) : e \in {f \in ServiceEdits : f.name = name}}
        \cup UNION {UNION {{ReadHost(x.services[j]) : j \in DOMAIN x.services} :
                        x \in {d.clusters.endPoints[i] :
                                  i \in {k \in DOMAIN d.clusters.endPoints :
                                          d.clusters.endPoints[k].name = name}}} :
                     d \in Documents})

\* A connection to one endpoint is never routed to a backend that only other
\* endpoints were ever given, whatever the reloads in progress and however the
\* loops of updateProxyServers interleave over the shared sockets.  The one
\* thing that can bring it about is a configuration torn by the unlocked
\* accesses to m_ProxyConfig, with the name of one endpoint and the services
\* of another.
NoCrossTalk ==
    ~torn => \A s \in Sockets : \A k \in DOMAIN servers[s] :
                 servers[s][k] \in NamedHosts(Name(s))

Quiet == up /\ \A w \in Workers : pc[w] = "idle"

\* Once every callback has returned and none of the last answers was an error,
\* the load balancer of a registered socket holds exactly the services of the
\* (last) endpoint of its name in m_ProxyConfig: configuration and traffic
\* have not drifted apart, after whatever sequence of reloads, rejected
\* documents, edits and refusals came before.
LiveMatchesConfig ==
    (Quiet /\ \A w \in Workers : reply[w] # "error") =>
        \A name \in RegisteredNames :
            Matching(proxyConfig, name) # {} =>
                servers[proxySocketsMap[name]] = LastHosted(proxyConfig, name)

Rebuilding(s) ==
    \E w \in Workers : pc[w] \in {"remove", "add"} /\ Socket(w) = s

\* updateProxyConfig replaces a list as a whole.  Outside a rebuild the load
\* balancer of a socket holds exactly the services the socket was last
\* configured with.  A socket is configured anew only when its list is whole,
\* and then has the old list, or the old one and after it the new; next it has
\* none, and then the services it was configured with one by one in their
\* order.  It never has only a part of the old list, and a new service never
\* stands beside a part of the old ones.
RebuiltAsAWhole ==
    /\ [](\A s \in Sockets : ~Rebuilding(s) => servers[s] = target[s])
    /\ [][\A s \in Sockets :
             \/ UNCHANGED <<target[s], servers[s]>>
             \/ /\ servers[s] = target[s]
                /\ servers'[s] \in {servers[s], servers[s] \o target'[s]}
             \/ /\ UNCHANGED target[s]
                /\ \/ servers'[s] = << >>
                   \/ \E n \in 1 .. Len(target[s]) :
                         /\ servers[s] = SubSeq(target[s], 1, n - 1)
                         /\ servers'[s] = SubSeq(target[s], 1, n)]_vars

\* A configuration that does not resolve (a port out of range, a pipeline
\* without plugin) stays in m_ProxyConfig, but the sockets keep serving what
\* they served: as long as it is there no list changes.
PoisonedConfigLeavesTraffic ==
    [][~Resolvable(proxyConfig) => UNCHANGED live]_vars


Kept(name, service) ==
    UNION {{proxyConfig[i].services[j].host :
               j \in {k \in DOMAIN proxyConfig[i].services :
                         proxyConfig[i].services[k].name # service}} :
           i \in Matching(proxyConfig, name)}

\* When a delete has been answered "ok" and nothing else is going on, the
\* sockets of the endpoint route only to its other services.
DeletedNotServed ==
    Quiet => \A w \in Workers :
        (/\ reply[w] = "ok"
         /\ request[w].kind = "service"
         /\ Edit(w).operation = "delete") =>
            \A s \in Sockets : Name(s) = Edit(w).name =>
                \A k \in DOMAIN servers[s] :
                    servers[s][k] \in Kept(Name(s), Edit(w).service.name)

\* A delete that was answered "ok" has reached the traffic: while nothing else
\* is going on and the endpoint is the only one of its name, the socket that
\* proxySocketsMap leads to routes to its other services alone.
DeleteTakesEffect ==
    Quiet => \A w \in Workers :
        (/\ reply[w] = "ok"
         /\ request[w].kind = "service"
         /\ Edit(w).operation = "delete"
         /\ Edit(w).name \in RegisteredNames
         /\ Cardinality(Matching(proxyConfig, Edit(w).name)) = 1) =>
            LET list == servers[proxySocketsMap[Edit(w).name]]
            IN  \A k \in DOMAIN list :
                    list[k] \in Kept(Edit(w).name, Edit(w).service.name)

\* A document without the root element, or that is not XML, is not acknowledged.
MalformedNotAcknowledged ==
    \A w \in Workers :
        (reply[w] = "ok" /\ request[w].kind = "configuration") =>
            Document(w).form = "rooted"

(***************************************************************************)
(* How much of its callback worker w has before it: the stages to come,    *)
(* and in updateProxyServers the endpoints the loop has not left, the      *)
(* calls on the socket of this one, and its services not yet added.        *)
(***************************************************************************)
Stages == [load |-> 5, parse |-> 5, get |-> 4, set |-> 3, gateway |-> 3,
           resolve |-> 2, update |-> 1, remove |-> 1, add |-> 1,
           idle |-> 0, looping |-> 0]

Calls(label) == CASE label = "update" -> 2 [] label = "remove" -> 1 [] OTHER -> 0

ServicesLeft(w) ==
    IF pc[w] = "add" THEN Len(Current(w).services) - added[w] ELSE 0

Rank(w) == <<Stages[pc[w]], Len(resolved[w]) + 1 - pos[w],
             Calls(pc[w]), ServicesLeft(w)>>

Ranks == Nat \X Nat \X Nat \X Nat

\* The order of a dictionary.
Lower(a, b) ==
    \E k \in DOMAIN b : a[k] < b[k] /\ \A l \in 1 .. k - 1 : a[l] = b[l]

own(w) == <<pc[w], request[w], reply[w], draft[w], resolved[w], pos[w], added[w]>>

\* A callback always comes nearer to its answer: whatever it does lowers its
\* rank, the loops of updateProxyServers included, and nothing another callback
\* does, not even a new m_ProxyConfig, gives it more to do.
CallbacksConverge ==
    [][\A w \in Workers : pc[w] # "idle" =>
          \/ UNCHANGED own(w)
          \/ Rank(w)' \in Ranks /\ Lower(Rank(w)', Rank(w))]_vars

\* Every posted request is answered.
RequestAnswered ==
    \A w \in Workers : pc[w] # "idle" ~> pc[w] = "idle"

\* A socket that is being given services does not stay without a server.
EmptyListRefilled ==
    \A s \in Sockets :
        (servers[s] = << >> /\ target[s] # << >>) ~> servers[s] # << >>

=============================================================================

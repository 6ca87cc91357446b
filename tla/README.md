# A formal model of Chista Asabru

Asabru is a protocol-aware database proxy.  This directory holds TLA+ models of
the code under `src/src`: the part of the proxy that reads a configuration,
starts servers from it with the plugins they need, guards and answers the
requests of its management interface, and changes the configuration of running
servers on request.  TLC checks the models on small instances; TLAPS proves the
theorems of the `...Proofs` modules for every instance.

Source paths below are relative to the repository.

## 1. The system

### Components, their state and their operations

| Component | Source | State | Operations | Modules |
|---|---|---|---|---|
| Configuration parser | `src/config/ConfigParser.cpp`, `ApiGatewayConfigParser.cpp`, `ConfigTypes.h` | none; writes into the configuration it is given | `ParseConfiguration` and its three section loaders, `ParseEndPointServiceConfiguration` | `ConfigParser` |
| Configuration singleton | `src/config/ConfigSingleton.{h,cpp}` | `m_ProxyConfig`, `m_ProtocolServerConfig`, `m_ApiGatewayServerConfig`, `m_configMutex`, three socket maps | constructor (download, load), `LoadConfigurationsFromString`, `LoadEndpointServiceFromString`, `get/setProxyConfig`, `getApiGatewayConfig`, `Resolve...` | `ProxyEndPoints`, `HotReload`, `ConfigBoot` |
| Hot reload | `src/proxy_server.h`, `src/protocol_server.h` | list of servers of each load balancer | `updateConfiguration`, `updateEndPointService`, `updateProxyEndPointService`, `updateProxyServers`, `updateProxyConfig` | `HotReload`, `HotReloadRefinement`, `ServiceDirectory` |
| Start-up and shutdown | `src/main.cpp`, `proxy_server.h`, `protocol_server.h`, `api_gateway_server.h` | sockets, socket maps, signal mask, pending signal | `setupSignalHandlers`, `initProxyServers`, `initProtocolServers`, `initApiGatewayServers`, `sigwait`, exit | `Startup`, `ProcessLife` |
| Boot configuration | `ConfigSingleton.cpp` (`DownloadConfigFile`, `LoadConfigurationsFromFile`) | the file at `CONFIG_FILE_PATH` | download, load | `ConfigBoot` |
| Route handling | `src/protocol_server.h`, the request lambda of `initProtocolServers`; `<auth>` in `ConfigParser.cpp` and `ConfigSingleton.cpp` | the registered routes with what they captured; a `ComputationContext` per request | authenticate, authorize, dispatch, answer | `RouteHandling` |
| Pipeline factory | `src/config/PipelineFactory.{h,cpp}` | a map of functions per kind of socket; open libraries | `updateLibs`, `registerPipeline`, `GetPipeline` | `PipelineFactory`; the constant `Plugins` of `ProxyEndPoints` |
| API gateway table | `src/api_gateway_server.h`, `startGatewayServer` | map from host name and path to an address | build, copy into the socket | `GatewayTable` |
| Load-balancer factory | `src/config/LoadBalancerFactory.h` | a map filled once, in the constructor | look-up | not modelled |

`asabru-commons`, `asabru-engine`, `asabru-parsers` and `asabru-handlers` are git
submodules without content here.  They hold the sockets, thread pools, load
balancers and protocol parsers.  What `src/src` does to them (`SetConfigValues`,
`removeAllServers`, `addServer`, `Start`, ...) is modelled from its use.

### How the components interact

* The constructor of `ConfigSingleton` runs before `main`: it downloads a
  document to a file and loads that file (`ConfigBoot`).
* `main` blocks the termination signals, runs the three init functions and waits
  for a signal (`Startup`).  Each init function resolves its part of the
  configuration, creates one socket per entry, enters it in a socket map and
  starts it; from then on the socket has threads of its own.
* A protocol server calls `updateConfiguration` and `updateEndPointService` on
  one of its threads.  They parse into the singleton, resolve the whole proxy
  configuration and rebuild, through `proxySocketsMap`, the list of servers of
  each load balancer, while connections are being routed by these lists
  (`HotReload`).  They are reached from the handler of a route, behind the
  authentication and the authorization that the route asks for (`RouteHandling`).
* To resolve a configuration is also to register its pipelines: `main` does so for
  each kind of server before it starts them, and every hot reload does so for the
  proxies, while proxies run and `main` may still be at the gateways
  (`PipelineFactory`).
* `initApiGatewayServers` gives each gateway the table it routes by, built from the
  services of its endpoint (`GatewayTable`).

### What is hard here

* **Concurrency.**  `m_configMutex` guards a copy-out and a copy-in, not the edit
  between them, and neither the load nor the resolution takes it.  Lists of
  servers are emptied and refilled under traffic.  A hot reload can run while
  `main` is still starting servers, or destroying static objects.  The maps of
  plugin functions have no lock at all.  Requests share handlers and strategies.
* **Failure in the middle.**  A document is three sections and the loaders of two
  of them can throw, crash or loop after another section has been replaced.  A
  configuration can be installed and only then turn out not to resolve.
* **Check and use.**  A route checks by a copy made at start-up, and its handler may
  replace what the copy was made from; a strategy may throw or leave nothing.
* **Crash and restart.**  The file is truncated before the download; hot
  reloads are not persisted.
* **Order.**  Threads inherit the signal mask; map entries must go before their
  socket is deleted; two endpoints may share a name, two services a host name.

`PROJECT.json` lists each of these hazards at its line, with the property that
is about it or the reason why there is none.

## 2. The modules

| Module | What it is |
|---|---|
| `ConfigParser` | Pure: which sections a document replaces and how the parse ends. |
| `ProxyEndPoints` | Pure: `ResolveProxyServerConfigurations`, `proxySocketsMap`, the edit of `updateProxyEndPointService`. |
| `HotReload` | The state machine of any number of callbacks; the properties of hot reload. |
| `ServiceDirectory` | Abstract: one atomic change of a directory per request; whole lists; "ok" only when lists and directory agree. |
| `HotReloadRefinement` | The mapping by which `HotReload` with one writer implements `ServiceDirectory`; a crash or an endless loop in the gateway section comes after the commit. |
| `Startup` | One process from `main` to its exit, with signals, failures, and a hot reload in between; at its end, the mapping by which it implements `ProcessLife`. |
| `ProcessLife` | Abstract: servers come up in order and stay; a process whose servers all run ends only by a signal or by a request that crashes it, and no signal is lost. |
| `ConfigBoot` | Many processes one after the other, the configuration file between them. |
| `RouteHandling` | From a `<protocol-server>` element to the requests its routes answer. |
| `PipelineFactory` | Plugins, the dynamic linker, and the threads that register. |
| `GatewayTable` | `startGatewayServer`, for one endpoint. |
| `ProxyEndPointsProofs`, `HotReloadProofs`, `SingleWriterProofs` | Lemmas on the data; theorems for any number of writers; theorems for one. |
| `StartupProofs`, `ConfigBootProofs`, `RouteHandlingProofs`, `PipelineFactoryProofs`, `GatewayTableProofs` | The theorems about the module each is named after. |
| `MC...` | Instances for TLC. |

Definitions called `Faulty...`, `Hasty...`, `Stuck...` and the like are variants of
the definition below them with a plausible bug.  They are part of no
specification; each is there to show that a property notices the bug.

### ConfigParser

Elements stand for themselves as records; of their text only what the parsers
test is kept: `PROXY_PORT` is absent, not a number, out of range or in range, the
`PORT` of a `SERVICE` is absent, not a number or one of `BackendPorts`, a gateway
`end-point` is known by the first thing in it the code does not survive.
`LoadProxyServerConfigurations` is a set of results, because a missing `PROXY_PORT`
or `PORT` leaves an `int` uninitialised: any port.  So is an edit that adds a service
without a port.  Clusters are concatenated: every loop over them visits cluster by
cluster, in order.

### HotReload

| Variable | Code |
|---|---|
| `proxyConfig` | `ConfigSingleton::m_ProxyConfig` |
| `target[s]`, `servers[s]` | what `SetConfigValues` last gave to socket `s`; the list of its load balancer |
| `up` | the process lives |
| `pc[w]`, `request[w]`, `reply[w]` | where thread `w` is in a callback; the body it was given; what it answered |
| `draft[w]`, `resolved[w]`, `pos[w]`, `added[w]` | the locals of the callback: edited copy, resolved configuration, and the two loop counters |
| `torn` | history: two accesses to `m_ProxyConfig` have overlapped and a mixture has come of it |

A step is one access to state that other threads see.  `LoadMalformed`,
`LoadThrows`, `LoadProxySection` and `LoadGatewaySection` are
`LoadConfigurationsFromString`, the assignment of `m_ProxyConfig` and what comes
after it being two steps; `LoadEndpointServiceFromString`, `GetProxyConfig` (copy,
search, edit) and `SetProxyConfig` are `updateEndPointService` and
`updateProxyEndPointService`; `ResolveProxyServerConfigurations`, `SkipEndPoint`,
`SetConfigValues`, `RemoveAllServers`, `AddServer`, `NextEndPoint` and `AllUpdated` are
`updateProxyServers` with `updateProxyConfig`.

The load assigns `m_ProxyConfig` and the resolution reads it without the mutex.  Two
such accesses of two workers may overlap (`Racing`).  Then, besides the outcomes of
either order, which the other actions give:

* `TornRead`: the reader, `getProxyConfig` or the resolution, gets a mixture of the old
  configuration and the one being assigned (`Mixtures`): as many endpoints, and as
  many services of each, as the one or the other has, and in each place the name,
  the port, the pipeline, and of each service the name, the machine and the port
  from the one or the other;
* `TornWrite`: two writers leave a mixture of what they write;
* `Race`: the process ends.  So it may when two loads assign the protocol or the
  gateway section at once (`LoadsCollide`).

Two decisions on code that is not in the repository: whether
`CProxySocket::SetConfigValues` itself adds the services to the load balancer is
left open (both are tried); and every socket in the map has a load balancer of its
own, since `updateProxyConfig` uses it without a test.

### Startup

`stage` and `step` say where `main` is; `sockets[k]` and `maps[k]` are the sockets
and the socket map of each kind; `blocked`, `exposed` and `signal` are the signal
mask of `main`, whether any thread was started without it, and the signal;
`callback` is one management thread, of which only the accesses that matter here
are kept (`HotReload` has the rest), the crash in the gateway section among them.
`CreateSocket`, `StartSucceeds`, `StartFails`
and `AllStarted` are the loop that all three init functions share.  `Return` begins
the destruction of static objects and `Exit` ends it; a callback that is still at
work may go on in between, or bring the process down (`UseOfDestroyedStatics`).

`getApiGatewayConfig` copies under the mutex what a callback assigns without it.  When
the two overlap, the copy may be a mixture of the end-points of two documents
(`TornCopy`, with the history variable `torn`), or end the process
(`GatewayConfigRace`).

Threads are those that servers start.  It is assumed that the static objects of the
submodules (`ThreadPoolSingleton` in `main.cpp`, the loggers) start none before the
signals are blocked, and that their destructors join none; both would change what
`ServersNotCutOff` and `ShutdownHonoured` say.

### ConfigBoot

`file` is what is at `CONFIG_FILE_PATH`: a document, nothing, an empty file, a part
of a document, or the body of an HTTP error response.  `Down` is the end of the
process, by a kill or by an exception that leaves the constructor.  Without a
`CONFIG_FILE_URL` the file is only read, and nothing here applies.

### RouteHandling

| Variable | Code |
|---|---|
| `boot`, `loaded` | the element the server was started from; the one now in `m_ProtocolServerConfig` |
| `handlers` | the registered routes, each with the `route` and the `cfg` its lambda captured |
| `pc[t]`, `path[t]` | the request of thread `t`: where in the lambda it is, which route it took |
| `granted[t]` | what the strategies have left in its `ComputationContext` |
| `changed[t]`, `reply[t]` | whether its handler has called `update_configuration` or the like; the answer |

`Required` and `LoadRoute` are the `<auth>` part of `LoadProtocolServerConfigurations`,
`ResolveProtocolServer` that of `ResolveProtocolServerConfigurations`.  `Authenticate`
and `Authorize` dispatch an external handler: it grants, refuses or throws.  The
lambda catches a missing result of the second but not of the first, which is why
one may be "thrown" where the other is a refusal.  Assumed of these two handlers:
they do not themselves call the update functions, which are in their context too.
What a reload does to the lists of servers is `HotReload`'s; here it only replaces
`loaded`.

### PipelineFactory

`file[p]` is what the library of pipeline `p` is on disk and changes at any moment: no
library, one without the function, one whose symbol is null (`dlsym` returns null and
no error), or a plugin.  `image[p]` is what of it is mapped, `handles[p]` how often it is
open.  `functions[k]` are the pipelines for which the map of kind `k` has a function; an
entry that is null is the same to the code as none.  `FindLibrary`, `Dlopen`, `Dlsym`,
`InsertFunction` and `GetPipeline` are `loadPipeline` and the look-up after it, one
access to a map or one call of the linker each; `todo[t]` are the pipelines that
thread `t` still has to register.  A null symbol is never found again, so that each
registration opens its library once more.

The maps have no lock.  An insertion and another access to the same map may end the
process (`Race`); the other access may not find an entry that is there, and one of two
insertions may be lost (`MissEntry`, which sets `raced`).

Of the linker it is assumed that a library that is mapped is not read again, and goes
with its last handle.  A function is looked up by the name the library has, so the
two names of `libnameothy` are one.

### GatewayTable

`services`, `i` and `j` are the endpoint and the two loops over it; `uriMap`, `hostMap`
and `table` the map of a service, the map of them all, and what the socket was
given.  A port is any integer, since `<port>` may be missing; `emplace` keeps the
first address of a path, `hostMap[...] =` the last service of a host name.

## 3. The checks

Sizes are distinct states.  `hot_reload_pair` and `pipeline_factory` take a minute or so,
the others seconds.

| Run | Instance | What it shows |
|---|---|---|
| `hot_reload` | 1 worker, fair; endpoints `wire` (threaded), `http` (its name twice) and `fast` (libuv), as in `config.xml.sample`; 10 documents (one without any port), 6 edits (one without a port), at most 2 services by adds; 26 104 | `LiveMatchesConfig`: after any sequence of reloads, rejected documents, edits and refusals, if the last answer was no error the lists agree with `m_ProxyConfig`.  `RebuiltAsAWhole`: a list is whole outside a rebuild; in one it goes from the old list, with or without the new one after it, to none and then service by service to the new one.  `DeleteTakesEffect`: a service whose delete was answered with ok is no longer routed to, though it was added twice.  `PoisonedConfigLeavesTraffic`: a configuration that does not resolve changes no list.  `RequestAnswered`,  `EmptyListRefilled`: no request and no list is left half done.  `ImplementsServiceDirectory`: all of it looks like one atomic change per request. |
| `hot_reload_pair` | 2 workers, 2 endpoints, 3 documents that have one endpoint where the initial configuration has another (one crashes, one loops), 1 edit; 917 357 | `NoCrossTalk` with interleaved loops, races and crashes, as long as no configuration has been torn; without that condition TLC finds cross-talk in this very instance.  `CallbacksConverge`: each step of a callback lowers its rank, on torn configurations too, and no other callback raises it. |
| `startup` | 4 proxies (one libuv, one name twice), 2 protocol servers of one name, 2 gateways, another document of 3; 1 250 | `MapsLeadToSockets`, `ReloadFindsEverySocket`, `ServersNotCutOff`; `GatewaysOfOneDocument`: the gateways are those of one document and in its order, unless a reload tore the copy; `ShutdownHonoured`: a pending signal ends the process even with a hot reload at work that never returns.  `ImplementsProcessLife`: whatever fails, throws, crashes or is reloaded, the process seen from outside is a `ProcessLife`. |
| `config_boot` | 2 documents, 2 kills; 336 | `ServesWhatItDownloaded`, `ComesBack`. |
| `route_handling` | 2 routes, the first open to everybody, the second and the server in all shapes; 2 requests at once; 313 128 | `HandlersGuarded`, `RefusedWithoutEffect`; `RefusedOnlyOnDemand`: a refusal has its reason in the element the server was started from. |
| `pipeline_factory` | 3 pipelines, one without a library, one only in reloads; `main` and 2 callbacks (symmetric), at most 4 handles when a reload begins; 1 409 328 | `FunctionsAreMapped`, `MainNeverRaces`; `FoundStaysTrue`: what a thread found in one step holds in the next, but for a null symbol and entries a race has lost; `HandlesAccountedFor`: with the same two exceptions handles do not pile up. |
| `gateway_table` | all endpoints of up to 2 services of up to 2 uris, out of 6 with ports at and beyond both ends of the range; 101 641 | `StartedByItsServices`: the table is that of a definition without loops. |

Runs that TLC is expected to find a violation in: the code does not do what the
repository says of it.

| Run | What the trace shows |
|---|---|
| `reload_malformed` | A document without the root element: its `XMLError` is dropped and the client is told "ok". |
| `reload_loops` | A gateway `end-point` without `services`: `continue` tests the same element for ever, and the request is never answered. |
| `delete_from_libuv` | A delete on a libuv endpoint: the configuration changes, the socket (in no map) keeps routing to the service, the client is told "ok". |
| `reload_lost_update` | A document is loaded between `getProxyConfig` and `setProxyConfig` of another callback, and lost. |
| `download_error_page` | The server answers with an HTTP error page; its body is in the file when the transfer counts as a success. |

### Why the bounds are enough

* Two endpoints are the least with which a wrong list, a loop that stops early
  and a name that is used twice differ from their right counterparts; two
  services per endpoint are the least with which order and a delete matter.
* The documents include every way a parse can end, in every section, before and
  after the assignment of `m_ProxyConfig`.
* `MaxServices` bounds only how often an add is posted; nothing in the code counts
  services.  With 2 an add that is repeated gives the name twice.
* An unlocked access to `m_ProxyConfig` overlaps with one other, and mixes fields,
  not the bytes of one field; a torn copy of the gateways mixes whole end-points.
* `MaxHandles` bounds when a reload begins; without a null symbol or a lost
  entry no library of the instance comes to more than three (one per map, or one for
  `main` and one for each callback), so it cuts off nothing but the pile.
* Two workers are enough for every conflict of two; three add no access that is
  not among the pairs.  `NoCrossTalk` is proved for any number.
* Two uris and two services are the least in which something comes first and
  last; the loops look at no more than one uri and the maps.  Proved for any
  number.
* Two requests are the least of which one can leave something for the other; two
  callbacks the least that can load one plugin at the same time.
* `MaxKills` bounds kills from outside: `ComesBack` needs them to be finite.
  Failures of the download itself are not bounded.

Deadlock is checked except where the system may really stop: a process that has
died (`hot_reload_pair`, `pipeline_factory`), ended (`startup`, `gateway_table`) or
loops for ever (`reload_loops`).

### Fairness

* `HotReload`: `WF(Step(w))` for each worker.  A callback is straight-line code on a
  thread of its own and waits for nothing but a mutex held over a copy.
  Clients need not post anything.
* `Startup`: `WF(Main)`.  `main` is one thread.  Signals and requests need not come, and
  nothing is assumed of callbacks: they may hang.
* `ConfigBoot`: weak fairness on starting (`docker-compose.yaml` sets `restart:
  unless-stopped`), closing and loading; strong fairness on an opened file, a
  delivered transfer and a flushed buffer: what can always go well again does in
  the end.  Without that no program could promise to come back.

## 4. The proofs

`ProxyEndPointsProofs` proves, for every configuration, document and edit: the
results of `Resolve`, `LoadProxyServerConfigurations`, `Without`, `Edited` and `Mixtures` are
of their types; an edit whose endpoint is found has a result, and exactly one unless
it adds a service without a port (**`EditsAreDetermined`**), so that `Edited`, a set in the
model, is then a function of the configuration and the request; `First` finds a
match when there is one; `proxySocketsMap` leads to a socket that was started for an endpoint of the name.
`CHOOSE` and `Cardinality` are dealt with through well-founded minima and the
library of finite sets.

`HotReloadProofs` proves of `Spec`, for any set of workers and any values of the
other constants that satisfy the named assumptions:

* **`TypeCorrect`**: `Spec => []TypeOK`.  `TypeOK` is not inductive: `AddServer` indexes
  `resolved[w]` by `pos[w]`, and `LoadProxySection` reads a field that only a posted
  document has.  `TypeInv` adds `LabelsOK`, what `pc[w]` says about the locals of `w`:
  in "load" the request is a document, in "parse", "get" and "set" it is an edit,
  in "remove" and "add" the loop is at an endpoint that has a socket.
* **`CrossTalkFree`**: `Spec => []NoCrossTalk`.  `NoCrossTalk` speaks of the lists alone;
  `NamedInv` adds that every host in `m_ProxyConfig`, in each draft and in each
  resolved configuration is one the endpoint of that name was given, and the
  step that adds to a list uses that `proxySocketsMap` goes by the name.  `UntornInv` is
  `NamedInv` as long as no access has been torn: a mixture may have the name of one
  endpoint and the services of another, and then there is cross-talk.  Loops may
  interleave in any way, where `RebuiltAsAWhole` and `LiveMatchesConfig` do not hold.
* **`EveryCallbackConverges`**: `Spec => CallbacksConverge`.  The rank of a callback is
  four natural numbers compared in order: the stages left, the endpoints left, the
  calls left at an endpoint, and the services left to add.  `LoopInv` bounds `pos` and `added`
  by what the callback itself has resolved, which is why another callback that
  replaces `m_ProxyConfig` cannot prolong the loop.
* **`CallbacksNeverStuck`**: in a process that lives, a callback at work has a step,
  unless it is in the loop of the parser.  `ENABLED` is beyond the prover, so the theorem
  is about `HasStep(w)`, the guards of the actions written out; that `HasStep(w)` and
  `ENABLED Step(w)` are the same was checked with TLC on the instance of `hot_reload_pair`.
* **`OnlyServicelessLoops`**: a callback is in that loop only on a document with a
  gateway `end-point` without `services` that the parser comes to, the cause that
  `reload_loops` shows.

The last three together are the safety part of `RequestAnswered`.  A dictionary order on
four natural numbers has no endless descent, so a callback that is scheduled has
finitely many steps to its answer, and each of them can be taken.
The step from there to `~>` needs fairness and stays with TLC.

`SingleWriterProofs` adds the assumption that `ConfigSingleton.h` states in its
header, one thread that runs the callbacks (`SingleWriterAssumption`).  Its
theorems are false without it:

* **`PoisonedConfigHarmless`**: `Spec => PoisonedConfigLeavesTraffic`, by `ResolvedInv`: in the
  loops of `updateProxyServers` the configuration in the singleton is one that
  resolved.
* **`ListsReplacedAsAWhole`**: `Spec => RebuiltAsAWhole`, by `ListsInv`: a socket that is
  being rebuilt was last configured with the services the loop goes through,
  and has got the first `added` of them.  The steps of a list in a rebuild follow from
  it action by action.
* **`TrafficFollowsConfig`**: `Spec => []LiveMatchesConfig`, from `ListsInv` and
  `PublishedInv`: while the writer goes through the endpoints, `resolved` is what
  `m_ProxyConfig` resolves to, and of the endpoints already passed the last of each
  registered name is the one its socket was configured with.  That sockets of
  two names are two sockets keeps one endpoint from undoing another.  The
  theorem has an assumption, `LibuvNamesApart`: no threaded endpoint of the initial
  configuration shares its name with a libuv one.  `initProxyServers` never enters
  the libuv socket in the map, so with such a name the map leads to the threaded
  socket while the last endpoint of the name is the libuv one, and configuration
  and traffic disagree before the first request.
* **`DeletesReachTraffic`**: `Spec => []DeleteTakesEffect`, by `DeletedInv`: from
  `setProxyConfig` to the next request the first endpoint of the name has no service
  of the deleted name, which is what `remove_if` and `erase` leave.
* **`HotReloadImplementsDirectory`**: `Spec => ImplementsServiceDirectory`.  Under the
  mapping of `HotReloadRefinement` the lists are what the sockets were last
  configured with (`RoutesAreTargets`, from `ListsInv`), so that a rebuild is one
  `Publish` and the steps in it stutter; `DraftInv` (a draft about to be installed is an
  edit of what is in the singleton now) and `EditInv` make `setProxyConfig` a
  `Commit`; `PublishedInv` is the guard of `Acknowledge`.  The theorem covers documents
  on which the parser loops or dies, which the run leaves out because its
  liveness properties are false of them.
* **`DeletedWhereApart`**: `Spec => []DeletedNotServed`, the promise that
  `delete_from_libuv` refutes, under `EndPointsApart`: no endpoint is libuv, and neither
  the initial configuration nor a document has two endpoints of one name.  So
  nothing else in the code makes an acknowledged delete miss the traffic.

`StartupProofs` proves every safety property of `Startup`, for any numbers of servers,
any names, repeated ones too, and any two gateway documents.

* **`TypeCorrect`** and **`MapsNeverDangle`** (`MapsLeadToSockets`) by `CoreInv`: kinds of
  server that `main` has not come to have no sockets (`Fresh`); in the loop there are
  as many sockets as configs were begun (`Loop`); every socket but the one being
  started runs, unless `main` has returned (`Alive`); no entry leads to a deleted
  socket (`Led`).  `MapsLeadToSockets` is not inductive without `Loop`: a start that
  fails erases one name, and only `Loop` says that no other name led to its socket.
* **`SignalsWait`** (`ServersNotCutOff`) by `SignalInv`: no thread was ever started without
  the mask, and from the first init function on the mask is set.
* **`ReloadMeetsWholeMap`** (`ReloadFindsEverySocket`) by `FindInv`: as the loop over the
  proxies goes on, the names before it are in the map; by `Alive` and `Led` their
  sockets run when it ends; and a callback needs a protocol server, which is started
  after that.
* **`GatewaysComeFromOneDocument`** (`GatewaysOfOneDocument`) by `GatewayInv`: the entries so
  far are those of the first gateways of the document that was copied, as long as
  the copy was whole.
* **`StartupKeepsItsPromise`** (`ImplementsProcessLife`): every step of `Startup` is a step of
  `ProcessLife` or a stutter.  By `CoreInv` the sockets that run are an initial part of
  those there will be, and `PlanInv` says how many: the length of `configs`, which is that
  of the endpoints, or of one of the two gateway documents.  A start that succeeds is
  a `Serve`, the end of the last loop is `BeReady`, any failure or exception of `main`
  `GiveUp`, a reload that dies in the gateway section `Crash`, and the use of destroyed
  objects a way to `Finish`.  A torn copy is as long as one of the two documents.

`ConfigBootProofs`: **`TypeCorrect`**, and **`BootsOnWhatWasPublished`** by `Fetched`: once a
download is over, a document in the file was published since the process began,
and before that the file holds none.  **`OnlyTwoOmissions`**: `Spec /\ Intact =>
[]DownloadedOrThrown`, where `Intact` says that no step delivers an error page and none
loses a flush.  The promise that `download_error_page` refutes therefore fails for
these two omissions of the code (`CURLOPT_FAILONERROR`, the result of `close`) and for
no other, kills and failed transfers included.

`RouteHandlingProofs`: **`TypeCorrect`**; **`HandlersAreGuarded`** for any number of threads,
by `Progress`, what each label says about the grants so far, and `CapturedAtBoot`, that
`handlers` are those made from `boot`; **`RefusalsHaveNoEffect`** from the same invariant;
**`RefusalsHaveReasons`** (`RefusedOnlyOnDemand`) by `ReasonInv`, what each answer says of the
grants that were demanded and found.

`PipelineFactoryProofs`: **`TypeCorrect`**, for which the number of handles must stay
natural: a library is open at least as often as there are threads between its
`dlopen` and their `dlsym` (`HandlesInv`, with the library of finite sets);
**`FunctionsStayMapped`** by `MappedInv`: a thread about to insert a function has seen it
in a mapped library, and a thread closes a library only when it has seen that the
same image lacks the function; **`MainRunsUnhindered`** (`MainNeverRaces`) by
`CallbacksLate`: no callback runs before `main` has left the map of the proxies;
**`HandlesNeverPileUp`** (`HandlesAccountedFor`) by `AccountInv`: as long as no race has lost
an entry, a library whose symbol is not null is open once for each map that has its
function and once for each thread between `dlopen` and the insertion, and beyond
that, together with the callbacks still at it, less often than there are callbacks.
A library with a null symbol is never closed, so that it cannot become another one
under the handles it has piled up.  `MainInv` adds that `main` never inserts a function
that is already there.  The theorem assumes that there is a callback at all.
**`FindingsAreNeverStale`** (`FoundStaysTrue`) by `OpenIffMapped` (a library is mapped as long
as it is open) and `Registered` (past the insertion the function is in the map and
nobody takes it out, unless it is null or a race has lost it).  **`RegistrationNeverStuck`**: a registration under way has a
next step, as `CanRegister(t)`, the guards written out; TLC found it equal to
`ENABLED Register(t)` in all states of the run.

`GatewayTableProofs`: **`TypeCorrect`** and **`GatewayRoutesByItsServices`**, for endpoints of
any size: after `n` uris the map is that of the first `n`, after `n` services the table is
that of the first `n`.  **`TableIsDetermined`**: the description without loops fits
one table only, so the second theorem settles every entry.

The assumptions are those of the modules: documents and edits are elements the
parsers can meet, the initial configuration resolves (the sockets run), lists of
servers and pipelines are sequences, a `SERVICE` can have some port, `MaxServices`,
`MaxHandles` and `MaxKills` are numbers.  TLC
evaluates them in every run.

Only model-checked: all liveness (`RequestAnswered`, `EmptyListRefilled`,
`ShutdownHonoured`, `ComesBack`), which is beyond the prover as is `ENABLED`.  Every other
property of a passing run is a theorem.  Of the violated properties two are
theorems under the condition whose failure is the fault (`DeletedWhereApart`,
`OnlyTwoOmissions`).

## 5. What is not modelled

* The submodules: protocol parsers, connection handling, thread pools, the
  strategies of the load balancers and of authentication.
* Most values of the protocol and gateway sections in `HotReload`: a hot reload reads
  them but changes no running protocol or gateway server.  What a protocol server
  and its routes demand is in `RouteHandling`, what a gateway routes to in
  `GatewayTable`.
* What a reload resolves and drops (strategy, pipeline, handler and port of a proxy
  that runs): no state of the program depends on it.
* `LoadBalancerFactory`: a map that is filled in its constructor and never changed.
  The strategy objects in it are shared between endpoints; whether they keep
  state is not in this repository.
* The look-up of a request in the table of a gateway, and the choice of a server by
  a strategy: in submodules.
* Text: formatting of answers, logging, the XML syntax itself.
* `ProxyInfo` in `src/test` (part of no target), keepalived, containers,
  dashboards, automation scripts.

## 6. Plan

1. The parser per element: what an error in one section leaves of the others.
2. Should the submodules be at hand: the strategies of the load balancers under
   concurrent connections, and the look-up in the table of a gateway.

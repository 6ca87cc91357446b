------------------------------ MODULE Startup ------------------------------
(***************************************************************************)
(* The life of one proxy process as main.cpp lays it down: signal set-up,  *)
(* the three init functions that create, register and start the servers,   *)
(* sigwait, and the exit.  From the moment the first protocol server runs, *)
(* its thread may run the hot-reload callback while main is still starting *)
(* servers; SIGTERM or SIGINT may arrive at any moment.                    *)
(*                                                                         *)
(* A socket is a pair <<kind, i>>: number i of the configs that            *)
(* initProxyServers, initProtocolServers or initApiGatewayServers loops    *)
(* over.                                                                   *)
(***************************************************************************)
EXTENDS Sequences, Integers

CONSTANTS
    ProxyServers,     \* resolved proxy configs: name, and whether it is libuv
    ProtocolServers,  \* names of the protocol servers
    BootGateway,      \* names of the gateway end-points read at boot
    ReloadedGateway   \* those of the document a hot reload may load

Kinds == {"proxy", "protocol", "gateway"}

ToSet(s) == {s[i] : i \in DOMAIN s}

ASSUME ServersAssumption ==
    /\ ProxyServers \in Seq([name : {ProxyServers[i].name : i \in DOMAIN ProxyServers},
                             libuv : BOOLEAN])
    /\ ProtocolServers \in Seq(ToSet(ProtocolServers))
    /\ BootGateway \in Seq(ToSet(BootGateway))
    /\ ReloadedGateway \in Seq(ToSet(ReloadedGateway))

Names == {ProxyServers[i].name : i \in DOMAIN ProxyServers}
            \cup ToSet(ProtocolServers) \cup ToSet(BootGateway)
            \cup ToSet(ReloadedGateway)

\* The configs an init function loops over, with the flag only proxies have.
Plain(names) == [i \in DOMAIN names |-> [name |-> names[i], libuv |-> FALSE]]

VARIABLES
    stage,     \* where main is
    step,      \* where it is in the loop of an init function
    configs,   \* the configs the current init function loops over
    next,      \* the config it is at
    sockets,   \* sockets[k]: state of the sockets of kind k, in creation order
    maps,      \* maps[k]: proxy-, protocol- or apiGatewaySocketsMap
    gatewayConfig,  \* m_ApiGatewayServerConfig
    blocked,   \* main has blocked SIGTERM and SIGINT
    exposed,   \* a thread was started while they were not blocked
    signal,    \* "none", "pending" or "taken"
    callback,  \* the management thread: "idle" or where it is in a hot reload
    process,   \* "up", "killed" by a signal, "aborted" by an exception or a
               \* crash, "destructing" its static objects, or "gone"
    torn       \* history: main has copied m_ApiGatewayServerConfig while a
               \* callback was assigning it, and got a mixture of two documents

vars == <<stage, step, configs, next, sockets, maps, gatewayConfig, blocked,
          exposed, signal, callback, process, torn>>

SocketStates == {"created", "running", "deleted"}

TypeOK ==
    /\ stage \in {"args", "signals", "wait", "returned"} \cup Kinds
    /\ step \in {"resolve", "create", "start"}
    /\ configs \in Seq([name : Names, libuv : BOOLEAN])
    /\ next \in Nat
    /\ sockets \in [Kinds -> Seq(SocketStates)]
    /\ \A k \in Kinds :
          /\ DOMAIN maps[k] \subseteq Names
          /\ \A n \in DOMAIN maps[k] : maps[k][n] \in DOMAIN sockets[k]
    /\ gatewayConfig \in {BootGateway, ReloadedGateway}
    /\ blocked \in BOOLEAN /\ exposed \in BOOLEAN
    /\ signal \in {"none", "pending", "taken"}
    /\ callback \in {"idle", "load", "update"}
    /\ process \in {"up", "killed", "aborted", "destructing", "gone"}
    /\ torn \in BOOLEAN

Nothing == [n \in {} |-> 0]

Init ==
    /\ stage = "args"
    /\ step = "resolve"
    /\ configs = << >>
    /\ next = 1
    /\ sockets = [k \in Kinds |-> << >>]
    /\ maps = [k \in Kinds |-> Nothing]
    /\ gatewayConfig = BootGateway
    /\ blocked = FALSE
    /\ exposed = FALSE
    /\ signal = "none"
    /\ callback = "idle"
    /\ process = "up"
    /\ torn = FALSE

-----------------------------------------------------------------------------
(* main *)

In(here) == process = "up" /\ stage = here

servers == <<sockets, maps>>
threads == <<gatewayConfig, exposed, signal, callback, torn>>

\* main returns; static objects are destroyed while other threads still run.
Return ==
    /\ stage' = "returned"
    /\ process' = "destructing"

\* --help and unknown arguments end the program.
ParseArgs ==
    /\ In("args")
    /\ \/ stage' = "signals" /\ UNCHANGED process
       \/ Return
    /\ UNCHANGED <<step, configs, next, servers, blocked, threads>>

\* Faulty variant: the signals are left unblocked.
FaultySetupSignalHandlers ==
    /\ In("signals")
    /\ stage' = "proxy"
    /\ UNCHANGED <<step, configs, next, servers, blocked, threads, process>>

SetupSignalHandlers ==
    /\ In("signals")
    /\ blocked' = TRUE
    /\ stage' = "proxy"
    /\ UNCHANGED <<step, configs, next, servers, threads, process>>

\* An exception that leaves an init function reaches nobody: std::terminate.
Terminate ==
    /\ process' = "aborted"
    /\ UNCHANGED <<stage, step, configs, next, servers, blocked, threads>>

Enter(kind, resolved) ==
    /\ In(kind) /\ step = "resolve"
    /\ \/ /\ configs' = resolved
          /\ next' = 1
          /\ step' = "create"
          /\ UNCHANGED <<stage, servers, blocked, threads, process>>
       \/ kind # "gateway" /\ Terminate

ResolveProxyServers == Enter("proxy", ProxyServers)

ResolveProtocolServers == Enter("protocol", Plain(ProtocolServers))

\* A copy under m_configMutex of what is there by then.
GetApiGatewayConfig == Enter("gateway", Plain(gatewayConfig))

Initialising == process = "up" /\ stage \in Kinds

\* std::map: map[name] = i.
Put(map, name, i) ==
    [n \in DOMAIN map \cup {name} |-> IF n = name THEN i ELSE map[n]]

\* Faulty variant: the entry leads to the socket after.
MisplacedCreateSocket ==
    /\ Initialising /\ step = "create"
    /\ next \in DOMAIN configs
    /\ sockets' = [sockets EXCEPT ![stage] = Append(@, "created")]
    /\ maps' = [maps EXCEPT ![stage] = Put(@, configs[next].name, next + 1)]
    /\ step' = "start"
    /\ UNCHANGED <<stage, configs, next, blocked, threads, process>>

\* Faulty variant: the loop over the gateways reads the shared configuration.
UncopiedCreateSocket ==
    LET current == IF stage = "gateway" THEN Plain(gatewayConfig) ELSE configs
    IN  /\ Initialising /\ step = "create"
        /\ next \in DOMAIN current
        /\ sockets' = [sockets EXCEPT ![stage] = Append(@, "created")]
        /\ maps' = [maps EXCEPT ![stage] = Put(@, current[next].name, next)]
        /\ step' = "start"
        /\ UNCHANGED <<stage, configs, next, blocked, threads, process>>

\* new socket; an entry in the map of its kind replaces an older one of the
\* same name; a libuv socket gets none.  Registering a gateway pipeline throws
\* if the plugin is not there.
CreateSocket ==
    /\ Initialising /\ step = "create"
    /\ next \in DOMAIN configs
    /\ \/ /\ sockets' = [sockets EXCEPT ![stage] = Append(@, "created")]
          /\ maps' = IF configs[next].libuv THEN maps
                     ELSE [maps EXCEPT ![stage] = Put(@, configs[next].name, next)]
          /\ step' = "start"
          /\ UNCHANGED <<stage, configs, next, blocked, threads, process>>
       \/ stage = "gateway" /\ Terminate

\* SetPipeline, SetHandler, SetConfigValues and Start all succeed: the socket
\* has a thread, with the signal mask of main.
StartSucceeds ==
    /\ Initialising /\ step = "start"
    /\ sockets' = [sockets EXCEPT ![stage][next] = "running"]
    /\ exposed' = (exposed \/ ~blocked)
    /\ next' = next + 1
    /\ step' = "create"
    /\ UNCHANGED <<stage, configs, maps, blocked, gatewayConfig, signal,
                   callback, process, torn>>

Without(map, name) == [n \in DOMAIN map \ {name} |-> map[n]]

\* Faulty variant: the entry of the deleted socket stays.
DanglingStartFails ==
    /\ Initialising /\ step = "start"
    /\ sockets' = [sockets EXCEPT ![stage][next] = "deleted"]
    /\ Return
    /\ UNCHANGED <<step, configs, next, maps, blocked, threads>>

\* Faulty variant: the error code is ignored and the loop goes on.
IgnoredStartFails ==
    /\ Initialising /\ step = "start"
    /\ maps' = IF configs[next].libuv THEN maps
               ELSE [maps EXCEPT ![stage] = Without(@, configs[next].name)]
    /\ sockets' = [sockets EXCEPT ![stage][next] = "deleted"]
    /\ next' = next + 1
    /\ step' = "create"
    /\ UNCHANGED <<stage, configs, blocked, threads, process>>

\* One of them fails: the entry is erased, the socket deleted, and the error
\* code makes main return EXIT_FAILURE.
StartFails ==
    /\ Initialising /\ step = "start"
    /\ maps' = IF configs[next].libuv THEN maps
               ELSE [maps EXCEPT ![stage] = Without(@, configs[next].name)]
    /\ sockets' = [sockets EXCEPT ![stage][next] = "deleted"]
    /\ Return
    /\ UNCHANGED <<step, configs, next, blocked, threads>>

\* Faulty variant: the gateways start before the protocol servers.
SwappedNextStage ==
    [proxy |-> "gateway", gateway |-> "protocol", protocol |-> "wait"]

NextStage == [proxy |-> "protocol", protocol |-> "gateway", gateway |-> "wait"]

AllStarted ==
    /\ Initialising /\ step = "create"
    /\ next \notin DOMAIN configs
    /\ stage' = NextStage[stage]
    /\ step' = "resolve"
    /\ UNCHANGED <<configs, next, servers, blocked, threads, process>>

\* sigwait takes a pending signal; the servers are left as they are.
SigWait ==
    /\ In("wait")
    /\ signal = "pending"
    /\ signal' = "taken"
    /\ Return
    /\ UNCHANGED <<step, configs, next, servers, blocked, gatewayConfig,
                   exposed, callback, torn>>

\* Faulty variant: the destructors wait for the callback to return.
JoiningExit ==
    /\ process = "destructing"
    /\ callback = "idle"
    /\ process' = "gone"
    /\ UNCHANGED <<stage, step, configs, next, servers, blocked,
                   gatewayConfig, exposed, signal, callback, torn>>

\* The last static object is destroyed and the process ends with its threads.
\* The destructors of src/ wait for no thread, and those of the static objects
\* that submodules define (the thread pool of main.cpp:3, the loggers) are
\* assumed not to either.
Exit ==
    /\ process = "destructing"
    /\ process' = "gone"
    /\ callback' = "idle"
    /\ UNCHANGED <<stage, step, configs, next, servers, blocked,
                   gatewayConfig, exposed, signal, torn>>

-----------------------------------------------------------------------------
(* SIGTERM or SIGINT: taken by the default action, which kills the process, *)
(* unless every thread blocks it: main, and those its servers have started. *)
(* Further ones are merged with a pending one.                              *)

Signalled ==
    /\ process = "up"
    /\ signal = "none"
    /\ IF blocked /\ ~exposed
       THEN signal' = "pending" /\ UNCHANGED process
       ELSE process' = "killed" /\ UNCHANGED signal
    /\ UNCHANGED <<stage, step, configs, next, servers, blocked,
                   gatewayConfig, exposed, callback, torn>>

-----------------------------------------------------------------------------
(* updateConfiguration on the thread of a protocol server (see HotReload). *)

ManagementRuns ==
    /\ process \in {"up", "destructing"}
    /\ \E i \in DOMAIN sockets["protocol"] : sockets["protocol"][i] = "running"

main == <<stage, step, configs, next, servers, blocked, exposed, signal, torn>>

ReceiveConfiguration ==
    /\ ManagementRuns
    /\ callback = "idle"
    /\ callback' = "load"
    /\ UNCHANGED <<main, gatewayConfig, process>>

\* The gateway section is assigned, is refused or threw, or kills the process:
\* a missing attribute or text of it is a null pointer made a std::string.
LoadConfigurationsFromString ==
    /\ ManagementRuns
    /\ callback = "load"
    /\ \/ /\ gatewayConfig' = ReloadedGateway
          /\ callback' = "update"
          /\ UNCHANGED process
       \/ /\ callback' \in {"update", "idle"}
          /\ UNCHANGED <<gatewayConfig, process>>
       \/ /\ process' = "aborted"
          /\ UNCHANGED <<gatewayConfig, callback>>
    /\ UNCHANGED main

UpdateProxyServers ==
    /\ ManagementRuns
    /\ callback = "update"
    /\ callback' = "idle"
    /\ UNCHANGED <<main, gatewayConfig, process>>

\* The lists of the length of either that have a name of the one or the other
\* at each position.
Mixtures(a, b) ==
    UNION {{m \in [1 .. n -> ToSet(a) \cup ToSet(b)] :
               \A i \in 1 .. n : m[i] \in {l[i] : l \in {x \in {a, b} : i \in DOMAIN x}}} :
           n \in {Len(a), Len(b)}}

\* The callback assigns m_ApiGatewayServerConfig without a lock, so the copy
\* that main takes may be of a vector that is being replaced, element by
\* element: end-points of either document, and none of them torn by itself.
TornCopy ==
    /\ In("gateway") /\ step = "resolve"
    /\ callback = "load"
    /\ \E names \in Mixtures(gatewayConfig, ReloadedGateway) :
          configs' = Plain(names)
    /\ next' = 1
    /\ step' = "create"
    /\ gatewayConfig' = ReloadedGateway
    /\ callback' = "update"
    /\ torn' = TRUE
    /\ UNCHANGED <<stage, servers, blocked, exposed, signal, process>>

\* Or the copy follows a pointer into what is gone, which can end it all.
GatewayConfigRace ==
    /\ In("gateway") /\ step = "resolve"
    /\ callback = "load"
    /\ Terminate

\* Nothing joins the server threads: a callback that is still at work uses
\* static objects that main is destroying, which can end the process.
UseOfDestroyedStatics ==
    /\ process = "destructing"
    /\ callback # "idle"
    /\ Terminate

-----------------------------------------------------------------------------
Main ==
    \/ ParseArgs
    \/ SetupSignalHandlers
    \/ ResolveProxyServers
    \/ ResolveProtocolServers
    \/ GetApiGatewayConfig
    \/ CreateSocket
    \/ StartSucceeds
    \/ StartFails
    \/ AllStarted
    \/ SigWait
    \/ Exit

Management ==
    \/ ReceiveConfiguration
    \/ LoadConfigurationsFromString
    \/ UpdateProxyServers

Next ==
    \/ Main
    \/ Signalled
    \/ Management
    \/ TornCopy
    \/ GatewayConfigRace
    \/ UseOfDestroyedStatics

Spec == Init /\ [][Next]_vars

\* main and a running callback are scheduled; signals and requests need not come.
FairSpec == Spec /\ WF_vars(Main)

-----------------------------------------------------------------------------
(* What starting and stopping must get right *)

\* No entry of a socket map ever leads to a socket that has been deleted.
MapsLeadToSockets ==
    \A k \in Kinds : \A n \in DOMAIN maps[k] :
        sockets[k][maps[k][n]] # "deleted"

\* A hot reload never meets a proxySocketsMap in the making: when the callback
\* gets to updateProxyServers every proxy endpoint that is not libuv has its
\* entry, and the socket there runs.
ReloadFindsEverySocket ==
    callback = "update" =>
        \A i \in DOMAIN ProxyServers :
            ~ProxyServers[i].libuv =>
                /\ ProxyServers[i].name \in DOMAIN maps["proxy"]
                /\ sockets["proxy"][maps["proxy"][ProxyServers[i].name]] = "running"

\* SIGTERM and SIGINT never cut off a process that has started serving: they
\* kill it before its first server runs, or wait for sigwait.
ServersNotCutOff ==
    process = "killed" =>
        \A k \in Kinds : \A i \in DOMAIN sockets[k] : sockets[k][i] # "running"

\* However a hot reload comes between, the gateway servers are those of one
\* document and in its order: as many as it has end-points, and each of its
\* names leads to the server of the last end-point of that name.  Only a copy
\* torn by the unlocked write of the reload can make them some of the one
\* document and some of the other.
GatewaysOfOneDocument ==
    (stage = "wait" /\ process = "up" /\ ~torn) =>
        \E d \in {BootGateway, ReloadedGateway} :
            /\ Len(sockets["gateway"]) = Len(d)
            /\ DOMAIN maps["gateway"] = ToSet(d)
            /\ \A j \in DOMAIN d :
                  LET i == maps["gateway"][d[j]]
                  IN  j <= i /\ d[i] = d[j]

\* A termination signal that arrived in time ends the process, whatever its
\* servers are doing: also when a hot reload never returns, or runs on into the
\* destruction of the objects it uses.
ShutdownHonoured == signal = "pending" ~> process \in {"gone", "aborted"}

-----------------------------------------------------------------------------
(* What the process promises from outside *)

Serving == [k \in Kinds |-> {i \in DOMAIN sockets[k] : sockets[k][i] = "running"}]

Phase ==
    CASE stage = "wait"     -> "ready"
      [] stage = "returned" -> "over"
      [] OTHER              -> "starting"

Planned ==
    [proxy    |-> {Len(ProxyServers)},
     protocol |-> {Len(ProtocolServers)},
     gateway  |-> {Len(BootGateway), Len(ReloadedGateway)}]

Life == INSTANCE ProcessLife WITH serving <- Serving, phase <- Phase

\* main, its init functions, sigwait and a hot reload at any moment keep the
\* promise of ProcessLife: servers come up in order and are not withdrawn, a
\* process whose servers all run ends only by a signal or by a reload that
\* crashes, and no signal is lost or cuts off what serves.
ImplementsProcessLife == Life!Spec

=============================================================================

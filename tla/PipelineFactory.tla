-------------------------- MODULE PipelineFactory --------------------------
(***************************************************************************)
(* The plugins: PipelineFactory opens the shared library of a pipeline     *)
(* with dlopen, looks up its function, and keeps the function in a map of  *)
(* the kind of socket it is for.  main registers the pipelines of the      *)
(* configuration while it starts the servers; later every hot reload       *)
(* registers those of the proxy configuration again, on the thread of its  *)
(* callback.  The files in the plugins folder may change at any moment.    *)
(*                                                                         *)
(* A step is an access to a map or a call of the dynamic linker.           *)
(***************************************************************************)
EXTENDS Sequences, Integers, FiniteSets

CONSTANTS
    Pipelines,           \* names of pipelines
    Libraries,           \* those updateLibs found a library for, m_libNames
    ProxyPipelines,      \* pipelines of the proxy endpoints, in order,
    ProtocolPipelines,   \* of the protocol servers, and
    GatewayPipelines,    \* of the gateway endpoints of the boot configuration
    Reloads,             \* of the proxy endpoints of configurations loaded later
    Main,                \* the main thread
    Callbacks,           \* threads that run management callbacks
    MaxHandles           \* bound: no reload begins with so many handles open

ASSUME LibrariesAssumption == Libraries \subseteq Pipelines
ASSUME PipelinesAssumption ==
    /\ {ProxyPipelines, ProtocolPipelines, GatewayPipelines} \subseteq Seq(Pipelines)
    /\ Reloads \subseteq Seq(Pipelines)
ASSUME ThreadsAssumption == Main \notin Callbacks /\ IsFiniteSet(Callbacks)
ASSUME MaxHandlesAssumption == MaxHandles \in Nat

Kinds == {"proxy", "protocol", "gateway"}

Threads == Callbacks \cup {Main}

VARIABLES
    file,       \* file[p]: what the library of p is on disk
    image,      \* image[p]: what of it is mapped into the process
    handles,    \* handles[p]: how often it is open
    functions,  \* functions[k]: pipelines the map of kind k has a function of
    stage,      \* the init function main is in
    pc,         \* pc[t]: what thread t does next
    todo,       \* todo[t]: pipelines t has still to register
    process,    \* "up", "aborted" by an exception, or "crashed"
    raced       \* whether a race has lost an entry of a map, or hidden one

vars == <<file, image, handles, functions, stage, pc, todo, process, raced>>

\* A file dlopen refuses, one without the function, one whose symbol has the
\* value null, which dlsym returns without an error, one with the function.
Files == {"unusable", "noFunction", "nullFunction", "plugin"}

Images == {"none", "noFunction", "nullFunction", "plugin"}

Labels == {"idle", "check", "open", "symbol", "insert", "get"}

TypeOK ==
    /\ file \in [Pipelines -> Files]
    /\ image \in [Pipelines -> Images]
    /\ handles \in [Pipelines -> Nat]
    /\ functions \in [Kinds -> SUBSET Pipelines]
    /\ stage \in Kinds \cup {"wait"}
    /\ pc \in [Threads -> Labels]
    /\ todo \in [Threads -> Seq(Pipelines)]
    /\ \A t \in Threads : pc[t] # "idle" => todo[t] # << >>
    /\ process \in {"up", "aborted", "crashed"}
    /\ raced \in BOOLEAN

Enter(work) == IF work = << >> THEN "idle" ELSE "check"

Init ==
    /\ file \in [Pipelines -> Files]
    /\ \A p \in Pipelines \ Libraries : file[p] = "unusable"
    /\ image = [p \in Pipelines |-> "none"]
    /\ handles = [p \in Pipelines |-> 0]
    /\ functions = [k \in Kinds |-> {}]
    /\ stage = "proxy"
    /\ todo = [t \in Threads |-> IF t = Main THEN ProxyPipelines ELSE << >>]
    /\ pc = [t \in Threads |-> Enter(todo[t])]
    /\ process = "up"
    /\ raced = FALSE

-----------------------------------------------------------------------------
At(t, label) == process = "up" /\ pc[t] = label

Goto(t, label) == pc' = [pc EXCEPT ![t] = label]

Name(t) == Head(todo[t])

\* The map of the socket type registerPipeline is called for.
Kind(t) == IF t = Main THEN stage ELSE "proxy"

linked == <<image, handles>>

\* Nothing catches an exception of main; a callback answers with an error.
Throw(t) ==
    /\ IF t = Main THEN process' = "aborted" ELSE UNCHANGED process
    /\ Goto(t, "idle")
    /\ todo' = [todo EXCEPT ![t] = << >>]

\* loadPipeline: the library, and whether its function is in the map.  An
\* entry whose function is null does not count.
FindLibrary(t) ==
    /\ At(t, "check")
    /\ \/ Name(t) \notin Libraries /\ Throw(t)
       \/ /\ Name(t) \in Libraries
          /\ Goto(t, IF Name(t) \in functions[Kind(t)] THEN "get" ELSE "open")
          /\ UNCHANGED <<todo, process>>
    /\ UNCHANGED <<file, linked, functions, stage, raced>>

\* Faulty variant: a library that is open already is not opened again.
CachedDlopen(t) ==
    /\ At(t, "open")
    /\ \/ /\ image[Name(t)] = "none" /\ file[Name(t)] = "unusable"
          /\ Throw(t)
          /\ UNCHANGED linked
       \/ /\ image[Name(t)] = "none" /\ file[Name(t)] # "unusable"
          /\ image' = [image EXCEPT ![Name(t)] = file[Name(t)]]
          /\ handles' = [handles EXCEPT ![Name(t)] = 1]
          /\ Goto(t, "symbol")
          /\ UNCHANGED <<todo, process>>
       \/ /\ image[Name(t)] # "none"
          /\ Goto(t, "symbol")
          /\ UNCHANGED <<linked, todo, process>>
    /\ UNCHANGED <<file, functions, stage, raced>>

\* A library that is mapped is not read again.
Dlopen(t) ==
    /\ At(t, "open")
    /\ \/ /\ image[Name(t)] = "none" /\ file[Name(t)] = "unusable"
          /\ Throw(t)
          /\ UNCHANGED linked
       \/ /\ image[Name(t)] # "none" \/ file[Name(t)] # "unusable"
          /\ image' = [image EXCEPT
                          ![Name(t)] = IF @ = "none" THEN file[Name(t)] ELSE @]
          /\ handles' = [handles EXCEPT ![Name(t)] = @ + 1]
          /\ Goto(t, "symbol")
          /\ UNCHANGED <<todo, process>>
    /\ UNCHANGED <<file, functions, stage, raced>>

\* The library goes with its last handle.
Dlclose(p) ==
    /\ handles' = [handles EXCEPT ![p] = @ - 1]
    /\ image' = IF handles[p] = 1 THEN [image EXCEPT ![p] = "none"] ELSE image

\* Faulty variant: the handle is closed once the function is known.
FaultyDlsym(t) ==
    /\ At(t, "symbol")
    /\ Dlclose(Name(t))
    /\ \/ image[Name(t)] = "noFunction" /\ Throw(t)
       \/ /\ image[Name(t)] \in {"nullFunction", "plugin"}
          /\ Goto(t, "insert")
          /\ UNCHANGED <<todo, process>>
    /\ UNCHANGED <<file, functions, stage, raced>>

\* Faulty variant: the handle stays open when there is no function.
LeakyDlsym(t) ==
    /\ At(t, "symbol")
    /\ \/ image[Name(t)] = "noFunction" /\ Throw(t)
       \/ /\ image[Name(t)] \in {"nullFunction", "plugin"}
          /\ Goto(t, "insert")
          /\ UNCHANGED <<todo, process>>
    /\ UNCHANGED <<file, linked, functions, stage, raced>>

Dlsym(t) ==
    /\ At(t, "symbol")
    /\ \/ /\ image[Name(t)] = "noFunction"
          /\ Dlclose(Name(t))
          /\ Throw(t)
       \/ /\ image[Name(t)] \in {"nullFunction", "plugin"}
          /\ Goto(t, "insert")
          /\ UNCHANGED <<linked, todo, process>>
    /\ UNCHANGED <<file, functions, stage, raced>>

\* The entry is what dlsym returned, null included.
InsertFunction(t) ==
    /\ At(t, "insert")
    /\ functions' = [functions EXCEPT
                        ![Kind(t)] = IF image[Name(t)] = "nullFunction"
                                     THEN @ \ {Name(t)}
                                     ELSE @ \cup {Name(t)}]
    /\ Goto(t, "get")
    /\ UNCHANGED <<file, linked, stage, todo, process, raced>>

\* Faulty variant: the loop does not see its end.
FaultyGetPipeline(t) ==
    /\ At(t, "get")
    /\ todo' = [todo EXCEPT ![t] = Tail(@)]
    /\ Goto(t, "check")
    /\ UNCHANGED <<file, linked, functions, stage, process, raced>>

\* GetPipeline: the function, or null, is in the resolved configuration; on to
\* the next one.  Only a protocol server is refused for a null.
GetPipeline(t) ==
    /\ At(t, "get")
    /\ \/ /\ Kind(t) = "protocol" /\ Name(t) \notin functions["protocol"]
          /\ Throw(t)
       \/ /\ Kind(t) # "protocol" \/ Name(t) \in functions["protocol"]
          /\ todo' = [todo EXCEPT ![t] = Tail(@)]
          /\ Goto(t, Enter(Tail(todo[t])))
          /\ UNCHANGED process
    /\ UNCHANGED <<file, linked, functions, stage, raced>>

-----------------------------------------------------------------------------
StageAfter == [proxy |-> "protocol", protocol |-> "gateway", gateway |-> "wait"]

Configured(k) ==
    CASE k = "protocol" -> ProtocolPipelines
      [] k = "gateway"  -> GatewayPipelines
      [] OTHER          -> << >>

\* main starts the servers it has resolved and enters the next init function.
NextStage ==
    /\ At(Main, "idle")
    /\ stage \in Kinds
    /\ stage' = StageAfter[stage]
    /\ todo' = [todo EXCEPT ![Main] = Configured(stage')]
    /\ Goto(Main, Enter(Configured(stage')))
    /\ UNCHANGED <<file, linked, functions, process, raced>>

\* Faulty variant: protocol servers run before the proxies are resolved.
EarlyReload(c) ==
    /\ At(c, "idle")
    /\ \A p \in Pipelines : handles[p] < MaxHandles
    /\ \E work \in Reloads :
          /\ todo' = [todo EXCEPT ![c] = work]
          /\ Goto(c, Enter(work))
    /\ UNCHANGED <<file, linked, functions, stage, process, raced>>

\* A protocol server runs, and with it updateProxyServers on request.
Reload(c) ==
    /\ At(c, "idle")
    /\ stage \in {"gateway", "wait"}
    /\ \A p \in Pipelines : handles[p] < MaxHandles
    /\ \E work \in Reloads :
          /\ todo' = [todo EXCEPT ![c] = work]
          /\ Goto(c, Enter(work))
    /\ UNCHANGED <<file, linked, functions, stage, process, raced>>

\* Somebody replaces or removes a plugin, or puts it back.
Deploy ==
    /\ process = "up"
    /\ \E p \in Libraries, f \in Files : file' = [file EXCEPT ![p] = f]
    /\ UNCHANGED <<linked, functions, stage, pc, todo, process, raced>>

-----------------------------------------------------------------------------
(***************************************************************************)
(* The maps are std::map without a lock: an insertion and another access   *)
(* to the same map race.  That can end the process; the other access can   *)
(* miss an entry that is there; and one of two insertions can be lost.     *)
(***************************************************************************)
Reads(t) == At(t, "check") \/ At(t, "get")

Writes(t) == At(t, "insert")

Racing(t, u) ==
    /\ t # u
    /\ Kind(t) = Kind(u)
    /\ Writes(t)
    /\ Writes(u) \/ Reads(u)

Race ==
    /\ \E t, u \in Threads : Racing(t, u)
    /\ process' = "crashed"
    /\ UNCHANGED <<file, linked, functions, stage, pc, todo, raced>>

\* t goes on as if the entry it looks for or makes were not in the map.
MissEntry(t) ==
    /\ \E u \in Threads : Racing(u, t)
    /\ \/ /\ At(t, "check") /\ Name(t) \in Libraries
          /\ Goto(t, "open")
          /\ UNCHANGED todo
       \/ /\ At(t, "insert")
          /\ Goto(t, "get")
          /\ UNCHANGED todo
       \/ /\ At(t, "get")
          /\ todo' = [todo EXCEPT ![t] = Tail(@)]
          /\ Goto(t, Enter(Tail(todo[t])))
    /\ raced' = TRUE
    /\ UNCHANGED <<file, linked, functions, stage, process>>

Register(t) ==
    \/ FindLibrary(t)
    \/ Dlopen(t)
    \/ Dlsym(t)
    \/ InsertFunction(t)
    \/ GetPipeline(t)

Next ==
    \/ \E t \in Threads : Register(t)
    \/ NextStage
    \/ \E c \in Callbacks : Reload(c)
    \/ Deploy
    \/ Race
    \/ \E t \in Threads : MissEntry(t)

Spec == Init /\ [][Next]_vars

-----------------------------------------------------------------------------
\* A function that sockets call lies in a library that is mapped and has it,
\* whatever has become of the file, whatever failed on the way, and however
\* reloads interleave: no thread closes the handle another one relies on.
FunctionsAreMapped ==
    \A k \in Kinds : \A p \in functions[k] : image[p] = "plugin"

\* What a thread found in one step still holds when it relies on it in a later
\* one, whatever the others loaded, closed or failed to load in between: dlsym
\* is given a library that is open, the symbol it returned lies in a library
\* that is mapped when it goes into the map, and the function GetPipeline is
\* asked for is in the map, unless the plugin has none but a null, or a race
\* has lost the entry.
FoundStaysTrue ==
    \A t \in Threads :
        /\ At(t, "symbol") => image[Name(t)] # "none"
        /\ At(t, "insert") => image[Name(t)] \in {"nullFunction", "plugin"}
        /\ At(t, "get") => \/ Name(t) \in functions[Kind(t)]
                           \/ image[Name(t)] = "nullFunction"
                           \/ raced

\* main needs no lock on the maps: while it registers the pipelines of the
\* gateways under hot reloads, it never touches the map a callback uses.
MainNeverRaces ==
    ~ \E c \in Callbacks : Racing(Main, c) \/ Racing(c, Main)

Untouched(p) ==
    process = "up" /\ \A t \in Threads : pc[t] = "idle" \/ Name(t) # p

Holders(p) == {k \in Kinds : p \in functions[k]}

\* While no thread registers it, a library without a function in use is
\* closed, however often it was tried, and one in use is open once for each
\* map that has it, and at most once more for each further callback that loaded
\* it at the same time: reloads do not pile up handles.  They do for a plugin
\* whose symbol is null, which is in no map and stays open for ever, and once
\* a race has hidden or lost entries.
HandlesAccountedFor ==
    ~raced =>
    \A p \in Pipelines : Untouched(p) /\ image[p] # "nullFunction" =>
        /\ Holders(p) = {} <=> handles[p] = 0
        /\ handles[p] >= Cardinality(Holders(p))
        /\ "proxy" \in Holders(p) =>
              handles[p] < Cardinality(Holders(p)) + Cardinality(Callbacks)
        /\ "proxy" \notin Holders(p) => handles[p] = Cardinality(Holders(p))

=============================================================================

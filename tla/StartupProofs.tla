--------------------------- MODULE StartupProofs ---------------------------
(***************************************************************************)
(* Theorems about Startup, for any numbers of servers, any names (repeated *)
(* ones too) and any two gateway documents: the safety invariants that the *)
(* model checker finds on a small instance, and ProcessLife's promise.     *)
(***************************************************************************)
EXTENDS Startup, SequenceTheorems, TLAPS

(***************************************************************************)
(* CoreInv says where the init functions are: which kinds of server they   *)
(* have not come to, how many sockets of the current kind there are, and   *)
(* what the map of that kind knows of the socket that is being started.    *)
(***************************************************************************)
Config == [name : Names, libuv : BOOLEAN]

SocketMap == UNION {[S -> Nat] : S \in SUBSET Names}

Shape ==
    /\ stage \in {"args", "signals", "wait", "returned"} \cup Kinds
    /\ step \in {"resolve", "create", "start"}
    /\ configs \in Seq(Config)
    /\ next \in Nat \ {0}
    /\ sockets \in [Kinds -> Seq(SocketStates)]
    /\ maps \in [Kinds -> SocketMap]

NotYet == [proxy    |-> {"args", "signals"},
           protocol |-> {"args", "signals", "proxy"},
           gateway  |-> {"args", "signals", "proxy", "protocol"}]

Fresh ==
    /\ stage \in {"args", "signals"} => step = "resolve"
    /\ \A k \in Kinds :
          (stage \in NotYet[k] \/ (stage = k /\ step = "resolve")) =>
              sockets[k] = << >> /\ DOMAIN maps[k] = {}

Loop ==
    stage \in Kinds =>
        /\ step = "create" => /\ Len(sockets[stage]) = next - 1
                              /\ next <= Len(configs) + 1
        /\ step = "start" => /\ Len(sockets[stage]) = next
                             /\ next <= Len(configs)
                             /\ sockets[stage][next] = "created"
                             /\ \A n \in DOMAIN maps[stage] : maps[stage][n] = next =>
                                   n = configs[next].name /\ ~configs[next].libuv

Starting(k, i) == stage = k /\ step = "start" /\ i = next

Alive ==
    \A k \in Kinds : \A i \in 1 .. Len(sockets[k]) :
        stage = "returned" \/ Starting(k, i) \/ sockets[k][i] = "running"

Led ==
    \A k \in Kinds : \A n \in DOMAIN maps[k] :
        maps[k][n] \in 1 .. Len(sockets[k]) /\ sockets[k][maps[k][n]] # "deleted"

CoreInv == Shape /\ Fresh /\ Loop /\ Alive /\ Led

-----------------------------------------------------------------------------
(* Socket maps *)

LEMMA EmptyMapType == Nothing \in SocketMap /\ DOMAIN Nothing = {}
<1>1. Nothing \in [{} -> Nat]
  BY DEF Nothing
<1> QED
  BY <1>1 DEF SocketMap, Nothing

LEMMA PutType ==
    ASSUME NEW map \in SocketMap, NEW name \in Names, NEW i \in Nat
    PROVE  /\ Put(map, name, i) \in SocketMap
           /\ DOMAIN Put(map, name, i) = DOMAIN map \cup {name}
           /\ \A n \in DOMAIN map \cup {name} :
                 Put(map, name, i)[n] = IF n = name THEN i ELSE map[n]
<1>1. PICK S \in SUBSET Names : map \in [S -> Nat]
  BY DEF SocketMap
<1>2. Put(map, name, i) \in [S \cup {name} -> Nat]
  BY <1>1 DEF Put
<1>3. S \cup {name} \in SUBSET Names
  BY <1>1
<1>4. Put(map, name, i) \in SocketMap
  BY <1>2, <1>3 DEF SocketMap
<1> QED
  BY <1>4 DEF Put

LEMMA WithoutType ==
    ASSUME NEW map \in SocketMap, NEW name
    PROVE  /\ Without(map, name) \in SocketMap
           /\ DOMAIN Without(map, name) = DOMAIN map \ {name}
           /\ \A n \in DOMAIN map \ {name} : Without(map, name)[n] = map[n]
<1>1. PICK S \in SUBSET Names : map \in [S -> Nat]
  BY DEF SocketMap
<1>2. Without(map, name) \in [S \ {name} -> Nat]
  BY <1>1 DEF Without
<1>3. S \ {name} \in SUBSET Names
  BY <1>1
<1>4. Without(map, name) \in SocketMap
  BY <1>2, <1>3 DEF SocketMap
<1> QED
  BY <1>4 DEF Without

LEMMA MapType ==
    ASSUME NEW map \in SocketMap
    PROVE  /\ DOMAIN map \subseteq Names
           /\ \A n \in DOMAIN map : map[n] \in Nat
BY DEF SocketMap

LEMMA PlainType ==
    ASSUME NEW names \in Seq(Names)
    PROVE  /\ Plain(names) \in Seq(Config)
           /\ Len(Plain(names)) = Len(names) /\ Len(names) \in Nat
           /\ \A i \in 1 .. Len(names) : /\ Plain(names)[i].name = names[i]
                                         /\ Plain(names)[i].libuv = FALSE
<1>1. \A i \in 1 .. Len(names) : names[i] \in Names
  BY ElementOfSeq
<1>2. Len(names) \in Nat /\ DOMAIN names = 1 .. Len(names)
  BY LenProperties
<1>3. ASSUME NEW i \in 1 .. Len(names)
      PROVE  [name |-> names[i], libuv |-> FALSE] \in Config
  BY <1>1 DEF Config
<1>4. Plain(names) \in [1 .. Len(names) -> Config]
  BY <1>2, <1>3 DEF Plain
<1>5. Plain(names) \in Seq(Config)
  BY <1>2, <1>4, SeqDef
<1> DEFINE no == FALSE
<1>6. \A i \in 1 .. Len(names) : Plain(names)[i] = [name |-> names[i], libuv |-> no]
  BY <1>2 DEF Plain
<1> HIDE DEF no
<1>7. Len(Plain(names)) = Len(names)
  <2>1. DOMAIN Plain(names) = 1 .. Len(names)
    BY <1>2 DEF Plain
  <2>2. DOMAIN Plain(names) = 1 .. Len(Plain(names)) /\ Len(Plain(names)) \in Nat
    BY <1>5, LenProperties
  <2> QED
    BY <1>2, <2>1, <2>2
<1>8. ASSUME NEW i \in 1 .. Len(names)
      PROVE  Plain(names)[i].name = names[i] /\ Plain(names)[i].libuv = no
  <2> DEFINE config == Plain(names)[i]
             name == names[i]
  <2>1. config = [name |-> name, libuv |-> no]
    BY <1>6
  <2> HIDE DEF config, name
  <2>2. config.name = name /\ config.libuv = no
    BY <2>1
  <2> QED
    BY <2>2 DEF config, name
<1> QED
  BY <1>2, <1>5, <1>7, <1>8 DEF no

LEMMA NamesType ==
    \A names \in {ProtocolServers, BootGateway, ReloadedGateway} :
        names \in Seq(Names)
<1> SUFFICES ASSUME NEW names \in {ProtocolServers, BootGateway, ReloadedGateway}
             PROVE  names \in Seq(Names)
  OBVIOUS
<1>1. names \in Seq(ToSet(names)) /\ ToSet(names) \subseteq Names
  BY ServersAssumption DEF Names
<1> QED
  BY <1>1, SeqMonotonic

\* What a torn copy gets is a list of names as long as one of the documents.
LEMMA MixturesType ==
    ASSUME NEW a \in {BootGateway, ReloadedGateway},
           NEW names \in Mixtures(a, ReloadedGateway)
    PROVE  /\ names \in Seq(Names)
           /\ Len(names) \in {Len(BootGateway), Len(ReloadedGateway)}
<1> DEFINE both == ToSet(a) \cup ToSet(ReloadedGateway)
<1>1. both \subseteq Names
  BY DEF Names
<1>2. PICK n \in {Len(a), Len(ReloadedGateway)} : names \in [1 .. n -> both]
  BY DEF Mixtures
<1> HIDE DEF both
<1>3. n \in Nat /\ n \in {Len(BootGateway), Len(ReloadedGateway)}
  BY NamesType, LenProperties
<1>4. names \in [1 .. n -> Names]
  BY <1>1, <1>2
<1>5. names \in Seq(Names) /\ DOMAIN names = 1 .. n
  BY <1>3, <1>4, SeqDef
<1>6. DOMAIN names = 1 .. Len(names) /\ Len(names) \in Nat
  BY <1>5, LenProperties
<1> QED
  BY <1>3, <1>5, <1>6

LEMMA ProxyServersType == ProxyServers \in Seq(Config)
<1> DEFINE proxies == {ProxyServers[i].name : i \in DOMAIN ProxyServers}
<1>1. ProxyServers \in Seq([name : proxies, libuv : BOOLEAN])
  BY ServersAssumption
<1>2. proxies \subseteq Names
  BY DEF Names
<1> HIDE DEF proxies
<1>3. [name : proxies, libuv : BOOLEAN] \subseteq Config
  BY <1>2 DEF Config
<1> QED
  BY <1>1, <1>3, SeqMonotonic

-----------------------------------------------------------------------------
(* The inductive invariant *)

core == <<stage, step, configs, next, sockets, maps>>

LEMMA InitCore == Init => CoreInv
<1> SUFFICES ASSUME Init PROVE CoreInv
  OBVIOUS
<1>1. /\ stage = "args" /\ step = "resolve" /\ configs = << >> /\ next = 1
      /\ \A k \in Kinds : sockets[k] = << >> /\ maps[k] = Nothing
      /\ sockets = [k \in Kinds |-> << >>]
      /\ maps = [k \in Kinds |-> Nothing]
  BY DEF Init
<1>2. << >> \in Seq(Config) /\ << >> \in Seq(SocketStates) /\ Len(<< >>) = 0
  BY EmptySeq
<1>3. Shape
  BY <1>1, <1>2, EmptyMapType DEF Shape
<1>4. Fresh /\ Led
  BY <1>1, EmptyMapType DEF Fresh, Led
<1>5. Loop /\ Alive
  BY <1>1, <1>2 DEF Loop, Alive, Kinds
<1> QED
  BY <1>3, <1>4, <1>5 DEF CoreInv

LEMMA SameCore == CoreInv /\ UNCHANGED core => CoreInv'
BY DEF core, CoreInv, Shape, Fresh, Loop, Alive, Starting, Led

LEMMA NotYetStages ==
    /\ \A k \in Kinds : k \notin NotYet[k] /\ "wait" \notin NotYet[k]
                       /\ "returned" \notin NotYet[k]
                       /\ NotYet[k] \subseteq {"args", "signals"} \cup Kinds
                       /\ "args" \in NotYet[k] /\ "signals" \in NotYet[k]
    /\ \A k \in Kinds, s \in Kinds : NextStage[s] \in NotYet[k] => s \in NotYet[k]
    /\ \A s \in Kinds : /\ NextStage[s] \in Kinds => s \in NotYet[NextStage[s]]
                       /\ NextStage[s] \in Kinds \cup {"wait"}
BY DEF NotYet, NextStage, Kinds

\* Steps of main that only move on, with sockets and maps as they are.
LEMMA MoveCore ==
    ASSUME CoreInv, UNCHANGED <<configs, next, sockets, maps>>,
           \/ stage = "args" /\ stage' = "signals" /\ step' = step
           \/ stage = "signals" /\ stage' = "proxy" /\ step' = step
           \/ stage \in Kinds /\ step = "create" /\ stage' = NextStage[stage]
                 /\ step' = "resolve"
           \/ stage \notin Kinds /\ stage' = "returned" /\ step' = step
    PROVE  CoreInv'
<1>1. Shape /\ Fresh /\ Loop /\ Alive /\ Led
  BY DEF CoreInv
<1>2. Shape'
  BY <1>1, NotYetStages DEF Shape, Kinds
<1>3. Fresh'
  BY <1>1, NotYetStages DEF Fresh, Shape, Kinds, NotYet, NextStage
<1>4. Loop'
  BY <1>1, NotYetStages DEF Fresh, Loop, Kinds
<1>5. Alive'
  BY <1>1, NotYetStages DEF Alive, Starting, Fresh, Kinds
<1>6. Led'
  BY <1>1 DEF Led
<1> QED
  BY <1>2, <1>3, <1>4, <1>5, <1>6 DEF CoreInv

LEMMA EnterCore ==
    ASSUME CoreInv, stage \in Kinds, step = "resolve", configs' \in Seq(Config),
           next' = 1, step' = "create", UNCHANGED <<stage, sockets, maps>>
    PROVE  CoreInv'
<1>1. Shape /\ Fresh /\ Loop /\ Alive /\ Led
  BY DEF CoreInv
<1>2. Shape' /\ Fresh' /\ Alive' /\ Led'
  BY <1>1 DEF Shape, Fresh, Alive, Starting, Led, Kinds
<1>3. sockets[stage] = << >> /\ Len(configs') \in Nat
  BY <1>1, LenProperties DEF Fresh
<1>4. Loop'
  BY <1>3, EmptySeq DEF Loop
<1> QED
  BY <1>2, <1>4 DEF CoreInv

\* The socket list and the map of the current kind after CreateSocket.
LEMMA CreateSteps ==
    ASSUME CoreInv, CreateSocket, ~Terminate
    PROVE  /\ stage \in Kinds /\ step = "create" /\ step' = "start"
           /\ next \in 1 .. Len(configs) /\ configs[next] \in Config
           /\ UNCHANGED <<stage, configs, next>>
           /\ sockets' \in [Kinds -> Seq(SocketStates)]
           /\ Len(sockets'[stage]) = next
           /\ sockets'[stage][next] = "created"
           /\ \A i \in 1 .. next - 1 : sockets'[stage][i] = sockets[stage][i]
           /\ maps' \in [Kinds -> SocketMap]
           /\ maps'[stage] = IF configs[next].libuv THEN maps[stage]
                             ELSE Put(maps[stage], configs[next].name, next)
           /\ \A k \in Kinds \ {stage} : /\ sockets'[k] = sockets[k]
                                        /\ maps'[k] = maps[k]
<1>1. /\ stage \in Kinds /\ step = "create" /\ step' = "start"
      /\ next \in DOMAIN configs /\ UNCHANGED <<stage, configs, next>>
      /\ sockets' = [sockets EXCEPT ![stage] = Append(@, "created")]
      /\ maps' = IF configs[next].libuv THEN maps
                 ELSE [maps EXCEPT ![stage] = Put(@, configs[next].name, next)]
  BY DEF CreateSocket, Initialising
<1>2. /\ configs \in Seq(Config) /\ sockets \in [Kinds -> Seq(SocketStates)]
      /\ maps \in [Kinds -> SocketMap] /\ next \in Nat
      /\ Len(sockets[stage]) = next - 1
  BY <1>1 DEF CoreInv, Shape, Loop
<1>3. next \in 1 .. Len(configs) /\ configs[next] \in Config
  BY <1>1, <1>2, LenProperties, ElementOfSeq
<1>4. configs[next].name \in Names
  BY <1>3 DEF Config
<1> DEFINE list == sockets[stage]
           longer == Append(list, "created")
<1>5. list \in Seq(SocketStates) /\ "created" \in SocketStates
  BY <1>1, <1>2 DEF SocketStates
<1>6. /\ longer \in Seq(SocketStates) /\ Len(longer) = Len(list) + 1
      /\ longer[Len(list) + 1] = "created"
      /\ \A i \in 1 .. Len(list) : longer[i] = list[i]
  BY <1>5, AppendProperties
<1>7. Len(list) + 1 = next /\ Len(list) = next - 1
  BY <1>2
<1>8. /\ Len(longer) = next /\ longer[next] = "created"
      /\ \A i \in 1 .. next - 1 : longer[i] = list[i]
  BY <1>6, <1>7
<1> DEFINE map == Put(maps[stage], configs[next].name, next)
<1>9. map \in SocketMap
  BY <1>1, <1>2, <1>4, PutType
<1>10. sockets' = [sockets EXCEPT ![stage] = longer]
  BY <1>1
<1>11. maps' = IF configs[next].libuv THEN maps ELSE [maps EXCEPT ![stage] = map]
  BY <1>1
<1> HIDE DEF longer, map
<1>12. /\ sockets' \in [Kinds -> Seq(SocketStates)] /\ sockets'[stage] = longer
       /\ \A k \in Kinds \ {stage} : sockets'[k] = sockets[k]
  BY <1>1, <1>2, <1>6, <1>10
<1>13. /\ maps' \in [Kinds -> SocketMap]
       /\ maps'[stage] = IF configs[next].libuv THEN maps[stage] ELSE map
       /\ \A k \in Kinds \ {stage} : maps'[k] = maps[k]
  BY <1>1, <1>2, <1>9, <1>11
<1> QED
  BY <1>1, <1>3, <1>8, <1>12, <1>13 DEF map

LEMMA CreateCore ==
    ASSUME CoreInv, CreateSocket, ~Terminate
    PROVE  CoreInv'
<1>1. Shape /\ Fresh /\ Loop /\ Alive /\ Led
  BY DEF CoreInv
<1>2. /\ stage \in Kinds /\ step = "create" /\ step' = "start"
      /\ next \in 1 .. Len(configs) /\ configs[next] \in Config
      /\ stage' = stage /\ configs' = configs /\ next' = next
      /\ sockets' \in [Kinds -> Seq(SocketStates)]
      /\ Len(sockets'[stage]) = next
      /\ sockets'[stage][next] = "created"
      /\ \A i \in 1 .. next - 1 : sockets'[stage][i] = sockets[stage][i]
      /\ maps' \in [Kinds -> SocketMap]
      /\ maps'[stage] = IF configs[next].libuv THEN maps[stage]
                        ELSE Put(maps[stage], configs[next].name, next)
      /\ \A k \in Kinds \ {stage} : sockets'[k] = sockets[k] /\ maps'[k] = maps[k]
  BY CreateSteps
<1>3. /\ Len(sockets[stage]) = next - 1 /\ next \in Nat \ {0}
      /\ maps[stage] \in SocketMap /\ configs[next].name \in Names
  BY <1>1, <1>2 DEF Shape, Loop, Config
<1>4. Shape'
  BY <1>1, <1>2 DEF Shape
<1>5. Fresh'
  BY <1>1, <1>2, NotYetStages, SMTT(30) DEF Fresh, Kinds
<1>6. ASSUME NEW n \in DOMAIN maps'[stage]
      PROVE  \/ /\ n \in DOMAIN maps[stage] /\ maps'[stage][n] = maps[stage][n]
                /\ maps[stage][n] \in 1 .. next - 1
             \/ /\ n = configs[next].name /\ maps'[stage][n] = next
                /\ ~configs[next].libuv
  <2>1. CASE configs[next].libuv
    BY <1>1, <1>2, <1>3, <2>1 DEF Led
  <2>2. CASE ~configs[next].libuv
    <3> DEFINE map == maps[stage]
               name == configs[next].name
               put == Put(map, name, next)
    <3>1. maps'[stage] = put
      BY <1>2, <2>2
    <3> HIDE DEF map, name
    <3>2. map \in SocketMap /\ name \in Names /\ next \in Nat
      BY <1>3 DEF map, name
    <3>3. /\ DOMAIN put = DOMAIN map \cup {name}
          /\ \A m \in DOMAIN map \cup {name} :
                put[m] = IF m = name THEN next ELSE map[m]
      BY <3>2, PutType
    <3> HIDE DEF put
    <3>5. /\ n \in DOMAIN map \cup {name}
          /\ maps'[stage][n] = IF n = name THEN next ELSE map[n]
      BY <3>1, <3>3
    <3>4. n \in DOMAIN maps[stage] => maps[stage][n] \in 1 .. next - 1
      <4>1. stage \in Kinds /\ Len(sockets[stage]) = next - 1
        BY <1>2, <1>3
      <4> QED
        BY <1>1, <4>1 DEF Led
    <3> QED
      BY <2>2, <3>4, <3>5 DEF map, name
  <2> QED
    BY <2>1, <2>2
<1>7. Loop'
  <2>1. \A n \in DOMAIN maps'[stage] : maps'[stage][n] = next =>
            n = configs[next].name /\ ~configs[next].libuv
    BY <1>3, <1>6
  <2> QED
    BY <1>2, <2>1 DEF Loop
<1>8. Alive'
  <2>1. ASSUME NEW k \in Kinds, NEW i \in 1 .. Len(sockets'[k])
        PROVE  \/ stage = "returned" \/ (stage = k /\ i = next)
               \/ sockets'[k][i] = "running"
    <3>1. CASE k = stage /\ i # next
      <4>1. i \in 1 .. Len(sockets[k]) /\ sockets'[k][i] = sockets[k][i]
        BY <1>2, <1>3, <3>1, SMTT(30)
      <4> QED
        BY <1>1, <1>2, <4>1 DEF Alive, Starting
    <3>2. CASE k # stage
      <4>1. sockets'[k] = sockets[k]
        BY <1>2, <3>2
      <4> QED
        BY <1>1, <1>2, <4>1 DEF Alive, Starting
    <3> QED
      BY <3>1, <3>2
  <2> QED
    BY <1>2, <2>1 DEF Alive, Starting
<1>9. Led'
  <2>1. ASSUME NEW n \in DOMAIN maps'[stage]
        PROVE  /\ maps'[stage][n] \in 1 .. Len(sockets'[stage])
               /\ sockets'[stage][maps'[stage][n]] # "deleted"
    <3>1. CASE n \in DOMAIN maps[stage] /\ maps'[stage][n] = maps[stage][n]
                 /\ maps[stage][n] \in 1 .. next - 1
      <4>1. sockets[stage][maps[stage][n]] # "deleted"
        BY <1>1, <1>2, <3>1 DEF Led
      <4> QED
        BY <1>2, <1>3, <3>1, <4>1
    <3>2. CASE maps'[stage][n] = next
      BY <1>2, <1>3, <3>2
    <3> QED
      BY <1>6, <3>1, <3>2
  <2>2. ASSUME NEW k \in Kinds \ {stage}, NEW n \in DOMAIN maps'[k]
        PROVE  /\ maps'[k][n] \in 1 .. Len(sockets'[k])
               /\ sockets'[k][maps'[k][n]] # "deleted"
    <3>1. sockets'[k] = sockets[k] /\ maps'[k] = maps[k]
      BY <1>2
    <3> QED
      BY <1>1, <3>1 DEF Led
  <2> QED
    BY <2>1, <2>2 DEF Led
<1> QED
  BY <1>4, <1>5, <1>7, <1>8, <1>9 DEF CoreInv

\* The socket that is being started changes its state, and no other.
LEMMA SetStateSteps ==
    ASSUME CoreInv, Initialising, step = "start", NEW state \in SocketStates,
           sockets' = [sockets EXCEPT ![stage][next] = state]
    PROVE  /\ stage \in Kinds /\ next \in Nat \ {0} /\ Len(sockets[stage]) = next
           /\ next \in 1 .. Len(configs) /\ configs[next] \in Config
           /\ sockets' \in [Kinds -> Seq(SocketStates)]
           /\ Len(sockets'[stage]) = next
           /\ sockets'[stage][next] = state
           /\ \A i \in 1 .. next - 1 : sockets'[stage][i] = sockets[stage][i]
           /\ \A k \in Kinds \ {stage} : sockets'[k] = sockets[k]
<1>1. /\ stage \in Kinds /\ next \in Nat \ {0} /\ Len(sockets[stage]) = next
      /\ sockets \in [Kinds -> Seq(SocketStates)]
      /\ configs \in Seq(Config) /\ next <= Len(configs)
  BY DEF CoreInv, Shape, Loop, Initialising
<1>2. next \in 1 .. Len(configs) /\ configs[next] \in Config
  BY <1>1, LenProperties, ElementOfSeq
<1> DEFINE list == sockets[stage]
           changed == [list EXCEPT ![next] = state]
<1>3. list \in Seq(SocketStates) /\ next \in 1 .. Len(list) /\ Len(list) = next
  BY <1>1
<1>4. sockets' = [sockets EXCEPT ![stage] = changed]
  BY <1>1
<1> HIDE DEF list
<1>5. /\ changed \in Seq(SocketStates) /\ Len(changed) = next
      /\ \A i \in 1 .. next : changed[i] = IF i = next THEN state ELSE list[i]
  BY <1>3, ExceptSeq
<1> HIDE DEF changed
<1>6. /\ sockets' \in [Kinds -> Seq(SocketStates)] /\ sockets'[stage] = changed
      /\ \A k \in Kinds \ {stage} : sockets'[k] = sockets[k]
  BY <1>1, <1>4, <1>5
<1>7. PICK n \in Nat \ {0} : n = next
  BY <1>1
<1>8. n \in 1 .. n /\ \A i \in 1 .. n - 1 : i \in 1 .. n /\ i # n
  BY <1>7
<1>9. \A i \in 1 .. n : changed[i] = IF i = n THEN state ELSE list[i]
  BY <1>5, <1>7
<1>10. changed[n] = state /\ \A i \in 1 .. n - 1 : changed[i] = list[i]
  <2>1. changed[n] = state
    BY <1>8, <1>9, Zenon
  <2>2. ASSUME NEW i \in 1 .. n - 1 PROVE changed[i] = list[i]
    <3>1. i \in 1 .. n /\ i # n
      BY <1>8
    <3> QED
      BY <1>9, <3>1, Zenon
  <2> QED
    BY <2>1, <2>2
<1>11. changed[next] = state /\ \A i \in 1 .. next - 1 : changed[i] = list[i]
  BY <1>7, <1>10
<1> QED
  BY <1>1, <1>2, <1>5, <1>6, <1>11 DEF list

LEMMA SucceedCore == CoreInv /\ StartSucceeds => CoreInv'
<1> SUFFICES ASSUME CoreInv, StartSucceeds PROVE CoreInv'
  OBVIOUS
<1>1. Shape /\ Fresh /\ Loop /\ Alive /\ Led
  BY DEF CoreInv
<1>2. /\ step = "start" /\ step' = "create" /\ next' = next + 1
      /\ stage' = stage /\ configs' = configs /\ maps' = maps
      /\ sockets' = [sockets EXCEPT ![stage][next] = "running"]
      /\ Initialising
  BY DEF StartSucceeds
<1>3. /\ stage \in Kinds /\ next \in Nat \ {0} /\ Len(sockets[stage]) = next
      /\ next \in 1 .. Len(configs)
      /\ sockets' \in [Kinds -> Seq(SocketStates)]
      /\ Len(sockets'[stage]) = next
      /\ sockets'[stage][next] = "running"
      /\ \A i \in 1 .. next - 1 : sockets'[stage][i] = sockets[stage][i]
      /\ \A k \in Kinds \ {stage} : sockets'[k] = sockets[k]
  BY <1>2, SetStateSteps DEF SocketStates
<1>4. Shape'
  BY <1>1, <1>2, <1>3 DEF Shape
<1>5. Fresh'
  BY <1>1, <1>2, <1>3, NotYetStages DEF Fresh, Kinds
<1>6. Loop'
  <2>1. Len(configs) \in Nat
    BY <1>1, LenProperties DEF Shape
  <2>2. Len(sockets'[stage]) = next' - 1 /\ next' <= Len(configs) + 1
    BY <1>2, <1>3, <2>1
  <2> QED
    BY <1>2, <2>2 DEF Loop
<1>7. Alive'
  <2>1. ASSUME NEW k \in Kinds, NEW i \in 1 .. Len(sockets'[k])
        PROVE  stage = "returned" \/ sockets'[k][i] = "running"
    <3>1. CASE k = stage /\ i # next
      <4>1. /\ i \in 1 .. Len(sockets[k]) /\ sockets'[k][i] = sockets[k][i]
            /\ ~Starting(k, i)
        BY <1>3, <3>1 DEF Starting
      <4> QED
        BY <1>1, <4>1 DEF Alive
    <3>2. CASE k # stage
      <4>1. sockets'[k] = sockets[k] /\ ~Starting(k, i)
        BY <1>3, <3>2 DEF Starting
      <4> QED
        BY <1>1, <4>1 DEF Alive
    <3> QED
      BY <1>3, <3>1, <3>2
  <2> QED
    BY <1>2, <2>1 DEF Alive
<1>8. Led'
  <2>1. ASSUME NEW k \in Kinds, NEW n \in DOMAIN maps[k]
        PROVE  /\ maps[k][n] \in 1 .. Len(sockets'[k])
               /\ sockets'[k][maps[k][n]] # "deleted"
    <3>1. maps[k][n] \in 1 .. Len(sockets[k]) /\ sockets[k][maps[k][n]] # "deleted"
      BY <1>1 DEF Led
    <3>2. CASE k = stage
      <4>1. CASE maps[k][n] = next
        BY <1>3, <3>2, <4>1
      <4>2. CASE maps[k][n] # next
        <5>1. maps[k][n] \in 1 .. next - 1
          BY <1>3, <3>1, <3>2, <4>2
        <5> QED
          BY <1>3, <3>1, <3>2, <5>1
      <4> QED
        BY <4>1, <4>2
    <3>3. CASE k # stage
      <4>1. sockets'[k] = sockets[k]
        BY <1>3, <3>3
      <4> QED
        BY <3>1, <4>1
    <3> QED
      BY <3>2, <3>3
  <2> QED
    BY <1>2, <2>1 DEF Led
<1> QED
  BY <1>4, <1>5, <1>6, <1>7, <1>8 DEF CoreInv

LEMMA FailCore == CoreInv /\ StartFails => CoreInv'
<1> SUFFICES ASSUME CoreInv, StartFails PROVE CoreInv'
  OBVIOUS
<1>1. Shape /\ Fresh /\ Loop /\ Alive /\ Led
  BY DEF CoreInv
<1>2. /\ step = "start" /\ stage' = "returned" /\ UNCHANGED <<step, configs, next>>
      /\ sockets' = [sockets EXCEPT ![stage][next] = "deleted"]
      /\ Initialising
      /\ maps' = IF configs[next].libuv THEN maps
                 ELSE [maps EXCEPT ![stage] = Without(@, configs[next].name)]
  BY DEF StartFails, Return
<1>3. /\ stage \in Kinds /\ next \in Nat \ {0} /\ Len(sockets[stage]) = next
      /\ sockets' \in [Kinds -> Seq(SocketStates)]
      /\ Len(sockets'[stage]) = next
      /\ \A i \in 1 .. next - 1 : sockets'[stage][i] = sockets[stage][i]
      /\ \A k \in Kinds \ {stage} : sockets'[k] = sockets[k]
  BY <1>2, SetStateSteps DEF SocketStates
<1> DEFINE map == maps[stage]
           rest == Without(map, configs[next].name)
<1>4. maps \in [Kinds -> SocketMap] /\ map \in SocketMap
  BY <1>1, <1>3 DEF Shape
<1>5. maps' = IF configs[next].libuv THEN maps ELSE [maps EXCEPT ![stage] = rest]
  BY <1>2
<1> HIDE DEF map
<1>6. /\ rest \in SocketMap /\ DOMAIN rest = DOMAIN map \ {configs[next].name}
      /\ \A n \in DOMAIN map \ {configs[next].name} : rest[n] = map[n]
  BY <1>4, WithoutType
<1> HIDE DEF rest
<1>7. /\ maps' \in [Kinds -> SocketMap]
      /\ maps'[stage] = IF configs[next].libuv THEN map ELSE rest
      /\ \A k \in Kinds \ {stage} : maps'[k] = maps[k]
  BY <1>3, <1>4, <1>5, <1>6 DEF map
<1>8. Shape'
  BY <1>1, <1>2, <1>3, <1>7 DEF Shape
<1>9. Fresh' /\ Loop' /\ Alive'
  BY <1>2, NotYetStages DEF Fresh, Loop, Alive, Kinds
<1>10. \A n \in DOMAIN map : map[n] = next =>
            n = configs[next].name /\ ~configs[next].libuv
  BY <1>1, <1>2, <1>3 DEF Loop, map
<1>11. ASSUME NEW n \in DOMAIN maps'[stage]
       PROVE  /\ n \in DOMAIN map /\ maps'[stage][n] = map[n]
              /\ map[n] # next
  <2>1. CASE configs[next].libuv
    BY <1>7, <1>10, <1>11, <2>1
  <2>2. CASE ~configs[next].libuv
    BY <1>6, <1>7, <1>10, <1>11, <2>2
  <2> QED
    BY <2>1, <2>2
<1>12. ASSUME NEW n \in DOMAIN maps'[stage]
       PROVE  /\ maps'[stage][n] \in 1 .. Len(sockets'[stage])
              /\ sockets'[stage][maps'[stage][n]] # "deleted"
  <2>1. /\ map[n] \in 1 .. Len(sockets[stage])
        /\ sockets[stage][map[n]] # "deleted"
    BY <1>1, <1>3, <1>11 DEF Led, map
  <2>2. map[n] \in 1 .. next - 1
    BY <1>3, <1>11, <2>1
  <2> QED
    BY <1>3, <1>11, <2>1, <2>2
<1>13. ASSUME NEW k \in Kinds \ {stage}, NEW n \in DOMAIN maps'[k]
       PROVE  /\ maps'[k][n] \in 1 .. Len(sockets'[k])
              /\ sockets'[k][maps'[k][n]] # "deleted"
  <2>1. sockets'[k] = sockets[k] /\ maps'[k] = maps[k]
    BY <1>3, <1>7
  <2> QED
    BY <1>1, <2>1 DEF Led
<1>14. Led'
  BY <1>12, <1>13 DEF Led
<1> QED
  BY <1>8, <1>9, <1>14 DEF CoreInv

\* A gateway configuration is one of the two, whoever has written it.
GatewayType == gatewayConfig \in {BootGateway, ReloadedGateway}

LEMMA StepCore == CoreInv /\ GatewayType /\ [Next]_vars => CoreInv'
<1> SUFFICES ASSUME CoreInv, GatewayType, [Next]_vars PROVE CoreInv'
  OBVIOUS
<1>1. CASE UNCHANGED core
  BY <1>1, SameCore
<1>2. Terminate => UNCHANGED core
  BY DEF Terminate, core, servers
<1>3. CASE ParseArgs
  BY <1>3, MoveCore DEF ParseArgs, In, Return, servers, Kinds
<1>4. CASE SetupSignalHandlers
  BY <1>4, MoveCore DEF SetupSignalHandlers, In, servers
<1>5. CASE SigWait
  BY <1>5, MoveCore DEF SigWait, In, Return, servers, Kinds
<1>6. CASE AllStarted
  BY <1>6, MoveCore DEF AllStarted, Initialising, servers
<1>7. ASSUME NEW kind \in Kinds, NEW resolved \in Seq(Config), Enter(kind, resolved)
      PROVE  CoreInv'
  <2>1. CASE Terminate
    BY <1>1, <1>2, <2>1
  <2>2. CASE ~Terminate
    BY <1>7, <2>2, EnterCore DEF Enter, In, servers
  <2> QED
    BY <2>1, <2>2
<1>8. CASE ResolveProxyServers \/ ResolveProtocolServers \/ GetApiGatewayConfig
  BY <1>7, <1>8, ProxyServersType, NamesType, PlainType
     DEF ResolveProxyServers, ResolveProtocolServers, GetApiGatewayConfig,
         GatewayType, Kinds
<1>9. CASE CreateSocket
  BY <1>1, <1>2, <1>9, CreateCore
<1>10. CASE StartSucceeds \/ StartFails
  BY <1>10, SucceedCore, FailCore
<1>11. CASE Exit \/ Signalled \/ Management \/ UNCHANGED vars
  BY <1>1, <1>11 DEF Exit, Signalled, Management, ReceiveConfiguration,
     LoadConfigurationsFromString, UpdateProxyServers, main, servers, vars, core
<1>12. CASE GatewayConfigRace \/ UseOfDestroyedStatics
  BY <1>1, <1>2, <1>12 DEF GatewayConfigRace, UseOfDestroyedStatics
<1>13. CASE TornCopy
  <2>1. configs' \in Seq(Config)
    BY <1>13, MixturesType, PlainType DEF TornCopy, GatewayType
  <2> QED
    BY <1>13, <2>1, EnterCore DEF TornCopy, In, servers, Kinds
<1> QED
  BY <1>3, <1>4, <1>5, <1>6, <1>8, <1>9, <1>10, <1>11, <1>12, <1>13 DEF Next, Main

\* The other variables take their values from small sets.
Rest ==
    /\ GatewayType
    /\ blocked \in BOOLEAN /\ exposed \in BOOLEAN
    /\ signal \in {"none", "pending", "taken"}
    /\ callback \in {"idle", "load", "update"}
    /\ process \in {"up", "killed", "aborted", "destructing", "gone"}
    /\ torn \in BOOLEAN

LEMMA StepRest == Rest /\ [Next]_vars => Rest'
<1> USE DEF Rest, GatewayType
<1> SUFFICES ASSUME Rest, [Next]_vars PROVE Rest'
  OBVIOUS
<1>1. CASE ParseArgs
  BY <1>1 DEF ParseArgs, Return, threads
<1>2. CASE SetupSignalHandlers
  BY <1>2 DEF SetupSignalHandlers, threads
<1>3. CASE ResolveProxyServers \/ ResolveProtocolServers \/ GetApiGatewayConfig
  BY <1>3 DEF ResolveProxyServers, ResolveProtocolServers, GetApiGatewayConfig,
     Enter, Terminate, threads
<1>4. CASE CreateSocket
  BY <1>4 DEF CreateSocket, Terminate, threads
<1>5. CASE StartSucceeds
  BY <1>5 DEF StartSucceeds
<1>6. CASE StartFails \/ AllStarted
  BY <1>6 DEF StartFails, AllStarted, Return, threads
<1>7. CASE SigWait \/ Exit
  BY <1>7 DEF SigWait, Exit, Return
<1>8. CASE Signalled
  BY <1>8 DEF Signalled
<1>9. CASE Management
  BY <1>9 DEF Management, ReceiveConfiguration, LoadConfigurationsFromString,
     UpdateProxyServers, main
<1>10. CASE GatewayConfigRace \/ UseOfDestroyedStatics
  BY <1>10 DEF GatewayConfigRace, UseOfDestroyedStatics, Terminate, threads
<1>11. CASE TornCopy
  BY <1>11 DEF TornCopy
<1>12. CASE UNCHANGED vars
  BY <1>12 DEF vars
<1> QED
  BY <1>1, <1>2, <1>3, <1>4, <1>5, <1>6, <1>7, <1>8, <1>9, <1>10, <1>11, <1>12
     DEF Next, Main

LEMMA CoreHolds == Spec => [](CoreInv /\ Rest)
<1>1. Init => Rest
  BY DEF Init, Rest, GatewayType
<1>2. Rest => GatewayType
  BY DEF Rest
<1> QED
  BY <1>1, <1>2, InitCore, StepCore, StepRest, PTL DEF Spec

\* The variables of Startup keep their types; above all, an entry of a socket
\* map is always a position of the sockets of its kind.
THEOREM TypeCorrect == Spec => []TypeOK
<1>1. CoreInv /\ Rest => TypeOK
  <2> SUFFICES ASSUME CoreInv, Rest PROVE TypeOK
    OBVIOUS
  <2>1. Shape /\ Led
    BY DEF CoreInv
  <2>2. ASSUME NEW k \in Kinds
        PROVE  /\ DOMAIN maps[k] \subseteq Names
               /\ \A n \in DOMAIN maps[k] : maps[k][n] \in DOMAIN sockets[k]
    <3>1. maps[k] \in SocketMap /\ sockets[k] \in Seq(SocketStates)
      BY <2>1 DEF Shape
    <3>2. DOMAIN sockets[k] = 1 .. Len(sockets[k])
      BY <3>1, LenProperties
    <3> QED
      BY <2>1, <3>1, <3>2, MapType DEF Led
  <2> QED
    BY <2>1, <2>2 DEF Shape, Config, Rest, GatewayType, TypeOK
<1> QED
  BY <1>1, CoreHolds, PTL

\* No entry of a socket map leads to a deleted socket, for any number of
\* servers and any names, the same name twice included.
THEOREM MapsNeverDangle == Spec => []MapsLeadToSockets
<1>1. CoreInv => MapsLeadToSockets
  BY DEF CoreInv, Led, MapsLeadToSockets
<1> QED
  BY <1>1, CoreHolds, PTL

-----------------------------------------------------------------------------
(* Signals *)

SignalInv ==
    /\ ~exposed
    /\ stage \in Kinds \cup {"wait"} => blocked
    /\ process = "up" => stage # "returned"
    /\ process = "killed" => stage \in {"args", "signals"}

LEMMA StepSignal == CoreInv /\ Rest /\ SignalInv /\ [Next]_vars => SignalInv'
<1> USE DEF SignalInv
<1> SUFFICES ASSUME CoreInv, Rest, SignalInv, [Next]_vars PROVE SignalInv'
  OBVIOUS
<1>1. stage \in {"args", "signals", "wait", "returned"} \cup Kinds
  BY DEF CoreInv, Shape
<1>2. CASE ParseArgs
  BY <1>2 DEF ParseArgs, In, Return, threads, Kinds
<1>3. CASE SetupSignalHandlers
  BY <1>3 DEF SetupSignalHandlers, In, threads
<1>4. CASE ResolveProxyServers \/ ResolveProtocolServers \/ GetApiGatewayConfig
  BY <1>4 DEF ResolveProxyServers, ResolveProtocolServers, GetApiGatewayConfig,
     Enter, In, Terminate, threads
<1>5. CASE CreateSocket
  <2>1. CASE Terminate
    BY <2>1 DEF Terminate, threads
  <2>2. CASE UNCHANGED <<stage, blocked, threads, process>>
    BY <2>2 DEF threads
  <2>3. Terminate \/ UNCHANGED <<stage, blocked, threads, process>>
    BY <1>5 DEF CreateSocket
  <2> QED
    BY <2>1, <2>2, <2>3
<1>6. CASE StartSucceeds
  BY <1>6 DEF StartSucceeds, Initialising
<1>7. CASE StartFails
  BY <1>7 DEF StartFails, Return, threads, Kinds
<1>8. CASE AllStarted
  BY <1>8, NotYetStages DEF AllStarted, Initialising, threads, Kinds
<1>9. CASE SigWait \/ Exit
  BY <1>9 DEF SigWait, Exit, In, Return, Kinds
<1>10. CASE Signalled
  BY <1>1, <1>10 DEF Signalled
<1>11. CASE Management
  BY <1>11 DEF Management, ReceiveConfiguration, LoadConfigurationsFromString,
     UpdateProxyServers, main
<1>12. CASE GatewayConfigRace \/ UseOfDestroyedStatics
  BY <1>12 DEF GatewayConfigRace, UseOfDestroyedStatics, Terminate, threads
<1>13. CASE TornCopy
  BY <1>13 DEF TornCopy
<1>14. CASE UNCHANGED vars
  BY <1>14 DEF vars
<1> QED
  BY <1>2, <1>3, <1>4, <1>5, <1>6, <1>7, <1>8, <1>9, <1>10, <1>11, <1>12, <1>13,
     <1>14 DEF Next, Main

\* A termination signal kills the process only before its first server runs,
\* for any configuration: from then on it stays pending.
THEOREM SignalsWait == Spec => []ServersNotCutOff
<1>1. Init => SignalInv
  BY DEF Init, SignalInv, Kinds
<1>2. CoreInv /\ SignalInv => ServersNotCutOff
  <2> SUFFICES ASSUME CoreInv, SignalInv, process = "killed", NEW k \in Kinds
               PROVE  sockets[k] = << >>
    BY DEF ServersNotCutOff
  <2> QED
    BY NotYetStages DEF SignalInv, CoreInv, Fresh
<1> QED
  BY <1>1, <1>2, StepSignal, CoreHolds, PTL DEF Spec

-----------------------------------------------------------------------------
(* What a hot reload finds *)

Named(m) ==
    \A i \in 1 .. m : ~ProxyServers[i].libuv =>
        ProxyServers[i].name \in DOMAIN maps["proxy"]

Found ==
    \A i \in 1 .. Len(ProxyServers) : ~ProxyServers[i].libuv =>
        /\ ProxyServers[i].name \in DOMAIN maps["proxy"]
        /\ sockets["proxy"][maps["proxy"][ProxyServers[i].name]] = "running"

\* While proxies are created, those before the current one have their entries;
\* before a protocol server exists all have, and a callback needs one to exist.
FindInv ==
    /\ stage = "proxy" /\ step = "create" => configs = ProxyServers /\ Named(next - 1)
    /\ stage = "proxy" /\ step = "start" => configs = ProxyServers /\ Named(next)
    /\ stage \in {"protocol", "gateway", "wait"} => Found
    /\ sockets["protocol"] # << >> => Found
    /\ callback # "idle" => sockets["protocol"] # << >>

LEMMA NoProtocolYet ==
    ASSUME CoreInv, stage \in {"args", "signals", "proxy"}
    PROVE  sockets["protocol"] = << >>
BY DEF CoreInv, Fresh, NotYet, Kinds

LEMMA SameFind ==
    FindInv /\ UNCHANGED <<step, configs, next, sockets, maps, callback, stage>>
        => FindInv'
BY DEF FindInv, Named, Found

LEMMA CreateFind ==
    ASSUME CoreInv, FindInv, CreateSocket, ~Terminate
    PROVE  FindInv'
<1>1. /\ stage \in Kinds /\ step = "create" /\ step' = "start"
      /\ next \in 1 .. Len(configs) /\ configs[next] \in Config
      /\ stage' = stage /\ configs' = configs /\ next' = next
      /\ Len(sockets'[stage]) = next
      /\ maps'[stage] = IF configs[next].libuv THEN maps[stage]
                        ELSE Put(maps[stage], configs[next].name, next)
      /\ \A k \in Kinds \ {stage} : sockets'[k] = sockets[k] /\ maps'[k] = maps[k]
  BY CreateSteps
<1>2. callback' = callback
  BY DEF CreateSocket, Terminate, threads
<1>3. maps["proxy"] \in SocketMap /\ next \in Nat \ {0}
  BY DEF CoreInv, Shape, Kinds
<1>4. CASE stage = "proxy"
  <2> DEFINE map == maps["proxy"]
             name == configs[next].name
             put == Put(map, name, next)
  <2>1. configs = ProxyServers /\ Named(next - 1)
    BY <1>1, <1>4 DEF FindInv
  <2>2. name \in Names /\ map \in SocketMap /\ next \in Nat
    BY <1>1, <1>3 DEF Config
  <2>3. maps'["proxy"] = IF configs[next].libuv THEN map ELSE put
    BY <1>1, <1>4
  <2> HIDE DEF map, name
  <2>4. DOMAIN put = DOMAIN map \cup {name}
    BY <2>2, PutType
  <2> HIDE DEF put
  <2>5. DOMAIN maps["proxy"] \subseteq DOMAIN maps'["proxy"]
    BY <2>3, <2>4 DEF map
  <2>6. ~configs[next].libuv => configs[next].name \in DOMAIN maps'["proxy"]
    BY <2>3, <2>4 DEF name
  <2>7. \A i \in 1 .. next : ~ProxyServers[i].libuv =>
            ProxyServers[i].name \in DOMAIN maps'["proxy"]
    <3> SUFFICES ASSUME NEW i \in 1 .. next, ~ProxyServers[i].libuv
                 PROVE  ProxyServers[i].name \in DOMAIN maps'["proxy"]
      OBVIOUS
    <3>1. CASE i = next
      BY <2>1, <2>6, <3>1
    <3>2. CASE i # next
      <4>1. i \in 1 .. next - 1
        BY <1>3, <3>2
      <4> QED
        BY <2>1, <2>5, <4>1 DEF Named
    <3> QED
      BY <3>1, <3>2
  <2>8. sockets'["protocol"] = << >> /\ callback = "idle"
    BY <1>1, <1>4, NoProtocolYet DEF FindInv, Kinds
  <2> QED
    BY <1>1, <1>2, <1>4, <2>1, <2>7, <2>8 DEF FindInv, Named
<1>5. CASE stage # "proxy"
  <2>1. Found /\ maps'["proxy"] = maps["proxy"] /\ sockets'["proxy"] = sockets["proxy"]
    BY <1>1, <1>5 DEF FindInv, Kinds
  <2>2. Found'
    BY <2>1 DEF Found
  <2>3. callback # "idle" => sockets'["protocol"] # << >>
    <3>1. CASE stage = "protocol"
      BY <1>1, <1>3, <3>1, EmptySeq
    <3>2. CASE stage # "protocol"
      BY <1>1, <3>2 DEF FindInv, Kinds
    <3> QED
      BY <3>1, <3>2
  <2> QED
    BY <1>1, <1>2, <1>5, <2>2, <2>3 DEF FindInv
<1> QED
  BY <1>4, <1>5

LEMMA StartFind ==
    ASSUME CoreInv, FindInv, StartSucceeds \/ StartFails
    PROVE  FindInv'
<1>1. step = "start" /\ Initialising /\ configs' = configs /\ callback' = callback
  BY DEF StartSucceeds, StartFails, threads
<1>2. PICK state \in SocketStates :
          sockets' = [sockets EXCEPT ![stage][next] = state]
  BY DEF StartSucceeds, StartFails, SocketStates
<1>3. /\ stage \in Kinds /\ next \in Nat \ {0}
      /\ Len(sockets'[stage]) = next
      /\ \A k \in Kinds \ {stage} : sockets'[k] = sockets[k]
  BY <1>1, <1>2, SetStateSteps
<1>4. maps \in [Kinds -> SocketMap]
  BY DEF CoreInv, Shape
<1>5. \A k \in Kinds \ {stage} : maps'[k] = maps[k]
  BY <1>3, <1>4 DEF StartSucceeds, StartFails
<1>6. CASE stage = "proxy"
  <2>1. sockets'["protocol"] = << >> /\ callback = "idle"
    BY <1>3, <1>6, NoProtocolYet DEF FindInv, Kinds
  <2>2. CASE StartSucceeds
    <3>1. /\ stage' = "proxy" /\ step' = "create" /\ next' - 1 = next /\ maps' = maps
      BY <1>3, <1>6, <2>2 DEF StartSucceeds
    <3>2. configs = ProxyServers /\ Named(next)
      BY <1>1, <1>6 DEF FindInv
    <3>3. \A i \in 1 .. next' - 1 : ~ProxyServers[i].libuv =>
              ProxyServers[i].name \in DOMAIN maps'["proxy"]
      BY <3>1, <3>2 DEF Named
    <3> QED
      BY <1>1, <2>1, <3>1, <3>2, <3>3 DEF FindInv, Named
  <2>3. CASE StartFails
    <3>1. stage' = "returned"
      BY <2>3 DEF StartFails, Return
    <3> QED
      BY <1>1, <2>1, <3>1 DEF FindInv
  <2> QED
    BY <2>2, <2>3
<1>7. CASE stage # "proxy"
  <2>1. Found /\ maps'["proxy"] = maps["proxy"] /\ sockets'["proxy"] = sockets["proxy"]
    BY <1>3, <1>5, <1>7 DEF FindInv, Kinds
  <2>2. Found'
    BY <2>1 DEF Found
  <2>3. callback # "idle" => sockets'["protocol"] # << >>
    <3>1. CASE stage = "protocol"
      BY <1>3, <3>1, EmptySeq
    <3>2. CASE stage # "protocol"
      BY <1>3, <3>2 DEF FindInv, Kinds
    <3> QED
      BY <3>1, <3>2
  <2>4. stage' # "proxy"
    BY <1>7 DEF StartSucceeds, StartFails, Return
  <2> QED
    BY <1>1, <2>2, <2>3, <2>4 DEF FindInv
<1> QED
  BY <1>6, <1>7

LEMMA AllStartedFind ==
    ASSUME CoreInv, FindInv, AllStarted
    PROVE  FindInv'
<1>1. /\ stage \in Kinds /\ step = "create" /\ next \notin DOMAIN configs
      /\ stage' = NextStage[stage] /\ step' = "resolve"
      /\ UNCHANGED <<sockets, maps, callback>>
  BY DEF AllStarted, Initialising, servers, threads
<1>2. stage' # "proxy"
  BY <1>1 DEF NextStage, Kinds
<1>3. CASE stage = "proxy"
  <2>1. configs = ProxyServers /\ Named(next - 1) /\ Len(configs) \in Nat
    BY <1>1, <1>3, ProxyServersType, LenProperties DEF FindInv
  <2>2. next <= Len(configs) + 1 /\ next \in Nat \ {0} /\ DOMAIN configs = 1 .. Len(configs)
    BY <1>1, LenProperties DEF CoreInv, Loop, Shape
  <2>3. next - 1 = Len(ProxyServers)
    BY <1>1, <2>1, <2>2
  <2>4. Named(Len(ProxyServers))
    BY <2>1, <2>3
  <2>5. \A n \in DOMAIN maps["proxy"] : sockets["proxy"][maps["proxy"][n]] = "running"
    BY <1>1, <1>3 DEF CoreInv, Alive, Starting, Led, Kinds
  <2>6. Found'
    BY <1>1, <2>4, <2>5 DEF Found, Named
  <2> QED
    BY <1>1, <1>2, <2>6 DEF FindInv
<1>4. CASE stage # "proxy"
  <2>1. Found'
    BY <1>1, <1>4 DEF FindInv, Found, Kinds
  <2> QED
    BY <1>1, <1>2, <2>1 DEF FindInv
<1> QED
  BY <1>3, <1>4

LEMMA StepFind == CoreInv /\ FindInv /\ [Next]_vars => FindInv'
<1> SUFFICES ASSUME CoreInv, FindInv, [Next]_vars PROVE FindInv'
  OBVIOUS
<1>1. CASE Terminate \/ Signalled \/ UNCHANGED vars
  BY <1>1, SameFind DEF Terminate, Signalled, vars, servers, threads
<1>2. CASE ParseArgs \/ SetupSignalHandlers \/ SigWait
  <2>1. /\ UNCHANGED <<step, sockets, maps, callback>>
        /\ \/ stage = "args" /\ stage' \in {"signals", "returned"}
           \/ stage = "signals" /\ stage' = "proxy"
           \/ stage = "wait" /\ stage' = "returned"
    BY <1>2 DEF ParseArgs, SetupSignalHandlers, SigWait, In, Return, servers, threads
  <2>2. stage = "signals" => step = "resolve"
    BY DEF CoreInv, Fresh
  <2> QED
    BY <2>1, <2>2 DEF FindInv, Found
<1>3. CASE ResolveProxyServers /\ ~Terminate
  <2>1. /\ stage = "proxy" /\ stage' = "proxy" /\ step' = "create"
        /\ configs' = ProxyServers /\ next' = 1 /\ UNCHANGED <<sockets, maps, callback>>
    BY <1>3 DEF ResolveProxyServers, Enter, In, servers, threads
  <2>2. \A i \in 1 .. next' - 1 : FALSE
    BY <2>1
  <2> QED
    BY <2>1, <2>2 DEF FindInv, Named, Found
<1>4. CASE (ResolveProtocolServers \/ GetApiGatewayConfig) /\ ~Terminate
  <2>1. /\ stage \in {"protocol", "gateway"} /\ stage' = stage
        /\ UNCHANGED <<sockets, maps, callback>>
    BY <1>4 DEF ResolveProtocolServers, GetApiGatewayConfig, Enter, In, servers, threads
  <2> QED
    BY <2>1 DEF FindInv, Found
<1>5. CASE CreateSocket
  BY <1>1, <1>5, CreateFind
<1>6. CASE StartSucceeds \/ StartFails
  BY <1>6, StartFind
<1>7. CASE AllStarted
  BY <1>7, AllStartedFind
<1>8. CASE Exit
  BY <1>8 DEF Exit, FindInv, Named, Found, servers
<1>9. CASE Management
  <2>1. UNCHANGED <<stage, step, configs, next, sockets, maps>> /\ ManagementRuns
    BY <1>9 DEF Management, ReceiveConfiguration, LoadConfigurationsFromString,
       UpdateProxyServers, main, servers
  <2>2. sockets["protocol"] # << >>
    BY <2>1, EmptySeq DEF ManagementRuns
  <2> QED
    BY <2>1, <2>2 DEF FindInv, Named, Found
<1>10. CASE GatewayConfigRace \/ UseOfDestroyedStatics
  BY <1>1, <1>10 DEF GatewayConfigRace, UseOfDestroyedStatics
<1>11. CASE TornCopy
  <2>1. /\ stage = "gateway" /\ stage' = stage /\ UNCHANGED <<sockets, maps>>
        /\ callback # "idle"
    BY <1>11 DEF TornCopy, In, servers
  <2> QED
    BY <2>1 DEF FindInv, Found
<1> QED
  BY <1>1, <1>2, <1>3, <1>4, <1>5, <1>6, <1>7, <1>8, <1>9, <1>10, <1>11
     DEF Next, Main

\* A hot reload that reaches updateProxyServers finds an entry and a running
\* socket for every proxy that has one, for any configuration, also when main
\* is still starting servers or has returned.
THEOREM ReloadMeetsWholeMap == Spec => []ReloadFindsEverySocket
<1>1. Init => FindInv
  BY DEF Init, FindInv, Kinds
<1>2. FindInv => ReloadFindsEverySocket
  <2>1. DOMAIN ProxyServers = 1 .. Len(ProxyServers)
    BY ProxyServersType, LenProperties
  <2> QED
    BY <2>1 DEF FindInv, Found, ReloadFindsEverySocket
<1> QED
  BY <1>1, <1>2, StepFind, CoreHolds, PTL DEF Spec

-----------------------------------------------------------------------------
(* Gateways *)

Documents == {BootGateway, ReloadedGateway}

\* The map holds the gateways of the first m end-points of document d, each
\* name with the last of them.
Entries(d, m) ==
    /\ DOMAIN maps["gateway"] = {d[i] : i \in 1 .. m}
    /\ \A j \in 1 .. m : LET i == maps["gateway"][d[j]]
                         IN  i \in 1 .. m /\ j <= i /\ d[i] = d[j]

OneDocument ==
    \E d \in Documents :
        /\ Len(sockets["gateway"]) = Len(d)
        /\ DOMAIN maps["gateway"] = ToSet(d)
        /\ \A j \in DOMAIN d : LET i == maps["gateway"][d[j]]
                                IN  j <= i /\ d[i] = d[j]

\* While gateways are created, all of them so far are of the document that was
\* copied, whatever has replaced it since, unless the copy was torn.
GatewayInv ==
    ~torn =>
        /\ stage = "gateway" /\ step = "create" =>
              \E d \in Documents : configs = Plain(d) /\ Entries(d, next - 1)
        /\ stage = "gateway" /\ step = "start" =>
              \E d \in Documents : configs = Plain(d) /\ Entries(d, next)
        /\ stage = "wait" => OneDocument

LEMMA SameGateway ==
    GatewayInv /\ UNCHANGED <<stage, step, configs, next, sockets, maps, torn>>
        => GatewayInv'
BY DEF GatewayInv, Entries, OneDocument

LEMMA OtherGateway ==
    stage' \notin {"gateway", "wait"} => GatewayInv'
BY DEF GatewayInv

LEMMA DocumentType ==
    ASSUME NEW d \in Documents
    PROVE  /\ d \in Seq(Names) /\ Len(d) \in Nat /\ DOMAIN d = 1 .. Len(d)
           /\ \A i \in 1 .. Len(d) : d[i] \in Names
BY NamesType, LenProperties, ElementOfSeq DEF Documents

\* The next end-point of a document joins the map.
LEMMA EntriesGrow ==
    ASSUME NEW d \in Documents, NEW n \in Nat \ {0}, n \in 1 .. Len(d),
           Entries(d, n - 1), maps["gateway"] \in SocketMap,
           maps'["gateway"] = Put(maps["gateway"], d[n], n)
    PROVE  Entries(d, n)'
<1> DEFINE map == maps["gateway"]
           put == Put(map, d[n], n)
<1>1. d[n] \in Names /\ map \in SocketMap /\ n \in Nat
  BY DocumentType
<1>2. \A i : i \in 1 .. n <=> i \in 1 .. n - 1 \/ i = n
  OBVIOUS
<1>3. /\ DOMAIN map = {d[i] : i \in 1 .. n - 1}
      /\ \A j \in 1 .. n - 1 :
            map[d[j]] \in 1 .. n - 1 /\ j <= map[d[j]] /\ d[map[d[j]]] = d[j]
  BY DEF Entries
<1>4. maps'["gateway"] = put
  OBVIOUS
<1> HIDE DEF map
<1>5. /\ DOMAIN put = DOMAIN map \cup {d[n]}
      /\ \A name \in DOMAIN map \cup {d[n]} :
            put[name] = IF name = d[n] THEN n ELSE map[name]
  BY DEF Put
<1> HIDE DEF put
<1>6. DOMAIN put = {d[i] : i \in 1 .. n}
  BY <1>2, <1>3, <1>5
<1>7. ASSUME NEW j \in 1 .. n
      PROVE  put[d[j]] \in 1 .. n /\ j <= put[d[j]] /\ d[put[d[j]]] = d[j]
  <2>1. d[j] \in DOMAIN map \cup {d[n]}
    BY <1>5, <1>6
  <2>2. CASE d[j] = d[n]
    <3>1. put[d[j]] = n
      BY <1>5, <2>1, <2>2
    <3> QED
      BY <2>2, <3>1
  <2>3. CASE d[j] # d[n]
    <3>1. put[d[j]] = map[d[j]]
      BY <1>5, <2>1, <2>3
    <3>2. j \in 1 .. n - 1
      BY <1>2, <2>3
    <3> QED
      BY <1>3, <3>1, <3>2
  <2> QED
    BY <2>2, <2>3
<1> QED
  BY <1>4, <1>6, <1>7 DEF Entries

LEMMA GatewayCreate ==
    ASSUME CoreInv, GatewayInv, CreateSocket, ~Terminate
    PROVE  GatewayInv'
<1>1. /\ stage \in Kinds /\ step = "create" /\ step' = "start"
      /\ next \in 1 .. Len(configs)
      /\ stage' = stage /\ configs' = configs /\ next' = next
      /\ maps'[stage] = IF configs[next].libuv THEN maps[stage]
                        ELSE Put(maps[stage], configs[next].name, next)
  BY CreateSteps
<1>2. maps["gateway"] \in SocketMap /\ next \in Nat \ {0}
  BY DEF CoreInv, Shape, Kinds
<1>3. torn' = torn
  BY DEF CreateSocket, threads
<1>4. CASE stage = "gateway" /\ ~torn
  <2>1. PICK d \in Documents : configs = Plain(d) /\ Entries(d, next - 1)
    BY <1>1, <1>4 DEF GatewayInv
  <2>2. /\ Len(configs) = Len(d) /\ configs[next].name = d[next]
        /\ configs[next].libuv = FALSE /\ next \in 1 .. Len(d)
    BY <1>1, <2>1, DocumentType, PlainType
  <2>3. maps'["gateway"] = Put(maps["gateway"], d[next], next)
    BY <1>1, <1>4, <2>2
  <2>4. Entries(d, next)'
    BY <1>1, <1>2, <2>1, <2>2, <2>3, EntriesGrow
  <2> QED
    BY <1>1, <1>4, <2>1, <2>4 DEF GatewayInv
<1>5. CASE stage # "gateway"
  BY <1>1, <1>5, OtherGateway DEF Kinds
<1> QED
  BY <1>3, <1>4, <1>5 DEF GatewayInv

LEMMA GatewayStart ==
    ASSUME CoreInv, GatewayInv, StartSucceeds
    PROVE  GatewayInv'
<1>1. /\ stage \in Kinds /\ step = "start" /\ step' = "create" /\ next' = next + 1
      /\ UNCHANGED <<stage, configs, maps, torn>> /\ next \in Nat \ {0}
  BY DEF StartSucceeds, Initialising, CoreInv, Shape
<1>2. CASE stage = "gateway" /\ ~torn
  <2>1. PICK d \in Documents : configs = Plain(d) /\ Entries(d, next)
    BY <1>1, <1>2 DEF GatewayInv
  <2>2. next' - 1 = next
    BY <1>1
  <2>3. Entries(d, next - 1)'
    BY <1>1, <2>1, <2>2 DEF Entries
  <2> QED
    BY <1>1, <1>2, <2>1, <2>3 DEF GatewayInv
<1>3. CASE stage # "gateway"
  BY <1>1, <1>3, OtherGateway DEF Kinds
<1> QED
  BY <1>1, <1>2, <1>3 DEF GatewayInv

LEMMA GatewayAllStarted ==
    ASSUME CoreInv, GatewayInv, AllStarted
    PROVE  GatewayInv'
<1>1. /\ stage \in Kinds /\ step = "create" /\ next \notin DOMAIN configs
      /\ stage' = NextStage[stage] /\ step' = "resolve"
      /\ sockets' = sockets /\ maps' = maps /\ torn' = torn
  BY DEF AllStarted, Initialising, servers, threads
<1>2. CASE stage = "gateway" /\ ~torn
  <2>1. PICK d \in Documents : configs = Plain(d) /\ Entries(d, next - 1)
    BY <1>1, <1>2 DEF GatewayInv
  <2>2. Len(configs) = Len(d) /\ Len(d) \in Nat
    BY <2>1, DocumentType, PlainType
  <2>3. /\ next <= Len(configs) + 1 /\ next \in Nat \ {0}
        /\ DOMAIN configs = 1 .. Len(configs)
        /\ Len(sockets["gateway"]) = next - 1
    BY <1>1, <1>2, LenProperties DEF CoreInv, Loop, Shape
  <2>4. next - 1 = Len(d)
    BY <1>1, <2>2, <2>3
  <2>5. DOMAIN d = 1 .. Len(d)
    BY <2>1, DocumentType
  <2>6. OneDocument
    BY <2>1, <2>3, <2>4, <2>5 DEF OneDocument, Entries, ToSet
  <2>7. stage' = "wait"
    BY <1>1, <1>2 DEF NextStage
  <2> QED
    BY <1>1, <2>6, <2>7 DEF GatewayInv, OneDocument
<1>3. CASE stage # "gateway"
  <2>1. stage' # "wait"
    BY <1>1, <1>3 DEF NextStage, Kinds
  <2> QED
    BY <1>1, <2>1 DEF GatewayInv
<1> QED
  BY <1>1, <1>2, <1>3 DEF GatewayInv

LEMMA StepGateway == CoreInv /\ GatewayType /\ GatewayInv /\ [Next]_vars => GatewayInv'
<1> SUFFICES ASSUME CoreInv, GatewayType, GatewayInv, [Next]_vars PROVE GatewayInv'
  OBVIOUS
<1>1. CASE Terminate \/ Signalled \/ Exit \/ Management \/ UNCHANGED vars
  BY <1>1, SameGateway DEF Terminate, Signalled, Exit, Management,
     ReceiveConfiguration, LoadConfigurationsFromString, UpdateProxyServers,
     main, vars, servers, threads
<1>2. CASE ParseArgs \/ SetupSignalHandlers \/ SigWait \/ StartFails
  <2>1. stage' \in {"signals", "proxy", "returned"}
    BY <1>2 DEF ParseArgs, SetupSignalHandlers, SigWait, StartFails, Return
  <2> QED
    BY <2>1, OtherGateway
<1>3. CASE (ResolveProxyServers \/ ResolveProtocolServers) /\ ~Terminate
  <2>1. stage' \in {"proxy", "protocol"}
    BY <1>3 DEF ResolveProxyServers, ResolveProtocolServers, Enter, In
  <2> QED
    BY <2>1, OtherGateway
<1>4. CASE GetApiGatewayConfig /\ ~Terminate
  <2>1. /\ stage = "gateway" /\ step = "resolve" /\ stage' = stage
        /\ step' = "create" /\ configs' = Plain(gatewayConfig) /\ next' = 1
        /\ maps' = maps
    BY <1>4 DEF GetApiGatewayConfig, Enter, In, servers
  <2>2. DOMAIN maps["gateway"] = {}
    BY <2>1 DEF CoreInv, Fresh, Kinds
  <2>3. PICK d \in Documents : d = gatewayConfig
    BY DEF GatewayType, Documents
  <2>4. \A i : i \notin 1 .. next' - 1
    BY <2>1
  <2>5. Entries(d, next - 1)'
    BY <2>1, <2>2, <2>4 DEF Entries
  <2> QED
    BY <2>1, <2>3, <2>5 DEF GatewayInv
<1>5. CASE CreateSocket
  BY <1>1, <1>5, GatewayCreate
<1>6. CASE StartSucceeds
  BY <1>6, GatewayStart
<1>7. CASE AllStarted
  BY <1>7, GatewayAllStarted
<1>8. CASE GatewayConfigRace \/ UseOfDestroyedStatics
  BY <1>1, <1>8 DEF GatewayConfigRace, UseOfDestroyedStatics
<1>9. CASE TornCopy
  BY <1>9 DEF TornCopy, GatewayInv
<1> QED
  BY <1>1, <1>2, <1>3, <1>4, <1>5, <1>6, <1>7, <1>8, <1>9 DEF Next, Main

\* The gateway servers of a process that has come to sigwait are those of one
\* whole document and in its order, for any two documents and any moment of the
\* hot reload, unless the reload has torn the copy that main took.
THEOREM GatewaysComeFromOneDocument == Spec => []GatewaysOfOneDocument
<1>1. Init => GatewayInv
  BY DEF Init, GatewayInv, Kinds
<1>2. GatewayInv => GatewaysOfOneDocument
  BY DEF GatewayInv, OneDocument, Documents, GatewaysOfOneDocument
<1>3. Rest => GatewayType
  BY DEF Rest
<1> QED
  BY <1>1, <1>2, <1>3, StepGateway, CoreHolds, PTL DEF Spec

-----------------------------------------------------------------------------
(***************************************************************************)
(* The promise of ProcessLife.  Serving needs two things of the sockets:   *)
(* that all of a kind but the one being started run, which is Alive, and   *)
(* that a kind main has gone past has as many as were planned.             *)
(***************************************************************************)
Beyond == [proxy    |-> {"protocol", "gateway", "wait"},
           protocol |-> {"gateway", "wait"},
           gateway  |-> {"wait"}]

PlanInv ==
    /\ \A k \in Kinds : stage \in Beyond[k] => Len(sockets[k]) \in Planned[k]
    /\ stage \in Kinds /\ step \in {"create", "start"} =>
          Len(configs) \in Planned[stage]

LEMMA InitPlan == Init => PlanInv
BY DEF Init, PlanInv, Beyond, Kinds

LEMMA SamePlan ==
    PlanInv /\ UNCHANGED <<stage, step, configs, sockets>> => PlanInv'
BY DEF PlanInv

LEMMA PlannedType == \A k \in Kinds : Planned[k] \subseteq Nat
<1>1. /\ Len(ProxyServers) \in Nat /\ Len(ProtocolServers) \in Nat
      /\ Len(BootGateway) \in Nat /\ Len(ReloadedGateway) \in Nat
  BY ServersAssumption, LenProperties
<1> QED
  BY <1>1 DEF Planned, Kinds

LEMMA BeyondStages ==
    /\ \A k \in Kinds : k \notin Beyond[k] /\ "args" \notin Beyond[k]
                       /\ "signals" \notin Beyond[k] /\ "proxy" \notin Beyond[k]
                       /\ "returned" \notin Beyond[k]
    /\ \A s \in Kinds, k \in Kinds :
          NextStage[s] \in Beyond[k] <=> s \in Beyond[k] \/ s = k
BY DEF Beyond, NextStage, Kinds

LEMMA StepPlan == CoreInv /\ GatewayType /\ PlanInv /\ [Next]_vars => PlanInv'
<1> SUFFICES ASSUME CoreInv, GatewayType, PlanInv, [Next]_vars PROVE PlanInv'
  OBVIOUS
<1>1. CASE Terminate \/ Signalled \/ Exit \/ Management \/ UNCHANGED vars
  BY <1>1, SamePlan DEF Terminate, Signalled, Exit, Management,
     ReceiveConfiguration, LoadConfigurationsFromString, UpdateProxyServers,
     main, vars, servers
<1>2. CASE ParseArgs \/ SetupSignalHandlers \/ SigWait \/ StartFails
  <2>1. \/ stage' \in {"signals", "returned"}
        \/ stage' = "proxy" /\ stage = "signals" /\ step' = step
    BY <1>2 DEF ParseArgs, SetupSignalHandlers, SigWait, StartFails, Return, In
  <2>2. stage = "signals" => step = "resolve"
    BY DEF CoreInv, Fresh
  <2> QED
    BY <2>1, <2>2, BeyondStages DEF PlanInv, Kinds
<1>3. CASE (ResolveProxyServers \/ ResolveProtocolServers \/ GetApiGatewayConfig)
              /\ ~Terminate
  <2>1. /\ stage \in Kinds /\ UNCHANGED <<stage, sockets>>
        /\ \/ stage = "proxy" /\ configs' = ProxyServers
           \/ stage = "protocol" /\ configs' = Plain(ProtocolServers)
           \/ stage = "gateway" /\ configs' = Plain(gatewayConfig)
    BY <1>3 DEF ResolveProxyServers, ResolveProtocolServers, GetApiGatewayConfig,
       Enter, In, servers, Kinds
  <2>2. Len(configs') \in Planned[stage]
    <3>1. CASE stage = "proxy"
      BY <2>1, <3>1 DEF Planned
    <3>2. CASE stage = "protocol"
      BY <2>1, <3>2, NamesType, PlainType DEF Planned
    <3>3. CASE stage = "gateway"
      <4>1. gatewayConfig \in Seq(Names)
        BY NamesType DEF GatewayType
      <4>2. Len(configs') = Len(gatewayConfig)
        BY <2>1, <3>3, <4>1, PlainType
      <4> QED
        BY <3>3, <4>2 DEF Planned, GatewayType
    <3> QED
      BY <2>1, <3>1, <3>2, <3>3 DEF Kinds
  <2> QED
    BY <2>1, <2>2 DEF PlanInv
<1>4. CASE CreateSocket /\ ~Terminate
  <2>1. /\ stage \in Kinds /\ step = "create" /\ UNCHANGED <<stage, configs>>
        /\ \A k \in Kinds \ {stage} : sockets'[k] = sockets[k]
    BY <1>4, CreateSteps
  <2> QED
    BY <2>1, BeyondStages DEF PlanInv
<1>5. CASE StartSucceeds
  <2>1. /\ Initialising /\ step = "start" /\ UNCHANGED <<stage, configs>>
        /\ sockets' = [sockets EXCEPT ![stage][next] = "running"]
    BY <1>5 DEF StartSucceeds
  <2>2. stage \in Kinds /\ \A k \in Kinds \ {stage} : sockets'[k] = sockets[k]
    BY <2>1, SetStateSteps DEF SocketStates
  <2> QED
    BY <2>1, <2>2, BeyondStages DEF PlanInv
<1>6. CASE AllStarted
  <2>1. /\ stage \in Kinds /\ step = "create" /\ next \notin DOMAIN configs
        /\ stage' = NextStage[stage] /\ step' = "resolve" /\ sockets' = sockets
    BY <1>6 DEF AllStarted, Initialising, servers
  <2>2. /\ next \in Nat \ {0} /\ next <= Len(configs) + 1
        /\ Len(sockets[stage]) = next - 1
        /\ DOMAIN configs = 1 .. Len(configs) /\ Len(configs) \in Nat
    BY <2>1, LenProperties DEF CoreInv, Loop, Shape
  <2>3. Len(sockets[stage]) = Len(configs)
    BY <2>1, <2>2
  <2>4. Len(sockets[stage]) \in Planned[stage]
    BY <2>1, <2>3 DEF PlanInv
  <2> QED
    BY <2>1, <2>4, BeyondStages DEF PlanInv
<1>7. CASE GatewayConfigRace \/ UseOfDestroyedStatics
  BY <1>1, <1>7 DEF GatewayConfigRace, UseOfDestroyedStatics
<1>8. CASE TornCopy
  <2>1. PICK names \in Mixtures(gatewayConfig, ReloadedGateway) :
                 configs' = Plain(names)
    BY <1>8 DEF TornCopy
  <2>2. Len(configs') \in Planned["gateway"]
    BY <2>1, MixturesType, PlainType DEF Planned, GatewayType
  <2>3. stage = "gateway" /\ UNCHANGED <<stage, sockets>>
    BY <1>8 DEF TornCopy, In, servers
  <2> QED
    BY <2>2, <2>3 DEF PlanInv
<1> QED
  BY <1>1, <1>2, <1>3, <1>4, <1>5, <1>6, <1>7, <1>8 DEF Next, Main

-----------------------------------------------------------------------------
(* Which servers serve *)

Runs(k) == {i \in 1 .. Len(sockets[k]) : sockets[k][i] = "running"}

LEMMA ServingIsRuns ==
    ASSUME Shape
    PROVE  Serving = [k \in Kinds |-> Runs(k)]
<1>1. \A k \in Kinds : DOMAIN sockets[k] = 1 .. Len(sockets[k])
  BY LenProperties DEF Shape
<1> QED
  BY <1>1 DEF Serving, Runs

LEMMA AllRun ==
    ASSUME CoreInv, stage # "returned", NEW k \in Kinds,
           stage # k \/ step # "start"
    PROVE  Runs(k) = 1 .. Len(sockets[k])
BY DEF CoreInv, Alive, Starting, Runs

LEMMA AllBeforeRun ==
    ASSUME CoreInv, stage \in Kinds, step = "start"
    PROVE  Runs(stage) = 1 .. next - 1
<1>1. /\ next \in Nat \ {0} /\ Len(sockets[stage]) = next
      /\ sockets[stage][next] = "created"
  BY DEF CoreInv, Shape, Loop
<1>2. \A i \in 1 .. next - 1 : sockets[stage][i] = "running"
  BY <1>1 DEF CoreInv, Alive, Starting, Kinds
<1>3. 1 .. next = (1 .. next - 1) \cup {next} /\ next \notin 1 .. next - 1
  BY <1>1
<1> QED
  BY <1>1, <1>2, <1>3 DEF Runs

\* The kinds main has not come to, or has not created one of, serve nothing.
LEMMA NoneRun ==
    ASSUME CoreInv, NEW k \in Kinds, stage \in NotYet[k]
    PROVE  Runs(k) = {}
<1>1. sockets[k] = << >>
  BY DEF CoreInv, Fresh
<1> QED
  BY <1>1 DEF Runs

LEMMA SameKinds == Life!Kinds = Kinds
BY DEF Life!Kinds, Kinds

LEMMA Completed ==
    ASSUME CoreInv, PlanInv, NEW k \in Kinds, stage \in Beyond[k]
    PROVE  Life!Complete(k)
<1>1. stage # "returned" /\ stage # k
  BY BeyondStages
<1>2. Runs(k) = 1 .. Len(sockets[k])
  BY <1>1, AllRun
<1>3. Serving[k] = Runs(k)
  BY ServingIsRuns DEF CoreInv
<1>4. Len(sockets[k]) \in Planned[k]
  BY DEF PlanInv
<1> QED
  BY <1>2, <1>3, <1>4 DEF Life!Complete

LEMMA PhaseOf ==
    /\ stage = "wait" => Phase = "ready"
    /\ stage = "returned" => Phase = "over"
    /\ stage \notin {"wait", "returned"} => Phase = "starting"
BY DEF Phase

LEMMA PhaseOfNext ==
    /\ stage' = "wait" => Phase' = "ready"
    /\ stage' = "returned" => Phase' = "over"
    /\ stage' \notin {"wait", "returned"} => Phase' = "starting"
BY DEF Phase

LEMMA CompletedNext ==
    CoreInv' /\ PlanInv' =>
        \A k \in Kinds : stage' \in Beyond[k] => Life!Complete(k)'
<1>1. CoreInv /\ PlanInv =>
          \A k \in Kinds : stage \in Beyond[k] => Life!Complete(k)
  BY Completed
<1>2. (CoreInv /\ PlanInv =>
          \A k \in Kinds : stage \in Beyond[k] => Life!Complete(k))'
  BY <1>1, PTL
<1> QED
  BY <1>2

LEMMA ServingNext == Shape' => Serving' = [k \in Kinds |-> Runs(k)']
<1>1. Shape => Serving = [k \in Kinds |-> Runs(k)]
  BY ServingIsRuns
<1>2. (Shape => Serving = [k \in Kinds |-> Runs(k)])'
  BY <1>1, PTL
<1> QED
  BY <1>2

\* Only StartSucceeds changes what serves.
LEMMA SameServing == sockets' = sockets => Serving' = Serving
BY DEF Serving

LEMMA CreateServes ==
    ASSUME CoreInv, CoreInv', CreateSocket, ~Terminate
    PROVE  Serving' = Serving
<1>1. /\ stage \in Kinds /\ next \in 1 .. Len(configs)
      /\ step = "create" /\ Len(sockets'[stage]) = next
      /\ sockets'[stage][next] = "created"
      /\ \A i \in 1 .. next - 1 : sockets'[stage][i] = sockets[stage][i]
      /\ \A k \in Kinds \ {stage} : sockets'[k] = sockets[k]
  BY CreateSteps
<1>2. Len(sockets[stage]) = next - 1 /\ next \in Nat \ {0}
  BY <1>1 DEF CoreInv, Loop, Shape
<1>3. 1 .. next = (1 .. next - 1) \cup {next} /\ next \notin 1 .. next - 1
  BY <1>2
<1>4. Runs(stage)' = Runs(stage)
  <2>1. Runs(stage)' = {i \in 1 .. next : sockets'[stage][i] = "running"}
    <3>1. stage' = stage
      BY CreateSteps
    <3> QED
      BY <1>1, <3>1 DEF Runs
  <2>2. Runs(stage) = {i \in 1 .. next - 1 : sockets[stage][i] = "running"}
    BY <1>2 DEF Runs
  <2> QED
    BY <1>1, <1>3, <2>1, <2>2
<1>5. \A k \in Kinds : Runs(k)' = Runs(k)
  <2>1. \A k \in Kinds \ {stage} : Runs(k)' = Runs(k)
    BY <1>1 DEF Runs
  <2>2. stage' = stage
    BY CreateSteps
  <2>3. Runs(stage)' = {i \in 1 .. Len(sockets'[stage]) : sockets'[stage][i] = "running"}
    BY <2>2 DEF Runs
  <2>4. ASSUME NEW k \in Kinds, k = stage PROVE Runs(k)' = Runs(k)
    BY <1>4, <2>3, <2>4 DEF Runs
  <2> QED
    BY <2>1, <2>4
<1> QED
  BY <1>5, ServingIsRuns, ServingNext DEF CoreInv

LEMMA FailServes ==
    ASSUME CoreInv, CoreInv', StartFails
    PROVE  Serving' = Serving
<1>1. /\ Initialising /\ step = "start"
      /\ sockets' = [sockets EXCEPT ![stage][next] = "deleted"]
  BY DEF StartFails
<1>2. /\ stage \in Kinds /\ next \in Nat \ {0} /\ Len(sockets[stage]) = next
      /\ Len(sockets'[stage]) = next
      /\ sockets'[stage][next] = "deleted"
      /\ \A i \in 1 .. next - 1 : sockets'[stage][i] = sockets[stage][i]
      /\ \A k \in Kinds \ {stage} : sockets'[k] = sockets[k]
  BY <1>1, SetStateSteps DEF SocketStates
<1>3. sockets[stage][next] = "created"
  BY <1>1, <1>2 DEF CoreInv, Loop
<1>4. 1 .. next = (1 .. next - 1) \cup {next} /\ next \notin 1 .. next - 1
  BY <1>2
<1>5. ASSUME NEW k \in Kinds, NEW i
      PROVE  i \in Runs(k)' <=> i \in Runs(k)
  <2>1. CASE k = stage
    <3>1. i \in Runs(k)' <=> i \in 1 .. next /\ sockets'[k][i] = "running"
      BY <1>2, <2>1 DEF Runs
    <3>2. i \in Runs(k) <=> i \in 1 .. next /\ sockets[k][i] = "running"
      BY <1>2, <2>1 DEF Runs
    <3> QED
      BY <1>2, <1>3, <1>4, <2>1, <3>1, <3>2
  <2>2. CASE k # stage
    BY <1>2, <2>2 DEF Runs
  <2> QED
    BY <2>1, <2>2
<1>6. \A k \in Kinds : Runs(k)' = Runs(k)
  BY <1>5
<1> QED
  BY <1>6, ServingIsRuns, ServingNext DEF CoreInv

LEMMA SucceedServes ==
    ASSUME CoreInv, CoreInv', StartSucceeds
    PROVE  /\ Serving[stage] = 1 .. next - 1
           /\ Serving' = [Serving EXCEPT ![stage] = 1 .. next]
<1>1. /\ Initialising /\ step = "start" /\ step' = "create" /\ stage' = stage
      /\ sockets' = [sockets EXCEPT ![stage][next] = "running"]
  BY DEF StartSucceeds
<1>2. /\ stage \in Kinds /\ Len(sockets'[stage]) = next
      /\ sockets'[stage][next] = "running" /\ next \in Nat \ {0}
      /\ \A i \in 1 .. next - 1 : sockets'[stage][i] = sockets[stage][i]
      /\ \A k \in Kinds \ {stage} : sockets'[k] = sockets[k]
  BY <1>1, SetStateSteps DEF SocketStates
<1>3. Runs(stage) = 1 .. next - 1
  BY <1>1, <1>2, AllBeforeRun
<1>4. \A i \in 1 .. next - 1 : sockets[stage][i] = "running"
  BY <1>3 DEF Runs
<1>5. 1 .. next = (1 .. next - 1) \cup {next}
  BY <1>2
<1>6. ASSUME NEW k \in Kinds
      PROVE  Runs(k)' = IF k = stage THEN 1 .. next ELSE Runs(k)
  <2>1. CASE k = stage
    <3>1. Runs(k)' = {i \in 1 .. next : sockets'[k][i] = "running"}
      BY <1>2, <2>1 DEF Runs
    <3> QED
      BY <1>2, <1>4, <1>5, <2>1, <3>1
  <2>2. CASE k # stage
    BY <1>2, <2>2 DEF Runs
  <2> QED
    BY <2>1, <2>2
<1>7. /\ Serving = [k \in Kinds |-> Runs(k)]
      /\ Serving' = [k \in Kinds |-> Runs(k)']
  BY ServingIsRuns, ServingNext DEF CoreInv
<1>8. [Serving EXCEPT ![stage] = 1 .. next]
          = [k \in Kinds |-> IF k = stage THEN 1 .. next ELSE Runs(k)]
  BY <1>2, <1>7
<1> QED
  BY <1>2, <1>3, <1>6, <1>7, <1>8

LEMMA InitLife == Init => Life!Init
<1> SUFFICES ASSUME Init PROVE Life!Init
  OBVIOUS
<1>1. stage = "args" /\ signal = "none" /\ process = "up"
      /\ \A k \in Kinds : sockets[k] = << >>
  BY DEF Init
<1>2. Serving = [k \in Kinds |-> {}]
  BY <1>1 DEF Serving
<1> QED
  BY <1>1, <1>2, PhaseOf, SameKinds DEF Life!Init

LEMMA StepLife ==
    ASSUME CoreInv, Rest, SignalInv, PlanInv, CoreInv', PlanInv', [Next]_vars
    PROVE  [Life!Next]_(Life!vars)
<1> USE PhaseOf, PhaseOfNext
<1>1. /\ stage \in {"args", "signals", "wait", "returned"} \cup Kinds
      /\ process = "up" => stage # "returned"
  BY DEF CoreInv, Shape, SignalInv
\* An exception of main before it waits, or of a callback after it returned.
<1>2. ASSUME Terminate, process = "up", stage \in Kinds PROVE Life!GiveUp
  BY <1>2, SameServing DEF Terminate, servers, threads, Life!GiveUp, Life!In, Kinds
<1>3. CASE ParseArgs
  <2>1. /\ UNCHANGED <<sockets, signal>> /\ process = "up" /\ stage = "args"
        /\ \/ stage' = "signals" /\ process' = process
           \/ stage' = "returned" /\ process' = "destructing"
    BY <1>3 DEF ParseArgs, In, Return, servers, threads
  <2> QED
    BY <2>1, SameServing DEF Life!Next, Life!GiveUp, Life!In, Life!vars
<1>4. CASE SetupSignalHandlers
  BY <1>4, SameServing DEF SetupSignalHandlers, In, servers, threads, Life!vars
<1>5. CASE ResolveProxyServers \/ ResolveProtocolServers \/ GetApiGatewayConfig
  <2>1. stage \in Kinds /\ process = "up"
    BY <1>5 DEF ResolveProxyServers, ResolveProtocolServers, GetApiGatewayConfig,
       Enter, In, Kinds
  <2>2. \/ Terminate
        \/ UNCHANGED <<stage, sockets, signal, process>>
    BY <1>5 DEF ResolveProxyServers, ResolveProtocolServers, GetApiGatewayConfig,
       Enter, servers, threads
  <2> QED
    BY <1>2, <2>1, <2>2, SameServing DEF Life!Next, Life!vars, Phase
<1>6. CASE CreateSocket
  <2>1. stage \in Kinds /\ process = "up"
    BY <1>6 DEF CreateSocket, Initialising
  <2>2. CASE ~Terminate
    <3>1. UNCHANGED <<stage, signal, process>>
      BY <1>6, <2>2 DEF CreateSocket, threads
    <3>2. Serving' = Serving
      BY <1>6, <2>2, CreateServes
    <3> QED
      BY <3>1, <3>2 DEF Life!vars, Phase
  <2> QED
    BY <1>2, <2>1, <2>2 DEF Life!Next
<1>7. CASE StartSucceeds
  <2>1. /\ stage \in Kinds /\ process = "up" /\ step = "start"
        /\ UNCHANGED <<stage, signal, process>>
    BY <1>7 DEF StartSucceeds, Initialising
  <2>2. Phase = "starting" /\ Phase' = Phase
    BY <2>1 DEF Kinds
  <2>3. \A k \in Life!Earlier[stage] : Life!Complete(k)
    <3>1. \A k \in Life!Earlier[stage] : k \in Kinds /\ stage \in Beyond[k]
      BY <2>1 DEF Life!Earlier, Beyond, Kinds
    <3> QED
      BY <3>1, Completed
  <2>4. /\ next \in Nat \ {0} /\ next <= Len(configs)
        /\ Len(configs) \in Planned[stage] /\ Len(configs) \in Nat
    BY <2>1, PlannedType DEF CoreInv, Shape, Loop, PlanInv
  <2>5. next - 1 \in 0 .. Len(configs) - 1 /\ (next - 1) + 1 = next
    BY <2>4
  <2>6. /\ Serving[stage] = 1 .. next - 1
        /\ Serving' = [Serving EXCEPT ![stage] = 1 .. (next - 1) + 1]
    BY <1>7, <2>5, SucceedServes
  <2>7. Life!Serve(stage)
    BY <2>1, <2>2, <2>3, <2>4, <2>5, <2>6 DEF Life!Serve, Life!In
  <2> QED
    BY <2>1, <2>7, SameKinds DEF Life!Next
<1>8. CASE StartFails
  <2>1. /\ stage \in Kinds /\ process = "up" /\ stage' = "returned"
        /\ process' = "destructing" /\ signal' = signal
    BY <1>8 DEF StartFails, Initialising, Return, threads
  <2>2. Serving' = Serving
    BY <1>8, FailServes
  <2> QED
    BY <2>1, <2>2 DEF Life!Next, Life!GiveUp, Life!In, Kinds
<1>9. CASE AllStarted
  <2>1. /\ stage \in Kinds /\ process = "up" /\ stage' = NextStage[stage]
        /\ UNCHANGED <<sockets, signal, process>>
    BY <1>9 DEF AllStarted, Initialising, servers, threads
  <2>2. Serving' = Serving
    BY <2>1, SameServing
  <2>3. CASE stage = "gateway"
    <3>1. stage' = "wait"
      BY <2>1, <2>3 DEF NextStage
    <3>2. ASSUME NEW k \in Kinds PROVE Life!Complete(k)
      <4>1. stage' \in Beyond[k]
        BY <3>1 DEF Beyond, Kinds
      <4>2. Life!Complete(k)'
        BY <4>1, CompletedNext
      <4> QED
        BY <2>2, <4>2 DEF Life!Complete
    <3> QED
      BY <2>1, <2>2, <2>3, <3>1, <3>2, SameKinds
         DEF Life!Next, Life!BeReady, Life!In
  <2>4. CASE stage # "gateway"
    BY <2>1, <2>2, <2>4 DEF NextStage, Kinds, Life!vars
  <2> QED
    BY <2>3, <2>4
<1>10. CASE SigWait
  <2>1. /\ process = "up" /\ stage = "wait" /\ signal = "pending"
        /\ signal' = "taken" /\ stage' = "returned" /\ process' = "destructing"
        /\ sockets' = sockets
    BY <1>10 DEF SigWait, In, Return, servers
  <2> QED
    BY <2>1, SameServing DEF Life!Next, Life!ShutDown, Life!In
<1>11. CASE Exit
  BY <1>11, SameServing DEF Exit, servers, Phase, Life!Next, Life!Finish
<1>12. CASE Signalled
  <2>1. /\ process = "up" /\ signal = "none" /\ UNCHANGED <<stage, sockets>>
        /\ \/ signal' = "pending" /\ process' = process
           \/ process' = "killed" /\ signal' = signal /\ (~blocked \/ exposed)
    BY <1>12 DEF Signalled, servers
  <2>2. Serving' = Serving /\ Phase' = Phase
    BY <2>1, SameServing DEF Phase
  <2>3. ASSUME ~blocked \/ exposed PROVE Life!NothingServes
    <3>1. stage \in {"args", "signals"}
      BY <1>1, <2>1, <2>3 DEF SignalInv
    <3>2. \A k \in Kinds : Runs(k) = {}
      BY <3>1, NoneRun, NotYetStages
    <3> QED
      BY <3>2, ServingIsRuns, SameKinds DEF Life!NothingServes, CoreInv
  <2> QED
    BY <2>1, <2>2, <2>3 DEF Life!Next, Life!Signal
<1>13. CASE \/ ReceiveConfiguration \/ UpdateProxyServers \/ TornCopy
            \/ UNCHANGED vars
  <2>1. UNCHANGED <<stage, sockets, signal, process>>
    BY <1>13 DEF ReceiveConfiguration, UpdateProxyServers, TornCopy, main, vars,
       servers
  <2> QED
    BY <2>1, SameServing DEF Life!vars, Phase
<1>14. CASE LoadConfigurationsFromString
  <2>1. /\ UNCHANGED <<stage, sockets, signal>>
        /\ process \in {"up", "destructing"} /\ process' \in {process, "aborted"}
        /\ \E i \in DOMAIN sockets["protocol"] : sockets["protocol"][i] = "running"
    BY <1>14 DEF LoadConfigurationsFromString, ManagementRuns, main, servers
  <2>2. Serving' = Serving /\ Phase' = Phase
    BY <2>1, SameServing DEF Phase
  <2>3. Serving["protocol"] # {}
    BY <2>1 DEF Serving, Kinds
  <2>4. CASE process' = process
    BY <2>1, <2>2, <2>4 DEF Life!vars
  <2>5. CASE process' = "aborted" /\ process = "up"
    BY <2>1, <2>2, <2>3, <2>5 DEF Life!Next, Life!Crash
  <2>6. CASE process' = "aborted" /\ process = "destructing"
    BY <2>1, <2>2, <2>6 DEF Life!Next, Life!Finish
  <2> QED
    BY <2>1, <2>4, <2>5, <2>6
<1>15. CASE GatewayConfigRace
  <2>1. Terminate /\ process = "up" /\ stage \in Kinds
    BY <1>15 DEF GatewayConfigRace, In, Kinds
  <2> QED
    BY <1>2, <2>1 DEF Life!Next
<1>16. CASE UseOfDestroyedStatics
  BY <1>16, SameServing DEF UseOfDestroyedStatics, Terminate, servers, threads,
     Phase, Life!Next, Life!Finish
<1> QED
  BY <1>3, <1>4, <1>5, <1>6, <1>7, <1>8, <1>9, <1>10, <1>11, <1>12, <1>13, <1>14,
     <1>15, <1>16 DEF Next, Main, Management

\* The process keeps the promise of ProcessLife for any numbers of servers and
\* any two gateway documents: servers come up in order and stay, and once all
\* of them run only a termination signal or a reload that crashes ends it.
THEOREM StartupKeepsItsPromise == Spec => ImplementsProcessLife
<1>1. Init => SignalInv
  BY DEF Init, SignalInv, Kinds
<1>2. Rest => GatewayType
  BY DEF Rest
<1>3. CoreInv /\ Rest /\ SignalInv /\ PlanInv /\ CoreInv' /\ PlanInv' /\ [Next]_vars
          => [Life!Next]_(Life!vars)
  BY StepLife
<1>4. Spec => [](SignalInv /\ PlanInv)
  BY <1>1, <1>2, InitPlan, StepSignal, StepPlan, CoreHolds, PTL DEF Spec
<1>5. Spec => Life!Spec
  BY <1>3, <1>4, InitLife, CoreHolds, PTL DEF Spec, Life!Spec
<1> QED
  BY <1>5 DEF ImplementsProcessLife

=============================================================================

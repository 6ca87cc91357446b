------------------------- MODULE SingleWriterProofs -------------------------
(***************************************************************************)
(* What hot reload guarantees when, as ConfigSingleton.h demands, a single *)
(* thread runs the management callbacks.  With two writers the theorems of *)
(* this module are false: see the run reload_lost_update.                  *)
(***************************************************************************)
EXTENDS HotReloadRefinement, HotReloadProofs

(***************************************************************************)
(* Nothing comes between two steps of the one writer: its draft is an edit *)
(* of m_ProxyConfig until it is installed, and while it rebuilds the lists *)
(* m_ProxyConfig is the configuration that resolved.                       *)
(***************************************************************************)
DraftInv ==
    pc[Writer] = "set" => draft[Writer] \in Edited(proxyConfig, Edit(Writer))

ResolvedInv ==
    pc[Writer] \in {"update", "remove", "add"} => Resolvable(proxyConfig)

LEMMA OneWriter == Workers = {Writer} /\ \A w \in Workers : w = Writer
BY SingleWriterAssumption

\* No access of the one writer overlaps with another.
LEMMA OneStep ==
    ASSUME [Next]_vars
    PROVE  Receive(Writer) \/ Act(Writer) \/ UNCHANGED vars
<1>1. \A v, w \in Workers : ~Racing(v, w) /\ ~LoadsCollide(v, w)
  BY OneWriter DEF Racing, LoadsCollide
<1>2. ~Race /\ \A v, w \in Workers : ~TornRead(v, w) /\ ~TornWrite(v, w)
  BY <1>1 DEF Race, TornRead, TornWrite
<1> QED
  BY OneWriter, <1>2 DEF Next, Step

LEMMA InitDraft == Init => DraftInv /\ ResolvedInv
BY OneWriter DEF Init, DraftInv, ResolvedInv

LEMMA StepDraft ==
    TypeInv /\ DraftInv /\ ResolvedInv /\ [Next]_vars => DraftInv' /\ ResolvedInv'
<1> SUFFICES ASSUME TypeInv, DraftInv, ResolvedInv, [Next]_vars
             PROVE  DraftInv' /\ ResolvedInv'
  OBVIOUS
<1> DEFINE w == Writer
<1>1. w \in Workers /\ pc \in [Workers -> Labels]
  BY OneWriter DEF TypeInv, TypeOK
<1>2. ASSUME NEW label \in Labels \ {"set", "update", "remove", "add"},
             Goto(w, label)
      PROVE  DraftInv' /\ ResolvedInv'
  BY <1>1, <1>2 DEF Goto, DraftInv, ResolvedInv
<1>3. ASSUME NEW status, Answer(w, status) PROVE DraftInv' /\ ResolvedInv'
  BY <1>2, <1>3 DEF Answer, Labels
<1>4. CASE Receive(w)
  BY <1>2, <1>4 DEF Receive, Labels
<1>5. CASE LoadMalformed(w) \/ LoadThrows(w)
  BY <1>2, <1>3, <1>5 DEF LoadMalformed, LoadThrows, Labels
<1>6. CASE LoadProxySection(w) \/ LoadGatewaySection(w)
  <2>1. CASE pc[w] = "gateway" /\ UNCHANGED pc
    BY <1>1, <2>1 DEF DraftInv, ResolvedInv
  <2> QED
    BY <1>2, <1>3, <1>6, <2>1 DEF LoadProxySection, LoadGatewaySection, At, Labels
<1>7. CASE LoadEndpointServiceFromString(w)
  BY <1>2, <1>3, <1>7 DEF LoadEndpointServiceFromString, Labels
<1>8. CASE GetProxyConfig(w)
  <2>1. CASE Answer(w, "error")
    BY <1>3, <2>1
  <2>2. ASSUME NEW config \in Edited(proxyConfig, Edit(w)),
               draft' = [draft EXCEPT ![w] = config],
               Goto(w, "set"), UNCHANGED request
        PROVE  DraftInv' /\ ResolvedInv'
    <3>1. pc'[w] = "set" /\ draft'[w] = config /\ proxyConfig' = proxyConfig
      BY <1>1, <1>8, <2>2 DEF TypeInv, TypeOK, Goto, GetProxyConfig, EditCopy
    <3> QED
      BY <2>2, <3>1 DEF DraftInv, ResolvedInv, Edit
  <2> QED
    BY <1>8, <2>1, <2>2 DEF GetProxyConfig, EditCopy
<1>9. CASE SetProxyConfig(w)
  BY <1>2, <1>9 DEF SetProxyConfig, Labels
<1>10. CASE ResolveProxyServerConfigurations(w)
  <2>1. CASE Answer(w, "error")
    BY <1>3, <2>1
  <2>2. CASE Resolvable(proxyConfig) /\ Goto(w, "update")
    BY <1>1, <1>10, <2>2
       DEF Goto, DraftInv, ResolvedInv, ResolveProxyServerConfigurations, ResolveCopy
  <2> QED
    BY <1>10, <2>1, <2>2 DEF ResolveProxyServerConfigurations, ResolveCopy
<1>11. CASE SkipEndPoint(w)
  BY <1>1, <1>11 DEF SkipEndPoint, At, DraftInv, ResolvedInv
<1>12. CASE SetConfigValues(w) \/ RemoveAllServers(w) \/ NextEndPoint(w)
  <2>1. /\ pc[w] \in {"update", "remove", "add"}
        /\ pc'[w] \in {"update", "remove", "add"}
        /\ proxyConfig' = proxyConfig
    BY <1>1, <1>12 DEF SetConfigValues, RemoveAllServers, NextEndPoint, At, Goto
  <2> QED
    BY <2>1 DEF DraftInv, ResolvedInv
<1>13. CASE AddServer(w)
  BY <1>1, <1>13 DEF AddServer, At, DraftInv, ResolvedInv
<1>14. CASE AllUpdated(w)
  BY <1>3, <1>14 DEF AllUpdated
<1>15. CASE UNCHANGED vars
  BY <1>15 DEF vars, DraftInv, ResolvedInv, Edit
<1> QED
  BY OneStep, <1>4, <1>5, <1>6, <1>7, <1>8, <1>9, <1>10, <1>11, <1>12, <1>13,
     <1>14, <1>15 DEF Act

LEMMA DraftInvariant == Spec => [](TypeInv /\ DraftInv /\ ResolvedInv)
BY InitTypeInv, StepTypeInv, InitDraft, StepDraft, PTL DEF Spec

LEMMA StepPoisoned ==
    ASSUME TypeInv, ResolvedInv, [Next]_vars
    PROVE  ~Resolvable(proxyConfig) => UNCHANGED live
<1> SUFFICES ASSUME ~Resolvable(proxyConfig) PROVE UNCHANGED live
  OBVIOUS
<1>1. pc[Writer] \notin {"update", "remove", "add"}
  BY DEF ResolvedInv
<1>2. ASSUME Receive(Writer) \/ Act(Writer) PROVE UNCHANGED live
  <2>1. ~SetConfigValues(Writer) /\ ~RemoveAllServers(Writer) /\ ~AddServer(Writer)
        /\ ~NextEndPoint(Writer) /\ ~SkipEndPoint(Writer) /\ ~AllUpdated(Writer)
    BY <1>1 DEF SetConfigValues, RemoveAllServers, AddServer, NextEndPoint,
       SkipEndPoint, AllUpdated, At
  <2> QED
    BY <1>2, <2>1 DEF Act, Receive, LoadMalformed, LoadThrows, LoadProxySection,
       LoadGatewaySection, LoadEndpointServiceFromString, GetProxyConfig, EditCopy,
       SetProxyConfig, ResolveProxyServerConfigurations, ResolveCopy
<1>3. ASSUME UNCHANGED vars PROVE UNCHANGED live
  BY <1>3 DEF vars, live
<1> QED
  BY OneStep, <1>2, <1>3

\* A configuration that was installed but does not resolve stops
\* updateProxyServers before it touches a socket: no list of servers changes
\* until another configuration takes its place.
THEOREM PoisonedConfigHarmless == Spec => PoisonedConfigLeavesTraffic
<1>1. TypeInv /\ ResolvedInv /\ [Next]_vars
          => [~Resolvable(proxyConfig) => UNCHANGED live]_vars
  BY StepPoisoned
<1> QED
  BY <1>1, DraftInvariant, PTL DEF Spec, PoisonedConfigLeavesTraffic

-----------------------------------------------------------------------------
(***************************************************************************)
(* The lists.  RebuiltAsAWhole holds after the last AddServer only because *)
(* the socket was last configured with the services the loop goes through. *)
(***************************************************************************)
Busy == pc[Writer] \in {"remove", "add"}

ListsInv ==
    /\ \A s \in Sockets : ~(Busy /\ Socket(Writer) = s) => servers[s] = target[s]
    /\ Busy => target[Socket(Writer)] = Current(Writer).services
    /\ pc[Writer] = "add" =>
          /\ added[Writer] <= Len(Current(Writer).services)
          /\ servers[Socket(Writer)] = SubSeq(target[Socket(Writer)], 1, added[Writer])

LEMMA InitLists == Init => ListsInv
BY OneWriter DEF Init, ListsInv, Busy

LEMMA BusySocket ==
    ASSUME TypeInv, Busy
    PROVE  /\ Socket(Writer) \in Sockets
           /\ Current(Writer).services \in Seq(Hosts)
           /\ Len(Current(Writer).services) \in Nat
<1>1. Remaining(Writer) /\ Current(Writer).name \in RegisteredNames
  BY OneWriter DEF TypeInv, LabelsOK, AtEndPoint, Busy
<1>2. Socket(Writer) \in Sockets
  BY <1>1, SocketsMapType DEF Socket
<1>3. Current(Writer).services \in Seq(Hosts)
  BY <1>1, OneWriter, CurrentType DEF TypeInv, ResolvedEndPoint
<1> QED
  BY <1>2, <1>3, LenProperties

\* A list that is being rebuilt grows by the next service of its target.
LEMMA AddServerExtends ==
    ASSUME TypeInv, ListsInv, AddServer(Writer)
    PROVE  LET socket == Socket(Writer)
               n == added[Writer] + 1
           IN  /\ n \in 1 .. Len(target[socket])
               /\ servers[socket] = SubSeq(target[socket], 1, n - 1)
               /\ servers'[socket] = SubSeq(target[socket], 1, n)
               /\ \A s \in Sockets \ {socket} : servers'[s] = servers[s]
<1> DEFINE w == Writer
           socket == Socket(w)
           list == Current(w).services
           n == added[w]
<1>1. /\ w \in Workers
      /\ added \in [Workers -> Nat]
      /\ servers \in [Sockets -> Seq(Hosts)]
  BY OneWriter DEF TypeInv, TypeOK
<1>2. /\ pc[w] = "add" /\ n \in Nat /\ n < Len(list)
      /\ servers' = [servers EXCEPT ![socket] = Append(servers[socket], list[n + 1])]
  BY <1>1 DEF AddServer, At
<1>3. socket \in Sockets /\ list \in Seq(Hosts) /\ Len(list) \in Nat
  BY <1>2, BusySocket DEF Busy
<1>4. target[socket] = list /\ servers[socket] = SubSeq(list, 1, n)
  BY <1>2 DEF ListsInv, Busy
<1> HIDE DEF socket, list, n
<1>5. 1 \in 1 .. Len(list) /\ n + 1 \in 1 .. Len(list) /\ (n + 1) - 1 = n
  BY <1>2, <1>3
<1>6. SubSeq(list, 1, n + 1) = SubSeq(list, 1, n) \o << list[n + 1] >>
  BY <1>3, <1>5, SubSeqRecursiveSecond
<1>7. SubSeq(list, 1, n + 1) = Append(SubSeq(list, 1, n), list[n + 1])
  <2>1. \A i \in 1 .. n : list[i] \in Hosts
    BY <1>2, <1>3, ElementOfSeq
  <2>2. SubSeq(list, 1, n) \in Seq(Hosts)
    BY <1>2, <2>1, SubSeqProperties
  <2>3. list[n + 1] \in Hosts
    BY <1>3, <1>5, ElementOfSeq
  <2> QED
    BY <1>6, <2>2, <2>3, AppendIsConcat
<1>8. /\ servers'[socket] = SubSeq(list, 1, n + 1)
      /\ \A s \in Sockets \ {socket} : servers'[s] = servers[s]
  BY <1>1, <1>2, <1>3, <1>4, <1>7
<1> QED
  BY <1>4, <1>5, <1>8 DEF socket, n

LEMMA StepLists == TypeInv /\ ListsInv /\ [Next]_vars => ListsInv'
<1> SUFFICES ASSUME TypeInv, ListsInv, [Next]_vars PROVE ListsInv'
  OBVIOUS
<1> DEFINE w == Writer
           socket == Socket(w)
           list == Current(w).services
<1>1. /\ w \in Workers
      /\ pc \in [Workers -> Labels]
      /\ added \in [Workers -> Nat]
      /\ servers \in [Sockets -> Seq(Hosts)]
      /\ target \in [Sockets -> Seq(Hosts)]
  BY OneWriter DEF TypeInv, TypeOK
\* Away from the loop over the services the locals do not matter.
<1>2. ASSUME ~Busy, ~Busy', UNCHANGED live PROVE ListsInv'
  BY <1>2 DEF ListsInv, Busy, live
<1>3. ASSUME NEW label \in Labels \ {"remove", "add"}, Goto(w, label), ~Busy,
             UNCHANGED live
      PROVE  ListsInv'
  BY <1>1, <1>2, <1>3 DEF Goto, Busy
<1>4. ASSUME NEW status, Answer(w, status), ~Busy, UNCHANGED live PROVE ListsInv'
  BY <1>3, <1>4 DEF Answer, Labels
<1>5. CASE Receive(w)
  BY <1>3, <1>5 DEF Receive, At, Busy, Labels
<1>6. CASE LoadMalformed(w) \/ LoadThrows(w)
  BY <1>3, <1>4, <1>6 DEF LoadMalformed, LoadThrows, At, Busy, Labels
<1>7. CASE LoadProxySection(w) \/ LoadGatewaySection(w)
  <2>1. ~Busy /\ UNCHANGED live
    BY <1>7 DEF LoadProxySection, LoadGatewaySection, At, Busy
  <2>2. CASE UNCHANGED pc
    BY <1>2, <2>1, <2>2 DEF Busy
  <2> QED
    BY <1>3, <1>4, <1>7, <2>1, <2>2 DEF LoadProxySection, LoadGatewaySection, Labels
<1>8. CASE LoadEndpointServiceFromString(w)
  BY <1>3, <1>4, <1>8 DEF LoadEndpointServiceFromString, At, Busy, Labels
<1>9. CASE GetProxyConfig(w)
  BY <1>3, <1>4, <1>9 DEF GetProxyConfig, EditCopy, At, Busy, Labels
<1>10. CASE SetProxyConfig(w)
  BY <1>3, <1>10 DEF SetProxyConfig, At, Busy, Labels
<1>11. CASE ResolveProxyServerConfigurations(w)
  BY <1>3, <1>4, <1>11
     DEF ResolveProxyServerConfigurations, ResolveCopy, At, Busy, Labels
<1>12. CASE SkipEndPoint(w)
  BY <1>2, <1>12 DEF SkipEndPoint, At, Busy
<1>13. CASE SetConfigValues(w)
  <2>1. socket \in Sockets
    BY <1>13, SocketsMapType, SMTT(30) DEF SetConfigValues, Socket
  <2>2. Socket(w)' = socket /\ Current(w)' = Current(w)
    BY <1>13, ZenonT(30) DEF SetConfigValues, Socket, Current, locals
  <2>3. pc'[w] = "remove" /\ ~Busy
    BY <1>1, <1>13 DEF SetConfigValues, Goto, At, Busy
  <2>4. /\ target' = [target EXCEPT ![socket] = list]
        /\ \A s \in Sockets \ {socket} : servers'[s] = servers[s]
    BY <1>1, <1>13 DEF SetConfigValues, Socket
  <2> HIDE DEF socket, list
  <2>5. /\ target'[socket] = list
        /\ \A s \in Sockets \ {socket} : target'[s] = target[s]
    BY <1>1, <2>1, <2>4
  <2> QED
    BY <2>2, <2>3, <2>4, <2>5 DEF ListsInv, Busy, list, socket
<1>14. CASE RemoveAllServers(w)
  <2>1. Busy /\ socket \in Sockets /\ list \in Seq(Hosts) /\ Len(list) \in Nat
    BY <1>14, BusySocket DEF RemoveAllServers, At, Busy
  <2>2. Socket(w)' = socket /\ Current(w)' = Current(w)
    BY <1>14 DEF RemoveAllServers, Socket, Current
  <2>3. /\ pc'[w] = "add" /\ added'[w] = 0 /\ target' = target
        /\ servers' = [servers EXCEPT ![socket] = << >>]
    BY <1>1, <1>14 DEF RemoveAllServers, Goto
  <2>4. SubSeq(target[socket], 1, 0) = << >>
    BY SubSeqEmpty
  <2> HIDE DEF socket, list
  <2>5. /\ servers'[socket] = << >>
        /\ \A s \in Sockets \ {socket} : servers'[s] = servers[s]
    BY <1>1, <2>1, <2>3
  <2>6. (\A s \in Sockets : ~(Busy /\ Socket(w) = s) => servers[s] = target[s])'
    BY <2>1, <2>2, <2>3, <2>5 DEF ListsInv, Busy, socket
  <2>7. (target[Socket(w)] = Current(w).services)'
    BY <2>1, <2>2, <2>3 DEF ListsInv, socket
  <2>8. (added[w] <= Len(Current(w).services))'
    BY <2>1, <2>2, <2>3 DEF list
  <2>9. (servers[Socket(w)] = SubSeq(target[Socket(w)], 1, added[w]))'
    BY <2>2, <2>3, <2>4, <2>5
  <2> QED
    BY <2>6, <2>7, <2>8, <2>9 DEF ListsInv
<1>15. CASE AddServer(w)
  <2>1. Socket(w)' = socket /\ Current(w)' = Current(w)
    BY <1>15 DEF AddServer, Socket, Current
  <2>2. /\ pc[w] = "add" /\ pc'[w] = "add" /\ target' = target
        /\ added'[w] = added[w] + 1
    BY <1>1, <1>15 DEF AddServer, At
  <2>3. target[socket] = list
    BY <2>2 DEF ListsInv, Busy
  <2>4. /\ added[w] + 1 <= Len(list)
        /\ servers'[socket] = SubSeq(target[socket], 1, added[w] + 1)
        /\ \A s \in Sockets \ {socket} : servers'[s] = servers[s]
    BY <1>15, <2>3, AddServerExtends
  <2> HIDE DEF socket, list
  <2> QED
    BY <2>1, <2>2, <2>3, <2>4 DEF ListsInv, Busy, list, socket
<1>16. CASE NextEndPoint(w)
  <2>1. Busy /\ socket \in Sockets /\ list \in Seq(Hosts)
    BY <1>16, BusySocket DEF NextEndPoint, At, Busy
  <2>2. /\ pc[w] = "add" /\ pc'[w] = "update" /\ UNCHANGED live
        /\ added[w] = Len(list)
    BY <1>1, <1>16 DEF NextEndPoint, At, Goto
  <2>3. servers[socket] = target[socket]
    BY <2>1, <2>2, SubSeqFull, SMTT(30) DEF ListsInv
  <2> QED
    BY <2>2, <2>3 DEF ListsInv, Busy, live
<1>17. CASE AllUpdated(w)
  BY <1>4, <1>17 DEF AllUpdated, At, Busy
<1>18. CASE UNCHANGED vars
  BY <1>18 DEF vars, ListsInv, Busy, Socket, Current
<1> QED
  BY OneStep, <1>5, <1>6, <1>7, <1>8, <1>9, <1>10, <1>11, <1>12, <1>13, <1>14,
     <1>15, <1>16, <1>17, <1>18 DEF Act

LEMMA ListsInvariant == Spec => []ListsInv
BY InitLists, StepLists, TypeInvariant, PTL DEF Spec

\* What a step may do to the lists, as RebuiltAsAWhole states it.
LEMMA StepRebuilds ==
    ASSUME TypeInv, ListsInv, [Next]_vars, NEW s \in Sockets
    PROVE  \/ UNCHANGED <<target[s], servers[s]>>
           \/ /\ servers[s] = target[s]
              /\ servers'[s] \in {servers[s], servers[s] \o target'[s]}
           \/ /\ UNCHANGED target[s]
              /\ \/ servers'[s] = << >>
                 \/ \E n \in 1 .. Len(target[s]) :
                       /\ servers[s] = SubSeq(target[s], 1, n - 1)
                       /\ servers'[s] = SubSeq(target[s], 1, n)
<1> DEFINE w == Writer
           socket == Socket(w)
<1>1. /\ servers \in [Sockets -> Seq(Hosts)]
      /\ target \in [Sockets -> Seq(Hosts)]
  BY DEF TypeInv, TypeOK
<1>2. CASE UNCHANGED live
  BY <1>2 DEF live
<1>3. CASE SetConfigValues(w)
  <2>1. /\ pc[w] = "update"
        /\ target' = [target EXCEPT ![socket] = Current(w).services]
        /\ \/ UNCHANGED servers
           \/ servers' = [servers EXCEPT ![socket] = @ \o Current(w).services]
    BY <1>3 DEF SetConfigValues, At, Socket
  <2>2. servers[s] = target[s]
    BY <2>1 DEF ListsInv, Busy
  <2> HIDE DEF socket
  <2>3. CASE s = socket
    BY <1>1, <2>1, <2>2, <2>3
  <2>4. CASE s # socket
    BY <1>1, <2>1, <2>4
  <2> QED
    BY <2>3, <2>4
<1>4. CASE RemoveAllServers(w)
  <2>1. servers' = [servers EXCEPT ![socket] = << >>] /\ UNCHANGED target
    BY <1>4 DEF RemoveAllServers
  <2> QED
    BY <1>1, <2>1
<1>5. CASE AddServer(w)
  <2>1. UNCHANGED target
    BY <1>5 DEF AddServer
  <2>2. CASE s = socket
    BY <1>5, <2>1, <2>2, AddServerExtends
  <2>3. CASE s # socket
    BY <1>5, <2>1, <2>3, AddServerExtends
  <2> QED
    BY <2>2, <2>3
<1>6. \/ UNCHANGED live
      \/ SetConfigValues(w) \/ RemoveAllServers(w) \/ AddServer(w)
  BY OneStep DEF Act, Receive, LoadMalformed, LoadThrows, LoadProxySection,
     LoadGatewaySection, LoadEndpointServiceFromString, GetProxyConfig, EditCopy,
     SetProxyConfig, ResolveProxyServerConfigurations, ResolveCopy, SkipEndPoint,
     NextEndPoint, AllUpdated, vars, live
<1> QED
  BY <1>2, <1>3, <1>4, <1>5, <1>6

\* updateProxyConfig replaces a list of servers as a whole, for every number of
\* sockets, endpoints and services: outside a rebuild a load balancer holds
\* exactly what its socket was last configured with; SetConfigValues finds it
\* whole, and leaves it so or followed by the new list; then it is emptied, and
\* filled with the new list one service at a time in their order.
THEOREM ListsReplacedAsAWhole == Spec => RebuiltAsAWhole
<1>1. ListsInv => \A s \in Sockets : ~Rebuilding(s) => servers[s] = target[s]
  BY OneWriter DEF ListsInv, Busy, Rebuilding
<1>2. TypeInv /\ ListsInv /\ [Next]_vars
          => [\A s \in Sockets :
                 \/ UNCHANGED <<target[s], servers[s]>>
                 \/ /\ servers[s] = target[s]
                    /\ servers'[s] \in {servers[s], servers[s] \o target'[s]}
                 \/ /\ UNCHANGED target[s]
                    /\ \/ servers'[s] = << >>
                       \/ \E n \in 1 .. Len(target[s]) :
                             /\ servers[s] = SubSeq(target[s], 1, n - 1)
                             /\ servers'[s] = SubSeq(target[s], 1, n)]_vars
  BY StepRebuilds
<1> QED
  BY <1>1, <1>2, TypeInvariant, ListsInvariant, PTL DEF Spec, RebuiltAsAWhole

-----------------------------------------------------------------------------
(***************************************************************************)
(* Configuration and traffic.  LiveMatchesConfig speaks of the states in   *)
(* which the writer is idle; while it goes through the endpoints, those it *)
(* has passed agree with their sockets already.                            *)
(***************************************************************************)
Publishing == pc[Writer] \in {"update", "remove", "add"}

\* Of the endpoints up to position n, the last of each registered name is the
\* one its socket was configured with.
PublishedTo(n) ==
    \A name \in RegisteredNames : \A i \in Matching(proxyConfig, name) :
        (i <= n /\ \A j \in Matching(proxyConfig, name) : j <= n => j <= i) =>
            target[proxySocketsMap[name]] = Hosted(proxyConfig[i].services)

PublishedInv ==
    /\ Publishing => resolved[Writer] = Resolve(proxyConfig) /\ pos[Writer] >= 1
    /\ pc[Writer] = "update" => PublishedTo(pos[Writer] - 1)
    /\ Busy => PublishedTo(pos[Writer])
    /\ (pc[Writer] = "idle" /\ reply[Writer] = "ok") =>
          PublishedTo(Len(proxyConfig))
    /\ (pc[Writer] = "idle" /\ reply[Writer] = "none") =>
          /\ proxyConfig = InitialConfig
          /\ target = [s \in Sockets |-> Hosted(InitialConfig[s].services)]

\* initProxyServers enters no libuv socket in the map: a name that a threaded
\* and a libuv endpoint share leads to the threaded one, even if it comes first.
LibuvNamesApart ==
    \A s, t \in Sockets :
        Name(s) = Name(t) =>
            (InitialConfig[s].pipeline = LibuvPipeline
                <=> InitialConfig[t].pipeline = LibuvPipeline)

LEMMA Positions ==
    ASSUME NEW config \in ProxyConfig, NEW name
    PROVE  /\ DOMAIN config = 1 .. Len(config) /\ Len(config) \in Nat
           /\ Matching(config, name) \in SUBSET (1 .. Len(config))
BY LenProperties DEF ProxyConfig, Matching

LEMMA LastHostedIs ==
    ASSUME NEW config \in ProxyConfig, NEW name, Matching(config, name) # {}
    PROVE  \E i \in Matching(config, name) :
               /\ \A j \in Matching(config, name) : j <= i
               /\ LastHosted(config, name) = Hosted(config[i].services)
<1> DEFINE T == Matching(config, name)
           last == CHOOSE i \in T : \A j \in T : j <= i
<1>1. \E i \in T : \A j \in T : j <= i
  BY Positions, LargestExists
<1>2. last \in T /\ \A j \in T : j <= last
  BY <1>1
<1>3. LastHosted(config, name) = Hosted(config[last].services)
  BY DEF LastHosted
<1> HIDE DEF last
<1> QED
  BY <1>2, <1>3

LEMMA InitPublished == Init => PublishedInv
BY OneWriter DEF Init, PublishedInv, Publishing, Busy

\* The configuration that every socket was started from agrees with the sockets.
LEMMA StartedFrom ==
    ASSUME LibuvNamesApart,
           NEW name \in RegisteredNames, NEW i \in Matching(InitialConfig, name),
           \A j \in Matching(InitialConfig, name) : j <= i
    PROVE  proxySocketsMap[name] = i
<1> DEFINE T == Entered(name)
           s == CHOOSE x \in T : \A y \in T : y <= x
<1>1. Sockets = 1 .. Len(InitialConfig) /\ Len(InitialConfig) \in Nat
  BY InitialConfigAssumption, Positions DEF Sockets
<1>2. T \in SUBSET (1 .. Len(InitialConfig)) /\ T # {}
  BY <1>1 DEF Entered, RegisteredNames
<1>3. \E x \in T : \A y \in T : y <= x
  BY <1>1, <1>2, LargestExists
<1>4. s \in T /\ \A y \in T : y <= s
  BY <1>3
<1>5. proxySocketsMap[name] = s
  BY DEF proxySocketsMap
<1> HIDE DEF s
<1>6. i \in Sockets /\ Name(i) = name
  BY DEF Matching, Sockets, Name
<1>7. s \in Sockets /\ Name(s) = name /\ InitialConfig[s].pipeline # LibuvPipeline
  BY <1>4 DEF Entered
<1>8. i \in T
  BY <1>6, <1>7 DEF LibuvNamesApart, Entered
<1>9. s \in Matching(InitialConfig, name)
  BY <1>7 DEF Matching, Sockets, Name
<1>10. s = i
  BY <1>1, <1>4, <1>6, <1>7, <1>8, <1>9
<1> QED
  BY <1>5, <1>10

\* SetConfigValues extends what agrees by the current endpoint: the sockets of
\* two names are different sockets.
LEMMA SetPublishes ==
    ASSUME TypeInv, PublishedInv, SetConfigValues(Writer)
    PROVE  PublishedTo(pos[Writer])'
<1> DEFINE w == Writer
           n == pos[w]
           socket == proxySocketsMap[Current(w).name]
<1>1. /\ w \in Workers /\ n \in Nat /\ proxyConfig \in ProxyConfig
      /\ target \in [Sockets -> Seq(Hosts)]
  BY OneWriter DEF TypeInv, TypeOK
<1>2. /\ pc[w] = "update" /\ Remaining(w) /\ Current(w).name \in RegisteredNames
      /\ proxyConfig' = proxyConfig /\ pos' = pos
      /\ target' = [target EXCEPT ![socket] = Current(w).services]
  BY DEF SetConfigValues, At, locals
<1>3. resolved[w] = Resolve(proxyConfig) /\ PublishedTo(n - 1)
  BY <1>2 DEF PublishedInv, Publishing
<1>4. n \in DOMAIN proxyConfig
      /\ Current(w) = [name |-> proxyConfig[n].endPointName,
                       services |-> Hosted(proxyConfig[n].services)]
  BY <1>2, <1>3 DEF Remaining, Current, Resolve
<1>5. socket \in Sockets /\ Name(socket) = Current(w).name
  BY <1>2, SocketsMapType
<1>6. ASSUME NEW name \in RegisteredNames,
             NEW i \in Matching(proxyConfig, name), i <= n,
             \A j \in Matching(proxyConfig, name) : j <= n => j <= i
      PROVE  target'[proxySocketsMap[name]] = Hosted(proxyConfig[i].services)
  <2>1. i \in Nat /\ Matching(proxyConfig, name) \in SUBSET Nat
    BY <1>1, Positions
  <2>2. CASE i = n
    <3>1. name = Current(w).name
      BY <1>4, <2>2 DEF Matching
    <3> QED
      BY <1>1, <1>2, <1>4, <1>5, <2>2, <3>1
  <2>3. CASE i # n
    <3>1. i <= n - 1 /\ n \notin Matching(proxyConfig, name)
      BY <1>1, <1>6, <2>1, <2>3
    <3>2. name # Current(w).name
      BY <1>4, <3>1 DEF Matching
    <3>3. proxySocketsMap[name] \in Sockets /\ proxySocketsMap[name] # socket
      BY <1>5, <3>2, SocketsMapType
    <3>4. \A j \in Matching(proxyConfig, name) : j <= n - 1 => j <= i
      BY <1>1, <1>6, <2>1
    <3>5. target[proxySocketsMap[name]] = Hosted(proxyConfig[i].services)
      BY <1>3, <3>1, <3>4 DEF PublishedTo
    <3> QED
      BY <1>1, <1>2, <3>3, <3>5
  <2> QED
    BY <2>2, <2>3
<1> QED
  BY <1>2, <1>6 DEF PublishedTo

\* An endpoint without a registered socket has nothing to agree with.
LEMMA SkipPublishes ==
    ASSUME TypeInv, PublishedInv, SkipEndPoint(Writer)
    PROVE  PublishedTo(pos[Writer])
<1> DEFINE w == Writer
           n == pos[w]
<1>1. w \in Workers /\ n \in Nat /\ proxyConfig \in ProxyConfig
  BY OneWriter DEF TypeInv, TypeOK
<1>2. pc[w] = "update" /\ Remaining(w) /\ Current(w).name \notin RegisteredNames
  BY DEF SkipEndPoint, At
<1>3. resolved[w] = Resolve(proxyConfig) /\ PublishedTo(n - 1)
  BY <1>2 DEF PublishedInv, Publishing
<1>4. Current(w).name = proxyConfig[n].endPointName
  BY <1>2, <1>3 DEF Remaining, Current, Resolve
<1>5. ASSUME NEW name \in RegisteredNames,
             NEW i \in Matching(proxyConfig, name), i <= n,
             \A j \in Matching(proxyConfig, name) : j <= n => j <= i
      PROVE  target[proxySocketsMap[name]] = Hosted(proxyConfig[i].services)
  <2>1. i \in Nat /\ Matching(proxyConfig, name) \in SUBSET Nat
    BY <1>1, Positions
  <2>2. i # n
    BY <1>2, <1>4 DEF Matching
  <2>3. i <= n - 1 /\ \A j \in Matching(proxyConfig, name) : j <= n - 1 => j <= i
    BY <1>1, <1>5, <2>1, <2>2
  <2> QED
    BY <1>3, <2>3 DEF PublishedTo
<1> QED
  BY <1>5 DEF PublishedTo

LEMMA StepPublished == TypeInv /\ PublishedInv /\ [Next]_vars => PublishedInv'
<1> SUFFICES ASSUME TypeInv, PublishedInv, [Next]_vars PROVE PublishedInv'
  OBVIOUS
<1> DEFINE w == Writer
<1>1. /\ w \in Workers
      /\ pc \in [Workers -> Labels]
      /\ reply \in [Workers -> {"none", "ok", "error"}]
      /\ resolved \in [Workers -> Seq(ResolvedEndPoint)]
      /\ pos \in [Workers -> Nat]
      /\ proxyConfig \in ProxyConfig
  BY OneWriter DEF TypeInv, TypeOK
\* Before the resolution nothing is claimed.
<1>2. ASSUME NEW label \in Labels \ {"idle", "update", "remove", "add"},
             Goto(w, label)
      PROVE  PublishedInv'
  BY <1>1, <1>2 DEF Goto, PublishedInv, Publishing, Busy
<1>3. ASSUME Answer(w, "error") PROVE PublishedInv'
  BY <1>1, <1>3 DEF Answer, Goto, PublishedInv, Publishing, Busy
<1>4. ASSUME pc[w] \notin {"idle", "update", "remove", "add"}, UNCHANGED pc
      PROVE  PublishedInv'
  BY <1>4 DEF PublishedInv, Publishing, Busy
<1>5. CASE Receive(w)
  BY <1>2, <1>5 DEF Receive, Labels
<1>6. CASE LoadMalformed(w) \/ LoadThrows(w)
  BY <1>2, <1>3, <1>6 DEF LoadMalformed, LoadThrows, Labels
<1>7. CASE LoadProxySection(w) \/ LoadGatewaySection(w)
  <2>1. CASE pc[w] = "gateway" /\ UNCHANGED pc
    BY <1>4, <2>1
  <2> QED
    BY <1>2, <1>3, <1>7, <2>1 DEF LoadProxySection, LoadGatewaySection, At, Labels
<1>8. CASE LoadEndpointServiceFromString(w)
  BY <1>2, <1>3, <1>8 DEF LoadEndpointServiceFromString, Labels
<1>9. CASE GetProxyConfig(w)
  BY <1>2, <1>3, <1>9 DEF GetProxyConfig, EditCopy, Labels
<1>10. CASE SetProxyConfig(w)
  BY <1>2, <1>10 DEF SetProxyConfig, Labels
<1>11. CASE ResolveProxyServerConfigurations(w)
  <2>1. CASE Answer(w, "error")
    BY <1>3, <2>1
  <2>2. CASE ~Answer(w, "error")
    <3>1. /\ pc'[w] = "update" /\ pos'[w] = 1 /\ proxyConfig' = proxyConfig
          /\ resolved'[w] = Resolve(proxyConfig)
      BY <1>1, <1>11, <2>2 DEF ResolveProxyServerConfigurations, ResolveCopy, Goto
    <3>2. ASSUME NEW name, NEW i \in Matching(proxyConfig, name), i <= 0
          PROVE  FALSE
      BY <1>1, <3>2, Positions
    <3>3. PublishedTo(pos[w] - 1)'
      BY <3>1, <3>2 DEF PublishedTo
    <3>4. (resolved[w] = Resolve(proxyConfig))'
      BY <3>1
    <3> QED
      BY <3>1, <3>3, <3>4 DEF PublishedInv, Publishing, Busy
  <2> QED
    BY <2>1, <2>2
<1>12. CASE SkipEndPoint(w)
  <2>1. /\ pc[w] = "update" /\ pc' = pc /\ pos'[w] = pos[w] + 1
        /\ UNCHANGED <<proxyConfig, target, resolved>> /\ pos[w] \in Nat
    BY <1>1, <1>12 DEF SkipEndPoint, At, live
  <2>2. PublishedTo(pos[w])
    BY <1>12, SkipPublishes
  <2>3. pos'[w] - 1 = pos[w]
    BY <2>1
  <2>4. PublishedTo(pos[w] - 1)'
    BY <2>1, <2>2, <2>3 DEF PublishedTo
  <2>5. resolved[w] = Resolve(proxyConfig) /\ pos[w] >= 1
    BY <2>1 DEF PublishedInv, Publishing
  <2>6. (resolved[w] = Resolve(proxyConfig) /\ pos[w] >= 1)'
    BY <2>1, <2>5
  <2> QED
    BY <2>1, <2>4, <2>6 DEF PublishedInv, Publishing, Busy
<1>13. CASE SetConfigValues(w)
  <2>1. /\ pc[w] = "update" /\ pc'[w] = "remove"
        /\ UNCHANGED <<proxyConfig, resolved, pos>>
    BY <1>1, <1>13 DEF SetConfigValues, At, Goto, locals
  <2>2. PublishedTo(pos[w])'
    BY <1>13, SetPublishes
  <2> QED
    BY <2>1, <2>2 DEF PublishedInv, Publishing, Busy
<1>14. CASE RemoveAllServers(w) \/ AddServer(w)
  <2>1. /\ Busy /\ Busy' /\ pc'[w] # "update" /\ pc'[w] # "idle"
        /\ UNCHANGED <<proxyConfig, target, resolved, pos>>
    BY <1>1, <1>14 DEF RemoveAllServers, AddServer, At, Goto, Busy
  <2> QED
    BY <2>1 DEF PublishedInv, Publishing, Busy, PublishedTo
<1>15. CASE NextEndPoint(w)
  <2>1. /\ Busy /\ pc'[w] = "update" /\ pos'[w] = pos[w] + 1
        /\ UNCHANGED <<proxyConfig, target, resolved>> /\ pos[w] \in Nat
    BY <1>1, <1>15 DEF NextEndPoint, At, Goto, Busy, live
  <2>2. /\ PublishedTo(pos[w])
        /\ resolved[w] = Resolve(proxyConfig) /\ pos[w] >= 1
    BY <2>1 DEF PublishedInv, Publishing, Busy
  <2>3. pos'[w] - 1 = pos[w]
    BY <2>1
  <2>4. PublishedTo(pos[w] - 1)'
    BY <2>1, <2>2, <2>3 DEF PublishedTo
  <2>5. (resolved[w] = Resolve(proxyConfig) /\ pos[w] >= 1)'
    BY <2>1, <2>2
  <2> QED
    BY <2>1, <2>4, <2>5 DEF PublishedInv, Publishing, Busy
<1>16. CASE AllUpdated(w)
  <2>1. /\ pc[w] = "update" /\ ~Remaining(w) 
        /\ pc'[w] = "idle" /\ reply'[w] = "ok"
        /\ UNCHANGED <<proxyConfig, target>> /\ pos[w] \in Nat
    BY <1>1, <1>16 DEF AllUpdated, At, Answer, Goto, live
  <2>2. /\ PublishedTo(pos[w] - 1)
        /\ resolved[w] = Resolve(proxyConfig) /\ pos[w] >= 1
    BY <2>1 DEF PublishedInv, Publishing
  <2>3. pos[w] \notin 1 .. Len(proxyConfig) /\ Len(proxyConfig) \in Nat
    BY <1>1, <2>1, <2>2, Positions DEF Remaining, Resolve
  <2>4. pos[w] - 1 >= Len(proxyConfig)
    BY <2>1, <2>2, <2>3
  <2>5. ASSUME NEW name, NEW j \in Matching(proxyConfig, name)
        PROVE  j <= Len(proxyConfig) /\ j <= pos[w] - 1
    BY <1>1, <2>1, <2>3, <2>4, <2>5, Positions
  <2>6. PublishedTo(Len(proxyConfig))'
    BY <2>1, <2>2, <2>5 DEF PublishedTo
  <2> QED
    BY <2>1, <2>6 DEF PublishedInv, Publishing, Busy
<1>17. CASE UNCHANGED vars
  BY <1>17 DEF vars, PublishedInv, Publishing, Busy, PublishedTo
<1> QED
  BY OneStep, <1>5, <1>6, <1>7, <1>8, <1>9, <1>10, <1>11, <1>12, <1>13, <1>14,
     <1>15, <1>16, <1>17 DEF Act

\* What PublishedTo says of all endpoints, in the words of the properties.
LEMMA PublishedLast ==
    ASSUME TypeInv, PublishedTo(Len(proxyConfig)), NEW name \in RegisteredNames,
           Matching(proxyConfig, name) # {}
    PROVE  target[proxySocketsMap[name]] = LastHosted(proxyConfig, name)
<1>1. proxyConfig \in ProxyConfig
  BY DEF TypeInv, TypeOK
<1>2. PICK i \in Matching(proxyConfig, name) :
               /\ \A j \in Matching(proxyConfig, name) : j <= i
               /\ LastHosted(proxyConfig, name) = Hosted(proxyConfig[i].services)
  BY <1>1, LastHostedIs
<1>3. i <= Len(proxyConfig)
  BY <1>1, Positions
<1> QED
  BY <1>2, <1>3 DEF PublishedTo

LEMMA PublishedIsLive ==
    ASSUME LibuvNamesApart, TypeInv, ListsInv, PublishedInv
    PROVE  LiveMatchesConfig
<1> SUFFICES ASSUME Quiet, \A v \in Workers : reply[v] # "error",
                    NEW name \in RegisteredNames,
                    Matching(proxyConfig, name) # {}
             PROVE  servers[proxySocketsMap[name]] = LastHosted(proxyConfig, name)
  BY DEF LiveMatchesConfig
<1>1. /\ pc[Writer] = "idle" /\ reply[Writer] \in {"ok", "none"}
      /\ proxyConfig \in ProxyConfig
  BY OneWriter DEF Quiet, TypeInv, TypeOK
<1>2. servers[proxySocketsMap[name]] = target[proxySocketsMap[name]]
  BY <1>1, SocketsMapType DEF ListsInv, Busy
<1>3. CASE reply[Writer] = "ok"
  BY <1>1, <1>2, <1>3, PublishedLast DEF PublishedInv
<1>4. CASE reply[Writer] = "none"
  <2>1. /\ proxyConfig = InitialConfig
        /\ target = [s \in Sockets |-> Hosted(InitialConfig[s].services)]
    BY <1>1, <1>4 DEF PublishedInv
  <2>2. PICK i \in Matching(InitialConfig, name) :
                 /\ \A j \in Matching(InitialConfig, name) : j <= i
                 /\ LastHosted(InitialConfig, name)
                        = Hosted(InitialConfig[i].services)
    BY <1>1, <2>1, LastHostedIs
  <2>3. proxySocketsMap[name] = i /\ i \in Sockets
    BY <2>2, StartedFrom, SocketsMapType
  <2> QED
    BY <1>2, <2>1, <2>2, <2>3
<1> QED
  BY <1>1, <1>3, <1>4

LEMMA PublishedInvariant == Spec => []PublishedInv
BY InitPublished, StepPublished, TypeInvariant, PTL DEF Spec

\* Configuration and traffic do not drift apart: when the one writer has
\* answered and its last answer was no error, every registered socket balances
\* over the services of the last endpoint of its name in m_ProxyConfig, after
\* whatever reloads, rejected documents and edits, for every number of
\* endpoints and services.  The assumption is on the configuration the sockets
\* were started from: without it a shared name disagrees from the beginning.
THEOREM TrafficFollowsConfig ==
    ASSUME LibuvNamesApart PROVE Spec => []LiveMatchesConfig
<1>1. TypeInv /\ ListsInv /\ PublishedInv => LiveMatchesConfig
  BY PublishedIsLive
<1> QED
  BY <1>1, PublishedInvariant, ListsInvariant, TypeInvariant, PTL

-----------------------------------------------------------------------------
(***************************************************************************)
(* The refinement.  Apart from what is proved above it rests on the edit:  *)
(* only one that parsed, of an endpoint that is there, gets as far as      *)
(* setProxyConfig.                                                         *)
(***************************************************************************)
EditInv ==
    /\ pc[Writer] \in {"get", "set"} => ParsesAsEdit(Edit(Writer))
    /\ pc[Writer] = "set" => Matching(proxyConfig, Edit(Writer).name) # {}

\* With one writer no step races, so a dead process died in the parser.
AliveInv == up \/ pc[Writer] = "gateway"

LEMMA StepEdit ==
    TypeInv /\ EditInv /\ AliveInv /\ [Next]_vars => EditInv' /\ AliveInv'
<1> SUFFICES ASSUME TypeInv, EditInv, AliveInv, [Next]_vars
             PROVE  EditInv' /\ AliveInv'
  OBVIOUS
<1> DEFINE w == Writer
<1>1. w \in Workers /\ pc \in [Workers -> Labels]
  BY OneWriter DEF TypeInv, TypeOK
<1>2. ASSUME NEW label \in Labels \ {"get", "set"}, Goto(w, label), up' = TRUE
      PROVE  EditInv' /\ AliveInv'
  BY <1>1, <1>2 DEF Goto, EditInv, AliveInv
<1>3. ASSUME NEW status, Answer(w, status), up' = TRUE
      PROVE  EditInv' /\ AliveInv'
  BY <1>2, <1>3 DEF Answer, Labels
<1>4. CASE LoadProxySection(w) \/ LoadGatewaySection(w)
  <2>1. CASE pc[w] = "gateway" /\ UNCHANGED pc
    BY <1>1, <2>1 DEF EditInv, AliveInv
  <2> QED
    BY <1>2, <1>3, <1>4, <2>1 DEF LoadProxySection, LoadGatewaySection, At, Labels
<1>5. CASE LoadEndpointServiceFromString(w)
  <2>1. CASE ParsesAsEdit(Edit(w)) /\ Goto(w, "get") /\ UNCHANGED request
    BY <1>1, <1>5, <2>1
       DEF LoadEndpointServiceFromString, At, Goto, EditInv, AliveInv, Edit
  <2> QED
    BY <1>3, <1>5, <2>1 DEF LoadEndpointServiceFromString, At
<1>6. CASE GetProxyConfig(w)
  <2>1. CASE Goto(w, "set") /\ UNCHANGED request
             /\ Matching(proxyConfig, Edit(w).name) # {}
    BY <1>1, <1>6, <2>1
       DEF GetProxyConfig, EditCopy, At, Goto, EditInv, AliveInv, Edit
  <2> QED
    BY <1>3, <1>6, <2>1 DEF GetProxyConfig, EditCopy, At
<1>7. CASE \/ Receive(w) \/ LoadMalformed(w) \/ LoadThrows(w)
           \/ SetProxyConfig(w) \/ ResolveProxyServerConfigurations(w)
           \/ SetConfigValues(w) \/ RemoveAllServers(w) \/ NextEndPoint(w)
           \/ AllUpdated(w)
  <2>1. up' = TRUE
    BY <1>7 DEF Receive, LoadMalformed, LoadThrows, SetProxyConfig,
       ResolveProxyServerConfigurations, ResolveCopy, SetConfigValues,
       RemoveAllServers, NextEndPoint, AllUpdated, At
  <2> QED
    BY <1>2, <1>3, <1>7, <2>1 DEF Receive, LoadMalformed, LoadThrows,
       SetProxyConfig, ResolveProxyServerConfigurations, ResolveCopy,
       SetConfigValues, RemoveAllServers, NextEndPoint, AllUpdated, Labels
<1>8. CASE SkipEndPoint(w) \/ AddServer(w)
  BY <1>1, <1>8 DEF SkipEndPoint, AddServer, At, EditInv, AliveInv
<1>9. CASE UNCHANGED vars
  BY <1>9 DEF vars, EditInv, AliveInv, Edit
<1> QED
  BY OneStep, <1>4, <1>5, <1>6, <1>7, <1>8, <1>9 DEF Act

LEMMA EditInvariant == Spec => [](EditInv /\ AliveInv)
<1>1. Init => EditInv /\ AliveInv
  BY OneWriter DEF Init, EditInv, AliveInv
<1> QED
  BY <1>1, StepEdit, TypeInvariant, PTL DEF Spec

\* A list that counts as the list it is going to be is what its socket was
\* last configured with.
LEMMA RoutesAreTargets == TypeInv /\ ListsInv => Routes = target
<1> SUFFICES ASSUME TypeInv, ListsInv PROVE Routes = target
  OBVIOUS
<1>1. target \in [Sockets -> Seq(Hosts)]
  BY DEF TypeInv, TypeOK
<1>2. ASSUME NEW s \in Sockets, ~Rebuilding(s) PROVE servers[s] = target[s]
  BY <1>2, OneWriter DEF Rebuilding, ListsInv, Busy
<1> QED
  BY <1>1, <1>2 DEF Routes

\* The operators of ServiceDirectory, instantiated, are those of HotReload.
LEMMA SameData ==
    /\ \A config, name : Directory!Matching(config, name) = Matching(config, name)
    /\ \A services : Directory!Hosted(services) = Hosted(services)
    /\ \A config : Directory!Resolvable(config) <=> Resolvable(config)
    /\ \A e : Directory!ParsesAsEdit(e) <=> ParsesAsEdit(e)
    /\ Directory!Sockets = Sockets
    /\ \A s : Directory!Name(s) = Name(s)
<1>1. \A config, name : Directory!Matching(config, name) = Matching(config, name)
  BY DEF Directory!Matching, Matching
<1>2. \A services : Directory!Hosted(services) = Hosted(services)
  BY DEF Directory!Hosted, Hosted
<1>3. \A config : Directory!Resolvable(config) <=> Resolvable(config)
  BY DEF Directory!Resolvable, Resolvable
<1>4. \A e : Directory!ParsesAsEdit(e) <=> ParsesAsEdit(e)
  BY DEF Directory!ParsesAsEdit, ParsesAsEdit, Directory!PortParses, PortParses
<1>5. Directory!Sockets = Sockets /\ \A s : Directory!Name(s) = Name(s)
  BY DEF Directory!Sockets, Sockets, Directory!Name, Name
<1> QED
  BY <1>1, <1>2, <1>3, <1>4, <1>5

LEMMA SameReads ==
    /\ \A choices : Directory!Picks(choices) = Picks(choices)
    /\ \A xml : Directory!ReadHost(xml) = ReadHost(xml)
    /\ \A xml : Directory!ReadService(xml) = ReadService(xml)
    /\ \A xmls : Directory!ReadServices(xmls) = ReadServices(xmls)
    /\ \A xml : Directory!ReadEndPoint(xml) = ReadEndPoint(xml)
<1>1. \A choices : Directory!Picks(choices) = Picks(choices)
  BY DEF Directory!Picks, Picks
<1>2. \A xml : Directory!ReadHost(xml) = ReadHost(xml)
  BY DEF Directory!ReadHost, ReadHost
<1>3. \A xml : Directory!ReadService(xml) = ReadService(xml)
  BY <1>2 DEF Directory!ReadService, ReadService
<1>4. \A xmls : Directory!ReadServices(xmls) = ReadServices(xmls)
  BY <1>1, <1>3 DEF Directory!ReadServices, ReadServices
<1>5. \A xml : Directory!ReadPort(xml) = ReadPort(xml)
  BY DEF Directory!ReadPort, ReadPort, Directory!Ports, Ports
<1>6. \A xml : Directory!ReadEndPoint(xml) = ReadEndPoint(xml)
  BY <1>4, <1>5 DEF Directory!ReadEndPoint, ReadEndPoint
<1> QED
  BY <1>1, <1>2, <1>3, <1>4, <1>6

LEMMA SameEdits ==
    \A config, e : Directory!Edited(config, e) = Edited(config, e)
<1>1. \A config, name : Directory!First(config, name) = First(config, name)
  BY SameData DEF Directory!First, First
<1>2. \A services, name : Directory!Without(services, name) = Without(services, name)
  <2>1. \A S : Directory!Cardinality(S) = Cardinality(S)
    BY Zenon DEF Directory!Cardinality, Cardinality, Directory!IsFiniteSet, IsFiniteSet
  <2> QED
    BY <2>1 DEF Directory!Without, Without
<1>3. \A services, e :
          Directory!EditedServices(services, e) = EditedServices(services, e)
  BY SameReads, <1>2 DEF Directory!EditedServices, EditedServices
<1> QED
  BY <1>1, <1>3 DEF Directory!Edited, Edited

LEMMA SameLoad ==
    \A section, old : Directory!LoadProxyServerConfigurations(section, old)
                          = LoadProxyServerConfigurations(section, old)
<1>1. \A xml : Directory!Accepted(xml) <=> Accepted(xml)
  BY DEF Directory!Accepted, Accepted, Directory!PortParses, PortParses
<1>2. \A section : Directory!Rejected(section) <=> Rejected(section)
  BY <1>1 DEF Directory!Rejected, Rejected
<1> QED
  BY <1>2, SameReads, ZenonT(30) DEF Directory!LoadProxyServerConfigurations,
     LoadProxyServerConfigurations

LEMMA SameMaps ==
    /\ Directory!RegisteredNames = RegisteredNames
    /\ Directory!proxySocketsMap = proxySocketsMap
    /\ \A config, name : Directory!LastHosted(config, name) = LastHosted(config, name)
<1>1. \A name : Directory!Entered(name) = Entered(name)
  BY SameData DEF Directory!Entered, Entered
<1>2. Directory!RegisteredNames = RegisteredNames
  BY <1>1 DEF Directory!RegisteredNames, RegisteredNames
<1>3. Directory!proxySocketsMap = proxySocketsMap
  BY <1>1, <1>2 DEF Directory!proxySocketsMap, proxySocketsMap
<1>4. \A config, name : Directory!LastHosted(config, name) = LastHosted(config, name)
  BY SameData DEF Directory!LastHosted, LastHosted
<1> QED
  BY <1>2, <1>3, <1>4

LEMMA PhaseIs ==
    /\ (up /\ pc[Writer] = "idle") => Phase = "idle"
    /\ (up /\ pc[Writer] \in {"load", "parse", "get", "set"}) => Phase = "pending"
    /\ (~up \/ pc[Writer] \in {"gateway", "resolve", "looping"}) => Phase = "committed"
    /\ (up /\ pc[Writer] \in {"update", "remove", "add"}) => Phase = "publishing"
BY DEF Phase

\* What LoadProxySection and SetProxyConfig assign is what ServiceDirectory allows
\* one request to make of the directory.
LEMMA LoadChanges ==
    ASSUME NEW d \in Documents, NEW config,
           NEW result \in LoadProxyServerConfigurations(d.clusters, config)
    PROVE  result \in Directory!Changes(config)
BY SameLoad DEF Directory!Changes

LEMMA EditChanges ==
    ASSUME NEW e \in ServiceEdits, ParsesAsEdit(e), NEW config,
           Matching(config, e.name) # {}, NEW result \in Edited(config, e)
    PROVE  result \in Directory!Changes(config)
<1>1. Directory!ParsesAsEdit(e) /\ Directory!Matching(config, e.name) # {}
      /\ result \in Directory!Edited(config, e)
  BY SameData, SameEdits
<1> QED
  BY <1>1 DEF Directory!Changes

LEMMA StayChanges == \A config : config \in Directory!Changes(config)
BY DEF Directory!Changes

LEMMA StepDirectory ==
    ASSUME TypeInv, TypeInv', ListsInv, ListsInv', DraftInv, ResolvedInv,
           PublishedInv, PublishedInv', EditInv, AliveInv, [Next]_vars
    PROVE  [Directory!Next]_(Directory!vars)
<1> DEFINE w == Writer
<1>1. /\ w \in Workers /\ pc \in [Workers -> Labels]
      /\ reply \in [Workers -> {"none", "ok", "error"}]
      /\ target \in [Sockets -> Seq(Hosts)]
      /\ proxyConfig \in ProxyConfig
  BY OneWriter DEF TypeInv, TypeOK
<1>2. Routes = target
  BY RoutesAreTargets
<1>3. Routes' = target'
  <2>1. (TypeInv /\ ListsInv => Routes = target)'
    BY RoutesAreTargets, PTL
  <2> QED
    BY <2>1
<1>4. /\ (up' /\ pc'[w] = "idle") => Phase' = "idle"
      /\ (up' /\ pc'[w] \in {"load", "parse", "get", "set"}) => Phase' = "pending"
      /\ (~up' \/ pc'[w] \in {"gateway", "resolve", "looping"}) => Phase' = "committed"
      /\ (up' /\ pc'[w] \in {"update", "remove", "add"}) => Phase' = "publishing"
  <2>1. (/\ (up /\ pc[Writer] = "idle") => Phase = "idle"
         /\ (up /\ pc[Writer] \in {"load", "parse", "get", "set"}) => Phase = "pending"
         /\ (~up \/ pc[Writer] \in {"gateway", "resolve", "looping"}) => Phase = "committed"
         /\ (up /\ pc[Writer] \in {"update", "remove", "add"})
               => Phase = "publishing")'
    BY PhaseIs, PTL
  <2> QED
    BY <2>1
\* A step that leaves configuration, targets and phase alone is a stutter.
<1>5. ASSUME UNCHANGED <<proxyConfig, target>>, Phase' = Phase,
             reply'[w] = reply[w]
      PROVE  [Directory!Next]_(Directory!vars)
  BY <1>2, <1>3, <1>5 DEF Directory!vars
<1>6. ASSUME up, up', Answer(w, "error"), UNCHANGED <<proxyConfig, target>>,
             pc[w] \in {"load", "parse", "get", "set", "gateway", "resolve"}
      PROVE  Directory!Next
  <2>1. Phase \in {"pending", "committed"} /\ Phase' = "idle" /\ reply'[w] = "error"
    BY <1>1, <1>4, <1>6, PhaseIs DEF Answer, Goto
  <2> QED
    BY <1>2, <1>3, <1>6, <2>1 DEF Directory!Next, Directory!Refuse
<1>7. ASSUME up, pc[w] \in {"load", "set"},
             proxyConfig' \in Directory!Changes(proxyConfig),
             pc'[w] \in {"gateway", "resolve"}, UNCHANGED <<target, reply>>
      PROVE  Directory!Next
  <2>1. Phase = "pending" /\ Phase' = "committed"
    BY <1>4, <1>7, PhaseIs
  <2> QED
    BY <1>2, <1>3, <1>7, <2>1 DEF Directory!Next, Directory!Commit
<1>8. CASE Receive(w)
  <2>1. /\ up /\ up' /\ pc[w] = "idle" /\ pc'[w] \in {"load", "parse"}
        /\ UNCHANGED <<proxyConfig, target>> /\ reply'[w] = "none"
    BY <1>1, <1>8 DEF Receive, At, Goto, live
  <2>2. Phase = "idle" /\ Phase' = "pending"
    BY <1>4, <2>1, PhaseIs
  <2> QED
    BY <1>2, <1>3, <2>1, <2>2 DEF Directory!Next, Directory!Submit
<1>9. CASE LoadMalformed(w)
  <2>1. /\ up /\ pc[w] = "load" /\ pc'[w] = "resolve"
        /\ UNCHANGED <<proxyConfig, target, reply>>
    BY <1>1, <1>9 DEF LoadMalformed, At, Goto, live
  <2> QED
    BY <1>7, <2>1, StayChanges
<1>10. CASE LoadThrows(w)
  <2>1. /\ up /\ up' /\ pc[w] = "load" /\ Answer(w, "error")
        /\ UNCHANGED <<proxyConfig, target>>
    BY <1>10 DEF LoadThrows, At, live
  <2> QED
    BY <1>6, <2>1
<1>11. CASE LoadProxySection(w)
  <2>1. /\ up /\ pc[w] = "load" /\ pc'[w] = "gateway"
        /\ UNCHANGED <<target, reply>>
    BY <1>1, <1>11 DEF LoadProxySection, At, Goto, live
  <2>2. Document(w) \in Documents
    BY <1>1, <2>1 DEF TypeInv, LabelsOK, LoadsDocument, Document
  <2>3. proxyConfig' \in Directory!Changes(proxyConfig)
    BY <1>11, <2>2, LoadChanges DEF LoadProxySection
  <2> QED
    BY <1>7, <2>1, <2>3
\* However the gateway section ends, the change has been committed before.
<1>12. CASE LoadGatewaySection(w)
  <2>1. up /\ pc[w] = "gateway" /\ UNCHANGED <<proxyConfig, target>>
    BY <1>12 DEF LoadGatewaySection, At, live
  <2>2. \/ (~up' \/ pc'[w] \in {"resolve", "looping"}) /\ UNCHANGED reply
        \/ Answer(w, "error") /\ UNCHANGED up
    BY <1>1, <1>12 DEF LoadGatewaySection, Goto
  <2>3. CASE Answer(w, "error") /\ UNCHANGED up
    BY <1>6, <2>1, <2>3
  <2>4. CASE (~up' \/ pc'[w] \in {"resolve", "looping"}) /\ UNCHANGED reply
    <3>1. Phase = "committed" /\ Phase' = "committed"
      BY <1>4, <2>1, <2>4, PhaseIs
    <3> QED
      BY <1>5, <2>1, <2>4, <3>1
  <2> QED
    BY <2>2, <2>3, <2>4
<1>13. CASE LoadEndpointServiceFromString(w)
  <2>1. /\ up /\ up' /\ pc[w] = "parse" /\ UNCHANGED <<proxyConfig, target>>
    BY <1>13 DEF LoadEndpointServiceFromString, At, live
  <2>2. \/ pc'[w] = "get" /\ UNCHANGED reply
        \/ Answer(w, "error")
    BY <1>1, <1>13 DEF LoadEndpointServiceFromString, Goto
  <2>3. CASE pc'[w] = "get" /\ UNCHANGED reply
    <3>1. Phase = "pending" /\ Phase' = "pending"
      BY <1>4, <2>1, <2>3, PhaseIs
    <3> QED
      BY <1>5, <2>1, <2>3, <3>1
  <2> QED
    BY <1>6, <2>1, <2>2, <2>3
<1>14. CASE GetProxyConfig(w)
  <2>1. /\ up /\ up' /\ pc[w] = "get" /\ UNCHANGED <<proxyConfig, target>>
    BY <1>14 DEF GetProxyConfig, EditCopy, At, live
  <2>2. \/ pc'[w] = "set" /\ UNCHANGED reply
        \/ Answer(w, "error")
    BY <1>1, <1>14 DEF GetProxyConfig, EditCopy, Goto
  <2>3. CASE pc'[w] = "set" /\ UNCHANGED reply
    <3>1. Phase = "pending" /\ Phase' = "pending"
      BY <1>4, <2>1, <2>3, PhaseIs
    <3> QED
      BY <1>5, <2>1, <2>3, <3>1
  <2> QED
    BY <1>6, <2>1, <2>2, <2>3
<1>15. CASE SetProxyConfig(w)
  <2>1. /\ up /\ pc[w] = "set" /\ pc'[w] = "resolve" /\ proxyConfig' = draft[w]
        /\ UNCHANGED <<target, reply>>
    BY <1>1, <1>15 DEF SetProxyConfig, At, Goto, live
  <2>2. Edit(w) \in ServiceEdits
    BY <1>1, <2>1 DEF TypeInv, LabelsOK, EditsService, Edit
  <2>3. draft[w] \in Directory!Changes(proxyConfig)
    BY <2>1, <2>2, EditChanges DEF DraftInv, EditInv
  <2> QED
    BY <1>7, <2>1, <2>3
<1>16. CASE ResolveProxyServerConfigurations(w)
  <2>1. up /\ up' /\ pc[w] = "resolve" /\ UNCHANGED <<proxyConfig, target>>
    BY <1>16 DEF ResolveProxyServerConfigurations, ResolveCopy, At, live
  <2>2. CASE Answer(w, "error")
    BY <1>6, <2>1, <2>2
  <2>3. CASE ~Answer(w, "error")
    <3>1. pc'[w] = "update" /\ UNCHANGED reply /\ Resolvable(proxyConfig)
      BY <1>1, <1>16, <2>3 DEF ResolveProxyServerConfigurations, ResolveCopy, Goto
    <3>2. Phase = "committed" /\ Phase' = "publishing"
      BY <1>4, <2>1, <3>1, PhaseIs
    <3>3. Directory!Resolvable(proxyConfig)
      BY <3>1, SameData
    <3> QED
      BY <1>2, <1>3, <2>1, <3>1, <3>2, <3>3
         DEF Directory!Next, Directory!StartPublishing
  <2> QED
    BY <2>2, <2>3
<1>17. CASE SetConfigValues(w)
  <2> DEFINE socket == proxySocketsMap[Current(w).name]
             n == pos[w]
  <2>1. /\ up /\ up' /\ pc[w] = "update" /\ pc'[w] = "remove"
        /\ UNCHANGED <<proxyConfig, reply>>
        /\ Remaining(w) /\ Current(w).name \in RegisteredNames
        /\ target' = [target EXCEPT ![socket] = Current(w).services]
    BY <1>1, <1>17 DEF SetConfigValues, At, Goto
  <2>2. Phase = "publishing" /\ Phase' = "publishing"
    BY <1>4, <2>1, PhaseIs
  <2>3. resolved[w] = Resolve(proxyConfig)
    BY <2>1 DEF PublishedInv, Publishing
  <2>4. /\ n \in DOMAIN proxyConfig
        /\ Current(w).name = proxyConfig[n].endPointName
        /\ Current(w).services = Hosted(proxyConfig[n].services)
    BY <2>1, <2>3 DEF Remaining, Current, Resolve
  <2>5. socket \in Sockets /\ Name(socket) = Current(w).name
    BY <2>1, SocketsMapType
  <2>6. n \in Matching(proxyConfig, Name(socket))
    BY <2>4, <2>5 DEF Matching
  <2> HIDE DEF socket, n
  <2>7. /\ socket \in Directory!Sockets
        /\ n \in Directory!Matching(proxyConfig, Directory!Name(socket))
        /\ target' = [target EXCEPT
                         ![socket] = Directory!Hosted(proxyConfig[n].services)]
    BY <2>1, <2>4, <2>5, <2>6, SameData
  <2>8. Directory!Publish(socket)
    BY <1>2, <1>3, <2>1, <2>2, <2>7 DEF Directory!Publish
  <2> QED
    BY <2>7, <2>8 DEF Directory!Next
<1>18. CASE \/ SkipEndPoint(w) \/ RemoveAllServers(w) \/ AddServer(w)
            \/ NextEndPoint(w)
  <2>1. /\ up /\ up' /\ pc[w] \in {"update", "remove", "add"}
        /\ pc'[w] \in {"update", "remove", "add"}
        /\ UNCHANGED <<proxyConfig, target, reply>>
    BY <1>1, <1>18
       DEF SkipEndPoint, RemoveAllServers, AddServer, NextEndPoint, At, Goto, live
  <2>2. Phase = "publishing" /\ Phase' = "publishing"
    BY <1>4, <2>1, PhaseIs
  <2> QED
    BY <1>5, <2>1, <2>2
<1>19. CASE AllUpdated(w)
  <2>1. /\ up /\ up' /\ pc[w] = "update" /\ pc'[w] = "idle" /\ reply'[w] = "ok"
        /\ UNCHANGED <<proxyConfig, target>>
    BY <1>1, <1>19 DEF AllUpdated, At, Answer, Goto, live
  <2>2. Phase = "publishing" /\ Phase' = "idle"
    BY <1>4, <2>1, PhaseIs
  <2>3. PublishedTo(Len(proxyConfig))
    <3>1. PublishedTo(Len(proxyConfig))'
      BY <2>1 DEF PublishedInv
    <3> QED
      BY <2>1, <3>1 DEF PublishedTo
  <2>4. \A name \in RegisteredNames : Matching(proxyConfig, name) # {} =>
            target[proxySocketsMap[name]] = LastHosted(proxyConfig, name)
    BY <2>3, PublishedLast
  <2>5. \A name \in Directory!RegisteredNames :
            Directory!Matching(proxyConfig, name) # {} =>
                target[Directory!proxySocketsMap[name]]
                    = Directory!LastHosted(proxyConfig, name)
    BY <2>4, SameData, SameMaps
  <2> QED
    BY <1>2, <1>3, <2>1, <2>2, <2>5 DEF Directory!Next, Directory!Acknowledge
<1>20. CASE UNCHANGED vars
  <2>1. UNCHANGED <<proxyConfig, target>> /\ Phase' = Phase /\ reply'[w] = reply[w]
    BY <1>20 DEF vars, live, Phase
  <2> QED
    BY <1>5, <2>1
<1> QED
  BY OneStep, <1>8, <1>9, <1>10, <1>11, <1>12, <1>13, <1>14, <1>15, <1>16, <1>17,
     <1>18, <1>19, <1>20 DEF Act

LEMMA InitDirectory == TypeInv /\ ListsInv /\ Init => Directory!Init
<1> SUFFICES ASSUME TypeInv, ListsInv, Init PROVE Directory!Init
  OBVIOUS
<1>1. /\ up /\ pc[Writer] = "idle" /\ reply[Writer] = "none"
      /\ proxyConfig = InitialConfig
      /\ target = [s \in Sockets |-> Hosted(InitialConfig[s].services)]
  BY OneWriter DEF Init
<1>2. target = [s \in Directory!Sockets |-> Directory!Hosted(InitialConfig[s].services)]
  BY <1>1, SameData
<1> QED
  BY <1>1, <1>2, RoutesAreTargets, PhaseIs DEF Directory!Init

\* With one writer, hot reload keeps the promise of ServiceDirectory, for every
\* initial configuration, every document and every edit, those included on
\* which the parser loops or dies: one change of m_ProxyConfig per request, at
\* one instant, lists that are switched as a whole, "ok" only when they agree
\* with m_ProxyConfig, and no list touched by a request that ends in an error.
THEOREM HotReloadImplementsDirectory == Spec => ImplementsServiceDirectory
<1> DEFINE Invariants ==
       TypeInv /\ ListsInv /\ DraftInv /\ ResolvedInv /\ PublishedInv
           /\ EditInv /\ AliveInv
<1>1. Spec => []Invariants
  BY DraftInvariant, ListsInvariant, PublishedInvariant, EditInvariant, PTL
<1>2. Init /\ Invariants => Directory!Init
  BY InitDirectory
<1>3. Invariants /\ Invariants' /\ [Next]_vars => [Directory!Next]_(Directory!vars)
  BY StepDirectory
<1> QED
  BY <1>1, <1>2, <1>3, PTL DEF Spec, ImplementsServiceDirectory, Directory!Spec

-----------------------------------------------------------------------------
(***************************************************************************)
(* Deletes.  Once setProxyConfig has installed the edit, the endpoint is   *)
(* there, the first of its name has no service of the deleted name, and    *)
(* that stays so until the next request.                                   *)
(***************************************************************************)
Gone(config, name, service) ==
    /\ Matching(config, name) # {}
    /\ \A j \in DOMAIN config[First(config, name)].services :
          config[First(config, name)].services[j].name # service

IsDelete(r) == r.kind = "service" /\ r.edit.operation = "delete"

DeletedInv ==
    (/\ IsDelete(request[Writer])
     /\ \/ pc[Writer] \in {"resolve", "update", "remove", "add"}
        \/ pc[Writer] = "idle" /\ reply[Writer] = "ok") =>
        Gone(proxyConfig, Edit(Writer).name, Edit(Writer).service.name)

\* std::remove_if leaves no service of that name, wherever and however often
\* it was listed.
LEMMA WithoutDrops ==
    ASSUME NEW services, NEW name, NEW rest \in Without(services, name)
    PROVE  \A k \in DOMAIN rest : rest[k].name # name
<1> DEFINE kept == {i \in DOMAIN services : services[i].name # name}
           range == {services[i] : i \in kept}
<1>1. rest \in [1 .. Cardinality(kept) -> range]
  BY DEF Without
<1> HIDE DEF range
<1>2. ASSUME NEW k \in DOMAIN rest PROVE rest[k] \in range
  BY <1>1
<1> QED
  BY <1>2 DEF range

LEMMA DeleteDrops ==
    ASSUME NEW config \in ProxyConfig, NEW e, e.operation = "delete",
           Matching(config, e.name) # {}, NEW result \in Edited(config, e)
    PROVE  Gone(result, e.name, e.service.name)
<1> DEFINE first == First(config, e.name)
<1>1. first \in DOMAIN config
  BY FirstMatches
<1>2. PICK services \in Without(config[first].services, e.service.name) :
                 result = [config EXCEPT ![first].services = services]
  BY DEF Edited, EditedServices
<1>3. DOMAIN config = 1 .. Len(config) /\ config[first] \in EndPoint
  BY <1>1, Positions, ElementOfSeq DEF ProxyConfig
<1> HIDE DEF first
<1>4. /\ DOMAIN result = DOMAIN config
      /\ \A i \in DOMAIN config : result[i].endPointName = config[i].endPointName
      /\ result[first].services = services
  <2>1. result[first] = [config[first] EXCEPT !.services = services]
    BY <1>1, <1>2
  <2>2. \A i \in DOMAIN config \ {first} : result[i] = config[i]
    BY <1>2
  <2> QED
    BY <1>2, <1>3, <2>1, <2>2 DEF EndPoint
<1>5. Matching(result, e.name) = Matching(config, e.name)
  BY <1>4 DEF Matching
<1>6. First(result, e.name) = first
  BY <1>5 DEF First, first
<1>7. \A k \in DOMAIN services : services[k].name # e.service.name
  BY <1>2, WithoutDrops
<1> QED
  BY <1>4, <1>5, <1>6, <1>7 DEF Gone

LEMMA StepDeleted ==
    TypeInv /\ DraftInv /\ EditInv /\ DeletedInv /\ [Next]_vars => DeletedInv'
<1> SUFFICES ASSUME TypeInv, DraftInv, EditInv, DeletedInv, [Next]_vars
             PROVE  DeletedInv'
  OBVIOUS
<1> DEFINE w == Writer
<1>1. /\ w \in Workers /\ pc \in [Workers -> Labels]
      /\ reply \in [Workers -> {"none", "ok", "error"}]
      /\ proxyConfig \in ProxyConfig
  BY OneWriter DEF TypeInv, TypeOK
<1>2. ASSUME NEW label \in {"load", "gateway", "looping", "parse", "get", "set"},
             Goto(w, label)
      PROVE  DeletedInv'
  BY <1>1, <1>2 DEF Goto, DeletedInv
<1>3. ASSUME Answer(w, "error") PROVE DeletedInv'
  BY <1>1, <1>3 DEF Answer, Goto, DeletedInv
\* A document is no delete.
<1>4. ASSUME pc[w] \in {"load", "gateway"}, UNCHANGED request PROVE DeletedInv'
  <2>1. request[w].kind = "configuration"
    BY <1>1, <1>4 DEF TypeInv, LabelsOK, LoadsDocument
  <2> QED
    BY <1>4, <2>1 DEF DeletedInv, IsDelete
\* Past the resolution the configuration stays as it is.
<1>5. ASSUME pc[w] \in {"resolve", "update", "remove", "add"},
             UNCHANGED <<proxyConfig, request>>
      PROVE  DeletedInv'
  BY <1>5 DEF DeletedInv, Edit
<1>6. CASE Receive(w)
  BY <1>2, <1>6 DEF Receive
<1>7. CASE \/ LoadMalformed(w) \/ LoadThrows(w)
           \/ LoadProxySection(w) \/ LoadGatewaySection(w)
  <2>1. pc[w] \in {"load", "gateway"} /\ UNCHANGED request
    BY <1>7 DEF LoadMalformed, LoadThrows, LoadProxySection, LoadGatewaySection,
       At, Answer
  <2> QED
    BY <1>4, <2>1
<1>8. CASE LoadEndpointServiceFromString(w) \/ GetProxyConfig(w)
  BY <1>2, <1>3, <1>8 DEF LoadEndpointServiceFromString, GetProxyConfig, EditCopy
<1>9. CASE SetProxyConfig(w)
  <2>1. pc[w] = "set" /\ proxyConfig' = draft[w] /\ UNCHANGED request
    BY <1>9 DEF SetProxyConfig, At
  <2>2. /\ draft[w] \in Edited(proxyConfig, Edit(w))
        /\ Matching(proxyConfig, Edit(w).name) # {}
    BY <2>1 DEF DraftInv, EditInv
  <2>3. ASSUME Edit(w).operation = "delete"
        PROVE  Gone(proxyConfig', Edit(w).name, Edit(w).service.name)
    BY <1>1, <2>1, <2>2, <2>3, DeleteDrops
  <2> QED
    BY <2>1, <2>3 DEF DeletedInv, IsDelete, Edit
<1>10. CASE \/ ResolveProxyServerConfigurations(w) \/ SkipEndPoint(w)
            \/ SetConfigValues(w) \/ RemoveAllServers(w) \/ AddServer(w)
            \/ NextEndPoint(w) \/ AllUpdated(w)
  <2>1. pc[w] \in {"resolve", "update", "remove", "add"}
        /\ UNCHANGED <<proxyConfig, request>>
    BY <1>10 DEF ResolveProxyServerConfigurations, ResolveCopy, SkipEndPoint,
       SetConfigValues, RemoveAllServers, AddServer, NextEndPoint, AllUpdated, At,
       Answer
  <2> QED
    BY <1>5, <2>1
<1>11. CASE UNCHANGED vars
  BY <1>11 DEF vars, DeletedInv, Edit
<1> QED
  BY OneStep, <1>6, <1>7, <1>8, <1>9, <1>10, <1>11 DEF Act

LEMMA DeletedIsKept ==
    ASSUME TypeInv, ListsInv, PublishedInv, DeletedInv
    PROVE  DeleteTakesEffect
<1> DEFINE w == Writer
           name == Edit(w).name
           service == Edit(w).service.name
           list == servers[proxySocketsMap[name]]
<1> SUFFICES ASSUME Quiet, reply[w] = "ok", IsDelete(request[w]),
                    name \in RegisteredNames,
                    Cardinality(Matching(proxyConfig, name)) = 1
             PROVE  \A k \in DOMAIN list : list[k] \in Kept(name, service)
  BY OneWriter DEF DeleteTakesEffect, IsDelete, Edit
<1>1. pc[w] = "idle" /\ proxyConfig \in ProxyConfig
  BY OneWriter DEF Quiet, TypeInv, TypeOK
<1>2. PICK i : Matching(proxyConfig, name) = {i}
  <2>1. Matching(proxyConfig, name) \in SUBSET (1 .. Len(proxyConfig))
        /\ Len(proxyConfig) \in Nat
    BY <1>1, Positions
  <2>2. IsFiniteSet(Matching(proxyConfig, name))
    <3>1. IsFiniteSet(1 .. Len(proxyConfig))
      BY <2>1, FS_Interval
    <3> QED
      BY <2>1, <3>1, FS_Subset
  <2> QED
    BY <2>2, FS_Singleton
<1>3. First(proxyConfig, name) = i
  BY <1>1, <1>2, FirstMatches DEF Matching
<1>4. \A j \in DOMAIN proxyConfig[i].services :
          proxyConfig[i].services[j].name # service
  BY <1>1, <1>3 DEF DeletedInv, Gone
<1>5. list = LastHosted(proxyConfig, name)
  <2>1. list = target[proxySocketsMap[name]]
    BY <1>1, SocketsMapType DEF ListsInv, Busy
  <2>2. PublishedTo(Len(proxyConfig))
    BY <1>1 DEF PublishedInv
  <2> QED
    BY <1>2, <2>1, <2>2, PublishedLast
<1>6. list = Hosted(proxyConfig[i].services)
  BY <1>1, <1>2, <1>5, LastHostedIs
<1>7. ASSUME NEW k \in DOMAIN list PROVE list[k] \in Kept(name, service)
  <2> DEFINE services == proxyConfig[i].services
  <2>1. k \in DOMAIN services /\ list[k] = services[k].host
    BY <1>6 DEF Hosted
  <2>2. services[k].name # service
    BY <1>4, <2>1
  <2> QED
    BY <1>2, <2>1, <2>2 DEF Kept
<1> QED
  BY <1>7

\* A delete that was answered with "ok" has reached the traffic: if the name of
\* the endpoint is unique, its socket balances over the other services alone,
\* however often the deleted one had been added before.
THEOREM DeletesReachTraffic == Spec => []DeleteTakesEffect
<1>1. Init => DeletedInv
  BY OneWriter DEF Init, DeletedInv, IsDelete, NoRequest
<1>2. Spec => []DeletedInv
  BY <1>1, StepDeleted, TypeInvariant, DraftInvariant, EditInvariant, PTL DEF Spec
<1>3. TypeInv /\ ListsInv /\ PublishedInv /\ DeletedInv => DeleteTakesEffect
  BY DeletedIsKept
<1> QED
  BY <1>2, <1>3, TypeInvariant, ListsInvariant, PublishedInvariant, PTL

-----------------------------------------------------------------------------
(***************************************************************************)
(* The run delete_from_libuv finds a deleted service still routed to.  The *)
(* rest of this module shows that libuv endpoints and repeated names are   *)
(* the only ways to that.                                                  *)
(***************************************************************************)
Unique(config) ==
    \A i, j \in DOMAIN config : config[i].endPointName = config[j].endPointName => i = j

\* The configuration the sockets were started from has threaded endpoints of
\* different names, and no document repeats a name.
EndPointsApart ==
    /\ Unique(InitialConfig)
    /\ \A s \in Sockets : InitialConfig[s].pipeline # LibuvPipeline
    /\ \A d \in Documents : \A i, j \in DOMAIN d.clusters.endPoints :
          d.clusters.endPoints[i].name = d.clusters.endPoints[j].name => i = j

LEMMA EditKeepsNames ==
    ASSUME NEW config \in ProxyConfig, NEW e, Matching(config, e.name) # {},
           NEW result \in Edited(config, e)
    PROVE  /\ DOMAIN result = DOMAIN config
           /\ \A i \in DOMAIN config :
                 result[i].endPointName = config[i].endPointName
<1> DEFINE first == First(config, e.name)
<1>1. first \in DOMAIN config
  BY FirstMatches
<1>2. PICK services : result = [config EXCEPT ![first].services = services]
  BY DEF Edited
<1>3. config[first] \in EndPoint
  BY <1>1, Positions, ElementOfSeq DEF ProxyConfig
<1> HIDE DEF first
<1>4. result[first] = [config[first] EXCEPT !.services = services]
  BY <1>1, <1>2
<1>5. \A i \in DOMAIN config \ {first} : result[i] = config[i]
  BY <1>2
<1> QED
  BY <1>2, <1>3, <1>4, <1>5 DEF EndPoint

LEMMA LoadKeepsUnique ==
    ASSUME EndPointsApart, NEW d \in Documents, NEW old, Unique(old),
           NEW config \in LoadProxyServerConfigurations(d.clusters, old)
    PROVE  Unique(config)
<1> DEFINE xmls == d.clusters.endPoints
<1>1. CASE ~d.clusters.present
  BY <1>1 DEF LoadProxyServerConfigurations, Unique
<1>2. CASE d.clusters.present /\ Rejected(d.clusters)
  BY <1>2 DEF LoadProxyServerConfigurations
<1>3. CASE d.clusters.present /\ ~Rejected(d.clusters)
  <2>1. d.clusters \in ClustersSection
    BY DocumentsAssumption DEF XmlDocument
  <2>2. /\ DOMAIN config = DOMAIN xmls
        /\ \A i \in DOMAIN xmls : config[i] \in ReadEndPoint(xmls[i])
    BY <1>3, <2>1, AcceptedSection
  <2>3. \A i \in DOMAIN xmls : config[i].endPointName = xmls[i].name
    BY <2>2 DEF ReadEndPoint
  <2> QED
    BY <2>2, <2>3 DEF EndPointsApart, Unique
<1> QED
  BY <1>1, <1>2, <1>3

LEMMA StepUnique ==
    ASSUME EndPointsApart
    PROVE  TypeInv /\ DraftInv /\ EditInv /\ Unique(proxyConfig) /\ [Next]_vars
               => Unique(proxyConfig)'
<1> SUFFICES ASSUME TypeInv, DraftInv, EditInv, Unique(proxyConfig), [Next]_vars
             PROVE  Unique(proxyConfig')
  OBVIOUS
<1> DEFINE w == Writer
<1>1. proxyConfig \in ProxyConfig /\ w \in Workers
  BY OneWriter DEF TypeInv, TypeOK
<1>2. CASE LoadProxySection(w)
  <2>1. Document(w) \in Documents
    BY <1>1, <1>2
       DEF LoadProxySection, At, TypeInv, LabelsOK, LoadsDocument, Document
  <2> QED
    BY <1>2, <2>1, LoadKeepsUnique DEF LoadProxySection
<1>3. CASE SetProxyConfig(w)
  <2>1. /\ proxyConfig' \in Edited(proxyConfig, Edit(w))
        /\ Matching(proxyConfig, Edit(w).name) # {}
    BY <1>3 DEF SetProxyConfig, At, DraftInv, EditInv
  <2>2. /\ DOMAIN proxyConfig' = DOMAIN proxyConfig
        /\ \A i \in DOMAIN proxyConfig :
              proxyConfig'[i].endPointName = proxyConfig[i].endPointName
    BY <1>1, <2>1, EditKeepsNames
  <2> QED
    BY <2>2 DEF Unique
<1>4. CASE UNCHANGED proxyConfig
  BY <1>4
<1>5. LoadProxySection(w) \/ SetProxyConfig(w) \/ UNCHANGED proxyConfig
  BY OneStep DEF Act, Receive, LoadMalformed, LoadThrows, LoadGatewaySection,
     LoadEndpointServiceFromString, GetProxyConfig, EditCopy,
     ResolveProxyServerConfigurations, ResolveCopy, SkipEndPoint,
     SetConfigValues, RemoveAllServers, AddServer, NextEndPoint, AllUpdated, vars
<1> QED
  BY <1>2, <1>3, <1>4, <1>5

\* Then every socket is the one that its name leads to.
LEMMA SocketOfItsName ==
    ASSUME EndPointsApart, NEW s \in Sockets
    PROVE  Name(s) \in RegisteredNames /\ proxySocketsMap[Name(s)] = s
<1>1. InitialConfig[s] \in EndPoint
  BY InitialConfigAssumption, Positions, ElementOfSeq DEF Sockets, ProxyConfig
<1>2. s \in Entered(Name(s)) /\ Name(s) \in EndpointNames
  BY <1>1 DEF EndPointsApart, Entered, Name, EndPoint
<1>3. Name(s) \in RegisteredNames
  BY <1>2 DEF RegisteredNames
<1>4. /\ proxySocketsMap[Name(s)] \in Sockets
      /\ Name(proxySocketsMap[Name(s)]) = Name(s)
  BY <1>3, SocketsMapType
<1> QED
  BY <1>3, <1>4 DEF EndPointsApart, Unique, Name, Sockets

\* Without libuv endpoints and with names that are not repeated, a delete that
\* was answered "ok" has left every socket of its endpoint: the violation that
\* the run delete_from_libuv shows has no other cause, however many endpoints,
\* services, documents and edits there are.
THEOREM DeletedWhereApart ==
    ASSUME EndPointsApart PROVE Spec => []DeletedNotServed
<1>1. Init => DeletedInv /\ Unique(proxyConfig)
  BY OneWriter DEF Init, DeletedInv, IsDelete, NoRequest, EndPointsApart
<1>2. Spec => []Unique(proxyConfig)
  BY <1>1, StepUnique, TypeInvariant, DraftInvariant, EditInvariant, PTL DEF Spec
<1>3. Spec => []DeletedInv
  BY <1>1, StepDeleted, TypeInvariant, DraftInvariant, EditInvariant, PTL DEF Spec
<1>4. ASSUME TypeInv, DeletedInv, Unique(proxyConfig), DeleteTakesEffect
      PROVE  DeletedNotServed
  <2> DEFINE w == Writer
             name == Edit(w).name
             service == Edit(w).service.name
  <2> SUFFICES ASSUME Quiet, reply[w] = "ok", request[w].kind = "service",
                      Edit(w).operation = "delete",
                      NEW s \in Sockets, Name(s) = name
               PROVE  \A k \in DOMAIN servers[s] :
                          servers[s][k] \in Kept(name, service)
    BY OneWriter DEF DeletedNotServed
  <2>1. Matching(proxyConfig, name) # {}
    BY <1>4, OneWriter DEF Quiet, DeletedInv, IsDelete, Edit, Gone
  <2>2. PICK i : Matching(proxyConfig, name) = {i}
    BY <1>4, <2>1 DEF Unique, Matching
  <2>3. Cardinality(Matching(proxyConfig, name)) = 1
    BY <2>2, FS_Singleton
  <2>4. name \in RegisteredNames /\ proxySocketsMap[name] = s
    BY SocketOfItsName
  <2> QED
    BY <1>4, <2>3, <2>4, OneWriter DEF DeleteTakesEffect
<1> QED
  BY <1>2, <1>3, <1>4, TypeInvariant, DeletesReachTraffic, PTL

=============================================================================

-------------------------- MODULE HotReloadProofs --------------------------
(***************************************************************************)
(* Theorems about HotReload, for any set of workers, any configuration,    *)
(* documents and edits: the types of its variables, that no connection is  *)
(* ever routed to a backend of another endpoint, and that callbacks come   *)
(* to an end: each step is one of finitely many, and is never waited for.  *)
(***************************************************************************)
EXTENDS HotReload, ProxyEndPointsProofs

(***************************************************************************)
(* TypeOK is not inductive: AddServer indexes resolved[w] by pos[w], and   *)
(* the load reads a field that only one kind of request has.  What makes   *)
(* these accesses safe is what pc[w] says about the locals of w.           *)
(***************************************************************************)
LoadsDocument(w) ==
    pc[w] \in {"load", "gateway", "looping"} =>
        request[w] \in [kind : {"configuration"}, document : Documents]

EditsService(w) ==
    /\ pc[w] \in {"parse", "get", "set"} =>
          request[w] \in [kind : {"service"}, edit : ServiceEdits]
    /\ pc[w] = "get" => ParsesAsEdit(Edit(w))

AtEndPoint(w) ==
    pc[w] \in {"remove", "add"} =>
        /\ Remaining(w)
        /\ Current(w).name \in RegisteredNames

LabelsOK == \A w \in Workers : LoadsDocument(w) /\ EditsService(w) /\ AtEndPoint(w)

TypeInv == TypeOK /\ LabelsOK

LEMMA InitTypeInv == Init => TypeInv
<1> SUFFICES ASSUME Init PROVE TypeInv
  OBVIOUS
<1>1. InitialConfig \in ProxyConfig
  BY InitialConfigAssumption
<1>2. ASSUME NEW s \in Sockets
      PROVE  Hosted(InitialConfig[s].services) \in Seq(Hosts)
  <2>1. InitialConfig[s] \in EndPoint
    BY <1>1, LenProperties, ElementOfSeq DEF Sockets, ProxyConfig
  <2> QED
    BY <2>1, HostedType DEF EndPoint
<1>3. target \in [Sockets -> Seq(Hosts)] /\ servers \in [Sockets -> Seq(Hosts)]
  BY <1>2 DEF Init
<1>4. << >> \in ProxyConfig /\ << >> \in Seq(ResolvedEndPoint)
  BY EmptySeq DEF ProxyConfig
<1>5. TypeOK
  BY <1>1, <1>3, <1>4 DEF Init, TypeOK, Labels
<1>6. LabelsOK
  BY DEF Init, LabelsOK, LoadsDocument, EditsService, AtEndPoint
<1> QED
  BY <1>5, <1>6 DEF TypeInv

\* What the local state of a worker between two callbacks looks like.
LEMMA AnswerTypeInv ==
    ASSUME TypeInv, NEW w \in Workers, NEW status \in {"ok", "error"},
           Answer(w, status), proxyConfig' \in ProxyConfig,
           UNCHANGED <<live, up>>, torn' \in BOOLEAN
    PROVE  TypeInv'
<1>1. << >> \in ProxyConfig /\ << >> \in Seq(ResolvedEndPoint)
  BY EmptySeq DEF ProxyConfig
<1>2. TypeOK'
  BY <1>1 DEF TypeInv, TypeOK, Answer, Goto, Labels, live
<1>3. LabelsOK'
  BY DEF TypeInv, TypeOK, LabelsOK, LoadsDocument, EditsService, Edit,
         AtEndPoint, Remaining, Current, Answer, Goto
<1> QED
  BY <1>2, <1>3 DEF TypeInv

LEMMA CurrentType ==
    ASSUME TypeOK, NEW w \in Workers, Remaining(w)
    PROVE  Current(w) \in ResolvedEndPoint
<1>1. resolved[w] \in Seq(ResolvedEndPoint)
  BY DEF TypeOK
<1>2. pos[w] \in 1 .. Len(resolved[w])
  BY <1>1, LenProperties DEF Remaining
<1> QED
  BY <1>1, <1>2, ElementOfSeq DEF Current

\* Who gets as far as assigning m_ProxyConfig assigns a configuration.
LEMMA WrittenType ==
    ASSUME TypeInv, NEW w \in Workers, Writes(w)
    PROVE  Written(w) \subseteq ProxyConfig
<1>1. CASE pc[w] = "set"
  BY <1>1 DEF TypeInv, TypeOK, Written
<1>2. CASE pc[w] = "load"
  <2>1. Document(w).clusters \in ClustersSection
    BY <1>2, DocumentsAssumption
       DEF TypeInv, LabelsOK, LoadsDocument, Document, XmlDocument
  <2> QED
    BY <1>2, <2>1, LoadType DEF TypeInv, TypeOK, Written
<1> QED
  BY <1>1, <1>2 DEF Writes, At

\* Whatever configuration was read, torn or not.
LEMMA EditCopyTypeInv ==
    ASSUME TypeInv, NEW w \in Workers, NEW config \in ProxyConfig,
           EditCopy(w, config), torn' \in BOOLEAN
    PROVE  TypeInv'
<1> USE DEF TypeInv
<1>1. CASE Answer(w, "error")
  BY <1>1, AnswerTypeInv DEF TypeOK, EditCopy
<1>2. CASE /\ Matching(config, Edit(w).name) # {}
           /\ \E edited \in Edited(config, Edit(w)) :
                 draft' = [draft EXCEPT ![w] = edited]
           /\ Goto(w, "set")
           /\ UNCHANGED <<request, reply, resolved, pos, added>>
  <2>1. PICK edited \in Edited(config, Edit(w)) :
            draft' = [draft EXCEPT ![w] = edited]
    BY <1>2
  <2>2. Edit(w) \in XmlEndPointService /\ ParsesAsEdit(Edit(w))
    BY ServiceEditsAssumption DEF LabelsOK, EditsService, EditCopy, At, Edit
  <2>3. edited \in ProxyConfig
    BY <1>2, <2>2, EditedType
  <2> QED
    BY <1>2, <2>1, <2>3 DEF TypeOK, LabelsOK, LoadsDocument, EditsService,
       AtEndPoint, Remaining, Current, EditCopy, At, Goto, Labels, live, Edit
<1> QED
  BY <1>1, <1>2 DEF EditCopy

LEMMA ResolveCopyTypeInv ==
    ASSUME TypeInv, NEW w \in Workers, NEW config \in ProxyConfig,
           ResolveCopy(w, config), torn' \in BOOLEAN
    PROVE  TypeInv'
<1> USE DEF TypeInv
<1>1. CASE Answer(w, "error")
  BY <1>1, AnswerTypeInv DEF TypeOK, ResolveCopy
<1>2. CASE /\ resolved' = [resolved EXCEPT ![w] = Resolve(config)]
           /\ pos' = [pos EXCEPT ![w] = 1]
           /\ Goto(w, "update")
           /\ UNCHANGED <<request, reply, draft, added>>
  <2>1. Resolve(config) \in Seq(ResolvedEndPoint)
    BY ResolveType
  <2> QED
    BY <1>2, <2>1 DEF TypeOK, LabelsOK, LoadsDocument, EditsService,
       AtEndPoint, Remaining, Current, ResolveCopy, At, Goto, Labels, live, Edit
<1> QED
  BY <1>1, <1>2 DEF ResolveCopy

LEMMA StepTypeInv == TypeInv /\ [Next]_vars => TypeInv'
<1> SUFFICES ASSUME TypeInv, [Next]_vars PROVE TypeInv'
  OBVIOUS
<1> USE DEF TypeInv
<1>0. torn' \in BOOLEAN
  BY DEF TypeOK, Next, Receive, Step, TornRead, TornWrite, Race, vars
<1> USE <1>0
<1>1. ASSUME NEW w \in Workers, Receive(w) PROVE TypeInv'
  <2>1. PICK r \in Requests : request' = [request EXCEPT ![w] = r]
              /\ Goto(w, IF r.kind = "configuration" THEN "load" ELSE "parse")
    BY <1>1 DEF Receive
  <2>2. TypeOK'
    BY <1>1, <2>1 DEF TypeOK, Receive, Goto, Labels, live, locals
  <2>3. /\ r.kind = "configuration" =>
              r \in [kind : {"configuration"}, document : Documents]
        /\ r.kind # "configuration" =>
              r \in [kind : {"service"}, edit : ServiceEdits]
    BY <2>1 DEF Requests
  <2>4. LabelsOK'
    BY <1>1, <2>1, <2>3 DEF TypeOK, LabelsOK, LoadsDocument, EditsService, Edit,
       AtEndPoint, Remaining, Current, Receive, Goto, live, locals
  <2> QED
    BY <2>2, <2>4
<1>2. ASSUME NEW w \in Workers, LoadMalformed(w) PROVE TypeInv'
  BY <1>2 DEF TypeOK, LabelsOK, LoadsDocument, EditsService, Edit, AtEndPoint,
     Remaining, Current, LoadMalformed, At, Goto, Labels, live, locals
<1>3. ASSUME NEW w \in Workers, LoadThrows(w) PROVE TypeInv'
  BY <1>3, AnswerTypeInv DEF TypeOK, LoadThrows
<1>4. ASSUME NEW w \in Workers, LoadProxySection(w) \/ LoadGatewaySection(w)
      PROVE  TypeInv'
  <2>1. proxyConfig' \in ProxyConfig
    <3>1. CASE LoadProxySection(w)
      <4>1. Document(w).clusters \in ClustersSection
        BY <3>1, DocumentsAssumption DEF LabelsOK, LoadsDocument, LoadProxySection,
           At, Document, XmlDocument
      <4> QED
        BY <3>1, <4>1, LoadType DEF TypeOK, LoadProxySection
    <3>2. CASE LoadGatewaySection(w)
      BY <3>2 DEF TypeOK, LoadGatewaySection
    <3> QED
      BY <1>4, <3>1, <3>2
  <2>2. UNCHANGED live /\ pc[w] \in {"load", "gateway"}
    BY <1>4 DEF LoadProxySection, LoadGatewaySection, At
  <2>3. CASE Answer(w, "error") /\ UNCHANGED up
    BY <2>1, <2>2, <2>3, AnswerTypeInv
  <2>4. CASE /\ Goto(w, "gateway") \/ Goto(w, "resolve") \/ Goto(w, "looping")
             /\ UNCHANGED <<up, request, reply, locals>>
    <3>1. TypeOK'
      BY <2>1, <2>2, <2>4 DEF TypeOK, Goto, Labels, live, locals
    <3>2. LabelsOK'
      BY <2>2, <2>4, ZenonT(30) DEF TypeOK, LabelsOK, LoadsDocument, EditsService, Edit,
         AtEndPoint, Remaining, Current, Goto, locals
    <3> QED
      BY <3>1, <3>2
  <2>5. CASE up' = FALSE /\ UNCHANGED <<pc, request, reply, locals>>
    BY <2>1, <2>2, <2>5 DEF TypeOK, LabelsOK, LoadsDocument, EditsService, Edit,
       AtEndPoint, Remaining, Current, live, locals
  <2> QED
    BY <1>4, <2>3, <2>4, <2>5 DEF LoadProxySection, LoadGatewaySection
<1>5. ASSUME NEW w \in Workers, LoadEndpointServiceFromString(w) PROVE TypeInv'
  <2>1. CASE Answer(w, "error")
    BY <1>5, <2>1, AnswerTypeInv DEF TypeOK, LoadEndpointServiceFromString
  <2>2. CASE /\ ParsesAsEdit(Edit(w))
             /\ Goto(w, "get")
             /\ UNCHANGED <<request, reply, locals>>
    BY <1>5, <2>2 DEF TypeOK, LabelsOK, LoadsDocument, EditsService, Edit, AtEndPoint,
       Remaining, Current, LoadEndpointServiceFromString, At, Goto, Labels,
       live, locals
  <2> QED
    BY <1>5, <2>1, <2>2 DEF LoadEndpointServiceFromString
<1>6. ASSUME NEW w \in Workers, GetProxyConfig(w) PROVE TypeInv'
  BY <1>6, EditCopyTypeInv DEF TypeOK, GetProxyConfig
<1>7. ASSUME NEW w \in Workers, SetProxyConfig(w) PROVE TypeInv'
  BY <1>7 DEF TypeOK, LabelsOK, LoadsDocument, EditsService, Edit, AtEndPoint,
     Remaining, Current, SetProxyConfig, At, Goto, Labels, live, locals
<1>8. ASSUME NEW w \in Workers, ResolveProxyServerConfigurations(w) PROVE TypeInv'
  BY <1>8, ResolveCopyTypeInv DEF TypeOK, ResolveProxyServerConfigurations
<1>9. ASSUME NEW w \in Workers, SkipEndPoint(w) PROVE TypeInv'
  BY <1>9, SMTT(30) DEF TypeOK, LabelsOK, LoadsDocument, EditsService, Edit, AtEndPoint,
     Remaining, Current, SkipEndPoint, At, live
<1>10. ASSUME NEW w \in Workers, SetConfigValues(w) PROVE TypeInv'
  <2>1. Current(w).services \in Seq(Hosts)
    BY <1>10, CurrentType DEF SetConfigValues, ResolvedEndPoint
  <2>2. target' \in [Sockets -> Seq(Hosts)]
    BY <1>10, <2>1 DEF TypeOK, SetConfigValues
  <2>3. servers' \in [Sockets -> Seq(Hosts)]
    <3> DEFINE s == proxySocketsMap[Current(w).name]
    <3>1. s \in Sockets
      BY <1>10, SocketsMapType DEF SetConfigValues
    <3>2. servers \in [Sockets -> Seq(Hosts)]
      BY DEF TypeOK
    <3>3. servers[s] \o Current(w).services \in Seq(Hosts)
      BY <2>1, <3>1, <3>2, ConcatProperties, SMTT(30)
    <3>4. \/ servers' = servers
          \/ servers' = [servers EXCEPT ![s] = servers[s] \o Current(w).services]
      BY <1>10 DEF SetConfigValues
    <3> QED
      BY <3>2, <3>3, <3>4
  <2> QED
    BY <1>10, <2>2, <2>3, ZenonT(30) DEF TypeOK, LabelsOK, LoadsDocument, EditsService, Edit,
       AtEndPoint, Remaining, Current, SetConfigValues, At, Goto, Labels, locals
<1>11. ASSUME NEW w \in Workers, RemoveAllServers(w) PROVE TypeInv'
  <2>1. servers' \in [Sockets -> Seq(Hosts)]
    BY <1>11, EmptySeq DEF TypeOK, RemoveAllServers
  <2> QED
    BY <1>11, <2>1 DEF TypeOK, LabelsOK, LoadsDocument, EditsService, Edit,
       AtEndPoint, Remaining, Current, RemoveAllServers, At, Goto, Labels
<1>12. ASSUME NEW w \in Workers, AddServer(w) PROVE TypeInv'
  <2>1. Current(w).services \in Seq(Hosts)
    BY <1>12, CurrentType DEF LabelsOK, AtEndPoint, AddServer, At, ResolvedEndPoint
  <2>2. Current(w).services[added[w] + 1] \in Hosts
    BY <1>12, <2>1, ElementOfSeq, LenProperties DEF TypeOK, AddServer
  <2>3. servers' \in [Sockets -> Seq(Hosts)]
    BY <1>12, <2>2, AppendProperties DEF TypeOK, AddServer
  <2> QED
    BY <1>12, <2>3 DEF TypeOK, LabelsOK, LoadsDocument, EditsService, Edit,
       AtEndPoint, Remaining, Current, AddServer
<1>13. ASSUME NEW w \in Workers, NextEndPoint(w) PROVE TypeInv'
  BY <1>13 DEF TypeOK, LabelsOK, LoadsDocument, EditsService, Edit, AtEndPoint,
     Remaining, Current, NextEndPoint, At, Goto, Labels, live
<1>14. ASSUME NEW w \in Workers, AllUpdated(w) PROVE TypeInv'
  BY <1>14, AnswerTypeInv DEF TypeOK, AllUpdated
<1>15. ASSUME Race PROVE TypeInv'
  BY <1>15 DEF TypeOK, LabelsOK, LoadsDocument, EditsService, Edit, AtEndPoint,
     Remaining, Current, Race, live, locals
<1>16. ASSUME UNCHANGED vars PROVE TypeInv'
  BY <1>16 DEF TypeOK, LabelsOK, LoadsDocument, EditsService, Edit, AtEndPoint,
     Remaining, Current, vars
<1>17. ASSUME NEW v \in Workers, NEW w \in Workers, TornRead(v, w) PROVE TypeInv'
  <2>0. PICK new \in Written(v) : \E config \in Mixtures(proxyConfig, new) :
            EditCopy(w, config) \/ ResolveCopy(w, config)
    BY <1>17 DEF TornRead
  <2>1. PICK config \in Mixtures(proxyConfig, new) :
            EditCopy(w, config) \/ ResolveCopy(w, config)
    BY <2>0
  <2>2. new \in ProxyConfig
    BY <1>17, WrittenType DEF TornRead, Racing
  <2>3. config \in ProxyConfig
    BY <2>2, MixturesType DEF TypeOK
  <2> QED
    BY <2>1, <2>3, EditCopyTypeInv, ResolveCopyTypeInv
<1>18. ASSUME NEW v \in Workers, NEW w \in Workers, TornWrite(v, w) PROVE TypeInv'
  <2>1. Written(v) \subseteq ProxyConfig /\ Written(w) \subseteq ProxyConfig
    BY <1>18, WrittenType DEF TornWrite, Racing
  <2>2. proxyConfig' \in ProxyConfig
    BY <1>18, <2>1, MixturesType DEF TornWrite
  <2>3. ASSUME NEW x \in {v, w}
        PROVE  \/ AfterWrite(x) = "resolve"
               \/ AfterWrite(x) = "gateway" /\ pc[x] = "load"
    BY <1>18 DEF TornWrite, Racing, Writes, AfterWrite, At
  <2>4. /\ \A x \in Workers \ {v, w} : pc'[x] = pc[x]
        /\ \A x \in {v, w} : pc'[x] = AfterWrite(x)
        /\ pc' \in [Workers -> Labels]
    BY <1>18, <2>3 DEF TypeOK, TornWrite, Labels
  <2>5. UNCHANGED <<live, up, request, reply, locals>>
    BY <1>18 DEF TornWrite
  <2>6. TypeOK'
    BY <2>2, <2>4, <2>5 DEF TypeOK, live, locals
  <2>7. LabelsOK'
    <3> SUFFICES ASSUME NEW x \in Workers
                 PROVE  (LoadsDocument(x) /\ EditsService(x) /\ AtEndPoint(x))'
      BY DEF LabelsOK
    <3>1. LoadsDocument(x) /\ EditsService(x) /\ AtEndPoint(x)
      BY DEF LabelsOK
    <3>2. CASE x \in {v, w}
      BY <2>3, <2>4, <2>5, <3>1, <3>2
         DEF LoadsDocument, EditsService, AtEndPoint
    <3>3. CASE x \notin {v, w}
      BY <2>4, <2>5, <3>1, <3>3 DEF LoadsDocument, EditsService, Edit, AtEndPoint,
         Remaining, Current, locals
    <3> QED
      BY <3>2, <3>3
  <2> QED
    BY <2>6, <2>7
<1> QED
  BY <1>1, <1>2, <1>3, <1>4, <1>5, <1>6, <1>7, <1>8, <1>9, <1>10, <1>11, <1>12,
     <1>13, <1>14, <1>15, <1>16, <1>17, <1>18 DEF Next, Step, Act

LEMMA TypeInvariant == Spec => []TypeInv
BY InitTypeInv, StepTypeInv, PTL DEF Spec

\* In every state of the hot reload, whatever is posted and however callbacks
\* interleave, the variables keep their types: no step reads a position of a
\* configuration, or a part of a request, that is not there.
THEOREM TypeCorrect == Spec => []TypeOK
<1>1. TypeInv => TypeOK
  BY DEF TypeInv
<1> QED
  BY <1>1, TypeInvariant, PTL

-----------------------------------------------------------------------------
(***************************************************************************)
(* No cross-talk.  NoCrossTalk speaks of the lists only; a step that adds  *)
(* to a list keeps it because every host in m_ProxyConfig, in the drafts   *)
(* and in the results of the resolution is found under the name of an      *)
(* endpoint it was given to, and proxySocketsMap goes by that name.  All   *)
(* this is so until an access tears m_ProxyConfig: a mixture may have the  *)
(* name of one endpoint and the services of another.                       *)
(***************************************************************************)
NamedConfig(config) ==
    \A i \in DOMAIN config : \A j \in DOMAIN config[i].services :
        config[i].services[j].host \in NamedHosts(config[i].endPointName)

NamedResult(result) ==
    \A i \in DOMAIN result : \A k \in DOMAIN result[i].services :
        result[i].services[k] \in NamedHosts(result[i].name)

LocalsNamed(w) == NamedConfig(draft[w]) /\ NamedResult(resolved[w])

RoutesNamed ==
    \A s \in Sockets : \A k \in DOMAIN servers[s] :
        servers[s][k] \in NamedHosts(Name(s))

NamedInv ==
    /\ NamedConfig(proxyConfig)
    /\ \A w \in Workers : LocalsNamed(w)
    /\ RoutesNamed

UntornInv == ~torn => NamedInv

\* The three ways in which a host is given to an endpoint.
LEMMA NamedInitially ==
    ASSUME NEW i \in DOMAIN InitialConfig,
           NEW j \in DOMAIN InitialConfig[i].services
    PROVE  InitialConfig[i].services[j].host
               \in NamedHosts(InitialConfig[i].endPointName)
<1> DEFINE name == InitialConfig[i].endPointName
           hosts(k) == {InitialConfig[k].services[l].host :
                           l \in DOMAIN InitialConfig[k].services}
<1>1. i \in Matching(InitialConfig, name)
  BY DEF Matching
<1>2. InitialConfig[i].services[j].host \in hosts(i)
  OBVIOUS
<1>3. hosts(i) \in {hosts(k) : k \in Matching(InitialConfig, name)}
  BY <1>1
<1> QED
  BY <1>2, <1>3, ZenonT(30) DEF NamedHosts

LEMMA NamedByEdit ==
    ASSUME NEW e \in ServiceEdits, NEW host \in ReadHost(e.service)
    PROVE  host \in NamedHosts(e.name)
<1>1. ReadHost(e.service)
          \in {ReadHost(x.service) : x \in {y \in ServiceEdits : y.name = e.name}}
  OBVIOUS
<1> QED
  BY <1>1, ZenonT(30) DEF NamedHosts

LEMMA NamedByDocument ==
    ASSUME NEW d \in Documents, NEW i \in DOMAIN d.clusters.endPoints,
           NEW j \in DOMAIN d.clusters.endPoints[i].services,
           NEW host \in ReadHost(d.clusters.endPoints[i].services[j])
    PROVE  host \in NamedHosts(d.clusters.endPoints[i].name)
<1> DEFINE xml == d.clusters.endPoints[i]
           xmls(c) == {c.clusters.endPoints[l] :
                          l \in {k \in DOMAIN c.clusters.endPoints :
                                    c.clusters.endPoints[k].name = xml.name}}
           read(x) == {ReadHost(x.services[k]) : k \in DOMAIN x.services}
           given == ReadHost(xml.services[j])
<1>1. given \in read(xml)
  OBVIOUS
<1>2. xml \in xmls(d)
  OBVIOUS
<1>3. given \in UNION {read(x) : x \in xmls(d)}
  <2> HIDE DEF given, read, xmls, xml
  <2> QED
    BY <1>1, <1>2
<1>4. given \in UNION {UNION {read(x) : x \in xmls(c)} : c \in Documents}
  <2> HIDE DEF given, read, xmls, xml
  <2> QED
    BY <1>3
<1> QED
  BY <1>4, ZenonT(30) DEF NamedHosts

LEMMA LoadNamed ==
    ASSUME NEW d \in Documents, NEW old \in ProxyConfig, NamedConfig(old),
           NEW config \in LoadProxyServerConfigurations(d.clusters, old)
    PROVE  NamedConfig(config)
<1> DEFINE xmls == d.clusters.endPoints
<1>1. d.clusters \in ClustersSection /\ xmls \in Seq(XmlEndPoint)
  BY DocumentsAssumption DEF XmlDocument, ClustersSection
<1>2. CASE ~d.clusters.present
  BY <1>2 DEF LoadProxyServerConfigurations, NamedConfig
<1>3. CASE d.clusters.present /\ Rejected(d.clusters)
  BY <1>3 DEF LoadProxyServerConfigurations
<1>4. CASE d.clusters.present /\ ~Rejected(d.clusters)
  <2>1. /\ DOMAIN config = DOMAIN xmls
        /\ \A i \in DOMAIN xmls : config[i] \in ReadEndPoint(xmls[i])
    BY <1>1, <1>4, AcceptedSection
  <2>2. ASSUME NEW i \in DOMAIN config, NEW j \in DOMAIN config[i].services
        PROVE  config[i].services[j].host \in NamedHosts(config[i].endPointName)
    <3>1. i \in DOMAIN xmls /\ config[i] \in ReadEndPoint(xmls[i])
      BY <2>1
    <3>2. /\ config[i].endPointName = xmls[i].name
          /\ config[i].services \in ReadServices(xmls[i].services)
      BY <3>1 DEF ReadEndPoint
    <3>3. xmls[i].services \in Seq(XmlService)
          /\ \A k \in DOMAIN xmls[i].services : PortParses(xmls[i].services[k])
      <4>1. xmls[i] \in XmlEndPoint
        BY <1>1, <3>1, ElementOfSeq, LenProperties
      <4>2. Accepted(xmls[i])
        BY <1>4, <3>1 DEF Rejected
      <4> QED
        BY <4>1, <4>2 DEF XmlEndPoint, Accepted
    <3>4. /\ j \in DOMAIN xmls[i].services
          /\ config[i].services[j] \in ReadService(xmls[i].services[j])
      BY <3>2, <3>3, ReadServicesType
    <3>5. config[i].services[j].host \in ReadHost(xmls[i].services[j])
      BY <3>4 DEF ReadService
    <3> QED
      BY <3>1, <3>2, <3>4, <3>5, NamedByDocument
  <2> QED
    BY <2>2 DEF NamedConfig
<1> QED
  BY <1>2, <1>3, <1>4

LEMMA EditNamed ==
    ASSUME NEW e \in ServiceEdits, NEW config \in ProxyConfig,
           ParsesAsEdit(e), NamedConfig(config), Matching(config, e.name) # {},
           NEW result \in Edited(config, e)
    PROVE  NamedConfig(result)
<1> DEFINE first == First(config, e.name)
<1>1. first \in DOMAIN config /\ config[first].endPointName = e.name
  BY FirstMatches
<1>2. config[first] \in EndPoint
  BY <1>1, ElementOfSeq, LenProperties DEF ProxyConfig
<1>3. e \in XmlEndPointService /\ e.service \in XmlService
  BY ServiceEditsAssumption DEF XmlEndPointService
<1>4. PICK services \in EditedServices(config[first].services, e) :
          result = [config EXCEPT ![first].services = services]
  BY DEF Edited
<1>5. \A service \in ReadService(e.service) : service.host \in NamedHosts(e.name)
  BY NamedByEdit DEF ReadService
<1>6. ASSUME NEW j \in DOMAIN services
      PROVE  services[j].host \in NamedHosts(e.name)
  <2>1. \/ \E i \in DOMAIN config[first].services :
               services[j] = config[first].services[i]
        \/ services[j] \in ReadService(e.service)
    BY <1>2, <1>3, EditedServicesType DEF EndPoint
  <2> QED
    BY <1>1, <1>5, <2>1 DEF NamedConfig
<1> HIDE DEF first
<1>7. /\ DOMAIN result = DOMAIN config
      /\ result[first].services = services
      /\ result[first].endPointName = e.name
      /\ \A i \in DOMAIN config \ {first} : result[i] = config[i]
  BY <1>1, <1>2, <1>4 DEF EndPoint
<1> QED
  BY <1>6, <1>7 DEF NamedConfig

LEMMA ResolveNamed ==
    ASSUME NEW config \in ProxyConfig, NamedConfig(config)
    PROVE  NamedResult(Resolve(config))
BY DEF NamedConfig, NamedResult, Resolve, Hosted

LEMMA InitNamed == Init => NamedInv
<1> SUFFICES ASSUME Init PROVE NamedInv
  OBVIOUS
<1>1. ASSUME NEW i \in DOMAIN InitialConfig,
             NEW j \in DOMAIN InitialConfig[i].services
      PROVE  InitialConfig[i].services[j].host
                 \in NamedHosts(InitialConfig[i].endPointName)
  BY NamedInitially
<1>2. NamedConfig(proxyConfig)
  BY <1>1 DEF Init, NamedConfig
<1>3. \A w \in Workers : LocalsNamed(w)
  BY DEF Init, LocalsNamed, NamedConfig, NamedResult
<1>4. RoutesNamed
  BY <1>1 DEF Init, RoutesNamed, Sockets, Name, Hosted
<1> QED
  BY <1>2, <1>3, <1>4 DEF NamedInv

\* A callback that returns leaves no name behind in its locals.
LEMMA AnswerNamed ==
    ASSUME TypeInv, NamedInv, NEW w \in Workers, NEW status,
           Answer(w, status), NamedConfig(proxyConfig'), UNCHANGED live
    PROVE  NamedInv'
<1>1. ASSUME NEW v \in Workers PROVE LocalsNamed(v)'
  <2>1. CASE v = w
    <3>1. draft'[v] = << >> /\ resolved'[v] = << >>
      BY <2>1 DEF TypeInv, TypeOK, Answer
    <3> QED
      BY <3>1 DEF LocalsNamed, NamedConfig, NamedResult
  <2>2. CASE v # w
    BY <2>2 DEF TypeInv, TypeOK, NamedInv, LocalsNamed, Answer
  <2> QED
    BY <2>1, <2>2
<1> QED
  BY <1>1 DEF NamedInv, RoutesNamed, live

LEMMA StepNamed == TypeInv /\ UntornInv /\ [Next]_vars => UntornInv'
<1> SUFFICES ASSUME TypeInv, UntornInv, [Next]_vars, ~torn'
             PROVE  NamedInv'
  BY DEF UntornInv
<1>0. /\ NamedInv
      /\ \/ \E w \in Workers : Receive(w) \/ Act(w)
         \/ Race
         \/ UNCHANGED vars
  <2>1. torn \in BOOLEAN
    BY DEF TypeInv, TypeOK
  <2> QED
    BY <2>1 DEF UntornInv, Next, Receive, Step, TornRead, TornWrite, Race, vars
<1> USE <1>0
<1>1. ASSUME UNCHANGED <<proxyConfig, draft, resolved, servers>> PROVE NamedInv'
  BY <1>1 DEF NamedInv, LocalsNamed, RoutesNamed
<1>2. ASSUME NEW w \in Workers, Receive(w) PROVE NamedInv'
  BY <1>1, <1>2 DEF Receive, live, locals
<1>3. ASSUME NEW w \in Workers, LoadMalformed(w) PROVE NamedInv'
  BY <1>1, <1>3 DEF LoadMalformed, live, locals
<1>4. ASSUME NEW w \in Workers, LoadThrows(w) PROVE NamedInv'
  BY <1>4, AnswerNamed DEF LoadThrows, NamedInv
<1>5. ASSUME NEW w \in Workers, LoadProxySection(w) PROVE NamedInv'
  <2>1. request[w].document \in Documents
    BY <1>5 DEF TypeInv, LabelsOK, LoadsDocument, LoadProxySection, At
  <2>2. NamedConfig(proxyConfig')
    BY <1>5, <2>1, LoadNamed
       DEF TypeInv, TypeOK, NamedInv, LoadProxySection, Document
  <2> QED
    BY <1>5, <2>2
       DEF NamedInv, LocalsNamed, RoutesNamed, LoadProxySection, live, locals
<1>20. ASSUME NEW w \in Workers, LoadGatewaySection(w) PROVE NamedInv'
  <2>1. CASE Answer(w, "error")
    BY <1>20, <2>1, AnswerNamed DEF LoadGatewaySection, NamedInv
  <2>2. CASE UNCHANGED locals
    BY <1>1, <1>20, <2>2 DEF LoadGatewaySection, live, locals
  <2> QED
    BY <1>20, <2>1, <2>2 DEF LoadGatewaySection, locals
<1>6. ASSUME NEW w \in Workers, LoadEndpointServiceFromString(w) PROVE NamedInv'
  <2>1. CASE Answer(w, "error")
    BY <1>6, <2>1, AnswerNamed DEF LoadEndpointServiceFromString, NamedInv
  <2>2. CASE UNCHANGED locals
    BY <1>1, <1>6, <2>2 DEF LoadEndpointServiceFromString, live, locals
  <2> QED
    BY <1>6, <2>1, <2>2 DEF LoadEndpointServiceFromString, locals
<1>7. ASSUME NEW w \in Workers, GetProxyConfig(w) PROVE NamedInv'
  <2>1. CASE Answer(w, "error")
    BY <1>7, <2>1, AnswerNamed DEF GetProxyConfig, EditCopy, NamedInv
  <2>2. ASSUME Matching(proxyConfig, Edit(w).name) # {},
               NEW config \in Edited(proxyConfig, Edit(w)),
               draft' = [draft EXCEPT ![w] = config],
               UNCHANGED resolved
        PROVE  NamedInv'
    <3>1. Edit(w) \in ServiceEdits /\ ParsesAsEdit(Edit(w))
      BY <1>7 DEF TypeInv, LabelsOK, EditsService, GetProxyConfig, EditCopy, At, Edit
    <3>2. NamedConfig(config)
      BY <2>2, <3>1, EditNamed DEF TypeInv, TypeOK, NamedInv
    <3>3. \A v \in Workers : LocalsNamed(v)'
      BY <2>2, <3>2 DEF TypeInv, TypeOK, NamedInv, LocalsNamed
    <3> QED
      BY <1>7, <3>3 DEF NamedInv, RoutesNamed, GetProxyConfig, EditCopy, live
  <2> QED
    BY <1>7, <2>1, <2>2 DEF GetProxyConfig, EditCopy
<1>8. ASSUME NEW w \in Workers, SetProxyConfig(w) PROVE NamedInv'
  <2>1. NamedConfig(proxyConfig')
    BY <1>8 DEF NamedInv, LocalsNamed, SetProxyConfig
  <2> QED
    BY <1>8, <2>1
       DEF NamedInv, LocalsNamed, RoutesNamed, SetProxyConfig, live, locals
<1>9. ASSUME NEW w \in Workers, ResolveProxyServerConfigurations(w) PROVE NamedInv'
  <2>1. CASE Answer(w, "error")
    BY <1>9, <2>1, AnswerNamed
       DEF ResolveProxyServerConfigurations, ResolveCopy, NamedInv
  <2>2. CASE /\ resolved' = [resolved EXCEPT ![w] = Resolve(proxyConfig)]
             /\ UNCHANGED draft
    <3>1. NamedResult(Resolve(proxyConfig))
      BY ResolveNamed DEF TypeInv, TypeOK, NamedInv
    <3>2. \A v \in Workers : LocalsNamed(v)'
      BY <2>2, <3>1 DEF TypeInv, TypeOK, NamedInv, LocalsNamed
    <3> QED
      BY <1>9, <3>2
         DEF NamedInv, RoutesNamed, ResolveProxyServerConfigurations, ResolveCopy, live
  <2> QED
    BY <1>9, <2>1, <2>2 DEF ResolveProxyServerConfigurations, ResolveCopy
<1>10. ASSUME NEW w \in Workers, SkipEndPoint(w) PROVE NamedInv'
  BY <1>1, <1>10 DEF SkipEndPoint, live

\* What the loops over the endpoints give to a socket.
<1>11. ASSUME NEW w \in Workers, Remaining(w), Current(w).name \in RegisteredNames
       PROVE  /\ Socket(w) \in Sockets
              /\ Current(w).services \in Seq(Hosts)
              /\ \A k \in 1 .. Len(Current(w).services) :
                    Current(w).services[k] \in NamedHosts(Name(Socket(w)))
  <2>1. Socket(w) \in Sockets /\ Name(Socket(w)) = Current(w).name
    BY <1>11, SocketsMapType DEF Socket
  <2>2. Current(w).services \in Seq(Hosts)
    BY <1>11, CurrentType DEF TypeInv, ResolvedEndPoint
  <2>3. DOMAIN Current(w).services = 1 .. Len(Current(w).services)
    BY <2>2, LenProperties
  <2>4. \A k \in DOMAIN Current(w).services :
            Current(w).services[k] \in NamedHosts(Current(w).name)
    BY <1>11 DEF NamedInv, LocalsNamed, NamedResult, Remaining, Current
  <2> QED
    BY <2>1, <2>2, <2>3, <2>4
<1>12. ASSUME NEW s \in Sockets, NEW list \in Seq(Hosts),
              servers' = [servers EXCEPT ![s] = list],
              \A k \in 1 .. Len(list) : list[k] \in NamedHosts(Name(s)),
              UNCHANGED <<proxyConfig, draft, resolved>>
       PROVE  NamedInv'
  <2>1. DOMAIN list = 1 .. Len(list)
    BY LenProperties
  <2>2. RoutesNamed'
    BY <1>12, <2>1 DEF TypeInv, TypeOK, NamedInv, RoutesNamed
  <2> QED
    BY <1>12, <2>2 DEF NamedInv, LocalsNamed
<1>13. ASSUME NEW s \in Sockets
       PROVE  /\ servers[s] \in Seq(Hosts)
              /\ Len(servers[s]) \in Nat
              /\ \A k \in 1 .. Len(servers[s]) : servers[s][k] \in NamedHosts(Name(s))
  BY LenProperties DEF TypeInv, TypeOK, NamedInv, RoutesNamed
<1>14. ASSUME NEW w \in Workers, SetConfigValues(w) PROVE NamedInv'
  <2> DEFINE s == Socket(w)
             list == servers[s] \o Current(w).services
  <2>1. /\ s \in Sockets
        /\ Current(w).services \in Seq(Hosts)
        /\ \A k \in 1 .. Len(Current(w).services) :
              Current(w).services[k] \in NamedHosts(Name(s))
    BY <1>11, <1>14 DEF SetConfigValues
  <2>2. UNCHANGED <<proxyConfig, draft, resolved>>
    BY <1>14, SMTT(30) DEF SetConfigValues, locals
  <2>3. servers' = servers \/ servers' = [servers EXCEPT ![s] = list]
    BY <1>14 DEF SetConfigValues, Socket
  <2>4. list \in Seq(Hosts)
    BY <1>13, <2>1, ConcatProperties
  <2>5. ASSUME NEW k \in 1 .. Len(list) PROVE list[k] \in NamedHosts(Name(s))
    <3>1. /\ Len(list) = Len(servers[s]) + Len(Current(w).services)
          /\ list[k] = IF k <= Len(servers[s]) THEN servers[s][k]
                       ELSE Current(w).services[k - Len(servers[s])]
      BY <1>13, <2>1, ConcatProperties
    <3>2. Len(Current(w).services) \in Nat
      BY <2>1, LenProperties
    <3>3. Len(servers[s]) \in Nat
      BY <1>13, <2>1
    <3> HIDE DEF list, s
    <3>4. CASE k <= Len(servers[s])
      <4>1. k \in 1 .. Len(servers[s])
        BY <3>3, <3>4
      <4> QED
        BY <1>13, <2>1, <3>1, <3>4, <4>1
    <3>5. CASE ~(k <= Len(servers[s]))
      <4> DEFINE m == Len(servers[s])
                 n == Len(Current(w).services)
      <4>1. m \in Nat /\ n \in Nat /\ k \in 1 .. (m + n) /\ ~(k <= m)
        BY <3>1, <3>2, <3>3, <3>5
      <4>2. k - m \in 1 .. n
        <5> HIDE DEF m, n
        <5> QED
          BY <4>1
      <4> QED
        BY <2>1, <3>1, <3>5, <4>2
    <3> QED
      BY <3>4, <3>5
  <2> HIDE DEF list, s
  <2> QED
    BY <1>1, <1>12, <2>1, <2>2, <2>3, <2>4, <2>5
<1>15. ASSUME NEW w \in Workers, RemoveAllServers(w) PROVE NamedInv'
  <2>1. Socket(w) \in Sockets
    BY <1>11, <1>15 DEF TypeInv, LabelsOK, AtEndPoint, RemoveAllServers, At
  <2>2. << >> \in Seq(Hosts) /\ Len(<< >>) = 0
    BY EmptySeq
  <2>3. servers' = [servers EXCEPT ![Socket(w)] = << >>]
        /\ UNCHANGED <<proxyConfig, draft, resolved>>
    BY <1>15 DEF RemoveAllServers
  <2>4. \A k \in 1 .. Len(<< >>) : << >>[k] \in NamedHosts(Name(Socket(w)))
    BY <2>2
  <2> QED
    BY <1>12, <2>1, <2>2, <2>3, <2>4
<1>16. ASSUME NEW w \in Workers, AddServer(w) PROVE NamedInv'
  <2> DEFINE s == Socket(w)
             host == Current(w).services[added[w] + 1]
             list == Append(servers[s], host)
  <2>1. /\ s \in Sockets
        /\ Current(w).services \in Seq(Hosts)
        /\ \A k \in 1 .. Len(Current(w).services) :
              Current(w).services[k] \in NamedHosts(Name(s))
    BY <1>11, <1>16 DEF TypeInv, LabelsOK, AtEndPoint, AddServer, At
  <2>2. added[w] + 1 \in 1 .. Len(Current(w).services)
    BY <1>16, <2>1, LenProperties DEF TypeInv, TypeOK, AddServer
  <2>3. host \in Hosts /\ host \in NamedHosts(Name(s))
    BY <2>1, <2>2, ElementOfSeq
  <2>4. servers' = [servers EXCEPT ![s] = list]
        /\ UNCHANGED <<proxyConfig, draft, resolved>>
    BY <1>16 DEF AddServer
  <2> HIDE DEF s, host
  <2>5. /\ list \in Seq(Hosts)
        /\ Len(list) = Len(servers[s]) + 1
        /\ list[Len(servers[s]) + 1] = host
        /\ \A k \in 1 .. Len(servers[s]) : list[k] = servers[s][k]
    BY <1>13, <2>1, <2>3, AppendProperties
  <2>6. \A k \in 1 .. Len(list) : list[k] \in NamedHosts(Name(s))
    BY <1>13, <2>1, <2>3, <2>5
  <2> HIDE DEF list
  <2> QED
    BY <1>12, <2>1, <2>4, <2>5, <2>6
<1>17. ASSUME NEW w \in Workers, NextEndPoint(w) PROVE NamedInv'
  BY <1>1, <1>17 DEF NextEndPoint, live
<1>18. ASSUME NEW w \in Workers, AllUpdated(w) PROVE NamedInv'
  BY <1>18, AnswerNamed DEF AllUpdated, NamedInv
<1>19. ASSUME Race \/ UNCHANGED vars PROVE NamedInv'
  BY <1>1, <1>19 DEF Race, vars, live, locals
<1> QED
  BY <1>2, <1>3, <1>4, <1>5, <1>6, <1>7, <1>8, <1>9, <1>10, <1>14, <1>15, <1>16,
     <1>17, <1>18, <1>19, <1>20 DEF Act

\* Any number of callbacks may run updateProxyServers at once and interleave
\* their loops over the shared sockets: a connection to one endpoint is never
\* routed to a backend that only other endpoints were ever given, unless the
\* unlocked accesses to m_ProxyConfig have torn a configuration.
THEOREM CrossTalkFree == Spec => []NoCrossTalk
<1>1. Init => UntornInv
  BY InitNamed DEF UntornInv
<1>2. Spec => []UntornInv
  BY <1>1, StepNamed, TypeInvariant, PTL DEF Spec
<1>3. UntornInv => NoCrossTalk
  BY DEF UntornInv, NamedInv, RoutesNamed, NoCrossTalk
<1> QED
  BY <1>2, <1>3, PTL

-----------------------------------------------------------------------------
(***************************************************************************)
(* That a callback ends, as far as it can be said without fairness: every  *)
(* step of it lowers its rank, and before its end it always has a step.    *)
(* The rank is one because no loop index runs past its sequence.           *)
(***************************************************************************)
LoopOK(w) ==
    /\ pos[w] <= Len(resolved[w]) + 1
    /\ pc[w] = "add" => added[w] <= Len(Current(w).services)

LoopInv == \A w \in Workers : LoopOK(w)

LEMMA InitLoop == Init => LoopInv
BY DEF Init, LoopInv, LoopOK

LEMMA RankType == \A w \in Workers : TypeInv /\ LoopOK(w) => Rank(w) \in Ranks
<1> SUFFICES ASSUME NEW w \in Workers, TypeInv, LoopOK(w)
             PROVE  Rank(w) \in Ranks
  OBVIOUS
<1>1. /\ pc[w] \in Labels
      /\ pos[w] \in Nat /\ added[w] \in Nat
      /\ resolved[w] \in Seq(ResolvedEndPoint)
  BY DEF TypeInv, TypeOK
<1>2. Len(resolved[w]) + 1 - pos[w] \in Nat
  BY <1>1, LenProperties DEF LoopOK
<1>3. ServicesLeft(w) \in Nat
  <2>1. CASE pc[w] = "add"
    <3>1. Current(w).services \in Seq(Hosts)
      BY <2>1, CurrentType DEF TypeInv, LabelsOK, AtEndPoint, ResolvedEndPoint
    <3> QED
      BY <1>1, <2>1, <3>1, LenProperties DEF ServicesLeft, LoopOK
  <2> QED
    BY <2>1 DEF ServicesLeft
<1>4. Stages[pc[w]] \in Nat /\ Calls(pc[w]) \in Nat
  BY <1>1 DEF Labels, Stages, Calls
<1> QED
  BY <1>2, <1>3, <1>4 DEF Rank, Ranks

LEMMA NextRankType ==
    (\A w \in Workers : TypeInv /\ LoopOK(w) => Rank(w) \in Ranks)'
BY RankType, PTL

\* In the order of a dictionary the first difference decides.
LEMMA FirstDifference ==
    ASSUME NEW a \in Ranks, NEW b \in Ranks,
           \/ a[1] < b[1]
           \/ a[1] = b[1] /\ a[2] < b[2]
           \/ a[1] = b[1] /\ a[2] = b[2] /\ a[3] < b[3]
           \/ a[1] = b[1] /\ a[2] = b[2] /\ a[3] = b[3] /\ a[4] < b[4]
    PROVE  Lower(a, b)
<1>1. DOMAIN b = 1 .. 4
  BY DEF Ranks
<1>2. CASE a[1] < b[1]
  <2>1. \A l \in 1 .. 1 - 1 : a[l] = b[l]
    OBVIOUS
  <2> QED
    BY <1>1, <1>2, <2>1 DEF Lower
<1>3. CASE a[1] = b[1] /\ a[2] < b[2]
  <2>1. \A l \in 1 .. 2 - 1 : a[l] = b[l]
    BY <1>3
  <2> QED
    BY <1>1, <1>3, <2>1 DEF Lower
<1>4. CASE a[1] = b[1] /\ a[2] = b[2] /\ a[3] < b[3]
  <2>1. \A l \in 1 .. 3 - 1 : a[l] = b[l]
    BY <1>4
  <2> QED
    BY <1>1, <1>4, <2>1 DEF Lower
<1>5. CASE a[1] = b[1] /\ a[2] = b[2] /\ a[3] = b[3] /\ a[4] < b[4]
  <2>1. \A l \in 1 .. 4 - 1 : a[l] = b[l]
    BY <1>5
  <2> QED
    BY <1>1, <1>5, <2>1 DEF Lower
<1> QED
  BY <1>2, <1>3, <1>4, <1>5

Lowers(w) == Rank(w)' \in Ranks /\ Lower(Rank(w)', Rank(w))

\* The ways in which a step lowers the rank of its worker.
LEMMA StepLowers ==
    ASSUME TypeInv, TypeInv', NEW w \in Workers, LoopOK(w), LoopOK(w)',
           \/ Stages[pc'[w]] < Stages[pc[w]]
           \/ /\ Stages[pc'[w]] = Stages[pc[w]]
              /\ resolved'[w] = resolved[w]
              /\ pos'[w] > pos[w]
           \/ /\ Stages[pc'[w]] = Stages[pc[w]]
              /\ resolved'[w] = resolved[w] /\ pos'[w] = pos[w]
              /\ Calls(pc'[w]) < Calls(pc[w])
           \/ /\ pc[w] = "add" /\ pc'[w] = "add"
              /\ resolved'[w] = resolved[w] /\ pos'[w] = pos[w]
              /\ added'[w] > added[w]
    PROVE  Lowers(w)
<1>1. Rank(w) \in Ranks
  BY RankType
<1>2. Rank(w)' \in Ranks
  BY NextRankType
<1>3. /\ Rank(w)[1] = Stages[pc[w]]
      /\ Rank(w)[2] = Len(resolved[w]) + 1 - pos[w]
      /\ Rank(w)[3] = Calls(pc[w])
      /\ Rank(w)[4] = ServicesLeft(w)
  BY DEF Rank
<1>4. /\ Rank(w)'[1] = Stages[pc'[w]]
      /\ Rank(w)'[2] = Len(resolved'[w]) + 1 - pos'[w]
      /\ Rank(w)'[3] = Calls(pc'[w])
      /\ Rank(w)'[4] = ServicesLeft(w)'
  BY DEF Rank
<1>5. /\ pos[w] \in Nat /\ pos'[w] \in Nat
      /\ added[w] \in Nat /\ added'[w] \in Nat
      /\ Len(resolved[w]) \in Nat
  BY LenProperties DEF TypeInv, TypeOK
<1>6. CASE /\ pc[w] = "add" /\ pc'[w] = "add"
           /\ resolved'[w] = resolved[w] /\ pos'[w] = pos[w]
           /\ added'[w] > added[w]
  <2>1. Current(w)' = Current(w)
    BY <1>6 DEF Current
  <2>2. Len(Current(w).services) \in Nat
    BY <1>6, CurrentType, LenProperties
       DEF TypeInv, LabelsOK, AtEndPoint, ResolvedEndPoint
  <2>3. ServicesLeft(w)' < ServicesLeft(w)
    BY <1>5, <1>6, <2>1, <2>2 DEF ServicesLeft
  <2> QED
    BY <1>1, <1>2, <1>3, <1>4, <1>6, <2>3, FirstDifference DEF Lowers
<1>7. CASE Stages[pc'[w]] < Stages[pc[w]]
  BY <1>1, <1>2, <1>3, <1>4, <1>7, FirstDifference DEF Lowers
<1>8. CASE /\ Stages[pc'[w]] = Stages[pc[w]]
           /\ resolved'[w] = resolved[w]
           /\ pos'[w] > pos[w]
  <2>1. Rank(w)'[2] < Rank(w)[2]
    BY <1>3, <1>4, <1>5, <1>8
  <2> QED
    BY <1>1, <1>2, <1>3, <1>4, <1>8, <2>1, FirstDifference DEF Lowers
<1>9. CASE /\ Stages[pc'[w]] = Stages[pc[w]]
           /\ resolved'[w] = resolved[w] /\ pos'[w] = pos[w]
           /\ Calls(pc'[w]) < Calls(pc[w])
  BY <1>1, <1>2, <1>3, <1>4, <1>9, FirstDifference DEF Lowers
<1> QED
  BY <1>6, <1>7, <1>8, <1>9

(***************************************************************************)
(* A step of one worker leaves what belongs to the others.                 *)
(***************************************************************************)
LEMMA CopyOthers ==
    ASSUME TypeInv, NEW w \in Workers, NEW v \in Workers, v # w, NEW config,
           EditCopy(w, config) \/ ResolveCopy(w, config)
    PROVE  UNCHANGED own(v)
<1> USE DEF TypeInv, TypeOK, own, Goto
<1>1. CASE Answer(w, "error")
  BY <1>1 DEF Answer
<1>2. CASE ~Answer(w, "error")
  BY <1>2 DEF EditCopy, ResolveCopy
<1> QED
  BY <1>1, <1>2

LEMMA StepOthers ==
    ASSUME TypeInv, NEW w \in Workers, NEW v \in Workers, v # w,
           Receive(w) \/ Step(w)
    PROVE  UNCHANGED own(v)
<1> USE DEF TypeInv, TypeOK, own, Goto, locals
<1>1. ASSUME NEW status, Answer(w, status) PROVE UNCHANGED own(v)
  BY <1>1 DEF Answer
<1>2. CASE Receive(w)
  BY <1>2 DEF Receive
<1>3. CASE LoadMalformed(w) \/ LoadThrows(w)
  BY <1>1, <1>3 DEF LoadMalformed, LoadThrows
<1>4. CASE LoadProxySection(w) \/ LoadGatewaySection(w)
  BY <1>1, <1>4 DEF LoadProxySection, LoadGatewaySection
<1>5. CASE LoadEndpointServiceFromString(w) \/ GetProxyConfig(w)
  BY <1>1, <1>5, CopyOthers DEF LoadEndpointServiceFromString, GetProxyConfig
<1>6. CASE SetProxyConfig(w) \/ ResolveProxyServerConfigurations(w)
  BY <1>1, <1>6, CopyOthers DEF SetProxyConfig, ResolveProxyServerConfigurations
<1>7. CASE SkipEndPoint(w) \/ SetConfigValues(w) \/ RemoveAllServers(w)
  BY <1>7 DEF SkipEndPoint, SetConfigValues, RemoveAllServers
<1>8. CASE AddServer(w) \/ NextEndPoint(w) \/ AllUpdated(w)
  BY <1>1, <1>8 DEF AddServer, NextEndPoint, AllUpdated
<1> QED
  BY <1>2, <1>3, <1>4, <1>5, <1>6, <1>7, <1>8 DEF Step, Act

(***************************************************************************)
(* What a step is to worker v: a step of its own, alone or overlapping     *)
(* with another worker's, or nothing.                                      *)
(***************************************************************************)
Copies(v) ==
    \E config \in ProxyConfig : EditCopy(v, config) \/ ResolveCopy(v, config)

Assigned(v) ==
    /\ \/ pc[v] = "load" /\ pc'[v] = "gateway"
       \/ pc[v] = "set" /\ pc'[v] = "resolve"
    /\ UNCHANGED <<request, reply, locals>>

LEMMA StepOf ==
    ASSUME TypeInv, [Next]_vars, NEW v \in Workers
    PROVE  \/ UNCHANGED own(v)
           \/ Receive(v)
           \/ Act(v)
           \/ Copies(v)
           \/ Assigned(v)
<1>1. ASSUME NEW w \in Workers, Receive(w) \/ Step(w)
      PROVE  \/ UNCHANGED own(v)
             \/ Receive(v)
             \/ Act(v)
  BY <1>1, StepOthers DEF Step
<1>2. ASSUME NEW x \in Workers, NEW w \in Workers, TornRead(x, w)
      PROVE  UNCHANGED own(v) \/ Copies(v)
  <2>1. PICK new \in Written(x) : \E config \in Mixtures(proxyConfig, new) :
            EditCopy(w, config) \/ ResolveCopy(w, config)
    BY <1>2 DEF TornRead
  <2>2. PICK config \in Mixtures(proxyConfig, new) :
            EditCopy(w, config) \/ ResolveCopy(w, config)
    BY <2>1
  <2>3. new \in ProxyConfig
    BY <1>2, WrittenType DEF TornRead, Racing
  <2>4. config \in ProxyConfig
    BY <2>3, MixturesType DEF TypeInv, TypeOK
  <2> QED
    BY <2>2, <2>4, CopyOthers DEF Copies
<1>3. ASSUME NEW x \in Workers, NEW w \in Workers, TornWrite(x, w)
      PROVE  UNCHANGED own(v) \/ Assigned(v)
  <2>1. /\ Writes(x) /\ Writes(w)
        /\ pc' = [pc EXCEPT ![x] = AfterWrite(x), ![w] = AfterWrite(w)]
        /\ UNCHANGED <<request, reply, locals>>
    BY <1>3 DEF TornWrite, Racing
  <2>2. \A y \in {x, w} : \/ pc[y] = "load" /\ AfterWrite(y) = "gateway"
                          \/ pc[y] = "set" /\ AfterWrite(y) = "resolve"
    BY <2>1 DEF Writes, AfterWrite, At
  <2>3. pc \in [Workers -> Labels]
    BY DEF TypeInv, TypeOK
  <2>4. CASE v \in {x, w}
    BY <2>1, <2>2, <2>3, <2>4 DEF Assigned
  <2>5. CASE v \notin {x, w}
    BY <2>1, <2>3, <2>5 DEF own, locals
  <2> QED
    BY <2>4, <2>5
<1>4. CASE Race \/ UNCHANGED vars
  BY <1>4 DEF Race, vars, locals, own
<1> QED
  BY <1>1, <1>2, <1>3, <1>4 DEF Next

LEMMA ActCopies ==
    ASSUME TypeInv, NEW v \in Workers,
           GetProxyConfig(v) \/ ResolveProxyServerConfigurations(v)
    PROVE  Copies(v)
BY DEF TypeInv, TypeOK, GetProxyConfig, ResolveProxyServerConfigurations, Copies

\* The loops stay within their sequences.
LEMMA StepLoop == TypeInv /\ LoopInv /\ [Next]_vars => LoopInv'
<1> SUFFICES ASSUME TypeInv, LoopInv, [Next]_vars, NEW v \in Workers
             PROVE  LoopOK(v)'
  BY DEF LoopInv
<1>1. /\ LoopOK(v)
      /\ resolved[v] \in Seq(ResolvedEndPoint) /\ Len(resolved[v]) \in Nat
      /\ pos[v] \in Nat /\ added[v] \in Nat
  BY LenProperties DEF LoopInv, TypeInv, TypeOK
<1>2. ASSUME UNCHANGED own(v) PROVE LoopOK(v)'
  BY <1>1, <1>2 DEF own, LoopOK, Current
<1>3. CASE Assigned(v)
  BY <1>1, <1>3 DEF Assigned, LoopOK, locals
<1>5. ASSUME NEW status, Answer(v, status) PROVE LoopOK(v)'
  <2>1. pc'[v] = "idle" /\ pos'[v] = 0 /\ resolved'[v] = << >>
    BY <1>5 DEF TypeInv, TypeOK, Answer, Goto
  <2>2. Len(<< >>) = 0
    OBVIOUS
  <2> QED
    BY <2>1, <2>2 DEF LoopOK
<1>6. ASSUME NEW label \in Labels \ {"add"}, Goto(v, label),
             resolved'[v] = resolved[v], pos'[v] = pos[v]
      PROVE  LoopOK(v)'
  BY <1>1, <1>6 DEF TypeInv, TypeOK, Goto, LoopOK
<1>7. CASE Receive(v) \/ LoadMalformed(v) \/ LoadThrows(v)
  BY <1>5, <1>6, <1>7 DEF Receive, LoadMalformed, LoadThrows, Labels, locals
<1>8. CASE LoadProxySection(v) \/ LoadGatewaySection(v)
  <2>1. CASE UNCHANGED <<pc, request, reply, locals>>
    BY <1>2, <2>1 DEF own, locals
  <2> QED
    BY <1>5, <1>6, <1>8, <2>1 DEF LoadProxySection, LoadGatewaySection, Labels, locals
<1>9. CASE LoadEndpointServiceFromString(v)
  BY <1>5, <1>6, <1>9 DEF LoadEndpointServiceFromString, Labels, locals
<1>10. CASE SetProxyConfig(v)
  BY <1>6, <1>10 DEF SetProxyConfig, Labels, locals
<1>11. CASE Copies(v)
  <2>1. PICK config \in ProxyConfig : EditCopy(v, config) \/ ResolveCopy(v, config)
    BY <1>11 DEF Copies
  <2>2. CASE /\ resolved' = [resolved EXCEPT ![v] = Resolve(config)]
             /\ pos' = [pos EXCEPT ![v] = 1]
             /\ Goto(v, "update")
    <3>1. Len(Resolve(config)) \in Nat
      BY ResolveType, LenProperties
    <3>2. pc'[v] = "update" /\ pos'[v] = 1 /\ resolved'[v] = Resolve(config)
      BY <2>2 DEF TypeInv, TypeOK, Goto
    <3> QED
      BY <3>1, <3>2 DEF LoopOK
  <2> QED
    BY <1>5, <1>6, <2>1, <2>2 DEF EditCopy, ResolveCopy, Labels
<1>12. ASSUME Remaining(v), resolved'[v] = resolved[v], pos'[v] = pos[v] + 1,
              pc'[v] # "add"
       PROVE  LoopOK(v)'
  <2>1. pos[v] <= Len(resolved[v])
    BY <1>1, <1>12, LenProperties DEF Remaining
  <2> QED
    BY <1>1, <1>12, <2>1 DEF LoopOK
<1>13. CASE SkipEndPoint(v)
  BY <1>12, <1>13 DEF SkipEndPoint, At, TypeInv, TypeOK
<1>14. CASE SetConfigValues(v)
  BY <1>6, <1>14 DEF SetConfigValues, Labels, locals
<1>15. CASE RemoveAllServers(v)
  <2>1. Remaining(v)
    BY <1>15 DEF RemoveAllServers, At, TypeInv, LabelsOK, AtEndPoint
  <2>2. Len(Current(v).services) \in Nat
    BY <2>1, CurrentType, LenProperties DEF TypeInv, ResolvedEndPoint
  <2>3. /\ Current(v)' = Current(v) /\ added'[v] = 0
        /\ resolved'[v] = resolved[v] /\ pos'[v] = pos[v]
    BY <1>15 DEF RemoveAllServers, Current, TypeInv, TypeOK
  <2> QED
    BY <1>1, <2>2, <2>3 DEF LoopOK
<1>16. CASE AddServer(v)
  <2>1. /\ Current(v)' = Current(v) /\ added'[v] = added[v] + 1
        /\ added[v] < Len(Current(v).services)
        /\ resolved'[v] = resolved[v] /\ pos'[v] = pos[v]
    BY <1>16 DEF AddServer, Current, TypeInv, TypeOK
  <2>2. Remaining(v)
    BY <1>16 DEF AddServer, At, TypeInv, LabelsOK, AtEndPoint
  <2>3. Len(Current(v).services) \in Nat
    BY <2>2, CurrentType, LenProperties DEF TypeInv, ResolvedEndPoint
  <2> QED
    BY <1>1, <2>1, <2>3 DEF LoopOK
<1>17. CASE NextEndPoint(v)
  <2>1. Remaining(v)
    BY <1>17 DEF NextEndPoint, At, TypeInv, LabelsOK, AtEndPoint
  <2> QED
    BY <1>12, <1>17, <2>1 DEF NextEndPoint, At, Goto, TypeInv, TypeOK
<1>18. CASE AllUpdated(v)
  BY <1>5, <1>18 DEF AllUpdated
<1> QED
  BY <1>2, <1>3, <1>7, <1>8, <1>9, <1>10, <1>11, <1>13, <1>14, <1>15, <1>16,
     <1>17, <1>18, StepOf, ActCopies DEF Act

LEMMA LoopInvariant == Spec => [](TypeInv /\ LoopInv)
BY InitTypeInv, StepTypeInv, InitLoop, StepLoop, PTL DEF Spec

LEMMA StepConverges ==
    TypeInv /\ LoopInv /\ TypeInv' /\ LoopInv' /\ [Next]_vars
        => \A w \in Workers : pc[w] # "idle" => UNCHANGED own(w) \/ Lowers(w)
<1> SUFFICES ASSUME TypeInv, LoopInv, TypeInv', LoopInv', [Next]_vars,
                    NEW v \in Workers, pc[v] # "idle", ~UNCHANGED own(v)
             PROVE  Lowers(v)
  OBVIOUS
<1>1. LoopOK(v) /\ LoopOK(v)' /\ pc \in [Workers -> Labels]
  BY DEF LoopInv, TypeInv, TypeOK
<1>2. Act(v) \/ Copies(v) \/ Assigned(v)
  <2>1. ~Receive(v)
    BY DEF Receive, At
  <2> QED
    BY <2>1, StepOf
<1>3. ASSUME Stages[pc'[v]] < Stages[pc[v]] PROVE Lowers(v)
  BY <1>1, <1>3, StepLowers
<1>4. ASSUME NEW status, Answer(v, status), Stages[pc[v]] > 0 PROVE Lowers(v)
  <2>1. pc'[v] = "idle"
    BY <1>1, <1>4 DEF Answer, Goto
  <2> QED
    BY <1>3, <1>4, <2>1 DEF Stages
<1>5. CASE LoadMalformed(v) \/ LoadThrows(v)
  BY <1>1, <1>3, <1>4, <1>5 DEF LoadMalformed, LoadThrows, At, Goto, Stages
<1>6. CASE LoadProxySection(v) \/ LoadGatewaySection(v)
  <2>1. \/ pc[v] = "load" /\ Goto(v, "gateway")
        \/ /\ pc[v] = "gateway"
           /\ \/ Goto(v, "resolve") \/ Goto(v, "looping")
              \/ Answer(v, "error")
              \/ UNCHANGED <<pc, request, reply, locals>>
    BY <1>6 DEF LoadProxySection, LoadGatewaySection, At
  <2>2. ~UNCHANGED <<pc, request, reply, locals>>
    BY DEF own, locals
  <2>3. CASE \/ pc[v] = "load" /\ Goto(v, "gateway")
             \/ pc[v] = "gateway" /\ (Goto(v, "resolve") \/ Goto(v, "looping"))
    BY <1>1, <1>3, <2>3 DEF Goto, Stages
  <2>4. CASE pc[v] = "gateway" /\ Answer(v, "error")
    BY <1>4, <2>4 DEF Stages
  <2> QED
    BY <2>1, <2>2, <2>3, <2>4
<1>7. CASE LoadEndpointServiceFromString(v) \/ SetProxyConfig(v)
  BY <1>1, <1>3, <1>4, <1>7
     DEF LoadEndpointServiceFromString, SetProxyConfig, At, Goto, Stages
<1>8. CASE Copies(v)
  <2>1. PICK config \in ProxyConfig : EditCopy(v, config) \/ ResolveCopy(v, config)
    BY <1>8 DEF Copies
  <2> QED
    BY <1>1, <1>3, <1>4, <2>1 DEF EditCopy, ResolveCopy, At, Goto, Stages
<1>14. CASE Assigned(v)
  BY <1>1, <1>3, <1>14 DEF Assigned, Stages
<1>9. CASE SkipEndPoint(v)
  <2>1. /\ pc'[v] = pc[v] /\ resolved'[v] = resolved[v]
        /\ pos'[v] > pos[v]
    BY <1>9 DEF SkipEndPoint, TypeInv, TypeOK
  <2> QED
    BY <1>1, <2>1, StepLowers
<1>10. CASE SetConfigValues(v) \/ RemoveAllServers(v)
  <2>1. /\ resolved'[v] = resolved[v] /\ pos'[v] = pos[v]
        /\ \/ pc[v] = "update" /\ pc'[v] = "remove"
           \/ pc[v] = "remove" /\ pc'[v] = "add"
    BY <1>1, <1>10 DEF SetConfigValues, RemoveAllServers, At, Goto, locals
  <2>2. Stages[pc'[v]] = Stages[pc[v]] /\ Calls(pc'[v]) < Calls(pc[v])
    BY <2>1 DEF Stages, Calls
  <2> QED
    BY <1>1, <2>1, <2>2, StepLowers
<1>11. CASE AddServer(v)
  <2>1. /\ pc[v] = "add" /\ pc'[v] = "add" /\ resolved'[v] = resolved[v]
        /\ pos'[v] = pos[v] /\ added'[v] > added[v]
    BY <1>11 DEF AddServer, At, TypeInv, TypeOK
  <2> QED
    BY <1>1, <2>1, StepLowers
<1>12. CASE NextEndPoint(v)
  <2>1. /\ pc[v] = "add" /\ pc'[v] = "update" /\ resolved'[v] = resolved[v]
        /\ pos'[v] > pos[v]
    BY <1>12 DEF NextEndPoint, At, Goto, TypeInv, TypeOK
  <2>2. Stages[pc'[v]] = Stages[pc[v]]
    BY <2>1 DEF Stages
  <2> QED
    BY <1>1, <2>1, <2>2, StepLowers
<1>13. CASE AllUpdated(v)
  BY <1>4, <1>13 DEF AllUpdated, At, Stages
<1> QED
  BY <1>2, <1>5, <1>6, <1>7, <1>8, <1>9, <1>10, <1>11, <1>12, <1>13,
     <1>14, ActCopies DEF Act

\* Whatever any number of callbacks do at once, each of them comes nearer to
\* its answer with everything it does: the loop of updateProxyServers over the
\* endpoints and that of updateProxyConfig over the services end, for
\* configurations of any size, and no other callback can prolong them.
THEOREM EveryCallbackConverges == Spec => CallbacksConverge
<1>1. TypeInv /\ LoopInv /\ TypeInv' /\ LoopInv' /\ [Next]_vars
          => [\A w \in Workers : pc[w] # "idle" =>
                 \/ UNCHANGED own(w)
                 \/ Rank(w)' \in Ranks /\ Lower(Rank(w)', Rank(w))]_vars
  BY StepConverges DEF Lowers
<1> QED
  BY <1>1, LoopInvariant, PTL DEF Spec, CallbacksConverge

-----------------------------------------------------------------------------
(***************************************************************************)
(* The guards under which worker w has a step to take, one for each of its *)
(* actions, without the primed variables of ENABLED.                       *)
(***************************************************************************)
HasStep(w) ==
    \/ At(w, "load") /\ ~ReadsSections(w)
    \/ /\ At(w, "load") /\ ReadsSections(w)
       /\ LoadProxyServerConfigurations(Document(w).clusters, proxyConfig) # {}
    \/ /\ At(w, "gateway")
       /\ GatewayResult(w) \in {"returns", "loops", "throws", "crashes"}
    \/ At(w, "parse")
    \/ At(w, "get") /\ Matching(proxyConfig, Edit(w).name) = {}
    \/ At(w, "get") /\ Edited(proxyConfig, Edit(w)) # {}
    \/ At(w, "set")
    \/ At(w, "resolve")
    \/ At(w, "update")
    \/ At(w, "remove") /\ Socket(w) \in Sockets
    \/ At(w, "add") /\ added[w] \in 0 .. Len(Current(w).services)

\* A callback that is at work always has a next step, unless its document has
\* trapped the parser in a loop or the process has died: it never waits for
\* another callback, for a client or for a socket.  With the theorem before,
\* every callback that is scheduled ends.
THEOREM CallbacksNeverStuck ==
    Spec => [](up => \A w \in Workers : pc[w] \notin {"idle", "looping"} => HasStep(w))
<1>1. TypeInv /\ LoopInv => (up => \A w \in Workers :
                                 pc[w] \notin {"idle", "looping"} => HasStep(w))
  <2> SUFFICES ASSUME TypeInv, LoopInv, up, NEW w \in Workers,
                      pc[w] \notin {"idle", "looping"}
               PROVE  HasStep(w)
    OBVIOUS
  <2>1. pc[w] \in Labels /\ At(w, pc[w]) /\ proxyConfig \in ProxyConfig
    BY DEF TypeInv, TypeOK, At
  <2>2. CASE pc[w] = "load"
    <3>1. Document(w) \in XmlDocument
      BY <2>2, DocumentsAssumption DEF TypeInv, LabelsOK, LoadsDocument, Document
    <3>2. LoadProxyServerConfigurations(Document(w).clusters, proxyConfig) # {}
      BY <2>1, <3>1, LoadType DEF XmlDocument
    <3> QED
      BY <2>1, <2>2, <3>2 DEF HasStep
  <2>7. CASE pc[w] = "gateway"
    <3>1. GatewayResult(w) \in {"returns", "loops", "throws", "crashes"}
      BY DEF GatewayResult, LoadApiGatewayConfigurations
    <3> QED
      BY <2>1, <2>7, <3>1 DEF HasStep
  <2>3. CASE pc[w] = "get"
    <3>1. Edit(w) \in XmlEndPointService /\ ParsesAsEdit(Edit(w))
      BY <2>3, ServiceEditsAssumption DEF TypeInv, LabelsOK, EditsService, Edit
    <3>2. CASE Matching(proxyConfig, Edit(w).name) # {}
      <4>1. Edited(proxyConfig, Edit(w)) # {}
        BY <2>1, <3>1, <3>2, EditsAreDetermined
      <4> QED
        BY <2>1, <2>3, <4>1 DEF HasStep
    <3> QED
      BY <2>1, <2>3, <3>2 DEF HasStep
  <2>4. CASE pc[w] = "remove"
    <3>1. Current(w).name \in RegisteredNames
      BY <2>4 DEF TypeInv, LabelsOK, AtEndPoint
    <3>2. Socket(w) \in Sockets
      BY <3>1, SocketsMapType DEF Socket
    <3> QED
      BY <2>1, <2>4, <3>2 DEF HasStep
  <2>5. CASE pc[w] = "add"
    <3>1. Len(Current(w).services) \in Nat
      BY <2>5, CurrentType, LenProperties
         DEF TypeInv, LabelsOK, AtEndPoint, ResolvedEndPoint
    <3>2. added[w] \in 0 .. Len(Current(w).services)
      BY <2>5, <3>1 DEF TypeInv, TypeOK, LoopInv, LoopOK
    <3> QED
      BY <2>1, <2>5, <3>2 DEF HasStep
  <2>6. CASE pc[w] \in {"parse", "set", "resolve", "update"}
    BY <2>1, <2>6 DEF HasStep
  <2> QED
    BY <2>1, <2>2, <2>3, <2>4, <2>5, <2>6, <2>7 DEF Labels
<1> QED
  BY <1>1, LoopInvariant, PTL

-----------------------------------------------------------------------------
(***************************************************************************)
(* The one way not to end.                                                 *)
(***************************************************************************)
Trapped(w) ==
    \E i \in Reached(Document(w).gateway) : Document(w).gateway[i] = "noServices"

LoopsTrapped == \A w \in Workers : pc[w] = "looping" => Trapped(w)

LEMMA StepTrapped == TypeInv /\ LoopsTrapped /\ [Next]_vars => LoopsTrapped'
<1> SUFFICES ASSUME TypeInv, LoopsTrapped, [Next]_vars,
                    NEW v \in Workers, pc'[v] = "looping"
             PROVE  Trapped(v)'
  BY DEF LoopsTrapped
<1>1. /\ pc \in [Workers -> Labels] /\ request \in [Workers -> Requests \cup {NoRequest}]
  BY DEF TypeInv, TypeOK
<1>2. CASE pc[v] = "looping" /\ request'[v] = request[v]
  BY <1>2 DEF LoopsTrapped, Trapped, Document
<1>3. CASE LoadGatewaySection(v)
  <2>1. GatewayResult(v) = "loops"
    BY <1>1, <1>3 DEF LoadGatewaySection, At, Goto, Answer
  <2>2. Trapped(v)
    BY <2>1 DEF GatewayResult, LoadApiGatewayConfigurations, Trapped
  <2>3. request' = request
    BY <1>1, <1>3, <2>1 DEF LoadGatewaySection
  <2> QED
    BY <2>2, <2>3 DEF Trapped, Document
<1>4. CASE UNCHANGED own(v)
  BY <1>2, <1>4 DEF own
<1>5. CASE Receive(v) \/ Act(v)
  <2>1. \/ pc'[v] = pc[v] /\ request'[v] = request[v]
        \/ pc'[v] # "looping"
        \/ LoadGatewaySection(v)
    BY <1>1, <1>5
       DEF Receive, Act, LoadMalformed, LoadThrows, LoadProxySection,
           LoadEndpointServiceFromString, GetProxyConfig, SetProxyConfig,
           ResolveProxyServerConfigurations, EditCopy, ResolveCopy, SkipEndPoint,
           SetConfigValues, RemoveAllServers, AddServer, NextEndPoint, AllUpdated,
           At, Goto, Answer
  <2> QED
    BY <1>2, <1>3, <2>1
<1>6. CASE Copies(v)
  BY <1>1, <1>6 DEF Copies, EditCopy, ResolveCopy, Goto, Answer
<1>7. CASE Assigned(v)
  BY <1>7 DEF Assigned
<1> QED
  BY <1>4, <1>5, <1>6, <1>7, StepOf

\* Nothing but a gateway end-point without services that the parser comes to
\* keeps a callback in a loop: the endless loop of reload_loops is the only one.
THEOREM OnlyServicelessLoops == Spec => []LoopsTrapped
<1>1. Init => LoopsTrapped
  BY DEF Init, LoopsTrapped
<1> QED
  BY <1>1, StepTrapped, TypeInvariant, PTL DEF Spec

=============================================================================

------------------------ MODULE ProxyEndPointsProofs ------------------------
(***************************************************************************)
(* Lemmas about the data of the hot reload: which type every operator of   *)
(* ProxyEndPoints and ConfigParser has, and which socket proxySocketsMap   *)
(* leads to.  They hold for every configuration, document and edit.        *)
(***************************************************************************)
EXTENDS ProxyEndPoints, SequenceTheorems, FiniteSetTheorems,
        WellFoundedInduction, TLAPS

(***************************************************************************)
(* A set of positions of a sequence has a first and a last element, which  *)
(* is what the CHOOSE of First, of LastHosted and of proxySocketsMap picks.*)
(***************************************************************************)
LEMMA SmallestExists ==
    ASSUME NEW T \in SUBSET Nat, T # {}
    PROVE  \E x \in T : \A y \in T : x <= y
<1>1. \E x \in T : \A y \in T : ~(<<y, x>> \in OpToRel(<, Nat))
  BY NatLessThanWellFounded, WFMin
<1>2. PICK x \in T : \A y \in T : ~(<<y, x>> \in OpToRel(<, Nat))
  BY <1>1
<1>3. \A y \in T : ~(y < x)
  BY <1>2 DEF OpToRel
<1> QED
  BY <1>3

LEMMA LargestExists ==
    ASSUME NEW n \in Nat, NEW T \in SUBSET (1 .. n), T # {}
    PROVE  \E x \in T : \A y \in T : y <= x
<1> DEFINE U == {n - x : x \in T}
<1>1. U \in SUBSET Nat
  OBVIOUS
<1>2. U # {}
  OBVIOUS
<1>3. PICK u \in U : \A v \in U : u <= v
  BY <1>1, <1>2, SmallestExists
<1>4. PICK x \in T : u = n - x
  BY <1>3
<1>5. \A y \in T : n - x <= n - y
  BY <1>3, <1>4
<1> QED
  BY <1>5

-----------------------------------------------------------------------------
(* Types *)

LEMMA HostedType ==
    ASSUME NEW services \in Seq(Service)
    PROVE  /\ Hosted(services) \in Seq(Hosts)
           /\ DOMAIN Hosted(services) = DOMAIN services
<1>1. DOMAIN services = 1 .. Len(services) /\ Len(services) \in Nat
  BY LenProperties
<1>2. ASSUME NEW i \in 1 .. Len(services)
      PROVE  services[i].host \in Hosts
  <2>1. services[i] \in Service
    BY ElementOfSeq
  <2> QED
    BY <2>1 DEF Service
<1>3. Hosted(services) \in [1 .. Len(services) -> Hosts]
  BY <1>1, <1>2 DEF Hosted
<1> QED
  BY <1>1, <1>3, SeqDef DEF Hosted

LEMMA ResolveType ==
    ASSUME NEW config \in ProxyConfig
    PROVE  Resolve(config) \in Seq(ResolvedEndPoint)
<1>1. DOMAIN config = 1 .. Len(config) /\ Len(config) \in Nat
  BY LenProperties DEF ProxyConfig
<1>2. ASSUME NEW i \in 1 .. Len(config)
      PROVE  /\ config[i].endPointName \in EndpointNames
             /\ Hosted(config[i].services) \in Seq(Hosts)
  <2>1. config[i] \in EndPoint
    BY ElementOfSeq DEF ProxyConfig
  <2> QED
    BY <2>1, HostedType DEF EndPoint
<1>3. Resolve(config) \in [1 .. Len(config) -> ResolvedEndPoint]
  BY <1>1, <1>2 DEF Resolve, ResolvedEndPoint
<1> QED
  BY <1>1, <1>3, SeqDef

\* A list picked element by element.
LEMMA PicksType ==
    ASSUME NEW T, NEW n \in Nat, NEW choices, DOMAIN choices = 1 .. n,
           \A i \in 1 .. n : choices[i] \subseteq T,
           NEW list \in Picks(choices)
    PROVE  /\ list \in Seq(T)
           /\ DOMAIN list = 1 .. n
           /\ \A i \in 1 .. n : list[i] \in choices[i]
<1>1. /\ list \in [1 .. n -> UNION {choices[i] : i \in 1 .. n}]
      /\ \A i \in 1 .. n : list[i] \in choices[i]
  BY DEF Picks
<1>2. list \in [1 .. n -> T]
  BY <1>1
<1> QED
  BY <1>1, <1>2, SeqDef

LEMMA PicksExist ==
    ASSUME NEW choices, \A i \in DOMAIN choices : choices[i] # {}
    PROVE  Picks(choices) # {}
<1> DEFINE list == [i \in DOMAIN choices |-> CHOOSE x \in choices[i] : TRUE]
<1>1. \A i \in DOMAIN choices : list[i] \in choices[i]
  OBVIOUS
<1>2. list \in [DOMAIN choices -> UNION {choices[i] : i \in DOMAIN choices}]
  <2>1. \A i \in DOMAIN choices :
            list[i] \in UNION {choices[j] : j \in DOMAIN choices}
    <3> HIDE DEF list
    <3> QED
      BY <1>1
  <2> QED
    BY <2>1
<1> HIDE DEF list
<1> QED
  BY <1>1, <1>2 DEF Picks

LEMMA ReadHostType ==
    ASSUME NEW xml \in XmlService, PortParses(xml)
    PROVE  /\ ReadHost(xml) \subseteq Hosts
           /\ ReadHost(xml) # {}
<1>1. /\ xml.machine \in Machines
      /\ xml.port = "absent" \/ xml.port \in BackendPorts
  BY DEF XmlService, PortParses
<1>2. ReadHost(xml) \subseteq Hosts
  BY <1>1 DEF ReadHost, Hosts
<1>3. PICK port : port \in (IF xml.port = "absent" THEN BackendPorts ELSE {xml.port})
  BY BackendPortsAssumption
<1>4. [machine |-> xml.machine, port |-> port] \in ReadHost(xml)
  BY <1>3 DEF ReadHost
<1> QED
  BY <1>2, <1>4

LEMMA ReadServiceType ==
    ASSUME NEW xml \in XmlService, PortParses(xml)
    PROVE  /\ ReadService(xml) \subseteq Service
           /\ ReadService(xml) # {}
<1>1. xml.name \in ServiceNames
  BY DEF XmlService
<1>2. ReadHost(xml) \subseteq Hosts /\ ReadHost(xml) # {}
  BY ReadHostType
<1>3. ReadService(xml) \subseteq Service
  BY <1>1, <1>2 DEF ReadService, Service
<1>4. PICK host : host \in ReadHost(xml)
  BY <1>2
<1>5. [name |-> xml.name, host |-> host] \in ReadService(xml)
  BY <1>4 DEF ReadService
<1> QED
  BY <1>3, <1>5

\* With a PORT nothing is left open.
LEMMA ReadServiceIs ==
    ASSUME NEW xml, xml.port # "absent"
    PROVE  \E service : ReadService(xml) = {service}
<1> DEFINE host == [machine |-> xml.machine, port |-> xml.port]
           service == [name |-> xml.name, host |-> host]
<1>1. ReadHost(xml) = [machine : {xml.machine}, port : {xml.port}]
  BY DEF ReadHost
<1>2. host \in ReadHost(xml)
  BY <1>1
<1>3. ASSUME NEW h \in ReadHost(xml)
      PROVE  h = host
  BY <1>1
<1>4. ReadService(xml) = [name : {xml.name}, host : ReadHost(xml)]
  BY DEF ReadService
<1> HIDE DEF host
<1>5. service \in ReadService(xml)
  BY <1>2, <1>4
<1>6. ASSUME NEW s \in ReadService(xml)
      PROVE  s = service
  <2>1. s = [name |-> s.name, host |-> s.host]
        /\ s.name = xml.name /\ s.host \in ReadHost(xml)
    BY <1>4
  <2> QED
    BY <1>3, <2>1
<1> HIDE DEF service
<1>7. ReadService(xml) = {service}
  BY <1>5, <1>6
<1> QED
  BY <1>7

\* The services read from the elements of an accepted endpoint.
LEMMA ReadServicesType ==
    ASSUME NEW xmls \in Seq(XmlService),
           \A i \in DOMAIN xmls : PortParses(xmls[i])
    PROVE  /\ ReadServices(xmls) \subseteq Seq(Service)
           /\ ReadServices(xmls) # {}
           /\ \A list \in ReadServices(xmls) :
                 /\ DOMAIN list = DOMAIN xmls
                 /\ \A i \in DOMAIN xmls : list[i] \in ReadService(xmls[i])
<1> DEFINE choices == [i \in DOMAIN xmls |-> ReadService(xmls[i])]
           n == Len(xmls)
<1>1. DOMAIN xmls = 1 .. n /\ n \in Nat
  BY LenProperties
<1>2. \A i \in 1 .. n : choices[i] = ReadService(xmls[i])
  BY <1>1
<1>3. \A i \in 1 .. n : ReadService(xmls[i]) \subseteq Service
                        /\ ReadService(xmls[i]) # {}
  <2>1. \A i \in 1 .. n : xmls[i] \in XmlService
    BY <1>1, ElementOfSeq
  <2> QED
    BY <1>1, <2>1, ReadServiceType
<1>4. DOMAIN choices = 1 .. n
  BY <1>1
<1>5. ReadServices(xmls) = Picks(choices)
  BY DEF ReadServices
<1> HIDE DEF choices, n
<1>6. Picks(choices) # {}
  BY <1>2, <1>3, <1>4, PicksExist
<1>7. ASSUME NEW list \in Picks(choices)
      PROVE  /\ list \in Seq(Service)
             /\ DOMAIN list = 1 .. n
             /\ \A i \in 1 .. n : list[i] \in choices[i]
  <2>1. \A i \in 1 .. n : choices[i] \subseteq Service
    BY <1>2, <1>3
  <2> QED
    BY <1>1, <1>4, <2>1, PicksType
<1> QED
  BY <1>1, <1>2, <1>5, <1>6, <1>7

LEMMA ReadEndPointType ==
    ASSUME NEW xml \in XmlEndPoint, Accepted(xml)
    PROVE  /\ ReadEndPoint(xml) \subseteq EndPoint
           /\ ReadEndPoint(xml) # {}
<1>1. xml.services \in Seq(XmlService) /\ xml.name \in EndpointNames
      /\ xml.pipeline \in Pipelines
  BY DEF XmlEndPoint
<1>2. /\ ReadServices(xml.services) \subseteq Seq(Service)
      /\ ReadServices(xml.services) # {}
  BY <1>1, ReadServicesType DEF Accepted
<1>3. ReadPort(xml) \subseteq Ports
  BY DEF Accepted, ReadPort, Ports
<1>4. "inRange" \in ReadPort(xml)
  BY DEF Accepted, ReadPort, Ports
<1>5. ReadEndPoint(xml) \subseteq EndPoint
  BY <1>1, <1>2, <1>3 DEF ReadEndPoint, EndPoint
<1>6. PICK services : services \in ReadServices(xml.services)
  BY <1>2
<1>7. [endPointName |-> xml.name, proxyPort |-> "inRange",
       pipeline |-> xml.pipeline, services |-> services] \in ReadEndPoint(xml)
  BY <1>4, <1>6 DEF ReadEndPoint
<1> QED
  BY <1>5, <1>7

\* What LoadProxyServerConfigurations reads from a section it accepts.
LEMMA AcceptedSection ==
    ASSUME NEW section \in ClustersSection, NEW old,
           section.present, ~Rejected(section)
    PROVE  LET xmls == section.endPoints
               loaded == LoadProxyServerConfigurations(section, old)
           IN  /\ loaded # {}
               /\ \A config \in loaded :
                     /\ config \in ProxyConfig
                     /\ DOMAIN config = DOMAIN xmls
                     /\ \A i \in DOMAIN xmls :
                           config[i] \in ReadEndPoint(xmls[i])
<1> DEFINE xmls == section.endPoints
           choices == [i \in DOMAIN xmls |-> ReadEndPoint(xmls[i])]
           n == Len(xmls)
<1>1. xmls \in Seq(XmlEndPoint)
  BY DEF ClustersSection
<1>2. DOMAIN xmls = 1 .. n /\ n \in Nat
  BY <1>1, LenProperties
<1>3. \A i \in 1 .. n : ReadEndPoint(xmls[i]) \subseteq EndPoint
                        /\ ReadEndPoint(xmls[i]) # {}
  <2>1. \A i \in 1 .. n : xmls[i] \in XmlEndPoint
    BY <1>1, <1>2, ElementOfSeq
  <2>2. \A i \in 1 .. n : Accepted(xmls[i])
    BY <1>2 DEF Rejected
  <2> QED
    BY <2>1, <2>2, ReadEndPointType
<1>4. /\ DOMAIN choices = 1 .. n
      /\ \A i \in 1 .. n : choices[i] = ReadEndPoint(xmls[i])
  BY <1>2
<1>5. LoadProxyServerConfigurations(section, old) = Picks(choices)
  BY DEF LoadProxyServerConfigurations
<1> HIDE DEF choices, n
<1>6. Picks(choices) # {}
  BY <1>3, <1>4, PicksExist
<1>7. ASSUME NEW config \in Picks(choices)
      PROVE  /\ config \in Seq(EndPoint)
             /\ DOMAIN config = 1 .. n
             /\ \A i \in 1 .. n : config[i] \in choices[i]
  <2>1. \A i \in 1 .. n : choices[i] \subseteq EndPoint
    BY <1>3, <1>4
  <2> QED
    BY <1>2, <1>4, <2>1, PicksType
<1> QED
  BY <1>2, <1>4, <1>5, <1>6, <1>7 DEF ProxyConfig

\* Whatever the proxy section of a document holds, m_ProxyConfig stays a
\* configuration: the old one, none, or one of the document, whatever the ints
\* that the parser left uninitialised have been.
LEMMA LoadType ==
    ASSUME NEW section \in ClustersSection, NEW old \in ProxyConfig
    PROVE  /\ LoadProxyServerConfigurations(section, old) \subseteq ProxyConfig
           /\ LoadProxyServerConfigurations(section, old) # {}
<1>1. CASE ~section.present
  BY <1>1, EmptySeq DEF LoadProxyServerConfigurations, ProxyConfig
<1>2. CASE section.present /\ Rejected(section)
  BY <1>2 DEF LoadProxyServerConfigurations
<1>3. CASE section.present /\ ~Rejected(section)
  BY <1>3, AcceptedSection
<1> QED
  BY <1>1, <1>2, <1>3

-----------------------------------------------------------------------------
(* Edits *)

LEMMA FirstMatches ==
    ASSUME NEW config \in ProxyConfig, NEW name, Matching(config, name) # {}
    PROVE  /\ First(config, name) \in DOMAIN config
           /\ config[First(config, name)].endPointName = name
<1>1. DOMAIN config = 1 .. Len(config) /\ Len(config) \in Nat
  BY LenProperties DEF ProxyConfig
<1>2. Matching(config, name) \in SUBSET Nat
  BY <1>1 DEF Matching
<1>3. \E i \in Matching(config, name) :
          \A j \in Matching(config, name) : i <= j
  BY <1>2, SmallestExists
<1>4. First(config, name) \in Matching(config, name)
  BY <1>3 DEF First
<1> QED
  BY <1>4 DEF Matching

\* What is left after a delete are services that were there.
LEMMA WithoutType ==
    ASSUME NEW services \in Seq(Service), NEW name,
           NEW rest \in Without(services, name)
    PROVE  /\ rest \in Seq(Service)
           /\ \A k \in DOMAIN rest : \E i \in DOMAIN services : rest[k] = services[i]
<1> DEFINE kept == {i \in DOMAIN services : services[i].name # name}
<1>1. DOMAIN services = 1 .. Len(services) /\ Len(services) \in Nat
  BY LenProperties
<1>2. IsFiniteSet(kept)
  <2>1. IsFiniteSet(1 .. Len(services))
    BY <1>1, FS_Interval
  <2>2. kept \subseteq 1 .. Len(services)
    BY <1>1
  <2> HIDE DEF kept
  <2> QED
    BY <2>1, <2>2, FS_Subset
<1>3. Cardinality(kept) \in Nat
  BY <1>2, FS_CardinalityType
<1>4. rest \in [1 .. Cardinality(kept) -> {services[i] : i \in kept}]
  BY DEF Without
<1>5. {services[i] : i \in kept} \subseteq Service
  BY <1>1, ElementOfSeq
<1>6. rest \in [1 .. Cardinality(kept) -> Service]
  BY <1>4, <1>5
<1>7. \A k \in DOMAIN rest : \E i \in DOMAIN services : rest[k] = services[i]
  BY <1>4
<1> QED
  BY <1>3, <1>6, <1>7, SeqDef

LEMMA EditedServicesType ==
    ASSUME NEW services \in Seq(Service), NEW edit \in XmlEndPointService,
           ParsesAsEdit(edit),
           NEW result \in EditedServices(services, edit)
    PROVE  /\ result \in Seq(Service)
           /\ \A k \in DOMAIN result :
                 \/ \E i \in DOMAIN services : result[k] = services[i]
                 \/ result[k] \in ReadService(edit.service)
<1>1. edit.service \in XmlService /\ PortParses(edit.service)
  BY DEF XmlEndPointService, ParsesAsEdit
<1>2. CASE edit.operation = "add"
  <2>1. PICK service \in ReadService(edit.service) : result = Append(services, service)
    BY <1>2 DEF EditedServices
  <2>2. service \in Service
    BY <1>1, ReadServiceType
  <2>3. result \in Seq(Service) /\ Len(result) = Len(services) + 1
    BY <2>1, <2>2, AppendProperties
  <2>4. \A i \in 1 .. Len(services) : result[i] = services[i]
    BY <2>1, <2>2, AppendProperties
  <2>5. result[Len(services) + 1] = service
    BY <2>1, <2>2, AppendProperties
  <2>6. DOMAIN result = 1 .. (Len(services) + 1) /\ DOMAIN services = 1 .. Len(services)
        /\ Len(services) \in Nat
    BY <2>3, LenProperties
  <2> QED
    BY <2>1, <2>3, <2>4, <2>5, <2>6
<1>3. CASE edit.operation # "add"
  <2>1. result \in Without(services, edit.service.name)
    BY <1>3 DEF EditedServices
  <2> QED
    BY <2>1, WithoutType
<1> QED
  BY <1>2, <1>3

LEMMA EditedType ==
    ASSUME NEW config \in ProxyConfig, NEW edit \in XmlEndPointService,
           ParsesAsEdit(edit), Matching(config, edit.name) # {},
           NEW result \in Edited(config, edit)
    PROVE  result \in ProxyConfig
<1> DEFINE first == First(config, edit.name)
<1>1. first \in DOMAIN config
  BY FirstMatches
<1>2. DOMAIN config = 1 .. Len(config) /\ Len(config) \in Nat
  BY LenProperties DEF ProxyConfig
<1>3. config[first] \in EndPoint
  BY <1>1, <1>2, ElementOfSeq DEF ProxyConfig
<1>4. PICK services \in EditedServices(config[first].services, edit) :
          result = [config EXCEPT ![first].services = services]
  BY DEF Edited
<1>5. services \in Seq(Service)
  BY <1>3, EditedServicesType DEF EndPoint
<1>6. [config[first] EXCEPT !.services = services] \in EndPoint
  BY <1>3, <1>5 DEF EndPoint
<1>7. result = [config EXCEPT ![first] = [config[first] EXCEPT !.services = services]]
  BY <1>4
<1> HIDE DEF first
<1> QED
  BY <1>1, <1>2, <1>6, <1>7, ExceptSeq DEF ProxyConfig

-----------------------------------------------------------------------------
(* Mixtures of two configurations are configurations. *)

\* What stands at a place of either of two sequences.
LEMMA AtEitherType ==
    ASSUME NEW T, NEW a \in Seq(T), NEW b \in Seq(T), NEW i
    PROVE  AtEither(a, b, i) \subseteq T
<1>1. ASSUME NEW l \in {a, b}, i \in DOMAIN l
      PROVE  l[i] \in T
  <2>1. l \in Seq(T)
    OBVIOUS
  <2>2. i \in 1 .. Len(l)
    BY <1>1, <2>1, LenProperties
  <2> QED
    BY <2>1, <2>2, ElementOfSeq
<1> QED
  BY <1>1 DEF AtEither

LEMMA MixedServicesType ==
    ASSUME NEW a \in Seq(Service), NEW b \in Seq(Service)
    PROVE  MixedServices(a, b) \subseteq Seq(Service)
<1>1. ASSUME NEW i
      PROVE  MixedService(a, b, i) \subseteq Service
  <2>1. AtEither(a, b, i) \subseteq Service
    BY AtEitherType
  <2>2. \A s \in Service : /\ s.name \in ServiceNames
                           /\ s.host.machine \in Machines
                           /\ s.host.port \in BackendPorts
    BY DEF Service, Hosts
  <2>3. \A s \in AtEither(a, b, i) : /\ s.name \in ServiceNames
                                     /\ s.host.machine \in Machines
                                     /\ s.host.port \in BackendPorts
    BY <2>1, <2>2
  <2> QED
    BY <2>3 DEF MixedService, Service, Hosts
<1>2. ASSUME NEW l \in {a, b},
             NEW list \in Picks([i \in DOMAIN l |-> MixedService(a, b, i)])
      PROVE  list \in Seq(Service)
  <2> DEFINE choices == [i \in DOMAIN l |-> MixedService(a, b, i)]
  <2>1. l \in Seq(Service)
    OBVIOUS
  <2>2. DOMAIN l = 1 .. Len(l) /\ Len(l) \in Nat
    BY <2>1, LenProperties
  <2>3. DOMAIN choices = 1 .. Len(l)
        /\ \A i \in 1 .. Len(l) : choices[i] \subseteq Service
    BY <1>1, <2>2
  <2>4. list \in Picks(choices)
    OBVIOUS
  <2> HIDE DEF choices
  <2> QED
    BY <2>2, <2>3, <2>4, PicksType
<1> QED
  BY <1>2 DEF MixedServices

LEMMA MixturesType ==
    ASSUME NEW a \in ProxyConfig, NEW b \in ProxyConfig
    PROVE  Mixtures(a, b) \subseteq ProxyConfig
<1>1. ASSUME NEW i
      PROVE  MixedEndPoint(a, b, i) \subseteq EndPoint
  <2>1. AtEither(a, b, i) \subseteq EndPoint
    BY AtEitherType DEF ProxyConfig
  <2>2. \A e \in EndPoint : /\ e.endPointName \in EndpointNames
                            /\ e.proxyPort \in Ports
                            /\ e.pipeline \in Pipelines
                            /\ e.services \in Seq(Service)
    BY DEF EndPoint
  <2>3. \A e \in AtEither(a, b, i) : /\ e.endPointName \in EndpointNames
                                     /\ e.proxyPort \in Ports
                                     /\ e.pipeline \in Pipelines
                                     /\ e.services \in Seq(Service)
    BY <2>1, <2>2
  <2>4. UNION {MixedServices(e.services, f.services) :
                  e \in AtEither(a, b, i), f \in AtEither(a, b, i)} \subseteq Seq(Service)
    BY <2>3, MixedServicesType
  <2> QED
    BY <2>3, <2>4 DEF MixedEndPoint, EndPoint
<1>2. ASSUME NEW l \in {a, b},
             NEW config \in Picks([i \in DOMAIN l |-> MixedEndPoint(a, b, i)])
      PROVE  config \in Seq(EndPoint)
  <2> DEFINE choices == [i \in DOMAIN l |-> MixedEndPoint(a, b, i)]
  <2>1. l \in Seq(EndPoint)
    BY DEF ProxyConfig
  <2>2. DOMAIN l = 1 .. Len(l) /\ Len(l) \in Nat
    BY <2>1, LenProperties
  <2>3. DOMAIN choices = 1 .. Len(l)
        /\ \A i \in 1 .. Len(l) : choices[i] \subseteq EndPoint
    BY <1>1, <2>2
  <2>4. config \in Picks(choices)
    OBVIOUS
  <2> HIDE DEF choices
  <2> QED
    BY <2>2, <2>3, <2>4, PicksType
<1> QED
  BY <1>2 DEF Mixtures, ProxyConfig

-----------------------------------------------------------------------------
(***************************************************************************)
(* Nothing that a callback computes can fail to exist, which would make it *)
(* wait forever in the model where the code goes on.                       *)
(***************************************************************************)

\* The place that an element of a set of positions has among those before it
\* numbers the set from 1 without a gap.
LEMMA Places ==
    ASSUME NEW n \in Nat, NEW kept \in SUBSET (1 .. n)
    PROVE  /\ Cardinality(kept) \in Nat
           /\ \A i \in kept :
                 Cardinality({j \in kept : j <= i}) \in 1 .. Cardinality(kept)
           /\ \A i, k \in kept :
                 Cardinality({j \in kept : j <= i}) = Cardinality({j \in kept : j <= k})
                     => i = k
           /\ \A p \in 1 .. Cardinality(kept) : \E i \in kept :
                 Cardinality({j \in kept : j <= i}) = p
<1> DEFINE below(i) == {j \in kept : j <= i}
           place == [i \in kept |-> Cardinality(below(i))]
           m == Cardinality(kept)
<1>1. IsFiniteSet(1 .. n)
  BY FS_Interval
<1>2. IsFiniteSet(kept)
  BY <1>1, FS_Subset
<1>3. m \in Nat
  BY <1>2, FS_CardinalityType
<1>4. ASSUME NEW i \in kept
      PROVE  IsFiniteSet(below(i)) /\ Cardinality(below(i)) \in 1 .. m
  <2>1. below(i) \in SUBSET kept
    OBVIOUS
  <2>2. IsFiniteSet(below(i)) /\ Cardinality(below(i)) <= m
    BY <1>2, <2>1, FS_Subset
  <2>3. Cardinality(below(i)) \in Nat
    BY <2>2, FS_CardinalityType
  <2>4. i \in below(i)
    OBVIOUS
  <2>5. Cardinality(below(i)) # 0
    <3> HIDE DEF below
    <3> QED
      BY <2>2, <2>4, FS_EmptySet
  <2> QED
    BY <1>3, <2>2, <2>3, <2>5
<1>5. ASSUME NEW i \in kept, NEW k \in kept, i < k
      PROVE  Cardinality(below(i)) < Cardinality(below(k))
  <2>1. below(i) \in SUBSET below(k)
    <3>1. \A j \in kept : j \in Int
      OBVIOUS
    <3>2. \A j \in kept : j <= i => j <= k
      BY <1>5, <3>1
    <3> QED
      BY <3>2
  <2>2. k \in below(k) /\ k \notin below(i)
    BY <1>5
  <2>3. /\ Cardinality(below(i)) <= Cardinality(below(k))
        /\ Cardinality(below(k)) = Cardinality(below(i)) => below(k) = below(i)
    <3>1. IsFiniteSet(below(k))
      BY <1>4
    <3> HIDE DEF below
    <3> QED
      BY <2>1, <3>1, FS_Subset
  <2>4. Cardinality(below(i)) \in Nat /\ Cardinality(below(k)) \in Nat
    BY <1>3, <1>4
  <2> HIDE DEF below
  <2> QED
    BY <2>2, <2>3, <2>4
<1>6. ASSUME NEW i \in kept, NEW k \in kept,
             Cardinality(below(i)) = Cardinality(below(k))
      PROVE  i = k
  <2>1. i \in 1 .. n /\ k \in 1 .. n
    OBVIOUS
  <2>2. Cardinality(below(i)) \in 1 .. m /\ Cardinality(below(k)) \in 1 .. m
    BY <1>4
  <2>3. ~(i < k) /\ ~(k < i)
    <3> HIDE DEF below, m
    <3> QED
      BY <1>3, <1>5, <1>6, <2>2
  <2> QED
    BY <2>1, <2>3
<1>7. place \in Injection(kept, 1 .. m)
  <2>1. place \in [kept -> 1 .. m]
    BY <1>4
  <2>2. \A i, k \in kept : place[i] = place[k] => i = k
    BY <1>6
  <2> HIDE DEF place, m
  <2> QED
    BY <2>1, <2>2 DEF Injection, IsInjective
<1>8. place \in Surjection(kept, 1 .. m)
  <2>1. IsFiniteSet(1 .. m) /\ Cardinality(1 .. m) = m
    BY <1>3, FS_Interval
  <2> HIDE DEF place
  <2> QED
    BY <1>7, <2>1, FS_Injection
<1>9. \A p \in 1 .. m : \E i \in kept : place[i] = p
  <2> HIDE DEF place, m
  <2> QED
    BY <1>8 DEF Surjection
<1> QED
  BY <1>3, <1>4, <1>6, <1>9

(***************************************************************************)
(* remove_if and erase leave one list: the services that are not called    *)
(* name, each at the place it has among them.                              *)
(***************************************************************************)
LEMMA WithoutIs ==
    ASSUME NEW services \in Seq(Service), NEW name
    PROVE  \E rest : Without(services, name) = {rest}
<1> DEFINE kept == {i \in DOMAIN services : services[i].name # name}
           place(i) == Cardinality({j \in kept : j <= i})
           m == Cardinality(kept)
           at(p) == CHOOSE i \in kept : place(i) = p
           rest == [p \in 1 .. m |-> services[at(p)]]
<1>1. DOMAIN services = 1 .. Len(services) /\ Len(services) \in Nat
  BY LenProperties
<1>2. kept \in SUBSET (1 .. Len(services))
  BY <1>1
<1>3. /\ m \in Nat
      /\ \A i \in kept : place(i) \in 1 .. m
      /\ \A i, k \in kept : place(i) = place(k) => i = k
      /\ \A p \in 1 .. m : \E i \in kept : place(i) = p
  <2> HIDE DEF kept
  <2> QED
    BY <1>1, <1>2, Places
<1>4. Without(services, name) =
          {r \in [1 .. m -> {services[i] : i \in kept}] :
              \A i \in kept : r[place(i)] = services[i]}
  BY DEF Without
<1> HIDE DEF kept, place, m
<1>5. \A p \in 1 .. m : at(p) \in kept /\ place(at(p)) = p
  BY <1>3
<1>6. \A i \in kept : at(place(i)) = i
  BY <1>3, <1>5
<1> HIDE DEF at
<1>7. rest \in [1 .. m -> {services[i] : i \in kept}]
  BY <1>5
<1>8. \A i \in kept : rest[place(i)] = services[i]
  BY <1>3, <1>6
<1>9. ASSUME NEW r \in Without(services, name)
      PROVE  r = rest
  <2>1. r \in [1 .. m -> {services[i] : i \in kept}]
        /\ \A i \in kept : r[place(i)] = services[i]
    BY <1>4
  <2>2. \A p \in 1 .. m : r[p] = rest[p]
    BY <1>5, <2>1
  <2> HIDE DEF rest
  <2>3. r = [p \in 1 .. m |-> r[p]] /\ rest = [p \in 1 .. m |-> rest[p]]
    BY <1>7, <2>1
  <2> QED
    BY <2>2, <2>3
<1>10. rest \in Without(services, name)
  <2> HIDE DEF rest
  <2> QED
    BY <1>4, <1>7, <1>8
<1> HIDE DEF rest
<1>11. Without(services, name) = {rest}
  BY <1>9, <1>10
<1> QED
  BY <1>11

\* An edit of a configuration in which the endpoint is found has a result, and
\* but for an add without a PORT, whose int stays uninitialised, only one:
\* getProxyConfig, the edit and setProxyConfig are then a function of
\* m_ProxyConfig and the request.
THEOREM EditsAreDetermined ==
    ASSUME NEW config \in ProxyConfig, NEW edit \in XmlEndPointService,
           ParsesAsEdit(edit), Matching(config, edit.name) # {}
    PROVE  /\ Edited(config, edit) # {}
           /\ (edit.operation = "delete" \/ edit.service.port # "absent") =>
                 \E result \in ProxyConfig : Edited(config, edit) = {result}
<1> DEFINE first == First(config, edit.name)
           lists == EditedServices(config[first].services, edit)
<1>1. first \in DOMAIN config
  BY FirstMatches
<1>2. config[first] \in EndPoint
  BY <1>1, LenProperties, ElementOfSeq DEF ProxyConfig
<1>3. config[first].services \in Seq(Service)
  BY <1>2 DEF EndPoint
<1>4. Edited(config, edit) = {[config EXCEPT ![first].services = s] : s \in lists}
  BY DEF Edited
<1>5. edit.service \in XmlService /\ PortParses(edit.service)
  BY DEF XmlEndPointService, ParsesAsEdit
<1> HIDE DEF first
<1>6. lists # {}
  <2>1. CASE edit.operation = "add"
    BY <1>5, <2>1, ReadServiceType DEF EditedServices
  <2>2. CASE edit.operation # "add"
    BY <1>3, <2>2, WithoutIs DEF EditedServices
  <2> QED
    BY <2>1, <2>2
<1>7. ASSUME edit.operation = "delete" \/ edit.service.port # "absent"
      PROVE  \E services : lists = {services}
  <2>1. CASE edit.operation = "delete"
    BY <1>3, <2>1, WithoutIs DEF EditedServices
  <2>2. CASE edit.operation = "add" /\ edit.service.port # "absent"
    <3>1. PICK service : ReadService(edit.service) = {service}
      BY <2>2, ReadServiceIs
    <3>2. lists = {Append(config[first].services, s) : s \in {service}}
      BY <2>2, <3>1 DEF EditedServices
    <3> HIDE DEF lists
    <3> QED
      BY <3>2
  <2> QED
    BY <1>7, <2>1, <2>2 DEF ParsesAsEdit
<1> HIDE DEF lists
<1>8. Edited(config, edit) # {}
  BY <1>4, <1>6
<1>9. ASSUME edit.operation = "delete" \/ edit.service.port # "absent"
      PROVE  \E result \in ProxyConfig : Edited(config, edit) = {result}
  <2>1. PICK services : lists = {services}
    BY <1>7, <1>9
  <2>2. Edited(config, edit) = {[config EXCEPT ![first].services = services]}
    BY <1>4, <2>1
  <2>3. [config EXCEPT ![first].services = services] \in ProxyConfig
    BY <2>2, EditedType
  <2> QED
    BY <2>2, <2>3
<1> QED
  BY <1>8, <1>9

-----------------------------------------------------------------------------
(* The socket map *)

\* proxySocketsMap leads to a socket that was started for an endpoint of the
\* name it is looked up by.
LEMMA SocketsMapType ==
    ASSUME NEW name \in RegisteredNames
    PROVE  /\ proxySocketsMap[name] \in Sockets
           /\ Name(proxySocketsMap[name]) = name
<1>1. Sockets = 1 .. Len(InitialConfig) /\ Len(InitialConfig) \in Nat
  BY InitialConfigAssumption, LenProperties DEF Sockets, ProxyConfig
<1>2. Entered(name) \in SUBSET (1 .. Len(InitialConfig)) /\ Entered(name) # {}
  BY <1>1 DEF Entered, RegisteredNames
<1>3. \E s \in Entered(name) : \A t \in Entered(name) : t <= s
  BY <1>1, <1>2, LargestExists
<1>4. proxySocketsMap[name] =
          CHOOSE s \in Entered(name) : \A t \in Entered(name) : t <= s
  BY DEF proxySocketsMap
<1>5. proxySocketsMap[name] \in Entered(name)
  BY <1>3, <1>4
<1> QED
  BY <1>5 DEF Entered

=============================================================================

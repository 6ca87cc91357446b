---------------------------- MODULE ConfigParser ----------------------------
(***************************************************************************)
(* What ConfigParser.cpp and ApiGatewayConfigParser.cpp make of an XML     *)
(* document: which sections of the configuration a document replaces,      *)
(* which it leaves as they were, and how the parse ends.  Elements stand   *)
(* for themselves as records; of the text of an element only what the      *)
(* parsers test is kept.  The clusters of a PROXY_CONFIG are concatenated: *)
(* every loop over them in src/ visits cluster by cluster, in order.       *)
(***************************************************************************)
EXTENDS Sequences, Integers, FiniteSets

CONSTANTS
    EndpointNames,   \* values of END_POINT/@name and end_point/@name
    ServiceNames,    \* values of SERVICE/@name and service/@name
    Machines,        \* values of HOST, with the SOURCE_HOSTNAME beside them
    BackendPorts,    \* values of an int port of a SERVICE
    Pipelines        \* values of PIPELINE

\* An uninitialised int has some value.
ASSUME BackendPortsAssumption == BackendPorts # {}

(***************************************************************************)
(* The configuration kept in memory (ConfigTypes.h).                       *)
(***************************************************************************)
Hosts == [machine : Machines, port : BackendPorts]

Service == [name : ServiceNames, host : Hosts]

Ports == {"inRange", "outOfRange"}

EndPoint == [endPointName : EndpointNames, proxyPort : Ports,
             pipeline : Pipelines, services : Seq(Service)]

ProxyConfig == Seq(EndPoint)

\* The lists whose element i is one of choices[i].
Picks(choices) ==
    {list \in [DOMAIN choices -> UNION {choices[i] : i \in DOMAIN choices}] :
        \A i \in DOMAIN choices : list[i] \in choices[i]}

(***************************************************************************)
(* The elements of a document.  PROXY_PORT may be missing, not a number,   *)
(* outside 1..65535 or good; SERVICES may be missing; the PORT of a        *)
(* SERVICE may be missing or not a number.                                 *)
(***************************************************************************)
XmlService == [name : ServiceNames, machine : Machines,
               port : BackendPorts \cup {"absent", "notANumber"}]

PortParses(xml) == xml.port # "notANumber"

XmlEndPoint == [name : EndpointNames,
                port : {"absent", "notANumber", "outOfRange", "inRange"},
                pipeline : Pipelines,
                hasServices : BOOLEAN, services : Seq(XmlService)]

ClustersSection == [present : BOOLEAN, endPoints : Seq(XmlEndPoint)]

(***************************************************************************)
(* LoadProxyServerConfigurations: the values m_ProxyConfig may have when   *)
(* the function returns.  It is assigned as a whole, and only if every     *)
(* element is accepted.  A missing PROXY_PORT or PORT leaves the int of    *)
(* REMOTE_END_POINT or SERVICE uninitialised, hence any port.              *)
(***************************************************************************)
Accepted(xml) ==
    /\ xml.port \in {"absent", "inRange"}
    /\ xml.hasServices
    /\ \A i \in DOMAIN xml.services : PortParses(xml.services[i])

ReadHost(xml) ==
    [machine : {xml.machine},
     port : IF xml.port = "absent" THEN BackendPorts ELSE {xml.port}]

ReadService(xml) == [name : {xml.name}, host : ReadHost(xml)]

ReadServices(xmls) == Picks([i \in DOMAIN xmls |-> ReadService(xmls[i])])

ReadPort(xml) == IF xml.port = "absent" THEN Ports ELSE {xml.port}

\* Faulty variant: the text of PROXY_PORT is kept unread.
FaultyReadEndPoint(xml) ==
    [endPointName : {xml.name}, proxyPort : {xml.port},
     pipeline : {xml.pipeline}, services : ReadServices(xml.services)]

ReadEndPoint(xml) ==
    [endPointName : {xml.name}, proxyPort : ReadPort(xml),
     pipeline : {xml.pipeline}, services : ReadServices(xml.services)]

Rejected(section) ==
    /\ section.present
    /\ \E i \in DOMAIN section.endPoints : ~Accepted(section.endPoints[i])

LoadProxyServerConfigurations(section, old) ==
    IF ~section.present
    THEN {<< >>}
    ELSE IF Rejected(section)
         THEN {old}
         ELSE Picks([i \in DOMAIN section.endPoints |->
                        ReadEndPoint(section.endPoints[i])])

(***************************************************************************)
(* LoadApiGatewayConfigurations: how its loop over <end-point> elements    *)
(* ends.  An element is known by the first thing in it the code does not   *)
(* survive: a port that std::stoi refuses throws, a missing attribute or   *)
(* text assigns a null pointer to a std::string and kills the process, and *)
(* the `continue' for a missing <services> tests the same element forever. *)
(***************************************************************************)
XmlGatewayEndPoint == {"complete", "badPort", "nullText", "noServices"}

Reached(elements) ==
    {i \in DOMAIN elements : \A j \in 1 .. (i - 1) : elements[j] = "complete"}

LoadApiGatewayConfigurations(elements) ==
    CASE \E i \in Reached(elements) : elements[i] = "badPort"    -> "throws"
      [] \E i \in Reached(elements) : elements[i] = "nullText"   -> "crashes"
      [] \E i \in Reached(elements) : elements[i] = "noServices" -> "loops"
      [] OTHER -> "returns"

(***************************************************************************)
(* LoadProtocolServerConfigurations, of which ParseConfiguration only sees *)
(* whether it throws (an auth.required that is no Boolean); a bad          *)
(* <protocol-port> returns an error that nobody reads.                     *)
(***************************************************************************)
XmlProtocolServer == {"complete", "badPort", "badRequired"}

LoadProtocolServerConfigurations(elements) ==
    IF \E i \in DOMAIN elements :
          /\ elements[i] = "badRequired"
          /\ \A j \in 1 .. (i - 1) : elements[j] = "complete"
    THEN "throws"
    ELSE "returns"

(***************************************************************************)
(* A document posted to the management API.  "malformed" stands for the    *)
(* empty string, for text tinyxml2 refuses and for a document without the  *)
(* root element: all three return an XMLError before any section is read.  *)
(***************************************************************************)
XmlDocument == [form : {"malformed", "rooted"},
                protocolServers : Seq(XmlProtocolServer),
                clusters : ClustersSection,
                gateway : Seq(XmlGatewayEndPoint)]

(***************************************************************************)
(* ParseEndPointServiceConfiguration, behind LoadEndpointServiceFromString:*)
(* the request to add one service to an endpoint or to delete it by name.  *)
(* It throws on text tinyxml2 refuses, on a missing <end_point> or         *)
(* <service>, on another operation and on a port that is no number.        *)
(***************************************************************************)
XmlEndPointService == [form : {"malformed", "rooted"},
                       name : EndpointNames,
                       operation : {"add", "delete", "other"},
                       hasService : BOOLEAN, service : XmlService]

ParsesAsEdit(xml) ==
    /\ xml.form = "rooted"
    /\ xml.operation \in {"add", "delete"}
    /\ xml.hasService
    /\ PortParses(xml.service)

=============================================================================

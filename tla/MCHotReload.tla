---------------------------- MODULE MCHotReload ----------------------------
(***************************************************************************)
(* Small instances of HotReload: two or three endpoints, two services of   *)
(* each, the documents and requests that lead the parsers down each of     *)
(* their paths.  Backends of different endpoints are different hosts.      *)
(***************************************************************************)
EXTENDS HotReload

\* The services of an endpoint share a machine and have a port each.
Backend(e, n) == [name |-> n, host |-> [machine |-> e, port |-> n]]

Element(e, n) == [name |-> n, machine |-> e, port |-> n]

Portless(e, n) == [Element(e, n) EXCEPT !.port = "absent"]

MCEndpointNames == {"wire", "http", "fast"}
MCServiceNames == {"s1", "s2"}

Threaded(e, services) ==
    [endPointName |-> e, proxyPort |-> "inRange", pipeline |-> "ClickHouse",
     services |-> services]

\* Two endpoints, each with its own socket.
TwoEndPoints ==
    <<Threaded("wire", <<Backend("wire", "s1")>>),
      Threaded("http", <<Backend("http", "s1"), Backend("http", "s2")>>)>>

\* As in config.xml.sample, one name twice; and a libuv endpoint.
Libuv(e, services) == [Threaded(e, services) EXCEPT !.pipeline = "Libuv"]

SampleEndPoints ==
    <<Threaded("wire", <<Backend("wire", "s1")>>),
      Threaded("http", <<Backend("http", "s1")>>),
      Threaded("http", <<Backend("http", "s1"), Backend("http", "s2")>>),
      Libuv("fast", <<Backend("fast", "s1")>>)>>

LibuvEndPoints ==
    <<Libuv("wire", <<Backend("wire", "s1"), Backend("wire", "s2")>>),
      Threaded("http", <<Backend("http", "s1")>>)>>

XmlEp(e, port, services) ==
    [name |-> e, port |-> port, pipeline |-> "ClickHouse",
     hasServices |-> TRUE, services |-> services]

Clusters(xmls) == [present |-> TRUE, endPoints |-> xmls]

Doc(clusters) ==
    [form |-> "rooted", protocolServers |-> <<"complete">>,
     clusters |-> clusters, gateway |-> << >>]

Both == <<XmlEp("wire", "inRange", <<Element("wire", "s2")>>),
          XmlEp("http", "inRange", <<Element("http", "s1")>>)>>

DocBoth == Doc(Clusters(Both))
DocOne == Doc(Clusters(<<Both[2]>>))
DocTwice == Doc(Clusters(<<XmlEp("wire", "inRange", <<Element("wire", "s1")>>),
                           XmlEp("wire", "inRange", <<Element("wire", "s1"),
                                                      Element("wire", "s2")>>)>>))
DocNoPort == Doc(Clusters(<<XmlEp("http", "absent", <<Portless("http", "s2")>>)>>))
DocNoPlugin == Doc(Clusters(<<[Both[1] EXCEPT !.pipeline = "Missing"], Both[2]>>))
DocNoClusters == Doc([present |-> FALSE, endPoints |-> << >>])
DocBadPort == Doc(Clusters(<<Both[2], XmlEp("wire", "notANumber", << >>)>>))
DocNoServices == Doc(Clusters(<<[Both[1] EXCEPT !.hasServices = FALSE]>>))
DocMalformed == [DocBoth EXCEPT !.form = "malformed"]
DocBadAuth == [DocBoth EXCEPT !.protocolServers = <<"complete", "badRequired">>]
DocThrows == [DocBoth EXCEPT !.gateway = <<"complete", "badPort">>]
DocLoops == [DocBoth EXCEPT !.gateway = <<"noServices", "badPort">>]
DocCrashes == [DocBoth EXCEPT !.gateway = <<"nullText">>]

AnsweredDocuments ==
    {DocBoth, DocTwice, DocNoPort, DocNoPlugin, DocNoClusters, DocBadPort,
     DocNoServices, DocMalformed, DocBadAuth, DocThrows}

UniqueDocuments == {DocBoth, DocNoPort, DocNoServices}

AllDocuments == AnsweredDocuments \cup {DocLoops, DocCrashes}

PairEndPoints == <<Threaded("wire", <<Backend("wire", "s1")>>),
                   Threaded("http", <<Backend("http", "s1")>>)>>

\* A document that has one endpoint where the other has another.
PairDocuments == {DocOne, [DocOne EXCEPT !.gateway = <<"nullText">>],
                  [DocOne EXCEPT !.gateway = <<"noServices">>]}

LiveDocuments == {DocBoth, DocNoPort, DocThrows, DocMalformed}

OneDocument == {DocBoth}

LoopingDocuments == {DocBoth, DocLoops}

XmlEdit(operation, e, n) ==
    [form |-> "rooted", name |-> e, operation |-> operation,
     hasService |-> TRUE, service |-> Element(e, n)]

Edits == {XmlEdit("add", "wire", "s2"), XmlEdit("delete", "wire", "s1"),
          XmlEdit("delete", "http", "s1")}

RefusedEdits == {XmlEdit("other", "wire", "s1"),
                 [XmlEdit("add", "wire", "s1") EXCEPT !.form = "malformed"]}

PortlessEdit == [XmlEdit("add", "wire", "s2") EXCEPT !.service.port = "absent"]

AllEdits == RefusedEdits
                \cup {PortlessEdit, XmlEdit("delete", "wire", "s1"),
                      XmlEdit("delete", "wire", "s2"), XmlEdit("delete", "http", "s1")}

OneDelete == {XmlEdit("delete", "http", "s1")}

OneAdd == {XmlEdit("add", "wire", "s2")}

=============================================================================

-------------------------- MODULE MCRouteHandling --------------------------
(***************************************************************************)
(* Every server with two routes of which the first one is as in            *)
(* config.xml.sample: login, open to everybody.                            *)
(***************************************************************************)
EXTENDS RouteHandling

Login == [method |-> "known", required |-> "false", authorization |-> FALSE]

MCServers == {xml \in XmlServer : xml.routes["/auth/login"] = Login}

=============================================================================

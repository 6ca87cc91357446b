----------------------------- MODULE MCStartup -----------------------------
(***************************************************************************)
(* A small instance of Startup: two endpoints with one name, a libuv one,  *)
(* and a reloaded gateway document longer than the one at boot.            *)
(***************************************************************************)
EXTENDS Startup

Threaded(name) == [name |-> name, libuv |-> FALSE]

MCProxyServers ==
    <<Threaded("wire"), [name |-> "fast", libuv |-> TRUE], Threaded("http"),
      Threaded("wire")>>

MCProtocolServers == <<"HTTP", "HTTP">>

MCBootGateway == <<"api", "admin">>

MCReloadedGateway == <<"edge", "reports", "edge">>

=============================================================================

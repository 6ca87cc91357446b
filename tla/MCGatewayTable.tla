--------------------------- MODULE MCGatewayTable ---------------------------
(***************************************************************************)
(* All endpoints of up to two services with up to two uris each: a path    *)
(* twice with two addresses, another path, an empty host, and the ports    *)
(* next to both ends of the range.                                         *)
(***************************************************************************)
EXTENDS GatewayTable

UpTo2(S) == {<< >>} \cup {<<x>> : x \in S} \cup (S \X S)

At(path, host, port) == [path |-> path, host |-> host, port |-> port]

Uris == {At("/a", "h1", 1), At("/a", "h2", 65535), At("/b", "h1", 80),
         At("/b", "", 80), At("/a", "h1", 65536 + 80), At("/b", "h1", 0)}

MCEndPoints ==
    UpTo2([hostname : {"api", "admin"}, uris : UpTo2(Uris)])

=============================================================================

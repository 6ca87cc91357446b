-------------------------- MODULE ServiceDirectory --------------------------
(***************************************************************************)
(* What hot reload promises one client at a time.  There is a directory of *)
(* endpoints and, for every running socket, the list of services it routes *)
(* to.  A request changes the directory at one instant, at most once.      *)
(* Then either the lists of the sockets are switched, each from one whole  *)
(* list to another, until they agree with the directory, and the client is *)
(* told "ok"; or no list changes at all and the client is told "error".    *)
(* An error does not mean that the directory is unchanged.                 *)
(***************************************************************************)
EXTENDS ProxyEndPoints

VARIABLES
    directory,   \* the configured endpoints
    routes,      \* routes[s]: the list of services socket s routes to
    phase,       \* how far the request has come
    answer       \* status of the last request

vars == <<directory, routes, phase, answer>>

Init ==
    /\ directory = InitialConfig
    /\ routes = [s \in Sockets |-> Hosted(InitialConfig[s].services)]
    /\ phase = "idle"
    /\ answer = "none"

\* What one request may make of the directory: nothing, an edit of an endpoint
\* that is there, or the content of a document.
Changes(config) ==
    {config}
        \cup (UNION {Edited(config, e) :
                        e \in {f \in ServiceEdits : ParsesAsEdit(f)
                                    /\ Matching(config, f.name) # {}}})
        \cup (UNION {LoadProxyServerConfigurations(d.clusters, config) :
                        d \in Documents})

Submit ==
    /\ phase = "idle"
    /\ phase' = "pending"
    /\ answer' = "none"
    /\ UNCHANGED <<directory, routes>>

Commit ==
    /\ phase = "pending"
    /\ directory' \in Changes(directory)
    /\ phase' = "committed"
    /\ UNCHANGED <<routes, answer>>

Refuse ==
    /\ phase \in {"pending", "committed"}
    /\ phase' = "idle"
    /\ answer' = "error"
    /\ UNCHANGED <<directory, routes>>

StartPublishing ==
    /\ phase = "committed"
    /\ Resolvable(directory)
    /\ phase' = "publishing"
    /\ UNCHANGED <<directory, routes, answer>>

Publish(s) ==
    /\ phase = "publishing"
    /\ \E i \in Matching(directory, Name(s)) :
          routes' = [routes EXCEPT ![s] = Hosted(directory[i].services)]
    /\ UNCHANGED <<directory, phase, answer>>

Acknowledge ==
    /\ phase = "publishing"
    /\ \A name \in RegisteredNames :
          Matching(directory, name) # {} =>
              routes[proxySocketsMap[name]] = LastHosted(directory, name)
    /\ phase' = "idle"
    /\ answer' = "ok"
    /\ UNCHANGED <<directory, routes>>

Next ==
    \/ Submit
    \/ Commit
    \/ Refuse
    \/ StartPublishing
    \/ \E s \in Sockets : Publish(s)
    \/ Acknowledge

Spec == Init /\ [][Next]_vars

=============================================================================

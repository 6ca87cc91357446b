--------------------------- MODULE RouteHandling ---------------------------
(***************************************************************************)
(* A protocol server's routes, from their elements in the configuration to *)
(* the requests they answer: LoadProtocolServerConfigurations reads what   *)
(* a route demands, ResolveProtocolServerConfigurations what the server    *)
(* can check, and initProtocolServers registers for each route a function  *)
(* that asks the authentication and the authorization handler before it    *)
(* dispatches the handler of the route.  These handlers lie outside src/:  *)
(* whatever they may leave in the context of the request, or throw, is a   *)
(* choice.  A handler may call back and replace the configuration; the     *)
(* registered functions keep the copy they were made from.                 *)
(***************************************************************************)
CONSTANTS
    Paths,     \* a route: its path and its method
    Servers,   \* <protocol-server> elements a configuration may have
    Threads    \* threads of the server that handle requests

(***************************************************************************)
(* A <protocol-server>: has it an <auth>, and in it an <authorization>;    *)
(* and of each route, whether the method is known, what auth/required      *)
(* says, and whether there is an auth/authorization.                       *)
(***************************************************************************)
XmlRoute == [method : {"known", "unknown"},
             required : {"absent", "true", "false"},
             authorization : BOOLEAN]

XmlServer == [auth : {"absent", "authentication", "authorization"},
              routes : [Paths -> XmlRoute]]

ASSUME ServersAssumption == Servers \subseteq XmlServer

Route == [required : BOOLEAN, authorization : BOOLEAN]

\* RESOLVED_PROTOCOL_CONFIG: are auth and auth->authorization not null.
ProtocolConfig == [auth : BOOLEAN, authorization : BOOLEAN]

Grants == {"authenticated", "authorized"}

VARIABLES
    boot,        \* the element the server was started from
    loaded,      \* the one now in m_ProtocolServerConfig
    handlers,    \* the routes registered, each with the copies it captured
    pc, path,    \* pc[t], path[t]: the request of thread t, how far it has come
    granted,     \* granted[t]: what the strategies have put in its context
    changed,     \* changed[t]: has its handler replaced the configuration
    reply        \* reply[t]: status of the answer, "thrown" without one

vars == <<boot, loaded, handlers, pc, path, granted, changed, reply>>

Replies == {"none", "response", "Unauthorized", "Forbidden",
            "InternalServerError", "thrown"}

TypeOK ==
    /\ boot \in XmlServer
    /\ loaded \in XmlServer
    /\ DOMAIN handlers \subseteq Paths
    /\ handlers \in [DOMAIN handlers -> [route : Route, cfg : ProtocolConfig]]
    /\ pc \in [Threads -> {"idle", "authenticate", "authorize", "handle"}]
    /\ path \in [Threads -> Paths]
    /\ granted \in [Threads -> SUBSET Grants]
    /\ changed \in [Threads -> BOOLEAN]
    /\ reply \in [Threads -> Replies]

-----------------------------------------------------------------------------
(* From the element to the registered routes *)

\* Faulty variant: a route cannot decline what its server has.
DeafRequired(xml, r) == r.required = "true" \/ xml.auth # "absent"

\* A route that does not say follows its server.
Required(xml, r) ==
    \/ r.required = "true"
    \/ r.required = "absent" /\ xml.auth # "absent"

\* Faulty variant: auth/authorization is not read.
FaultyLoadRoute(xml, r) == [required |-> Required(xml, r)]

LoadRoute(xml, r) ==
    [required |-> Required(xml, r), authorization |-> r.authorization]

ResolveProtocolServer(xml) ==
    [auth |-> xml.auth # "absent", authorization |-> xml.auth = "authorization"]

Registered(xml) == {p \in Paths : xml.routes[p].method = "known"}

Init ==
    /\ boot \in Servers
    /\ loaded = boot
    /\ handlers = [p \in Registered(boot) |->
                      [route |-> LoadRoute(boot, boot.routes[p]),
                       cfg |-> ResolveProtocolServer(boot)]]
    /\ pc = [t \in Threads |-> "idle"]
    /\ path \in [Threads -> Paths]
    /\ granted = [t \in Threads |-> {}]
    /\ changed = [t \in Threads |-> FALSE]
    /\ reply = [t \in Threads |-> "none"]

-----------------------------------------------------------------------------
(* A request *)

Goto(t, label) == pc' = [pc EXCEPT ![t] = label]

\* The lambda returns a response, or an exception leaves it.
Answer(t, status) ==
    /\ Goto(t, "idle")
    /\ reply' = [reply EXCEPT ![t] = status]

\* Faulty variant: the context of the request before is used again.
FaultyReceive(t) ==
    /\ pc[t] = "idle"
    /\ \E p \in DOMAIN handlers :
          /\ path' = [path EXCEPT ![t] = p]
          /\ Goto(t, IF handlers[p].route.required /\ handlers[p].cfg.auth
                       /\ granted[t] = {}
                     THEN "authenticate" ELSE "handle")
    /\ changed' = [changed EXCEPT ![t] = FALSE]
    /\ reply' = [reply EXCEPT ![t] = "none"]
    /\ UNCHANGED <<boot, loaded, handlers, granted>>

\* Each request has a context of its own.
Receive(t) ==
    /\ pc[t] = "idle"
    /\ \E p \in DOMAIN handlers :
          /\ path' = [path EXCEPT ![t] = p]
          /\ Goto(t, IF handlers[p].route.required /\ handlers[p].cfg.auth
                     THEN "authenticate" ELSE "handle")
    /\ granted' = [granted EXCEPT ![t] = {}]
    /\ changed' = [changed EXCEPT ![t] = FALSE]
    /\ reply' = [reply EXCEPT ![t] = "none"]
    /\ UNCHANGED <<boot, loaded, handlers>>

Handler(t) == handlers[path[t]]

Grant(t, what) == granted' = [granted EXCEPT ![t] = @ \cup {what}]

\* Nothing catches what the authentication handler throws, nor what Get throws
\* if it has left nothing; a value that is no bool counts as a refusal.
Authenticate(t) ==
    /\ pc[t] = "authenticate"
    /\ \/ /\ Grant(t, "authenticated")
          /\ Goto(t, IF Handler(t).route.authorization /\ Handler(t).cfg.authorization
                     THEN "authorize" ELSE "handle")
          /\ UNCHANGED reply
       \/ /\ Answer(t, "Unauthorized") \/ Answer(t, "thrown")
          /\ UNCHANGED granted
    /\ UNCHANGED <<boot, loaded, handlers, path, changed>>

\* Faulty variant: the refusal is answered, but does not return.
FaultyAuthorize(t) ==
    /\ pc[t] = "authorize"
    /\ \/ /\ Grant(t, "authorized")
          /\ UNCHANGED reply
       \/ /\ reply' = [reply EXCEPT ![t] = "Forbidden"]
          /\ UNCHANGED granted
    /\ Goto(t, "handle")
    /\ UNCHANGED <<boot, loaded, handlers, path, changed>>

\* Here Get is inside the try.
Authorize(t) ==
    /\ pc[t] = "authorize"
    /\ \/ /\ Grant(t, "authorized")
          /\ Goto(t, "handle")
          /\ UNCHANGED reply
       \/ /\ Answer(t, "Forbidden") \/ Answer(t, "thrown")
          /\ UNCHANGED granted
    /\ UNCHANGED <<boot, loaded, handlers, path, changed>>

\* The handler calls update_configuration or update_endpoint_service.
UpdateConfiguration(t) ==
    /\ pc[t] = "handle"
    /\ loaded' \in Servers
    /\ changed' = [changed EXCEPT ![t] = TRUE]
    /\ UNCHANGED <<boot, handlers, pc, path, granted, reply>>

\* It may fail before or after that: a std::exception, or no response in the
\* context, is answered; another exception leaves the lambda.
HandlerEnds(t) ==
    /\ pc[t] = "handle"
    /\ \E status \in {"response", "InternalServerError", "thrown"} : Answer(t, status)
    /\ UNCHANGED <<boot, loaded, handlers, path, granted, changed>>

Handle(t) ==
    \/ Authenticate(t)
    \/ Authorize(t)
    \/ UpdateConfiguration(t)
    \/ HandlerEnds(t)

Next == \E t \in Threads : Receive(t) \/ Handle(t)

Spec == Init /\ [][Next]_vars

-----------------------------------------------------------------------------
\* What the elements ask for, by the route that a request takes: a server with
\* an <auth> authenticates unless the route declines, and if that <auth> can
\* authorize it does for a route that names an authorization.
Demands(xml, p) ==
    IF xml.auth = "absent" \/ xml.routes[p].required = "false" THEN {}
    ELSE IF xml.auth = "authorization" /\ xml.routes[p].authorization
         THEN Grants
         ELSE {"authenticated"}

\* No handler runs for a request that has not itself been given every grant the
\* configuration the server was started from demands for its route, whatever
\* other requests were granted, whatever the strategies leave behind, and
\* whatever configurations have been loaded since.
HandlersGuarded ==
    \A t \in Threads : pc[t] = "handle" => Demands(boot, path[t]) \subseteq granted[t]

\* The configuration is replaced only on behalf of a request with its grants,
\* and a client that is told "Unauthorized" or "Forbidden" can rely on its
\* request having changed nothing; one told of an internal error cannot.
RefusedWithoutEffect ==
    \A t \in Threads :
        /\ changed[t] => Demands(boot, path[t]) \subseteq granted[t]
        /\ reply[t] \in {"Unauthorized", "Forbidden"} => ~changed[t]

\* A refusal always has its reason in the configuration the server was started
\* from: "Unauthorized" answers only requests whose route demands something,
\* and "Forbidden" only those whose route demands both grants and that had
\* been authenticated, so login stays open to everybody.
RefusedOnlyOnDemand ==
    \A t \in Threads :
        /\ reply[t] = "Unauthorized" =>
              Demands(boot, path[t]) # {} /\ granted[t] = {}
        /\ reply[t] = "Forbidden" =>
              Demands(boot, path[t]) = Grants /\ granted[t] = {"authenticated"}

=============================================================================

------------------------ MODULE RouteHandlingProofs ------------------------
(***************************************************************************)
(* Theorems about RouteHandling, for any set of servers, routes and        *)
(* threads: the types of its variables, that handlers are guarded, that a  *)
(* refused request has no effect, and that a refusal has a reason.         *)
(***************************************************************************)
EXTENDS RouteHandling, TLAPS

(***************************************************************************)
(* TypeOK is not inductive: Receive and Handler(t) need to know that the   *)
(* path of a request is one of a registered route, and that what this      *)
(* route captured is what the boot configuration says.                     *)
(***************************************************************************)
CapturedAtBoot ==
    handlers = [p \in Registered(boot) |->
                   [route |-> LoadRoute(boot, boot.routes[p]),
                    cfg |-> ResolveProtocolServer(boot)]]

OnRegisteredPath == \A t \in Threads : pc[t] # "idle" => path[t] \in DOMAIN handlers

TypeInv == TypeOK /\ CapturedAtBoot /\ OnRegisteredPath

\* What has been granted and changed so far, step by step.
Progress(t) ==
    /\ pc[t] # "idle" => reply[t] = "none"
    /\ pc[t] \in {"authenticate", "authorize"} => ~changed[t]
    /\ pc[t] = "authorize" => "authenticated" \in granted[t]
    /\ pc[t] = "handle" => Demands(boot, path[t]) \subseteq granted[t]
    /\ changed[t] => Demands(boot, path[t]) \subseteq granted[t]
    /\ reply[t] \in {"Unauthorized", "Forbidden"} => ~changed[t]

ProgressInv == \A t \in Threads : Progress(t)

-----------------------------------------------------------------------------
\* What a route captures has the type TypeOK asks for.
LEMMA CapturedType ==
    ASSUME NEW xml \in XmlServer, NEW p \in Paths
    PROVE  /\ LoadRoute(xml, xml.routes[p]) \in Route
           /\ ResolveProtocolServer(xml) \in ProtocolConfig
<1>1. xml.routes[p] \in XmlRoute
  BY DEF XmlServer
<1>2. xml.routes[p].authorization \in BOOLEAN
  BY <1>1 DEF XmlRoute
<1>3. LoadRoute(xml, xml.routes[p]) \in Route
  BY <1>2 DEF LoadRoute, Required, Route
<1> QED
  BY <1>3 DEF ResolveProtocolServer, ProtocolConfig

LEMMA InitTypeInv == Init => TypeInv
<1> SUFFICES ASSUME Init PROVE TypeInv
  OBVIOUS
<1>1. boot \in XmlServer /\ loaded \in XmlServer
  BY ServersAssumption DEF Init
<1>2. CapturedAtBoot
  BY DEF Init, CapturedAtBoot
<1>3. DOMAIN handlers = Registered(boot) /\ Registered(boot) \subseteq Paths
  BY <1>2 DEF CapturedAtBoot, Registered
<1>4. handlers \in [DOMAIN handlers -> [route : Route, cfg : ProtocolConfig]]
  BY <1>1, <1>2, <1>3, CapturedType DEF CapturedAtBoot
<1>5. TypeOK
  BY <1>1, <1>3, <1>4 DEF Init, TypeOK, Replies
<1> QED
  BY <1>2, <1>5 DEF Init, TypeInv, OnRegisteredPath

LEMMA StepTypeInv == TypeInv /\ [Next]_vars => TypeInv'
<1> SUFFICES ASSUME TypeInv, [Next]_vars PROVE TypeInv'
  OBVIOUS
<1>1. boot' = boot /\ handlers' = handlers /\ CapturedAtBoot'
  BY DEF Next, Receive, Handle, Authenticate, Authorize, UpdateConfiguration,
         HandlerEnds, vars, TypeInv, CapturedAtBoot
<1>2. loaded' \in XmlServer
  BY ServersAssumption DEF TypeInv, TypeOK, Next, Receive, Handle, Authenticate,
     Authorize, UpdateConfiguration, HandlerEnds, vars
<1>3. SUFFICES /\ pc' \in [Threads -> {"idle", "authenticate", "authorize", "handle"}]
               /\ path' \in [Threads -> Paths]
               /\ granted' \in [Threads -> SUBSET Grants]
               /\ changed' \in [Threads -> BOOLEAN]
               /\ reply' \in [Threads -> Replies]
               /\ OnRegisteredPath'
  BY <1>1, <1>2 DEF TypeInv, TypeOK
<1> DEFINE types ==
             /\ pc \in [Threads -> {"idle", "authenticate", "authorize", "handle"}]
             /\ path \in [Threads -> Paths]
             /\ granted \in [Threads -> SUBSET Grants]
             /\ changed \in [Threads -> BOOLEAN]
             /\ reply \in [Threads -> Replies]
             /\ OnRegisteredPath
<1>4. types /\ DOMAIN handlers \subseteq Paths
  BY DEF TypeInv, TypeOK
<1>5. ASSUME NEW t \in Threads, Receive(t) PROVE types'
  BY <1>1, <1>4, <1>5 DEF OnRegisteredPath, Receive, Goto, Replies
<1>6. ASSUME NEW t \in Threads, Authenticate(t) PROVE types'
  <2>1. granted' \in [Threads -> SUBSET Grants]
    BY <1>4, <1>6 DEF Authenticate, Grant, Grants
  <2> QED
    BY <1>1, <1>4, <1>6, <2>1
       DEF OnRegisteredPath, Authenticate, Answer, Goto, Replies
<1>7. ASSUME NEW t \in Threads, Authorize(t) PROVE types'
  <2>1. granted' \in [Threads -> SUBSET Grants]
    BY <1>4, <1>7 DEF Authorize, Grant, Grants
  <2> QED
    BY <1>1, <1>4, <1>7, <2>1
       DEF OnRegisteredPath, Authorize, Answer, Goto, Replies
<1>8. ASSUME NEW t \in Threads, UpdateConfiguration(t) PROVE types'
  BY <1>1, <1>4, <1>8 DEF OnRegisteredPath, UpdateConfiguration
<1>9. ASSUME NEW t \in Threads, HandlerEnds(t) PROVE types'
  BY <1>1, <1>4, <1>9 DEF OnRegisteredPath, HandlerEnds, Answer, Goto, Replies
<1>10. CASE UNCHANGED vars
  BY <1>4, <1>10 DEF OnRegisteredPath, vars
<1> QED
  BY <1>5, <1>6, <1>7, <1>8, <1>9, <1>10 DEF Next, Handle

\* The variables of RouteHandling keep their types, whatever elements the
\* configurations have and however many threads handle requests.
THEOREM TypeCorrect == Spec => []TypeOK
<1>1. TypeInv => TypeOK
  BY DEF TypeInv
<1> QED
  BY <1>1, InitTypeInv, StepTypeInv, PTL DEF Spec

-----------------------------------------------------------------------------
\* What the copies a route captured ask for covers what its elements demand.
LEMMA CapturedDemands ==
    ASSUME TypeInv, NEW p \in DOMAIN handlers
    PROVE  LET h == handlers[p]
           IN  /\ ~(h.route.required /\ h.cfg.auth) => Demands(boot, p) = {}
               /\ ~(h.route.authorization /\ h.cfg.authorization) =>
                     Demands(boot, p) \subseteq {"authenticated"}
               /\ Demands(boot, p) \subseteq Grants
<1>1. p \in Paths /\ boot \in XmlServer /\ boot.routes[p] \in XmlRoute
  BY DEF TypeInv, TypeOK, XmlServer
<1> DEFINE required == Required(boot, boot.routes[p])
           authorization == boot.routes[p].authorization
           auth == boot.auth # "absent"
           authorizes == boot.auth = "authorization"
<1>2. handlers[p] = [route |-> [required |-> required,
                                authorization |-> authorization],
                     cfg |-> [auth |-> auth, authorization |-> authorizes]]
  BY DEF TypeInv, CapturedAtBoot, LoadRoute, ResolveProtocolServer
<1>3. boot.routes[p].required \in {"absent", "true", "false"}
  BY <1>1 DEF XmlRoute
<1> HIDE DEF required, authorization, auth, authorizes
<1>4. /\ handlers[p].route.required = required
      /\ handlers[p].route.authorization = authorization
  BY <1>2
<1>5. /\ handlers[p].cfg.auth = auth
      /\ handlers[p].cfg.authorization = authorizes
  BY <1>2
<1>6. ~(handlers[p].route.required /\ handlers[p].cfg.auth) =>
          Demands(boot, p) = {}
  BY <1>3, <1>4, <1>5 DEF required, auth, Required, Demands
<1>7. ~(handlers[p].route.authorization /\ handlers[p].cfg.authorization) =>
          Demands(boot, p) \subseteq {"authenticated"}
  BY <1>4, <1>5 DEF authorization, authorizes, Demands
<1>8. Demands(boot, p) \subseteq Grants
  BY DEF Demands, Grants
<1> QED
  BY <1>6, <1>7, <1>8

LEMMA InitProgress == Init => ProgressInv
BY DEF Init, ProgressInv, Progress

LEMMA StepProgress == TypeInv /\ ProgressInv /\ [Next]_vars => ProgressInv'
<1> SUFFICES ASSUME TypeInv, ProgressInv, [Next]_vars,
                    NEW u \in Threads
             PROVE  Progress(u)'
  BY DEF ProgressInv
<1>1. Progress(u) /\ boot' = boot
  BY DEF ProgressInv, Next, Receive, Handle, Authenticate, Authorize,
         UpdateConfiguration, HandlerEnds, vars
<1>2. /\ pc \in [Threads -> {"idle", "authenticate", "authorize", "handle"}]
      /\ path \in [Threads -> Paths]
      /\ granted \in [Threads -> SUBSET Grants]
      /\ changed \in [Threads -> BOOLEAN]
      /\ reply \in [Threads -> Replies]
  BY DEF TypeInv, TypeOK
<1>3. ASSUME NEW t \in Threads, Receive(t) PROVE Progress(u)'
  <2>1. CASE u = t
    <3>1. PICK p \in DOMAIN handlers :
              /\ path' = [path EXCEPT ![t] = p]
              /\ Goto(t, IF handlers[p].route.required /\ handlers[p].cfg.auth
                         THEN "authenticate" ELSE "handle")
      BY <1>3 DEF Receive
    <3>2. ~(handlers[p].route.required /\ handlers[p].cfg.auth) =>
              Demands(boot, p) = {}
      BY CapturedDemands DEF TypeInv
    <3>3. /\ path'[t] = p
          /\ pc'[t] = IF handlers[p].route.required /\ handlers[p].cfg.auth
                      THEN "authenticate" ELSE "handle"
          /\ granted'[t] = {} /\ changed'[t] = FALSE /\ reply'[t] = "none"
      BY <1>2, <1>3, <3>1 DEF Receive, Goto
    <3> QED
      BY <1>1, <2>1, <3>2, <3>3 DEF Progress, Demands
  <2>2. CASE u # t
    BY <1>1, <1>2, <1>3, <2>2 DEF Progress, Demands, Receive, Goto
  <2> QED
    BY <2>1, <2>2
<1>4. ASSUME NEW t \in Threads, Authenticate(t) PROVE Progress(u)'
  <2>1. CASE u = t /\ pc'[t] # "idle"
    <3>1. path[t] \in DOMAIN handlers
      BY <1>4 DEF TypeInv, OnRegisteredPath, Authenticate
    <3>2. ~(Handler(t).route.authorization /\ Handler(t).cfg.authorization) =>
              Demands(boot, path[t]) \subseteq {"authenticated"}
      BY <3>1, CapturedDemands DEF Handler
    <3>3. /\ granted'[t] = granted[t] \cup {"authenticated"}
          /\ pc'[t] = IF Handler(t).route.authorization
                           /\ Handler(t).cfg.authorization
                      THEN "authorize" ELSE "handle"
          /\ reply'[t] = reply[t] /\ changed'[t] = changed[t] /\ path'[t] = path[t]
      BY <1>2, <1>4, <2>1 DEF Authenticate, Answer, Goto, Grant
    <3>4. pc[t] = "authenticate"
      BY <1>4 DEF Authenticate
    <3> QED
      BY <1>1, <2>1, <3>2, <3>3, <3>4 DEF Progress, Demands
  <2>2. CASE u = t /\ pc'[t] = "idle"
    <3>1. /\ pc[t] = "authenticate" /\ changed'[t] = changed[t]
          /\ reply'[t] \in {"Unauthorized", "thrown"}
      BY <1>2, <1>4, <2>2 DEF Authenticate, Answer, Goto, Grant
    <3> QED
      BY <1>1, <2>2, <3>1 DEF Progress
  <2>3. CASE u # t
    BY <1>1, <1>2, <1>4, <2>3 DEF Progress, Demands, Authenticate, Answer, Goto, Grant
  <2> QED
    BY <2>1, <2>2, <2>3
<1>5. ASSUME NEW t \in Threads, Authorize(t) PROVE Progress(u)'
  <2>1. CASE u = t /\ pc'[t] # "idle"
    <3>1. Demands(boot, path[t]) \subseteq Grants
      BY <1>5, CapturedDemands DEF TypeInv, OnRegisteredPath, Authorize
    <3>2. /\ granted'[t] = granted[t] \cup {"authorized"} /\ pc'[t] = "handle"
          /\ reply'[t] = reply[t] /\ changed'[t] = changed[t] /\ path'[t] = path[t]
          /\ pc[t] = "authorize"
      BY <1>2, <1>5, <2>1 DEF Authorize, Answer, Goto, Grant
    <3> QED
      BY <1>1, <2>1, <3>1, <3>2 DEF Progress, Demands, Grants
  <2>2. CASE u = t /\ pc'[t] = "idle"
    <3>1. /\ pc[t] = "authorize" /\ changed'[t] = changed[t]
          /\ reply'[t] \in {"Forbidden", "thrown"}
      BY <1>2, <1>5, <2>2 DEF Authorize, Answer, Goto, Grant
    <3> QED
      BY <1>1, <2>2, <3>1 DEF Progress
  <2>3. CASE u # t
    BY <1>1, <1>2, <1>5, <2>3 DEF Progress, Demands, Authorize, Answer, Goto, Grant
  <2> QED
    BY <2>1, <2>2, <2>3
<1>6. ASSUME NEW t \in Threads, UpdateConfiguration(t) PROVE Progress(u)'
  BY <1>1, <1>2, <1>6 DEF Progress, Demands, UpdateConfiguration
<1>7. ASSUME NEW t \in Threads, HandlerEnds(t) PROVE Progress(u)'
  BY <1>1, <1>2, <1>7 DEF Progress, Demands, HandlerEnds, Answer, Goto
<1>8. CASE UNCHANGED vars
  BY <1>1, <1>8 DEF Progress, Demands, vars
<1> QED
  BY <1>3, <1>4, <1>5, <1>6, <1>7, <1>8 DEF Next, Handle

LEMMA ProgressHolds == Spec => []ProgressInv
<1>1. Spec => []TypeInv
  BY InitTypeInv, StepTypeInv, PTL DEF Spec
<1> QED
  BY <1>1, InitProgress, StepProgress, PTL DEF Spec

\* No handler runs without the grants that the configuration its server was
\* started from demands for the route, for any servers, routes and threads.
THEOREM HandlersAreGuarded == Spec => []HandlersGuarded
<1>1. ProgressInv => HandlersGuarded
  BY DEF ProgressInv, Progress, HandlersGuarded
<1> QED
  BY <1>1, ProgressHolds, PTL

\* The configuration is replaced only on behalf of a request with its grants,
\* and never by one that was answered "Unauthorized" or "Forbidden".
THEOREM RefusalsHaveNoEffect == Spec => []RefusedWithoutEffect
<1>1. ProgressInv => RefusedWithoutEffect
  BY DEF ProgressInv, Progress, RefusedWithoutEffect
<1> QED
  BY <1>1, ProgressHolds, PTL

-----------------------------------------------------------------------------
(***************************************************************************)
(* Refusals have their reason: a request comes to a strategy only if its   *)
(* route demands what the strategy grants.                                 *)
(***************************************************************************)
Reason(t) ==
    /\ pc[t] = "authenticate" =>
          Demands(boot, path[t]) # {} /\ granted[t] = {}
    /\ pc[t] = "authorize" =>
          Demands(boot, path[t]) = Grants /\ granted[t] = {"authenticated"}
    /\ reply[t] = "Unauthorized" =>
          Demands(boot, path[t]) # {} /\ granted[t] = {}
    /\ reply[t] = "Forbidden" =>
          Demands(boot, path[t]) = Grants /\ granted[t] = {"authenticated"}

ReasonInv == \A t \in Threads : Reason(t)

\* The copies a route captured ask for no more than its elements demand.
LEMMA DemandsCaptured ==
    ASSUME TypeInv, NEW p \in DOMAIN handlers,
           handlers[p].route.required, handlers[p].cfg.auth
    PROVE  /\ Demands(boot, p) # {}
           /\ handlers[p].route.authorization /\ handlers[p].cfg.authorization
                 => Demands(boot, p) = Grants
<1>1. p \in Paths /\ boot.routes[p] \in XmlRoute
  BY DEF TypeInv, TypeOK, XmlServer
<1> DEFINE required == Required(boot, boot.routes[p])
           authorization == boot.routes[p].authorization
           auth == boot.auth # "absent"
           authorizes == boot.auth = "authorization"
<1>2. handlers[p] = [route |-> [required |-> required,
                                authorization |-> authorization],
                     cfg |-> [auth |-> auth, authorization |-> authorizes]]
  BY DEF TypeInv, CapturedAtBoot, LoadRoute, ResolveProtocolServer
<1> HIDE DEF required, authorization, auth, authorizes
<1>3. required /\ auth
  BY <1>2
<1>4. handlers[p].route.authorization /\ handlers[p].cfg.authorization
          => authorization /\ authorizes
  BY <1>2
<1>5. boot.auth # "absent" /\ boot.routes[p].required # "false"
  BY <1>3 DEF required, auth, Required
<1> QED
  BY <1>4, <1>5 DEF Demands, Grants, authorization, authorizes

LEMMA StepReason ==
    TypeInv /\ ProgressInv /\ ReasonInv /\ [Next]_vars => ReasonInv'
<1> SUFFICES ASSUME TypeInv, ProgressInv, ReasonInv, [Next]_vars,
                    NEW u \in Threads
             PROVE  Reason(u)'
  BY DEF ReasonInv
<1>1. Reason(u) /\ Progress(u) /\ boot' = boot
  BY DEF ReasonInv, ProgressInv, Next, Receive, Handle, Authenticate, Authorize,
         UpdateConfiguration, HandlerEnds, vars
<1>2. /\ pc \in [Threads -> {"idle", "authenticate", "authorize", "handle"}]
      /\ path \in [Threads -> Paths]
      /\ granted \in [Threads -> SUBSET Grants]
      /\ reply \in [Threads -> Replies]
  BY DEF TypeInv, TypeOK
\* A step of another thread leaves the request of u alone.
<1>3. ASSUME NEW t \in Threads, t # u, Receive(t) \/ Handle(t) PROVE Reason(u)'
  <2>1. /\ pc'[u] = pc[u] /\ path'[u] = path[u]
        /\ granted'[u] = granted[u] /\ reply'[u] = reply[u]
    BY <1>2, <1>3 DEF Receive, Handle, Authenticate, Authorize,
       UpdateConfiguration, HandlerEnds, Answer, Goto, Grant
  <2> QED
    BY <1>1, <2>1 DEF Reason, Demands
<1>4. CASE Receive(u)
  <2>1. PICK p \in DOMAIN handlers :
            /\ path' = [path EXCEPT ![u] = p]
            /\ Goto(u, IF handlers[p].route.required /\ handlers[p].cfg.auth
                       THEN "authenticate" ELSE "handle")
    BY <1>4 DEF Receive
  <2>2. /\ path'[u] = p /\ granted'[u] = {} /\ reply'[u] = "none"
        /\ pc'[u] \in {"authenticate", "handle"}
        /\ pc'[u] = "authenticate" =>
              handlers[p].route.required /\ handlers[p].cfg.auth
    BY <1>2, <1>4, <2>1 DEF Receive, Goto
  <2>3. pc'[u] = "authenticate" => Demands(boot, p) # {}
    BY <2>2, DemandsCaptured
  <2> QED
    BY <1>1, <2>2, <2>3 DEF Reason, Demands
<1>5. CASE Authenticate(u)
  <2>1. /\ pc[u] = "authenticate" /\ path'[u] = path[u]
        /\ \/ /\ granted'[u] = {"authenticated"} /\ reply'[u] = "none"
              /\ pc'[u] = IF Handler(u).route.authorization
                               /\ Handler(u).cfg.authorization
                          THEN "authorize" ELSE "handle"
           \/ /\ granted'[u] = {} /\ pc'[u] = "idle"
              /\ reply'[u] \in {"Unauthorized", "thrown"}
    BY <1>1, <1>2, <1>5 DEF Authenticate, Answer, Goto, Grant, Reason, Progress
  <2>2. ASSUME pc'[u] = "authorize" PROVE Demands(boot, path[u]) = Grants
    <3>1. path[u] \in DOMAIN handlers
      BY <2>1 DEF TypeInv, OnRegisteredPath
    <3>2. handlers[path[u]].route.authorization
          /\ handlers[path[u]].cfg.authorization
      BY <2>1, <2>2 DEF Handler
    <3>3. handlers[path[u]].route.required /\ handlers[path[u]].cfg.auth
      BY <1>1, <2>1, <3>1, CapturedDemands DEF Reason
    <3> QED
      BY <3>1, <3>2, <3>3, DemandsCaptured
  <2> QED
    BY <1>1, <2>1, <2>2 DEF Reason, Demands
<1>6. CASE Authorize(u)
  <2>1. /\ pc[u] = "authorize" /\ path'[u] = path[u]
        /\ \/ pc'[u] = "handle" /\ reply'[u] = reply[u]
           \/ /\ granted'[u] = granted[u] /\ pc'[u] = "idle"
              /\ reply'[u] \in {"Forbidden", "thrown"}
    BY <1>2, <1>6 DEF Authorize, Answer, Goto, Grant
  <2>2. reply[u] = "none"
    BY <1>1, <2>1 DEF Progress
  <2> QED
    BY <1>1, <2>1, <2>2 DEF Reason, Demands
<1>7. CASE UpdateConfiguration(u) \/ HandlerEnds(u)
  <2>1. /\ pc[u] = "handle" /\ pc'[u] \in {"handle", "idle"}
        /\ reply'[u] \in {reply[u], "response", "InternalServerError", "thrown"}
    BY <1>2, <1>7 DEF UpdateConfiguration, HandlerEnds, Answer, Goto
  <2>2. reply[u] = "none"
    BY <1>1, <2>1 DEF Progress
  <2> QED
    BY <2>1, <2>2 DEF Reason
<1>8. CASE UNCHANGED vars
  BY <1>1, <1>8 DEF Reason, Demands, vars
<1> QED
  BY <1>3, <1>4, <1>5, <1>6, <1>7, <1>8 DEF Next, Handle

\* A client is refused only where the elements of its route and server ask for
\* what it lacks, for any servers, routes and number of threads.
THEOREM RefusalsHaveReasons == Spec => []RefusedOnlyOnDemand
<1>1. Init => ReasonInv
  BY DEF Init, ReasonInv, Reason
<1>2. Spec => []TypeInv
  BY InitTypeInv, StepTypeInv, PTL DEF Spec
<1>3. ReasonInv => RefusedOnlyOnDemand
  BY DEF ReasonInv, Reason, RefusedOnlyOnDemand
<1> QED
  BY <1>1, <1>2, <1>3, StepReason, ProgressHolds, PTL DEF Spec

=============================================================================

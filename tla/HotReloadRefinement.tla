------------------------ MODULE HotReloadRefinement ------------------------
(***************************************************************************)
(* With the single writer thread that ConfigSingleton.h demands, HotReload *)
(* implements ServiceDirectory.                                            *)
(***************************************************************************)
EXTENDS HotReload

CONSTANT Writer

ASSUME SingleWriterAssumption == Workers = {Writer}

\* A request is committed by the step that assigns m_ProxyConfig, also if what
\* the parser meets after it throws, makes it loop or ends the process.
Phase ==
    CASE up /\ pc[Writer] = "idle"                            -> "idle"
      [] up /\ pc[Writer] \in {"load", "parse", "get", "set"} -> "pending"
      [] ~up \/ pc[Writer] \in {"gateway", "resolve", "looping"}
                                                         -> "committed"
      [] OTHER                                                -> "publishing"

\* A list that is being rebuilt counts as the list it is going to be.
Routes == [s \in Sockets |-> IF Rebuilding(s) THEN target[s] ELSE servers[s]]

Directory == INSTANCE ServiceDirectory
                WITH directory <- proxyConfig, routes <- Routes,
                     phase <- Phase, answer <- reply[Writer]

\* updateConfiguration and updateEndPointService, with all their steps, keep
\* the promise of ServiceDirectory: one atomic change of m_ProxyConfig per
\* request, whole lists, "ok" only when configuration and lists agree, and no
\* list touched by a request that ends in an error.
ImplementsServiceDirectory == Directory!Spec

=============================================================================

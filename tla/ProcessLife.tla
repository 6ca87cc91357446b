---------------------------- MODULE ProcessLife ----------------------------
(***************************************************************************)
(* What one proxy process promises to whatever has started it.  Its        *)
(* servers come up one by one, proxies before protocol servers before      *)
(* gateways, none that serves is withdrawn, and the process is ready when  *)
(* all of them serve.  It gives up only before it is ready; once it is, it *)
(* ends by a termination signal, and one that came earlier is kept until   *)
(* then.  A signal kills it only while nothing serves.  A protocol server  *)
(* may run a request that crashes it, and then it dies at any moment: it   *)
(* does not promise to survive its requests, only to do nothing else.      *)
(***************************************************************************)
EXTENDS Integers

CONSTANT Planned   \* Planned[k]: the numbers of servers of kind k there may be

VARIABLES
    serving,   \* serving[k]: which servers of kind k serve
    phase,     \* "starting", "ready" or "over"
    signal,    \* "none", "pending" or "taken"
    process    \* "up", "killed", "aborted", "destructing" or "gone"

vars == <<serving, phase, signal, process>>

Kinds == {"proxy", "protocol", "gateway"}

Earlier == [proxy    |-> {},
            protocol |-> {"proxy"},
            gateway  |-> {"proxy", "protocol"}]

Complete(kind) == \E n \in Planned[kind] : serving[kind] = 1 .. n

NothingServes == \A k \in Kinds : serving[k] = {}

Init ==
    /\ serving = [k \in Kinds |-> {}]
    /\ phase = "starting"
    /\ signal = "none"
    /\ process = "up"

In(here) == process = "up" /\ phase = here

Serve(kind) ==
    /\ In("starting")
    /\ \A k \in Earlier[kind] : Complete(k)
    /\ \E n \in Planned[kind] : \E m \in 0 .. n - 1 :
          /\ serving[kind] = 1 .. m
          /\ serving' = [serving EXCEPT ![kind] = 1 .. m + 1]
    /\ UNCHANGED <<phase, signal, process>>

BeReady ==
    /\ In("starting")
    /\ \A k \in Kinds : Complete(k)
    /\ phase' = "ready"
    /\ UNCHANGED <<serving, signal, process>>

GiveUp ==
    /\ In("starting")
    /\ \/ process' = "aborted" /\ UNCHANGED phase
       \/ process' = "destructing" /\ phase' = "over"
    /\ UNCHANGED <<serving, signal>>

Signal ==
    /\ process = "up"
    /\ signal = "none"
    /\ \/ signal' = "pending" /\ UNCHANGED process
       \/ NothingServes /\ process' = "killed" /\ UNCHANGED signal
    /\ UNCHANGED <<serving, phase>>

ShutDown ==
    /\ In("ready")
    /\ signal = "pending"
    /\ signal' = "taken"
    /\ process' = "destructing"
    /\ phase' = "over"
    /\ UNCHANGED serving

\* A protocol server has run a request that the process does not survive.
Crash ==
    /\ process = "up"
    /\ serving["protocol"] # {}
    /\ process' = "aborted"
    /\ UNCHANGED <<serving, phase, signal>>

Finish ==
    /\ process = "destructing"
    /\ process' \in {"gone", "aborted"}
    /\ UNCHANGED <<serving, phase, signal>>

Next ==
    \/ \E k \in Kinds : Serve(k)
    \/ BeReady
    \/ GiveUp
    \/ Signal
    \/ ShutDown
    \/ Crash
    \/ Finish

Spec == Init /\ [][Next]_vars

=============================================================================

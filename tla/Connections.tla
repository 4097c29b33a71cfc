------------------------------ MODULE Connections ------------------------------
(***************************************************************************)
(* The connections a worker publishes on.  Each is a pika connection of    *)
(* its own that the worker never reads: it may be found closed at any send *)
(* (the broker closes one that has been idle for longer than its           *)
(* heartbeat), nothing opens it again, and from then on every send on it   *)
(* raises.  The handler nacks the message it was processing, the broker    *)
(* delivers it again, and the worker processes it again from the start.    *)
(***************************************************************************)
EXTENDS Naturals

CONSTANTS
    Clients,
    MaxRetries   \* bound: redeliveries that are told apart

ASSUME RetriesAssumption == MaxRetries \in Nat

VARIABLES
    broken,      \* connections whose sends raise
    breaks,      \* bound: how many more may break
    disturbed    \* history: clients with a message whose processing raised

connectionVars == << broken, breaks, disturbed >>

Works(link) == link \notin broken /\ UNCHANGED connectionVars

\* The send that finds the connection closed, or any later one.
Raises(link, c) ==
    /\ \/ link \in broken /\ UNCHANGED breaks
       \/ link \notin broken /\ breaks > 0 /\ breaks' = breaks - 1
    /\ broken' = broken \cup {link}
    /\ disturbed' = disturbed \cup {c}

\* A counter that every redelivery increments, for ever, once it is past n.
Bounded(count, n) == IF count <= n + MaxRetries THEN count ELSE n + MaxRetries
================================================================================

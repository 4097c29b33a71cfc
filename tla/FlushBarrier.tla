----------------------------- MODULE FlushBarrier -----------------------------
(***************************************************************************)
(* What the Sum workers promise to the aggregators (README.md, 4.          *)
(* "Coordinacion en Sum"), without saying how: a client is released once,  *)
(* when no record of it is left to digest, and from then on every worker   *)
(* hands over its share, whole, once.                                      *)
(***************************************************************************)
CONSTANTS Sums, Clients, Records, ClientOf

VARIABLES
    waiting,  \* records no worker has digested yet
    held,     \* held[s]: records worker s has digested and keeps
    released, \* clients whose shares may be handed over
    out       \* records handed over to the aggregators

vars == << waiting, held, released, out >>

RecordsOf(c) == {r \in Records : ClientOf[r] = c}

Init ==
    /\ waiting = Records
    /\ held = [s \in Sums |-> {}]
    /\ released = {}
    /\ out = {}

Take(s, r) ==
    /\ r \in waiting
    /\ waiting' = waiting \ {r}
    /\ held' = [held EXCEPT ![s] = @ \cup {r}]
    /\ UNCHANGED << released, out >>

Release(c) ==
    /\ c \notin released
    /\ RecordsOf(c) \cap waiting = {}
    /\ released' = released \cup {c}
    /\ UNCHANGED << waiting, held, out >>

HandOver(s, c) ==
    /\ c \in released
    /\ held[s] \cap RecordsOf(c) # {}
    /\ held' = [held EXCEPT ![s] = @ \ RecordsOf(c)]
    /\ out' = out \cup (held[s] \cap RecordsOf(c))
    /\ UNCHANGED << waiting, released >>

Next == \E s \in Sums : \/ \E r \in Records : Take(s, r)
                        \/ \E c \in Clients : Release(c) \/ HandOver(s, c)

Spec == Init /\ [][Next]_vars

FairSpec ==
    /\ Spec
    /\ WF_vars(\E s \in Sums, r \in Records : Take(s, r))
    /\ \A c \in Clients : /\ WF_vars(Release(c))
                          /\ \A s \in Sums : WF_vars(HandOver(s, c))
=============================================================================

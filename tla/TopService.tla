------------------------------ MODULE TopService ------------------------------
(***************************************************************************)
(* What everything behind the Sum workers promises: once every Sum worker  *)
(* has flushed its share of a client, the client is answered, once, with   *)
(* the exact top of its totals.  No workers, no queues, no partial tops.   *)
(*                                                                         *)
(* Nothing is promised to a client one of whose messages met a failure,    *)
(* except that it was not answered before.                                 *)
(***************************************************************************)
EXTENDS FruitTop

CONSTANTS Sums, Clients

VARIABLES
    share,     \* share[s][c]: fruit -> amount that s digested for c; never changes
    flushes,   \* flushes[s][c]: how often s flushed c
    disturbed, \* clients with a message that met a failure
    results    \* published to the gateway's queue, all of them, in order

Total(c) ==
    [f \in UNION {DOMAIN share[s][c] : s \in Sums} |->
        MapThenSumSet(LAMBDA s : share[s][c][f],
                      {s \in Sums : f \in DOMAIN share[s][c]})]

Totals(c) == {Item(f, Total(c)[f], 0) : f \in DOMAIN Total(c)}

\* The ranking of all the fruits, cut.
ExactTop(c) ==
    SubSeq(Ranked(Totals(c)), 1,
           IF Cardinality(Totals(c)) < TopSize THEN Cardinality(Totals(c)) ELSE TopSize)

ServiceInit ==
    /\ \A s \in Sums, c \in Clients : flushes[s][c] = 0
    /\ disturbed = {} /\ results = <<>>

Unanswered(c) == \A i \in DOMAIN results : results[i].client # c

Flushed(s, c) ==
    /\ flushes[s][c] = 0
    /\ flushes' = [flushes EXCEPT ![s][c] = 1]
    /\ UNCHANGED << share, disturbed, results >>

Answer(c) ==
    /\ c \notin disturbed /\ Unanswered(c)
    /\ \A s \in Sums : flushes[s][c] = 1
    /\ results' = Append(results, Result(c, ExactTop(c)))
    /\ UNCHANGED << share, flushes, disturbed >>

\* From now on, anything may be the answer to c, and any number of them.
Disturb(c) ==
    /\ c \in disturbed \/ Unanswered(c)
    /\ disturbed' = disturbed \cup {c}
    /\ \/ UNCHANGED results
       \/ \E r \in Range(results') : r.client = c /\ results' = Append(results, r)
    /\ UNCHANGED << share, flushes >>

ServiceNext ==
    \E c \in Clients : Answer(c) \/ Disturb(c) \/ \E s \in Sums : Flushed(s, c)

serviceVars == << share, flushes, disturbed, results >>

Service == ServiceInit /\ [][ServiceNext]_serviceVars
================================================================================

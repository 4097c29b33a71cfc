-------------------------------- MODULE SumFlush --------------------------------
(***************************************************************************)
(* What a Sum worker sends to the aggregators when it flushes a client:    *)
(* a message per fruit, each to the aggregator its key selects, and then   *)
(* an EOF to every aggregator, in the order of their numbers.  (Operators  *)
(* only.)                                                                  *)
(***************************************************************************)
EXTENDS FruitTop

CONSTANT Aggregators    \* their numbers, 0 .. AGGREGATION_AMOUNT - 1

ASSUME AggregatorsAssumption ==
    IsFiniteSet(Aggregators) /\ Aggregators # {} /\ Aggregators \subseteq Nat

DataMessage(c, f, n) == [type |-> "data", client |-> c, fruit |-> f, amount |-> n]
EofMessage(c) == [type |-> "eof", client |-> c]

Sent(a, m) == [to |-> a, message |-> m]

\* Mutant: EOF only to the aggregators that got something.
MessagesIfAny(c, digest, key) ==
    {Sent(key[f], DataMessage(c, f, digest[f])) : f \in DOMAIN digest}
    \cup {Sent(key[f], EofMessage(c)) : f \in DOMAIN digest}

\* _send_digest_to_aggregators; key[f] is _calculate_routing_key of f.
Messages(c, digest, key) ==
    {Sent(key[f], DataMessage(c, f, digest[f])) : f \in DOMAIN digest}
    \cup {Sent(a, EofMessage(c)) : a \in Aggregators}

\* The order of the two loops.  The fruits are in that of the dictionary, which
\* is any.
Before(x, y) ==
    y.message.type = "eof" /\ (x.message.type = "data" \/ x.to < y.to)

\* Of msgs, those in sent are out when it is next's turn.
TurnOf(next, msgs, sent) ==
    \A x \in msgs : /\ Before(x, next) => x \in sent
                    /\ Before(next, x) => x \notin sent

\* What msgs holds of a type for aggregator a, in any order.
InLine(msgs, a, type) ==
    SetToSeq({x.message : x \in {x \in msgs : x.to = a /\ x.message.type = type}})

\* The queues after worker s has sent msgs: queues[a][s] is s's part of a's.
Delivered(queues, s, msgs) ==
    [a \in Aggregators |->
        [queues[a] EXCEPT ![s] = @ \o InLine(msgs, a, "data") \o InLine(msgs, a, "eof")]]
=================================================================================

------------------------------ MODULE Aggregation ------------------------------
(***************************************************************************)
(* The Aggregation workers: each adds up, per client, the amounts of the   *)
(* fruits routed to it, counts the EOFs of the Sum workers, and at the     *)
(* last one publishes its partial top and forgets the client.              *)
(*                                                                         *)
(* One consumer thread per worker: a message is one step.  A worker's      *)
(* queue is one FIFO per publishing connection, taken in any interleaving. *)
(* A client without an entry in fruit_items_by_client_id reads as {} in    *)
(* the code and is the function with an empty domain here; without one in  *)
(* eof_count_by_client_id it is 0.                                         *)
(***************************************************************************)
EXTENDS FruitTop, Connections

CONSTANTS Sums, Aggregators

VARIABLES
    inbox,       \* inbox[a][s]: messages of s for a, not processed yet
    fruitItems,  \* fruitItems[a][c]: fruit -> amount
    eofCount,    \* eofCount[a][c]
    partialTops  \* partialTops[a]: published to Join's queue, not taken yet

OutputOf(a) == << "aggregation", a >>

PartialTop(c, top) == [client |-> c, top |-> top]

NoItems == [f \in {} |-> 0]

AmountIn(items, f) == IF f \in DOMAIN items THEN items[f] ELSE 0

\* FruitItem.__add__ into the client's dictionary
AddTo(items, f, n) ==
    [g \in DOMAIN items \cup {f} |-> IF g = f THEN AmountIn(items, f) + n ELSE items[g]]

\* _find_top_fruits
FindTopFruits(items) == OfferAll({}, {Item(f, items[f], 0) : f \in DOMAIN items})

AggregationInit ==
    /\ inbox = [a \in Aggregators |-> [s \in Sums |-> <<>>]]
    /\ fruitItems = [a \in Aggregators |-> [c \in Clients |-> NoItems]]
    /\ eofCount = [a \in Aggregators |-> [c \in Clients |-> 0]]
    /\ partialTops = [a \in Aggregators |-> <<>>]

Take(a, s) ==
    /\ inbox[a][s] # <<>>
    /\ inbox' = [inbox EXCEPT ![a][s] = Tail(@)]

ProcessData(a, s) ==
    /\ Take(a, s)
    /\ LET m == Head(inbox[a][s]) IN
          /\ m.type = "data"
          /\ fruitItems' = [fruitItems EXCEPT ![a][m.client] = AddTo(@, m.fruit, m.amount)]
    /\ UNCHANGED << eofCount, partialTops, connectionVars >>

\* Mutant: one EOF too few.
LastEofEarly(a, c) == eofCount[a][c] + 2 >= Cardinality(Sums)

\* _should_calculate_top
ShouldCalculateTop(a, c) == eofCount[a][c] + 1 >= Cardinality(Sums)

CountEof(a, s) ==
    /\ Take(a, s)
    /\ LET m == Head(inbox[a][s]) IN
          /\ m.type = "eof"
          /\ ~ShouldCalculateTop(a, m.client)
          /\ eofCount' = [eofCount EXCEPT ![a][m.client] = @ + 1]
    /\ UNCHANGED << fruitItems, partialTops, connectionVars >>

LastEof(a, s) ==
    /\ inbox[a][s] # <<>> /\ Head(inbox[a][s]).type = "eof"
    /\ ShouldCalculateTop(a, Head(inbox[a][s]).client)

Publish(a, c) ==
    partialTops' = [partialTops EXCEPT ![a] =
                       Append(@, PartialTop(c, FindTopFruits(fruitItems[a][c])))]

\* Mutant: the client stays in the dictionaries.
SendAndKeep(a, s) ==
    /\ LastEof(a, s) /\ Take(a, s) /\ Works(OutputOf(a))
    /\ LET c == Head(inbox[a][s]).client IN
          /\ Publish(a, c)
          /\ eofCount' = [eofCount EXCEPT ![a][c] = @ + 1]
    /\ UNCHANGED fruitItems

SendPartialTop(a, s) ==
    /\ LastEof(a, s) /\ Take(a, s) /\ Works(OutputOf(a))
    /\ LET c == Head(inbox[a][s]).client IN
          /\ Publish(a, c)
          /\ fruitItems' = [fruitItems EXCEPT ![a][c] = NoItems]
          /\ eofCount' = [eofCount EXCEPT ![a][c] = 0]

\* The EOF has been counted when the send raises; it comes back behind what is
\* already on its way, and is counted again.  The send on which the connection
\* broke may have reached the broker.
SendPartialTopFails(a, s) ==
    /\ LastEof(a, s)
    /\ LET c == Head(inbox[a][s]).client IN
          /\ Raises(OutputOf(a), c)
          /\ eofCount' = [eofCount EXCEPT ![a][c] = Bounded(@ + 1, Cardinality(Sums))]
          /\ \/ UNCHANGED partialTops
             \/ OutputOf(a) \notin broken /\ Publish(a, c)
    /\ inbox' = [inbox EXCEPT ![a][s] = Append(Tail(@), Head(@))]
    /\ UNCHANGED fruitItems

AggregationStep(a, s) ==
    \/ ProcessData(a, s) \/ CountEof(a, s)
    \/ SendPartialTop(a, s) \/ SendPartialTopFails(a, s)
================================================================================

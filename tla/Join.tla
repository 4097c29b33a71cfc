--------------------------------- MODULE Join ---------------------------------
(***************************************************************************)
(* The Join worker: it offers the items of every partial top of a client   *)
(* to one heap, counts the partial tops, and at the last one publishes the *)
(* sorted heap as the client's result and forgets the client.              *)
(*                                                                         *)
(* One consumer thread: a message is one step.  The items of a partial top *)
(* carry the number of the message they came in, so that a fruit that      *)
(* comes twice is two items of the heap, as it is in the code's list.      *)
(***************************************************************************)
EXTENDS FruitTop, Connections

CONSTANTS Aggregators

VARIABLES
    partialTops, \* partialTops[a]: sent by aggregator a
    topHeap,     \* topHeap[c]: partial_top_heap_by_client_id
    received,    \* received[c]: messages_received_by_client_id
    results      \* published to the gateway's queue, all of them, in order

Output == << "join" >>

\* _update_client_top: the client's heap after the items of m
UpdateClientTop(m) ==
    OfferAll(topHeap[m.client],
             {[item EXCEPT !.part = received[m.client]] : item \in m.top})

JoinInit ==
    /\ topHeap = [c \in Clients |-> {}]
    /\ received = [c \in Clients |-> 0]
    /\ results = <<>>

Receive(a) ==
    /\ partialTops[a] # <<>>
    /\ partialTops' = [partialTops EXCEPT ![a] = Tail(@)]

\* Mutant: the final top leaves with the last but one partial top.
LastPartialTopEarly(c) == received[c] + 2 >= Cardinality(Aggregators)

LastPartialTop(c) == received[c] + 1 >= Cardinality(Aggregators)

KeepPartialTop(a) ==
    /\ Receive(a)
    /\ LET m == Head(partialTops[a]) IN
          /\ ~LastPartialTop(m.client)
          /\ topHeap' = [topHeap EXCEPT ![m.client] = UpdateClientTop(m)]
          /\ received' = [received EXCEPT ![m.client] = @ + 1]
    /\ UNCHANGED << results, connectionVars >>

Publish(m) == results' = Append(results, Result(m.client, Ranked(UpdateClientTop(m))))

SendFinalResults(a) ==
    /\ Receive(a) /\ Works(Output)
    /\ LET m == Head(partialTops[a]) IN
          /\ LastPartialTop(m.client)
          /\ Publish(m)
          /\ topHeap' = [topHeap EXCEPT ![m.client] = {}]
          /\ received' = [received EXCEPT ![m.client] = 0]

\* The items are in the heap and the message is counted when the send raises;
\* redelivered, it is offered and counted again.  (See SendPartialTopFails.)
SendFinalResultsFails(a) ==
    /\ partialTops[a] # <<>>
    /\ LET m == Head(partialTops[a]) IN
          /\ LastPartialTop(m.client)
          /\ Raises(Output, m.client)
          /\ topHeap' = [topHeap EXCEPT ![m.client] = UpdateClientTop(m)]
          /\ received' = [received EXCEPT ![m.client] =
                              Bounded(@ + 1, Cardinality(Aggregators))]
          /\ \/ UNCHANGED results
             \/ Output \notin broken /\ Publish(m)
    /\ partialTops' = [partialTops EXCEPT ![a] = Append(Tail(@), Head(@))]

JoinStep(a) == KeepPartialTop(a) \/ SendFinalResults(a) \/ SendFinalResultsFails(a)
================================================================================

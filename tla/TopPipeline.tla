------------------------------ MODULE TopPipeline ------------------------------
(***************************************************************************)
(* Everything behind the Sum workers: their flush partitions a client's    *)
(* digest among the Aggregation workers, each of those sends a partial top *)
(* to Join, and Join publishes the client's result.                        *)
(*                                                                         *)
(* What each Sum digested ("share") and where the hash sends a fruit       *)
(* ("route") are arbitrary and fixed.  A flush is one step: its messages   *)
(* go to FIFO queues and the Sum reads nothing in between.  Any connection *)
(* of a worker towards the next may break: a flush then stops half-way and *)
(* the redelivered Ok starts it over, for the digest is deleted last.      *)
(***************************************************************************)
EXTENDS SumFlush, Connections

CONSTANTS
    Sums,
    Inputs        \* what is digested, what the hash does, how many connections break

IsDigest(d) ==
    /\ DOMAIN d \subseteq Fruits /\ IsFiniteSet(DOMAIN d)
    /\ \A f \in DOMAIN d : d[f] \in Nat

ASSUME PipelineAssumption ==
    /\ IsFiniteSet(Sums) /\ Sums # {}
    /\ \A input \in Inputs :
          /\ DOMAIN input.share = Sums
          /\ \A s \in Sums : /\ DOMAIN input.share[s] = Clients
                             /\ \A c \in Clients : IsDigest(input.share[s][c])
          /\ input.route \in [Clients \X Fruits -> Aggregators]
          /\ input.breaks \in Nat

VARIABLES
    share, route,
    tries,        \* tries[s][c]: how often s received the Ok of c and failed
    flushes,      \* flushes[s][c]: how often s received it and flushed
    inbox, fruitItems, eofCount, partialTops, topHeap, received, results

flushVars == << share, route, tries, flushes >>

vars == << flushVars, connectionVars, inbox, fruitItems, eofCount, partialTops,
           topHeap, received, results >>

A == INSTANCE Aggregation
J == INSTANCE Join

Init ==
    /\ \E input \in Inputs :
          share = input.share /\ route = input.route /\ breaks = input.breaks
    /\ tries = [s \in Sums |-> [c \in Clients |-> 0]]
    /\ flushes = [s \in Sums |-> [c \in Clients |-> 0]]
    /\ broken = {} /\ disturbed = {}
    /\ A!AggregationInit
    /\ J!JoinInit

\* Mutant: the hash takes in the worker, as if each had a seed of its own.
RouteOfWorker(s, c, f) ==
    IF s = CHOOSE x \in Sums : TRUE THEN route[c, f]
    ELSE CHOOSE a \in Aggregators : Cardinality(Aggregators) = 1 \/ a # route[c, f]

\* _calculate_routing_key
RoutingKey(s, c, f) == route[c, f]

OutputTo(s, a) == << "sum", s, a >>

FlushOf(s, c) ==
    Messages(c, share[s][c], [f \in DOMAIN share[s][c] |-> RoutingKey(s, c, f)])

\* _process_control_ok
Flush(s, c) ==
    /\ flushes[s][c] = 0
    /\ \A a \in Aggregators : OutputTo(s, a) \notin broken
    /\ flushes' = [flushes EXCEPT ![s][c] = 1]
    /\ UNCHANGED << share, route, tries, connectionVars, fruitItems, eofCount,
                    partialTops, topHeap, received, results >>
    /\ inbox' = Delivered(inbox, s, FlushOf(s, c))

\* A send raises: the messages before it are out, and it may be itself when the
\* connection broke on it.
FlushFails(s, c) ==
    /\ flushes[s][c] = 0 /\ tries[s][c] <= MaxRetries
    /\ tries' = [tries EXCEPT ![s][c] = @ + 1]
    /\ UNCHANGED << share, route, flushes, fruitItems, eofCount, partialTops,
                    topHeap, received, results >>
    /\ \E sent \in SUBSET FlushOf(s, c), next \in FlushOf(s, c) :
          /\ next \notin sent /\ TurnOf(next, FlushOf(s, c), sent)
          /\ \A x \in sent : OutputTo(s, x.to) \notin broken
          /\ Raises(OutputTo(s, next.to), c)
          /\ \/ inbox' = Delivered(inbox, s, sent)
             \/ /\ OutputTo(s, next.to) \notin broken
                /\ inbox' = Delivered(inbox, s, sent \cup {next})

SumWorker(s, c) == Flush(s, c) \/ FlushFails(s, c)

\* Messages of one Sum for one aggregator.
AggregationWorker(a, s) ==
    /\ UNCHANGED << flushVars, topHeap, received, results >>
    /\ A!AggregationStep(a, s)

JoinWorker(a) ==
    /\ UNCHANGED << flushVars, inbox, fruitItems, eofCount >>
    /\ J!JoinStep(a)

Next ==
    \/ \E s \in Sums, c \in Clients : SumWorker(s, c)
    \/ \E a \in Aggregators, s \in Sums : AggregationWorker(a, s)
    \/ \E a \in Aggregators : JoinWorker(a)

Spec == Init /\ [][Next]_vars

FairSpec ==
    /\ Spec
    /\ \A s \in Sums, c \in Clients : WF_vars(SumWorker(s, c))
    /\ \A a \in Aggregators, s \in Sums : WF_vars(AggregationWorker(a, s))
    /\ \A a \in Aggregators : WF_vars(JoinWorker(a))

-----------------------------------------------------------------------------
PartialTops == [client : Clients, top : {h \in SUBSET Items : Cardinality(h) <= TopSize}]

\* The domains of the variables; no top is larger than TOP_SIZE, and only the
\* messages of a disturbed client make a worker count past its last message.
TypeOK ==
    /\ \E input \in Inputs :
          /\ share = input.share /\ route = input.route
          /\ Cardinality(broken) + breaks = input.breaks
    /\ tries \in [Sums -> [Clients -> 0 .. MaxRetries + 1]]
    /\ flushes \in [Sums -> [Clients -> 0 .. 1]]
    /\ disturbed \subseteq Clients
    /\ \A a \in Aggregators : partialTops[a] \in Seq(PartialTops)
    /\ \A c \in Clients :
          /\ topHeap[c] \subseteq Items /\ Cardinality(topHeap[c]) <= TopSize
          /\ \A a \in Aggregators : IsDigest(fruitItems[a][c])
          /\ c \notin disturbed =>
                /\ \A a \in Aggregators : eofCount[a][c] < Cardinality(Sums)
                /\ received[c] < Cardinality(Aggregators)

\* A failure stays with the clients whose messages it hit: the results of the
\* others are those of a pipeline without failures.
Undisturbed(c) == c \notin disturbed

Service == INSTANCE TopService

Answered(c) == \E i \in DOMAIN results : results[i].client = c

\* However the digests are split, whatever the hash does and in whatever order
\* the workers run, a client's result is the exact top of its totals: partial
\* tops of disjoint partitions lose nothing.
ExactAnswers ==
    \A i \in DOMAIN results :
        Undisturbed(results[i].client) =>
            results[i].top = Service!ExactTop(results[i].client)

\* Nothing of a client stays behind once it is answered: the dictionaries of
\* Aggregation and Join do not grow with the clients served.
NothingLeftBehind ==
    \A c \in Clients :
        Undisturbed(c) /\ Answered(c) =>
            /\ \A a \in Aggregators : fruitItems[a][c] = A!NoItems /\ eofCount[a][c] = 0
            /\ topHeap[c] = {} /\ received[c] = 0

\* The pipeline does what TopService promises: every undisturbed client is
\* answered once, after its last flush, with its exact top, and a failure never
\* meets a message of a client that was answered.
ImplementsService == Service!Service

\* Every client gets its result in the end, unless a send of its messages
\* raised: a connection nobody uses for it delays it not at all.
EveryClientAnswered == <>(\A c \in Clients : Answered(c) \/ ~Undisturbed(c))
================================================================================

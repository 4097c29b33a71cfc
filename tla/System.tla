--------------------------------- MODULE System ---------------------------------
(***************************************************************************)
(* The pipeline from the gateway's publications to the results: the Sum    *)
(* workers of SumCluster, whose batches go to the aggregators as the       *)
(* messages of SumFlush, the Aggregation workers and Join.                 *)
(*                                                                         *)
(* The handlers of one Sum worker do not overlap (AtomicSpec), all workers *)
(* listen from the start and every publication succeeds: what is left that *)
(* can go wrong is the protocol's.                                         *)
(***************************************************************************)
EXTENDS SumCluster, SumFlush

CONSTANTS
    FruitOf, AmountOf,   \* the fruit and the amount of each record
    Route                \* what the hash of a client and a fruit selects

ASSUME SystemAssumption ==
    /\ IsFiniteSet(Sums) /\ Sums # {}
    /\ FruitOf \in [Records -> Fruits] /\ AmountOf \in [Records -> Nat]
    /\ Route \in [Clients \X Fruits -> Aggregators]
    /\ InitiallyListening = Sums

VARIABLES toAggregators, fruitItems, eofCount, partialTops, topHeap, received, results

aggregatorVars == << toAggregators, fruitItems, eofCount, partialTops >>
joinVars == << topHeap, received, results >>

systemVars == << vars, aggregatorVars, joinVars >>

A == INSTANCE Aggregation WITH
         inbox <- toAggregators, broken <- {}, breaks <- 0, disturbed <- {}, MaxRetries <- 0
J == INSTANCE Join WITH
         broken <- {}, breaks <- 0, disturbed <- {}, MaxRetries <- 0

SystemInit == Init /\ A!AggregationInit /\ J!JoinInit

\* Mutant: amounts of a fruit overwrite each other.
LastAmount(records) ==
    [f \in {FruitOf[r] : r \in records} |->
        AmountOf[CHOOSE r \in records : FruitOf[r] = f]]

\* ClientDigest.digest, record by record: the amounts of a fruit add up.
DataPerFruit(records) ==
    FoldSet(LAMBDA r, digest : A!AddTo(digest, FruitOf[r], AmountOf[r]), A!NoItems, records)

\* A batch leaves its worker as messages to the aggregators.
Ship(s) ==
    toAggregators' =
        IF shipped'[s] = shipped[s] THEN toAggregators
        ELSE LET batch == Last(shipped'[s])
                 digest == DataPerFruit(batch.records)
                 key == [f \in DOMAIN digest |-> Route[batch.txn, f]]
             IN Delivered(toAggregators, s, Messages(batch.txn, digest, key))

downstream == << fruitItems, eofCount, partialTops, joinVars >>

Publisher == UNCHANGED << toAggregators, downstream >> /\ Gateway
Data(s) == UNCHANGED << toAggregators, downstream >> /\ DataThread(s) /\ HandlersDisjoint'
Sender(s) == UNCHANGED << toAggregators, downstream >> /\ SenderThread(s)
Receiver(s) == UNCHANGED downstream /\ ReceiverThread(s) /\ HandlersDisjoint' /\ Ship(s)

AggregationWorker(a) ==
    UNCHANGED << vars, joinVars >> /\ \E s \in Sums : A!AggregationStep(a, s)
JoinWorker ==
    /\ UNCHANGED << vars, toAggregators, fruitItems, eofCount >>
    /\ \E a \in Aggregators : J!JoinStep(a)

SystemNext ==
    \/ Publisher
    \/ \E s \in Sums : Data(s) \/ Sender(s) \/ Receiver(s)
    \/ \E a \in Aggregators : AggregationWorker(a)
    \/ JoinWorker

SystemSpec == SystemInit /\ [][SystemNext]_systemVars

FairSystemSpec ==
    /\ SystemSpec
    /\ WF_systemVars(Publisher)
    /\ \A s \in Sums : /\ WF_systemVars(Data(s))
                       /\ WF_systemVars(Sender(s))
                       /\ WF_systemVars(Receiver(s))
    /\ \A a \in Aggregators : WF_systemVars(AggregationWorker(a))
    /\ WF_systemVars(JoinWorker)

-----------------------------------------------------------------------------
\* The ranking of everything client c uploaded, cut.
ExactTop(c) ==
    LET total(f) == MapThenSumSet(LAMBDA r : AmountOf[r], {r \in RecordsOf(c) : FruitOf[r] = f})
        ranking == Ranked({Item(f, total(f), 0) : f \in {FruitOf[r] : r \in RecordsOf(c)}})
    IN SubSeq(ranking, 1, IF Len(ranking) < TopSize THEN Len(ranking) ELSE TopSize)

FlushedTwice(c) ==
    \E s \in Sums : \E i, j \in DOMAIN shipped[s] :
        i # j /\ shipped[s][i].txn = c /\ shipped[s][j].txn = c

\* From upload to result: whichever worker digested a record, became master or
\* flushed first, a client is answered at most once and with the exact top of
\* what it uploaded, unless a repeated Ok made a worker flush it again.  True
\* of the schedules with disjoint handlers; where a record's digestion and its
\* report are interrupted by a Commit, a top can miss records.
ExactUnlessRepeated ==
    \A i \in DOMAIN results :
        LET c == results[i].client IN
        \/ FlushedTwice(c)
        \/ /\ results[i].top = ExactTop(c)
           /\ \A j \in DOMAIN results : results[j].client = c => j = i

\* Every client gets a result, whatever Oks are repeated.
EveryClientAnswered ==
    \A c \in Clients : <>(\E i \in DOMAIN results : results[i].client = c)

\* README.md:113, more Sum instances "sin introducir inconsistencias": every
\* result is the exact top.
EveryAnswerExact ==
    \A i \in DOMAIN results : results[i].top = ExactTop(results[i].client)
=================================================================================

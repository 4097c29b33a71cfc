# Verification of the fruit-top pipeline

TLA+ models, TLC runs and TLAPS proofs for the system under `src/python/src`: clients upload
(fruit, amount) records to a gateway; `Sum` workers add them up; `Aggregation` workers rank
partitions of the totals; `Join` ranks the partial tops; the gateway answers each client with its
top. All communication behind the gateway goes through RabbitMQ.

## 1. Inventory

| Component (source) | State | Operations | Talks to |
|---|---|---|---|
| Client (`client/main.py`) | where its conversation stands | connect, send a record, send END_OF_RECODS, read an answer, read the top, disconnect | gateway, by TCP |
| Gateway main (`gateway/main.py`) | `client_list`, pool of processes | accept: append to `client_list`, submit an upload task | pool, manager process |
| Gateway upload task (`handle_client_request`) | the client's message handler (its id, its count of records) | forward a record, forward the EOF with the count, acknowledge | client, Sum's queue |
| Gateway response task (`_consume_result`) | scan index, one result at a time | scan `client_list`, send the top, wait for its ACK, remove the entry, ack or nack-and-stop | every client, results queue |
| Sum data thread (`sum/main.py`) | shares `DigestPool`, `TransactionsMonitor`, `MastersRoutingKeyByTransactionId` | digest a record, report it to the master if there is one; open a transaction at an EOF | sender's queue |
| Sum control receiver (`control_plane_receiver.py`) | the same structures, the connections to the aggregators | Commit: register the master, answer with the count; TryingReady: add, maybe Ok; Ok: flush, forget the client | sender's queue, aggregators |
| Sum control sender (`control_plane_sender.py`) | a queue of envelopes, one connection to broadcast and one per worker | publish the next envelope, or log and drop it | control exchange |
| Aggregation (`aggregation/main.py`) | totals and EOF count per client | add an amount, count an EOF, publish a partial top | Join's queue |
| Join (`join/main.py`) | heap and count per client | add a partial top, publish the result | results queue |
| Middleware (`middleware_rabbitmq.py`) | connection, channel | declare, bind when consuming starts, publish, ack, nack | broker |
| Protocols (`message_protocol/`) | none | JSON lists inside, length-prefixed binary outside | |
| Shutdown of the workers (`sum/main.py`, `aggregation/main.py`, `join/main.py`, the middleware's `request_stop_consuming_threadsafe`) | `_shutdown_started`, `_shutdown_lock`, `_stopped`, the state of the sender's queue | SIGTERM handler, `finally` clause, joins of the threads | the main thread and both control threads of one worker |
| Output verifier (`verify_output.py`) | none | compares a client's output with the ranking of its input | files |
| Go skeleton (`src/golang`) | | the course's starting point, single client, unmodified | |

What is hard here:

* the closing of a client is a distributed count among workers that keep counting while they are
  asked, on three kinds of connection with no order between them, with two threads per worker on
  structures that are locked one by one;
* `Aggregation` and `Join` count messages without asking whose they are, so they depend on each
  `Sum` flushing exactly once;
* `client_list` is scanned entry by entry in another process while the main process appends to it,
  and the index is used again after waiting for a client;
* two processes write to one client's socket;
* control queues exist only once their worker consumes; failed control messages are dropped;
  everything is nacked and redelivered when a handler raises, and a publishing connection that
  broke once stays broken;
* Python runs a signal handler in the main thread, on top of whatever it interrupts, and the handler
  takes locks;
* the sequential code has limits that no message of the small scenarios reaches: a hash whose high
  bytes vanish modulo a power of two, lengths counted in characters, totals beyond a uint32.

What makes each part correct: `Sum` — one master per client, every record counted and flushed once,
nothing flushed before the last record is digested, every client flushed in the end; `Aggregation`
and `Join` — the result is the exact top of the totals whatever the partition, once per client,
nothing left in memory; gateway — a top reaches its own client, after the last ACK, entries are
removed only when served, every client is served and no upload is stuck; shutdown — the worker ends,
and loses nothing that it had not been told to drop.

The hazards, each at its line with the properties that look at it, are in `PROJECT.json`.

## 2. Modules

| Module | What it is |
|---|---|
| `SumCluster` | the Sum workers: data, receiver and sender threads, shared structures, control exchange |
| `FlushBarrier` | what the Sum workers promise: take, release, hand over |
| `FruitTop` | the order of `FruitItem`, the bounded heap, the ranking (operators only) |
| `StreamTop` | the heap's loop as a state machine, for any order of arrival |
| `SumFlush` | the messages of a flush and how they reach the aggregators' queues (operators only) |
| `Connections` | publishing connections that break and stay broken, and what that does to a handler |
| `Aggregation`, `Join` | one step per message of each worker, and the step whose send raises |
| `TopPipeline` | a Sum's flush, the aggregators and Join composed by `INSTANCE` on shared queues |
| `TopService` | what `TopPipeline` promises: one exact answer per client, unless a failure meets one of its messages before |
| `System` | `SumCluster`, `SumFlush`, `Aggregation` and `Join` composed: from the gateway's publications to the results |
| `Client` | the client process and its connection |
| `Gateway` | `Client` plus the main process, the upload tasks and the response task |
| `Shutdown` | how a Sum worker, or a filter, ends |
| `Routing`, `ExternalProtocol`, `Verifier` | the hash, the bytes between client and gateway, `verify_output.py`: pure functions |
| `SumClusterProofs`, `SumCountProofs` | theorems about `SumCluster` |
| `FruitTopProofs` | what the heap, the ranking and the sums compute: theorems about operators |
| `StreamTopProofs`, `PipelineProofs` | theorems about `StreamTop` and `Verifier`, and about `TopPipeline`, from those |
| `SystemProofs` | exactness from upload to result: the theorem about `System`, from those about its halves |
| `GatewayProofs`, `ShutdownProofs` | theorems about `Gateway` and `Shutdown` |
| `MC…` | values of the constants for TLC |

A definition whose comment begins with "Mutant:" is a wrong version of the one that follows it, kept
to show that the properties notice it; no specification uses it.

How the state corresponds to the code:

* **SumCluster.** A record is an opaque value, a digest the set of records in it: its size is
  `cant_data_processed`. `digestPool`, `transactions` and `masterOf` are the three mutex-protected
  structures. `data[s]` and `recv[s]` say between which two critical sections a thread stands and
  what it holds in local variables. `senderQueue` is `control_sender_queue`; `casts` and `directs`
  are the publications on the broadcast connection and on the connection per worker, one FIFO per
  connection and reader. One step is one critical section; a following `put` on the sender's queue
  belongs to the step when no other thread can tell the difference (the comments say so). A handler
  such as `_process_control_ok` is therefore several actions in a fixed order, each enabled only by
  the one before. `listening` and `brokenCast`/`brokenDirect` model queues bound late and
  connections that break; `lost` remembers that a control message's send raised, or that a worker it
  was meant for had no queue yet. `ReportProgress` takes the look-up of the master and the `put`
  that follows as one step: between them the receiver may finish the client's Ok, so in the code a
  report can also enter the sender's queue just after that; it is the report of a record digested
  before, and nothing the receiver does in between depends on it. `shipped[s]` is history: every
  batch sent to the aggregators.
* **System.** Gives each record a fruit and an amount and turns every batch of `SumCluster` into the
  messages of `SumFlush`. What the aggregators and Join do is the same `Aggregation` and `Join` as
  in `TopPipeline`, on connections that do not break.
* **TopPipeline.** `share` is what each Sum digested, `route` the result of the hash: both arbitrary
  and constant in a behaviour. A flush appends, for each aggregator, the data messages routed to it
  and an EOF. `fruitItems`, `eofCount`, `topHeap`, `received` are the dictionaries of the code; a
  missing entry is the value its `.get` yields. `results` keeps everything published.
  `_find_top_fruits` and `_update_client_top` are a fold of `Offer`; fruits are numbers (the rank of
  their names) and a heap list is the set of its items, `part` telling equal ones apart.
  Any connection from one worker towards the next may break at any send. The handler then nacks, the
  message comes again, and the handler starts from the beginning: a flush repeats its first sends, an
  aggregator counts the EOF a second time, Join counts the partial top a second time. `disturbed` is
  history: the clients one of whose messages met such a failure.
* **Gateway.** `clientList` is read one entry per step (`SkipClient`, `SendTop`, `ScanEnds`), as the
  proxy does. The pool is a bound on the tasks that run at once; the response task counts until it
  stops. A client that leaves makes a read or a write on its socket fail in either of the two ways
  the code tells apart. A publication of an upload may fail, and a total may not fit a uint32. The
  workers behind the gateway are one step each time they publish a result. They promise nothing:
  `Answer` is a client's first top, `AnswerAstray` a result that is empty (a client without records, an
  Ok repeated after the digests were flushed) or repeats another; neither need ever happen.
* **Shutdown.** The main thread is a stack: `start` at the bottom, calls of `request_shutdown` above
  it, pushed by a signal between any two steps or by the `finally` clause. `put` is two steps, inside
  of which the mutex of `queue.Queue` is held; `request_shutdown` holds `_shutdown_lock` between
  `lock` and `locked`. `request_stop_consuming_threadsafe` leaves a callback that is found even by a
  consumer that starts later. The control threads are never interrupted. The
  sender's publication may raise (`SendFails`): the envelope is logged and dropped, `dropped` counts it,
  and the sender goes on. A filter is the same program
  without control threads.
* **Routing, ExternalProtocol, Verifier.** Operators that mirror the functions, and one variable each
  for the case that is looked at. Names are sequences of bytes; characters are the sequences of their
  UTF-8 bytes; a number takes `Uint32Size` bytes.

## 3. Runs

| Run | Instance | Shows |
|---|---|---|
| `sum_two_workers` | 2 workers, 1 client, 3 records, all interleavings, control queues bound at any time, one connection may break at any point | `TypeOK`, `SingleMaster`, `ShippedAtMostOnce`, `NoStaleMaster`, `NoUndercount` (the last when nothing was lost) |
| `sum_premature_flush` | 2 workers, 1 client, 2 records, all interleavings | violation, see section 6 |
| `system` | 2 Sums, 2 aggregators, Join, 1 client, 3 records of 2 fruits, `TopSize` 1, handlers of a Sum apart | `NoPrematureFlush`, `ExactUnlessRepeated`, refinement of `FlushBarrier` with its liveness, `EveryClientAnswered` |
| `system_repeated_ok` | the same | violation |
| `pipeline` | 2 Sums, 2 aggregators, 2 clients, 3 fruits, `TopSize` 2; five pairs of digests of the first client times every partition of its fruits; for one input more, any one connection breaks at any point | `TypeOK`, `ExactAnswers`, `NothingLeftBehind`, refinement of `TopService`, `EveryClientAnswered` |
| `gateway` | 3 clients with 0, 2 and 1 records on a pool of 2; the second may leave at any point and its top may overflow, the third may lose the broker; early results, or none, and one that is empty or repeated | `TypeOK`, `ListedUntilServed`, `TopIsOwn`, `TakesTurns`, `StopsForCause`, `OnlyServedRemoved`, `EveryUploadReturns`, `EveryClientAnswered` |
| `gateway_client_leaves`, `gateway_early_top` | 2 clients, one reason each | violations |
| `shutdown` | a Sum worker or a filter, 2 messages per queue, 2 signals at any instruction, one consumer whose connection is lost, sends that fail | `TypeOK`, `OneCauseOnlyInPut`, `EnvelopesAccounted`, `ClosedWhenUnused`, `EndsUnlessSelfDeadlocked` |
| `shutdown_deadlock` | one message, one signal | violation |
| `pure_functions` | the heap: 8 items with ties and a repeated fruit, `TopSize` 3, every order; the bytes: tops of up to two records; the verifier: every input of up to 3 fruits against every output | `TypeOK`, `HeapIsTop`, `RecordsCarried`, `TopsCarried`, `AcceptsExactTop` |
| `partition_by_client` | 26 fruits, 6 client ids, 1 to 8 aggregators | violation |

**Bounds and why they are enough.** Two Sum workers already give a master and a non-master, a
Commit that meets another worker's data thread, and reports that cross; with three records the
master, the snapshot and a report each get one. `MaxBroken` 1 lets any one connection break at any
point. In `system` the record of the leading fruit is split over the Sums in every way, and only the
sum of its two amounts puts it first, so that a record flushed late or lost changes the answer. Two
aggregators and three fruits with a top of two put every combination of "in the partial top", "cut"
and "routed elsewhere" in play, and amounts 1 and 2 summed over two Sums tie and overtake; the second
client has one fruit in one Sum, so that its messages stand between the first client's in every
queue. `MaxRetries` 1 tells one redelivery from none: each further one of the same message does the
same again (`Bounded` in `Connections`). Three clients on a pool of two make uploads wait while the
response task scans past other entries; the pool of one (one CPU), where the response task starves
every upload and no client is ever served, is not run. `MaxStrays` 1: a single stray result already stops
the responses or takes another's entry. Two signals are what it takes to interrupt a handler by a
handler; two messages per queue put one in a thread's hands and one behind it. `Uint32Size` is 2
instead of 4: the code's arithmetic is the same per byte and the numbers beyond it become small.

Deadlock is not checked: in every module the work is finite and the system stops when it is done, or,
in the violations, when it is stuck — which is what the liveness properties look for.

**Conditions in the properties.** Some failures are known (section 6), and the passing runs keep them
inside and say what is left around them:

* `ForNobody` (gateway): the result at hand is empty (as false as `None`), or of a client that has no
  entry any more. The scan then ends past the last entry, and the pop either raises, and the response
  process stops for good, or removes the entry of a client accepted in the meantime, which is never
  answered. The workers publish such results: for a client without records, and a second one when an
  Ok is repeated (`system_repeated_ok`). `OnlyServedRemoved` and `StopsForCause` look at the result at
  hand only, so they still say something of every other one after a stray; `ListedUntilServed` and
  `EveryClientAnswered` are about the clients a stray may have hurt, so they have `strays`, the
  history of such results.
* `TopArrived` (gateway): a client is answered only if its top arrives. The workers may never
  publish it (a count that overshot its total, a lost Commit), and the gateway cannot make them.
* `Undisturbed` (pipeline): clients none of whose messages met a broken connection. Without it
  `ExactAnswers` is violated: an Ok that is nacked half-way through its flush is flushed again from
  the start, amounts are added twice, EOFs are counted twice, and a wrong top is published. What the
  run shows is that the damage stays with that client, although all clients share the dictionaries,
  the queues and the broken connection.
* `ExactUnlessRepeated` (system): unless a worker flushed the client twice.
* `NoUndercount` (Sum cluster): a closing that is stuck although nothing was lost has counted a record
  twice and overshot its total. It never waits for a record that nobody will report.
* `SelfDeadlocked` (shutdown): the main thread waits for a lock of its own.

**Fairness.** Weak, per thread or process: a thread that can take its next step eventually does (the
operating system schedules it; no lock is held across a step, except where `Shutdown` says so). A
client that has connected is fair (one that stops without disconnecting blocks its upload task and
is outside of what the code handles); connecting, leaving, broken connections, signals and lost
consumers are never fair, and neither are the results that the workers send to the gateway, the
failed sends and the redeliveries that nobody owes. Deliveries are part of the reader's step. `WF`
of a reader is the assumption that RabbitMQ is up.

`AtomicSpec` is `FairSpec` restricted to the schedules in which the data thread and the receiver
thread of one worker do not interleave inside a message (`HandlersDisjoint`); `System` makes the same
restriction. It separates what the protocol gets right from what its thread structure gets wrong:
under it the barrier is implemented; without it `sum_premature_flush` is a counterexample. So
`NoPrematureFlush`, `ExactUnlessRepeated`, `ImplementsBarrier` and `EveryClientAnswered` of the run
`system` say nothing of a schedule in which a Commit interrupts a record's handler. `sum_two_workers`
has every interleaving.

## 4. Proofs

Checked by TLAPS, for any value of the constants:

* `TypeCorrect` (`SumClusterProofs`): `Spec => []TypeOK`. Not only shapes: it needs that the data
  thread never reports to `NoSum`.
* `SingleMasterHolds` (`SumClusterProofs`): `Spec => []SingleMaster`, whatever is lost. The invariant
  `MasterInv` adds that nobody is taken for a client's master before its EOF is published: the EOF is
  one message, it makes one master, and everything else that names a master copies the name from
  something that already named it. Without it the step that hands out the EOF could meet an older
  master.
* `ShippedAtMostOnceHolds` (`SumClusterProofs`): `Spec => []ShippedAtMostOnce`. The invariant `Places`
  says where a record can be: with the gateway, in one inbox, in one digest, in one batch; only a
  worker between "send" and "delete" of a flush has a record in two places, and its receiver thread
  does nothing else until the digest is deleted.
* `NoStaleMasterHolds` (`SumClusterProofs`): `Spec => []NoStaleMaster`, whatever is lost. Only the master
  sends a client's Commit and Ok (`OwnCommits`), both over its broadcast connection, the Commit queued
  first. `CommitsFirst` keeps them in that order within a queue, between a queue and a channel and
  within a channel, so a worker that hears the Ok has heard the Commit or never will; `NothingSaid` says
  that no Ok exists before the transaction begins, which happens once; `AfterFlush` is the property
  with the Commits nobody has published yet, without which it is not inductive.
* `NoUndercountHolds` (`SumCountProofs`): `Spec => []NoUndercount`, about the behaviours in which no
  control message was lost, whoever listens from the start. A number of records on its way to
  the count is in a data thread's hands, an answer, a sender's queue, a channel or the transaction
  itself: each is a *claimant*, and its number what it *claims*. `Covered` says that, until an Ok is
  issued, every record can be given to at most one claimant so that no claimant has more records than
  it claims and every digested record whose worker has taken its snapshot has one. It is an existential
  over an assignment of records, because the protocol does not know it: two threads may report one
  record twice, and then one of them claims a record it does not have, which is why the theorem bounds
  the count on one side only. Every step hands claims from one claimant to another (`Carries`, of which
  `Merge` and `Shift` are the two cases: a number is added to another, a queue moves up). Around it:
  `Known` (a worker past the Commit knows the master, so a later record is reported), `OpenUntilOk`
  (a report that arrives finds the transaction open), `Expects`, `Somewhere`, `CheckPending` (a complete
  count is about to be noticed) and `OkPending` (an Ok closes its master's own transaction).
* `NoPrematureFlushHolds` (`SumCountProofs`): `AtomicSpec => []NoPrematureFlush`, whatever is lost,
  for any number of clients whose closings interleave (the run `system` has one). The claimants are
  the same, but now the count is bounded on the other side: `Exact` says that the records can be
  assigned so that every claimant has as many as it claims, all of them digested, and that a record
  whose worker's snapshot is still to come belongs to no claimant but that worker's own data thread
  (`Truthful`). So a complete count has counted every record (`CompleteDigested`), and `AllDigested`
  carries that from the Ok to the flush. `Exact` alone is not inductive: a second Commit would count
  a worker's records twice. `Unsaid`, `SingleCommit` and `HeardOnce` say that a worker hears a
  client's Commit at most once, and not after it knows the master; `EofLast` and `MasterDone` that
  the master has nothing left to report when it counts its own digest. And no snapshot may fall
  between a record's digestion and its report: that is `HandlersDisjoint`, the one fact that
  `AtomicSpec` adds, and what fails in `sum_premature_flush`.
* `BarrierKept` (`SumCountProofs`): `AtomicSpec => Barrier!Spec` when all workers listen from the
  start and no connection breaks; otherwise a lost Ok or a lost record breaks the promise. Digesting
  a record is `Take`, the first Ok is `Release`, sending a batch is `HandOver`, every other step
  stutters. It needs `NoLoss` (`~lost`, kept because no connection breaks: `NothingBroken`) and
  `DeletesShipped`: what a worker is about to delete is in its batches.
* `OfferAllIsTop`, `TopOfPartialTop`, `RankingOfTop` (`FruitTopProofs`): what the loops of
  `_find_top_fruits` and `_update_client_top` and the sort of `_build_final_top` compute, for every
  set of items. One `Offer` keeps a top because the item pushed out is least in the heap and what
  was left out before is not greater than it; that a finite heap has a least item comes from the
  well-foundedness of strict inclusion (take an item with fewest items below it). The loop is a
  fold, a recursive function on the parts of a set: `FoldExists` builds it up one element at a time,
  and what holds of every part is shown by looking at a smallest part where it would not
  (`LeastSubset`), which takes the place of an induction. `SumOver` is treated in the same way.
* `HeapIsTopHolds`, `HeapIsBounded` (`StreamTopProofs`): the same with the items arriving one by one, as
  steps.
* `AcceptsExactTopHolds` (`StreamTopProofs`): for every input of finitely many fruits the verifier
  accepts the ranking of a top of the totals and nothing else, and nothing at all when the input has
  fewer fruits than `TopSize`. All tops have one ranking, the beginning of the verifier's own
  (`ExactTopsAreOne`, from `RankingOfTop` with every item in the same part; that there is a top at
  all is `OfferAllIsTop`).
* `ExactAnswersHolds`, `NothingLeftBehindHolds`, `TypeCorrect` (`PipelineProofs`): any number of
  Sums and aggregators, any digests, any hash, any `TopSize`, failures anywhere. The invariant
  (`ClientInv`) is about one undisturbed client at a time and reads what was done off the queues:
  `Ended` are the Sums whose EOF of the client an aggregator has taken, `Given` those whose amount
  of a fruit it has taken, `Taken` the aggregators whose partial top Join has taken. `QueueInv`: in
  every queue the client's amounts are those of the digest, each once, all before one EOF.
  `CountInv`, `ItemsInv`: the counter is the number of `Ended`, the totals are the sums over
  `Given`, and both are empty again when all have ended; with `QueueInv`, the totals are then those
  of the whole part of the client's fruits (`AllGiven`), which is where the order of data and EOF
  within a queue is needed. `TopsInv`: a worker has at most one partial top of the client under way,
  after its last EOF, and it is a top of its part. `JoinInv`: the heap is a top of the parts taken;
  it needs `TopOfPartialTop`, and the parts to be disjoint, which is what partitioning by (client,
  fruit) gives. For another client no step changes any of this (`Nothing`); a failing step changes
  it for the client it disturbs only. Every action therefore has two lemmas, one for the others and
  one for its own client. TLC checked the same invariant on the instance of `pipeline` before it was
  proved.
* `ServiceImplemented` (`PipelineProofs`): `Spec => ImplementsService`. A step of `Flush` is
  `Flushed`, `SendFinalResults` of an undisturbed client is `Answer`, every step whose send raises
  is `Disturb`, and so is a result for a client already disturbed; all others stutter. The mapping
  is the identity, what it needs is `ClientInv`: of an answered client nothing is in any queue
  (`AnsweredIsDone`), so no second answer and no failure can come after.
* `ExactUnlessRepeatedHolds` (`SystemProofs`): `SystemSpec => []ExactUnlessRepeated`, in the
  schedules where the two handlers of a Sum worker do not overlap, for any number of workers,
  clients and records, any hash, any `TopSize`, and whatever control messages are lost. It joins the
  two halves, which do not meet by themselves: the Sums promise who flushes when, the pipeline says
  what becomes of digests that are *given*. The pipeline is instantiated with what the system does
  (`P`): the share of a Sum is what its batches handed over, its first flush of a client is the
  pipeline's flush, a second one is a flush that disturbs the client (`FlushRefines`), and the other
  two workers do literally the pipeline's steps (`AggregationRefines`, `JoinRefines`). The inductive
  invariant is `SystemInv`, the invariant `FlushInv` of the Sums together with the pipeline's
  invariant of `P`. `FlushInv` is `AtomicInv` and `AllDigested` (from `NoPrematureFlushHolds`),
  `DeletesShipped` (from `BarrierKept`) and three conjuncts that follow a record into a batch:
  `Whereabouts` (a digested record is in a digest or in a batch), `OwnBatches` (a batch holds
  records of its client only) and `Emptied` (a worker that flushed a client has nothing of it left
  that is in no batch). From them, `AllHanded`: when every worker has flushed a client, its batches
  partition its records. That amounts summed by batch and then over the batches are the client's
  totals is `TotalsAreExact` (from `SumOverParts`, a sum over a disjoint union); a client that is
  answered was flushed by all, for each aggregator has counted every Sum's EOF (`AnswersAreExact`).
  For this the pipeline's lemmas about a flush do not ask that shares be constants: a share may grow
  until its Sum has flushed (`FirstFlushKeeps`), and a later flush may add anything to the queues of
  a client that counts as disturbed (`FlushAgainKeeps`). Assumed is `SystemAssumption`: the Sums are
  finitely many, at least one, and listening from the start. `SystemSpec` has `HandlersDisjoint` in
  every step, which no lock of the code enforces: in the code's other schedules the theorem is
  false, for the premature flush of `sum_premature_flush` publishes a top that misses a record
  although no worker flushed twice. Publications of data do not fail in `System`.
* `OnlyServedRemovedHolds`, `TopIsOwnHolds`, `StopsForCauseHolds` (`GatewayProofs`), for any number of
  clients, any pool and any failures. The three properties are about an index that is found in one
  step and used several steps later, while the list grows. `ListInv` says why it is still right: a
  result at hand is either for nobody or has its client's entry ahead of the scan, which stops at it
  (`EntryAhead`); only the response process removes entries, and the main process appends behind, which
  cannot give a served client an entry, for its task is past its EOF (`EofLast`, `ResultsAnswered`).
  Nothing is assumed of the results: any client whose EOF is published may get any number of them,
  empty or not, or none. `OwnTops` follows a top through the socket.
* `TakesTurnsHolds` (`GatewayProofs`). The two threads that write to a client's socket never meet,
  and nothing in either of them says why: it is the whole conversation that keeps them apart. `TalkInv`
  writes it down. A client that is not gone is in one of four phases (`Sending`, `AwaitingAck`,
  `AwaitingEndAck`, `AwaitingTop`), and each says what is on its socket in both directions, where its
  upload task stands and how many records are published; a client that is gone leaves at most one
  message behind (`Leftover`). A top that was sent to a client still there is one the response process
  is waiting on (`TopSent`).
* `ListedUntilServedHolds` (`GatewayProofs`), as long as no result was empty or repeated (`strays = 0`),
  as the property itself. Then a result is in one place, the queue or the response process's hands
  (`ResultsOnce`), and a client whose result is still to come has its entry (`PendingListed`). The
  invariant is
  `ServedGone` (who is popped has disconnected, and so is never missed) with `ListenersListed`, which
  keeps the entry of a client that has not disconnected also after the response process has stopped.
  It rests on `ListInv`, for the index, and on `TalkInv`, for who is being answered.
* `TypeCorrect` (`GatewayProofs`) is more than shapes as well: one entry per client, an index inside the
  list, no more running tasks than the pool has places (`PoolInv`).
* `TypeCorrect`, `OneCauseHolds`, `EnvelopesAccountedHolds`, `ClosedWhenUnusedHolds`
  (`ShutdownProofs`), for any number of messages, signals and failures. `IInv` relates the stack to
  everything else: there are no more calls above the program than there were signals and failures,
  for the program makes its own call only after one of them has ended it (`CallsHaveCauses`); the
  lock is held only if some call on the stack is inside it (`LockHasHolder`); the queue is shut only
  after `_stopped` is set (`DrainedWhenStopped`); threads are born and joined in `start`'s order
  (`ThreadsInOrder`). Lemmas about `Append`, replacing the top and returning say how each step
  changes the stack.

Assumptions used: those named in the modules (the null values are not members, records are finitely
many, fruits are naturals, `TopSize` is positive — Join asserts it — and bounds are naturals). No
fairness is used.

Only model-checked: every liveness property (that of `ImplementsBarrier` included), for liveness and
`ENABLED` are out of the prover's reach; and the bytes (`RecordsCarried`, `TopsCarried`), which are
folds over sequences of arbitrary length with arithmetic modulo powers: an induction over data for
every case.

## 5. What is not modelled, and why

* SIGTERM of the gateway. Its handler shuts down the listening socket and the clients'; `accept`, or
  whatever else the main process was doing, raises, `main` returns a code, the pool is terminated and
  its processes with it. Whatever was under way is lost, as in a crash, and nothing is recovered. The
  return value of `main` is not passed to `sys.exit`, so that the
  exit status is 0 in every case and the verifier's check of exit codes cannot see it.
* Crashes of workers: nothing is persisted and nothing in the code recovers.
* Several broken connections at once in the pipeline, and the queues of the aggregators bound late:
  one broken connection already disturbs every client that uses it; a message published before its
  queue exists is lost like a record that was never uploaded, and no code notices.
* The entry of a client that leaves during its upload, and its records in the Sum workers' digests,
  stay for ever: nothing in the code tries to remove them, so a property would restate that.
* Messages that no component produces (malformed JSON, unknown types) and the branches that log them.
* `SharedChannelAdapter` is used by no component. The compose files and scenario scripts are tooling,
  and of `verify_output.py` the reading of files and containers is left out.
* The Go skeleton (`src/golang`): no part of it runs in this system.

## 6. What the runs found

Violations, each of something the repository says:

1. `sum_premature_flush`: a record digested just before a Commit is handled is counted in the
   snapshot and reported again; the total is reached while another record is still in a queue, and
   the client is flushed without it (`sum/main.py:79-83`).
2. `system_repeated_ok`: a TryingReady of zero after the total is reached repeats the Ok. Both Sums
   flush again, with empty digests, and the client gets a second, empty result.
3. `gateway_client_leaves`: a client that leaves while the response process waits for its ACK ends that
   process for everybody (the end of a stream is no `socket.error`).
4. `gateway_early_top`: the top overtakes the last ACK on the client's socket.
5. `shutdown_deadlock`: a SIGTERM that interrupts `put` of the sender's queue makes the handler wait
   for the queue's mutex, which its own thread holds (`sum/main.py:57`,
   `control_plane_sender.py:54`). The receiver ends (`_stopped` is set before, it puts nothing more); the
   sender waits for the same mutex in its next `get` or `task_done`.
6. `partition_by_client`: the key is the text "fruit:client" read as a base-256 number, in which
   every byte but the last, one of the client's id, is a multiple of 256. Modulo 2, 4, 8 or 16
   aggregators the fruit takes no part and all the fruits of a client go to one aggregator: the
   partition by client that README.md:54 rejects because it may overload a node
   (`sum/main.py:179-181`). The result is exact either way (`ExactAnswers` holds for every
   partition).

Consequences that the passing runs state in their conditions, or that follow when a condition is
dropped:

* The same double count as in 1, when it comes last, overshoots the total, `==` never holds and the
  client is never answered. A Commit that finds a worker not yet listening is lost and not repeated,
  with the same effect.
* The empty top of a client without records, and the second result of 2, stop the response process or
  remove another client's entry (`ForNobody`).
* A flush that failed and is redelivered publishes a wrong top (`Undisturbed`).
* Two causes of a shutdown (two signals, or a signal and a lost consumer) can stop the main thread in
  `_shutdown_lock` as well; `OneCauseOnlyInPut` says that one cannot. A receiver whose connection is lost
  dies alone: its worker goes on consuming data without taking part in any closing. And
  `shutdown(immediate=True)` drops envelopes whose messages are acknowledged; so does a send that raises.
  `EnvelopesAccounted` says that nothing else does.
* `RecordsCarried`, `TopsCarried`: a fruit with characters outside ASCII is sent with a length that is
  too short, and the rest of its bytes is read as what follows. A total beyond a uint32 raises before
  anything is sent, in the process that serves every client.
* `AcceptsExactTop`: the verifier rejects exact tops of inputs with fewer fruits than `TOP_SIZE`.

The passing runs say what holds around all this: one master, no record shipped twice and no stale
entry in every schedule; nothing flushed early, the barrier and exact answers when the handlers of a
worker do not overlap and no Ok is repeated; exact answers for every client no failure touched; the
right client's entry removed even when others leave; workers that end unless they wait for
themselves.

## 7. Plan

The closing protocol came first (it is the system's own algorithm), then what depends on it, then the
edges; all of it is done. What could be added:

1. The gateway composed with `System` in place of `Answer` and `AnswerAstray`, so that only the stray
   results the workers do publish are left.

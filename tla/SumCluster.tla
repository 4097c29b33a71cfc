----------------------------- MODULE SumCluster -----------------------------
(***************************************************************************)
(* The Sum workers of python/src/sum: the data thread, the control-plane   *)
(* receiver thread and the control-plane sender thread of every worker,    *)
(* the structures the threads of one worker share (DigestPool,             *)
(* TransactionsMonitor, MastersRoutingKeyByTransactionId, each behind a    *)
(* mutex of its own) and the control exchange between the workers.         *)
(*                                                                         *)
(* A transaction is the closing of one client and carries its id.  The     *)
(* worker that takes a client's EOF is the master of its transaction:      *)
(* Commit asks everybody how much it digested, TryingReady answers, and    *)
(* once the answers add up to the EOF's total an Ok makes everybody flush. *)
(*                                                                         *)
(* Grain of atomicity: one step per critical section of a mutex.  A value  *)
(* read under one mutex and used under another, or put on the sender's     *)
(* queue later, is kept in the thread's record when another thread can     *)
(* act in between and tell the difference.                                 *)
(*                                                                         *)
(* Abstracted: fruits and amounts (a record is an opaque value, a digest   *)
(* the set of records it holds), the aggregators (a flush is one batch).   *)
(* Not here: crashes of a worker, and failed sends to the aggregators.     *)
(***************************************************************************)
EXTENDS Naturals, Sequences, FiniteSets

CONSTANTS
    Sums,               \* the workers, SUM_AMOUNT of them
    Clients,            \* client ids, and so transaction ids
    Records,            \* the fruit records the clients upload
    ClientOf,           \* the client of each record
    NoSum, NoClient,    \* "no entry": None in the code
    InitiallyListening, \* workers whose control queue is already bound
    MaxBroken           \* bound: publisher connections that may break

ASSUME SumsAssumption    == NoSum \notin Sums
ASSUME ClientsAssumption == NoClient \notin Clients
ASSUME RecordsAssumption == IsFiniteSet(Records) /\ ClientOf \in [Records -> Clients]
ASSUME StartAssumption   == InitiallyListening \subseteq Sums
ASSUME BoundAssumption   == MaxBroken \in Nat

VARIABLES
    \* INPUT_QUEUE, between the gateway and the workers
    unsent,       \* records the gateway has not published yet
    ended,        \* clients whose EOF is published
    inbox,        \* inbox[s]: records the broker has assigned to worker s
    eofInbox,     \* eofInbox[s]: EOFs the broker has assigned to worker s
    \* memory of a worker
    digestPool,   \* digestPool[s]: records worker s has digested, not flushed
    masterOf,     \* masterOf[s][c]: the master that s knows for c
    transactions, \* transactions[s][c]: [expected, current], or NoStatus
    data,         \* data[s]: where the data thread of s stands
    recv,         \* recv[s]: where the control receiver thread of s stands
    senderQueue,  \* senderQueue[s]: control_sender_queue
    \* SUM_CONTROL_EXCHANGE, one FIFO per publishing connection and reader
    casts,        \* casts[s][d]: from s's broadcast connection to d
    directs,      \* directs[s][d]: from s's direct connection for d
    listening,    \* workers whose control queue is bound
    brokenCast,   \* workers whose broadcast connection is closed
    brokenDirect, \* <<s, d>>: the connection of s for d is closed
    lost,         \* history: a control message's send raised, or a reader had no queue
    \* towards the aggregators
    shipped       \* shipped[s]: every batch s has flushed, in order

vars == << unsent, ended, inbox, eofInbox, digestPool, masterOf, transactions,
           data, recv, senderQueue, casts, directs, listening, brokenCast,
           brokenDirect, lost, shipped >>

-----------------------------------------------------------------------------
(* Messages of the control plane and records of the threads.               *)

Commit(c, m) == [type |-> "commit", txn |-> c, master |-> m]
Ok(c) == [type |-> "ok", txn |-> c]
TryingReady(c, n) == [type |-> "trying_ready", txn |-> c, processed |-> n]

Commits == {Commit(c, m) : c \in Clients, m \in Sums}
Oks == {Ok(c) : c \in Clients}
TryingReadies == [type : {"trying_ready"}, txn : Clients, processed : Nat]

Broadcast(msg) == [mode |-> "broadcast", message |-> msg]
Direct(d, msg) == [mode |-> "direct", to |-> d, message |-> msg]
Envelopes == [mode : {"broadcast"}, message : Commits \cup Oks]
             \cup [mode : {"direct"}, to : Sums, message : TryingReadies]

NoStatus == [expected |-> 0, current |-> 0, open |-> FALSE]
Statuses == [expected : Nat, current : Nat, open : BOOLEAN]

DataIdle == [at |-> "idle", txn |-> NoClient]
RecvIdle == [at |-> "idle", txn |-> NoClient, master |-> NoSum, processed |-> 0]

DataStates == {DataIdle} \cup [at : {"look_master", "maybe_ok"}, txn : Clients]
RecvStates ==
    {RecvIdle}
    \cup [at : {"snapshot", "answer"}, txn : Clients, master : Sums, processed : Nat]
    \cup [at : {"check", "delete_digest", "delete_transaction", "delete_master"},
          txn : Clients, master : {NoSum}, processed : {0}]

RecordsOf(c) == {r \in Records : ClientOf[r] = c}

\* get_current_client_digest: the records worker s holds for client c.
DigestOf(s, c) == digestPool[s] \cap RecordsOf(c)

Batches == [txn : Clients, records : SUBSET Records]

\* Mutants: the total is missed by one, either way.
CompleteOneEarly(s, c) ==
    /\ transactions[s][c].open
    /\ transactions[s][c].current + 1 >= transactions[s][c].expected

CompleteOneLate(s, c) ==
    /\ transactions[s][c].open
    /\ transactions[s][c].current = transactions[s][c].expected + 1

\* digestion_complete
DigestionComplete(s, c) ==
    /\ transactions[s][c].open
    /\ transactions[s][c].current = transactions[s][c].expected

\* maybe_broadcast_ok
MaybeBroadcastOk(s, c) ==
    senderQueue' = IF DigestionComplete(s, c)
                   THEN [senderQueue EXCEPT ![s] = Append(@, Broadcast(Ok(c)))]
                   ELSE senderQueue

-----------------------------------------------------------------------------
Init ==
    /\ unsent = Records
    /\ ended = {}
    /\ inbox = [s \in Sums |-> {}]
    /\ eofInbox = [s \in Sums |-> {}]
    /\ digestPool = [s \in Sums |-> {}]
    /\ masterOf = [s \in Sums |-> [c \in Clients |-> NoSum]]
    /\ transactions = [s \in Sums |-> [c \in Clients |-> NoStatus]]
    /\ data = [s \in Sums |-> DataIdle]
    /\ recv = [s \in Sums |-> RecvIdle]
    /\ senderQueue = [s \in Sums |-> <<>>]
    /\ casts = [s \in Sums |-> [d \in Sums |-> <<>>]]
    /\ directs = [s \in Sums |-> [d \in Sums |-> <<>>]]
    /\ listening = InitiallyListening
    /\ brokenCast = {}
    /\ brokenDirect = {}
    /\ lost = FALSE
    /\ shipped = [s \in Sums |-> <<>>]

-----------------------------------------------------------------------------
(* The gateway publishes the records of a client, then its EOF, to a queue *)
(* all workers consume without a prefetch limit: the broker hands each     *)
(* message to some worker at once and keeps the order of one client's      *)
(* messages to one worker.                                                 *)

controlVars == << masterOf, transactions, senderQueue, casts, directs,
                  listening, brokenCast, brokenDirect, lost >>

PublishRecord(r, s) ==
    /\ r \in unsent
    /\ unsent' = unsent \ {r}
    /\ inbox' = [inbox EXCEPT ![s] = @ \cup {r}]
    /\ UNCHANGED << ended, eofInbox, digestPool, data, recv, shipped, controlVars >>

PublishEof(c, s) ==
    /\ c \notin ended
    /\ RecordsOf(c) \cap unsent = {}
    /\ ended' = ended \cup {c}
    /\ eofInbox' = [eofInbox EXCEPT ![s] = @ \cup {c}]
    /\ UNCHANGED << unsent, inbox, digestPool, data, recv, shipped, controlVars >>

-----------------------------------------------------------------------------
(* The data thread: _process_data_message.                                 *)

\* _process_data, first critical section: the record enters the digest.
DigestData(s, r) ==
    /\ data[s].at = "idle"
    /\ r \in inbox[s]
    /\ inbox' = [inbox EXCEPT ![s] = @ \ {r}]
    /\ digestPool' = [digestPool EXCEPT ![s] = @ \cup {r}]
    /\ data' = [data EXCEPT ![s] = [at |-> "look_master", txn |-> ClientOf[r]]]
    /\ UNCHANGED << unsent, ended, eofInbox, recv, shipped, controlVars >>

\* Mutant: the look-up's None is not checked.
ReportUnchecked(s) ==
    LET c == data[s].txn IN
    /\ data[s].at = "look_master"
    /\ senderQueue' = [senderQueue EXCEPT ![s] =
                          Append(@, Direct(masterOf[s][c], TryingReady(c, 1)))]
    /\ data' = [data EXCEPT ![s] = DataIdle]
    /\ UNCHANGED << unsent, ended, inbox, eofInbox, digestPool, masterOf,
                    transactions, recv, casts, directs, listening, brokenCast,
                    brokenDirect, lost, shipped >>

\* _process_data, the rest: a record digested while the client's transaction
\* is known is reported to the master on its own.  (Nothing the receiver does
\* between the look-up and the put depends on the put.)
ReportProgress(s) ==
    LET c == data[s].txn IN
    /\ data[s].at = "look_master"
    /\ senderQueue' = IF masterOf[s][c] = NoSum THEN senderQueue
                      ELSE [senderQueue EXCEPT ![s] =
                               Append(@, Direct(masterOf[s][c], TryingReady(c, 1)))]
    /\ data' = [data EXCEPT ![s] = DataIdle]
    /\ UNCHANGED << unsent, ended, inbox, eofInbox, digestPool, masterOf,
                    transactions, recv, casts, directs, listening, brokenCast,
                    brokenDirect, lost, shipped >>

\* _process_data_eof up to the Commit's envelope.  Until the Commit is out no
\* other thread mentions the transaction, so the three critical sections are
\* one step.  An EOF comes after the records of its client in the same inbox.
BeginTransaction(s, c) ==
    /\ data[s].at = "idle"
    /\ c \in eofInbox[s]
    /\ inbox[s] \cap RecordsOf(c) = {}
    /\ eofInbox' = [eofInbox EXCEPT ![s] = @ \ {c}]
    /\ transactions' = [transactions EXCEPT ![s][c] =
                           [expected |-> Cardinality(RecordsOf(c)),
                            current  |-> @.current,
                            open     |-> TRUE]]
    /\ masterOf' = [masterOf EXCEPT ![s][c] = s]
    /\ senderQueue' = [senderQueue EXCEPT ![s] = Append(@, Broadcast(Commit(c, s)))]
    /\ data' = [data EXCEPT ![s] = [at |-> "maybe_ok", txn |-> c]]
    /\ UNCHANGED << unsent, ended, inbox, digestPool, recv, casts, directs,
                    listening, brokenCast, brokenDirect, lost, shipped >>

\* The last call of _process_data_eof, in the data thread.
FinishEof(s) ==
    /\ data[s].at = "maybe_ok"
    /\ MaybeBroadcastOk(s, data[s].txn)
    /\ data' = [data EXCEPT ![s] = DataIdle]
    /\ UNCHANGED << unsent, ended, inbox, eofInbox, digestPool, masterOf,
                    transactions, recv, casts, directs, listening, brokenCast,
                    brokenDirect, lost, shipped >>

DataThread(s) ==
    \/ \E r \in Records : DigestData(s, r)
    \/ ReportProgress(s)
    \/ \E c \in Clients : BeginTransaction(s, c)
    \/ FinishEof(s)

-----------------------------------------------------------------------------
(* The control receiver thread: _process_control_message.                  *)

dataPlane == << unsent, ended, inbox, eofInbox, data >>
connections == << listening, brokenCast, brokenDirect >>
network == << connections, lost >>

\* Mutants: the receiver registers its own routing key, or nothing.
RegisterOneself(s, src) ==
    /\ recv[s].at = "idle"
    /\ casts[src][s] # <<>>
    /\ LET msg == Head(casts[src][s]) IN
        /\ msg.type = "commit"
        /\ masterOf' = [masterOf EXCEPT ![s][msg.txn] = s]
        /\ recv' = [recv EXCEPT ![s] = [at |-> "snapshot", txn |-> msg.txn,
                                        master |-> msg.master, processed |-> 0]]
    /\ casts' = [casts EXCEPT ![src][s] = Tail(@)]
    /\ UNCHANGED << digestPool, transactions, senderQueue, directs, shipped,
                    dataPlane, network >>

RegisterNothing(s, src) ==
    /\ recv[s].at = "idle"
    /\ casts[src][s] # <<>>
    /\ LET msg == Head(casts[src][s]) IN
        /\ msg.type = "commit"
        /\ recv' = [recv EXCEPT ![s] = [at |-> "snapshot", txn |-> msg.txn,
                                        master |-> msg.master, processed |-> 0]]
    /\ casts' = [casts EXCEPT ![src][s] = Tail(@)]
    /\ UNCHANGED << masterOf, digestPool, transactions, senderQueue, directs, shipped,
                    dataPlane, network >>

\* _process_control_commit, first critical section: the master is registered.
ReceiveCommit(s, src) ==
    /\ recv[s].at = "idle"
    /\ casts[src][s] # <<>>
    /\ LET msg == Head(casts[src][s]) IN
        /\ msg.type = "commit"
        /\ masterOf' = [masterOf EXCEPT ![s][msg.txn] = msg.master]
        /\ recv' = [recv EXCEPT ![s] = [at |-> "snapshot", txn |-> msg.txn,
                                        master |-> msg.master, processed |-> 0]]
    /\ casts' = [casts EXCEPT ![src][s] = Tail(@)]
    /\ UNCHANGED << digestPool, transactions, senderQueue, directs, shipped,
                    dataPlane, network >>

\* Second critical section: how much of the client is digested here.
SnapshotDigest(s) ==
    /\ recv[s].at = "snapshot"
    /\ recv' = [recv EXCEPT ![s].at = "answer",
                            ![s].processed = Cardinality(DigestOf(s, recv[s].txn))]
    /\ UNCHANGED << digestPool, masterOf, transactions, senderQueue, casts,
                    directs, shipped, dataPlane, network >>

\* The answer goes to the master through the sender's queue.
AnswerCommit(s) ==
    /\ recv[s].at = "answer"
    /\ senderQueue' = [senderQueue EXCEPT ![s] =
          Append(@, Direct(recv[s].master, TryingReady(recv[s].txn, recv[s].processed)))]
    /\ recv' = [recv EXCEPT ![s] = RecvIdle]
    /\ UNCHANGED << digestPool, masterOf, transactions, casts, directs, shipped,
                    dataPlane, network >>

\* _process_control_trying_ready, first critical section: the amount is added
\* to the transaction; an unknown transaction only logs an error.
ReceiveTryingReady(s, src) ==
    /\ recv[s].at = "idle"
    /\ directs[src][s] # <<>>
    /\ LET msg == Head(directs[src][s]) IN
        \/ /\ transactions[s][msg.txn].open
           /\ transactions' = [transactions EXCEPT ![s][msg.txn].current =
                                  @ + msg.processed]
           /\ recv' = [recv EXCEPT ![s] = [RecvIdle EXCEPT !.at = "check",
                                                           !.txn = msg.txn]]
        \/ /\ ~transactions[s][msg.txn].open
           /\ UNCHANGED << transactions, recv >>
    /\ directs' = [directs EXCEPT ![src][s] = Tail(@)]
    /\ UNCHANGED << digestPool, masterOf, senderQueue, casts, shipped,
                    dataPlane, network >>

\* The completion check, under the mutex a second time.
CheckCompletion(s) ==
    /\ recv[s].at = "check"
    /\ MaybeBroadcastOk(s, recv[s].txn)
    /\ recv' = [recv EXCEPT ![s] = RecvIdle]
    /\ UNCHANGED << digestPool, masterOf, transactions, casts, directs, shipped,
                    dataPlane, network >>

\* _process_control_ok: the snapshot of the digest goes to the aggregators,
\* followed by this worker's EOF for the client.
ReceiveOk(s, src) ==
    /\ recv[s].at = "idle"
    /\ casts[src][s] # <<>>
    /\ LET msg == Head(casts[src][s]) IN
        /\ msg.type = "ok"
        /\ shipped' = [shipped EXCEPT ![s] =
              Append(@, [txn |-> msg.txn, records |-> DigestOf(s, msg.txn)])]
        /\ recv' = [recv EXCEPT ![s] = [RecvIdle EXCEPT !.at = "delete_digest",
                                                        !.txn = msg.txn]]
    /\ casts' = [casts EXCEPT ![src][s] = Tail(@)]
    /\ UNCHANGED << digestPool, masterOf, transactions, senderQueue, directs,
                    dataPlane, network >>

\* Mutant: the flushed digest stays.
KeepDigest(s) ==
    /\ recv[s].at = "delete_digest"
    /\ recv' = [recv EXCEPT ![s].at = "delete_transaction"]
    /\ UNCHANGED << digestPool, masterOf, transactions, senderQueue, casts,
                    directs, shipped, dataPlane, network >>

DeleteClientDigest(s) ==
    /\ recv[s].at = "delete_digest"
    /\ digestPool' = [digestPool EXCEPT ![s] = @ \ RecordsOf(recv[s].txn)]
    /\ recv' = [recv EXCEPT ![s].at = "delete_transaction"]
    /\ UNCHANGED << masterOf, transactions, senderQueue, casts, directs, shipped,
                    dataPlane, network >>

DeleteTransaction(s) ==
    /\ recv[s].at = "delete_transaction"
    /\ transactions' = [transactions EXCEPT ![s][recv[s].txn] = NoStatus]
    /\ recv' = [recv EXCEPT ![s].at = "delete_master"]
    /\ UNCHANGED << digestPool, masterOf, senderQueue, casts, directs, shipped,
                    dataPlane, network >>

\* Mutant: the master's entry stays.
KeepMaster(s) ==
    /\ recv[s].at = "delete_master"
    /\ recv' = [recv EXCEPT ![s] = RecvIdle]
    /\ UNCHANGED << digestPool, masterOf, transactions, senderQueue, casts,
                    directs, shipped, dataPlane, network >>

DeleteTransactionInfo(s) ==
    /\ recv[s].at = "delete_master"
    /\ masterOf' = [masterOf EXCEPT ![s][recv[s].txn] = NoSum]
    /\ recv' = [recv EXCEPT ![s] = RecvIdle]
    /\ UNCHANGED << digestPool, transactions, senderQueue, casts, directs, shipped,
                    dataPlane, network >>

ReceiverThread(s) ==
    \/ \E src \in Sums : \/ ReceiveCommit(s, src)
                         \/ ReceiveTryingReady(s, src)
                         \/ ReceiveOk(s, src)
    \/ SnapshotDigest(s)
    \/ AnswerCommit(s)
    \/ CheckCompletion(s)
    \/ DeleteClientDigest(s)
    \/ DeleteTransaction(s)
    \/ DeleteTransactionInfo(s)

-----------------------------------------------------------------------------
(* The sender thread takes envelopes in order and publishes each on the    *)
(* connection of its mode and destination.  The broker drops what no bound *)
(* queue takes.  A connection that breaks is never opened again: the       *)
(* exception is logged and the envelope is gone.                           *)

senderFrame == << unsent, ended, inbox, eofInbox, digestPool, masterOf,
                  transactions, data, recv, shipped >>

Taken(s) == senderQueue' = [senderQueue EXCEPT ![s] = Tail(@)]

DeliverCast(s, reached, msg) ==
    casts' = [casts EXCEPT ![s] =
                 [d \in Sums |-> IF d \in reached THEN Append(@[d], msg) ELSE @[d]]]

PublishBroadcast(s) ==
    /\ senderQueue[s] # <<>>
    /\ Head(senderQueue[s]).mode = "broadcast"
    /\ s \notin brokenCast
    /\ Taken(s)
    /\ DeliverCast(s, listening, Head(senderQueue[s]).message)
    /\ lost' = (lost \/ listening # Sums)
    /\ UNCHANGED << senderFrame, directs, connections >>

PublishDirect(s) ==
    /\ senderQueue[s] # <<>>
    /\ Head(senderQueue[s]).mode = "direct"
    /\ LET d == Head(senderQueue[s]).to IN
        /\ << s, d >> \notin brokenDirect
        /\ directs' = IF d \in listening
                      THEN [directs EXCEPT ![s][d] =
                               Append(@, Head(senderQueue[s]).message)]
                      ELSE directs
        /\ lost' = (lost \/ d \notin listening)
    /\ Taken(s)
    /\ UNCHANGED << senderFrame, casts, connections >>

\* The connection of the envelope is closed: already, or by this very send,
\* which may have reached some of the routing keys of a broadcast.
SendBroadcastFails(s) ==
    /\ senderQueue[s] # <<>>
    /\ Head(senderQueue[s]).mode = "broadcast"
    /\ \/ /\ s \in brokenCast
          /\ UNCHANGED << casts, brokenCast >>
       \/ /\ s \notin brokenCast
          /\ Cardinality(brokenCast) + Cardinality(brokenDirect) < MaxBroken
          /\ brokenCast' = brokenCast \cup {s}
          /\ \E reached \in SUBSET listening :
                DeliverCast(s, reached, Head(senderQueue[s]).message)
    /\ Taken(s)
    /\ lost' = TRUE
    /\ UNCHANGED << senderFrame, directs, listening, brokenDirect >>

SendDirectFails(s) ==
    /\ senderQueue[s] # <<>>
    /\ Head(senderQueue[s]).mode = "direct"
    /\ LET link == << s, Head(senderQueue[s]).to >> IN
        \/ /\ link \in brokenDirect
           /\ UNCHANGED brokenDirect
        \/ /\ link \notin brokenDirect
           /\ Cardinality(brokenCast) + Cardinality(brokenDirect) < MaxBroken
           /\ brokenDirect' = brokenDirect \cup {link}
    /\ Taken(s)
    /\ lost' = TRUE
    /\ UNCHANGED << senderFrame, casts, directs, listening, brokenCast >>

SenderThread(s) ==
    \/ PublishBroadcast(s)
    \/ PublishDirect(s)
    \/ SendBroadcastFails(s)
    \/ SendDirectFails(s)

\* start_consuming binds the control queue, in the receiver thread: the data
\* thread and the sender of the same worker may already be at work.
Listen(s) ==
    /\ s \notin listening
    /\ listening' = listening \cup {s}
    /\ UNCHANGED << senderFrame, senderQueue, casts, directs, brokenCast,
                    brokenDirect, lost >>

-----------------------------------------------------------------------------
Gateway == \E s \in Sums : \/ \E r \in Records : PublishRecord(r, s)
                           \/ \E c \in Clients : PublishEof(c, s)

Next ==
    \/ Gateway
    \/ \E s \in Sums : DataThread(s) \/ ReceiverThread(s) \/ SenderThread(s) \/ Listen(s)

Spec == Init /\ [][Next]_vars

\* Every thread that can take a step eventually takes one.
FairSpec ==
    /\ Spec
    /\ WF_vars(Gateway)
    /\ \A s \in Sums : /\ WF_vars(DataThread(s))
                       /\ WF_vars(ReceiverThread(s))
                       /\ WF_vars(SenderThread(s))
                       /\ WF_vars(Listen(s))

\* The schedules in which the two handlers of one worker never overlap: what
\* one lock around each handler would enforce.  The code has no such lock.
HandlersDisjoint == \A s \in Sums : data[s].at = "idle" \/ recv[s].at = "idle"

AtomicNext ==
    \/ Gateway
    \/ \E s \in Sums : \/ DataThread(s) /\ HandlersDisjoint'
                       \/ ReceiverThread(s) /\ HandlersDisjoint'
                       \/ SenderThread(s)
                       \/ Listen(s)

AtomicSpec ==
    /\ Init /\ [][AtomicNext]_vars
    /\ WF_vars(Gateway)
    /\ \A s \in Sums : /\ WF_vars(DataThread(s) /\ HandlersDisjoint')
                       /\ WF_vars(ReceiverThread(s) /\ HandlersDisjoint')
                       /\ WF_vars(SenderThread(s))
                       /\ WF_vars(Listen(s))

-----------------------------------------------------------------------------
(* Properties.                                                             *)

Elements(q) == {q[i] : i \in DOMAIN q}

TypeOK ==
    /\ unsent \in SUBSET Records
    /\ ended \in SUBSET Clients
    /\ inbox \in [Sums -> SUBSET Records]
    /\ eofInbox \in [Sums -> SUBSET Clients]
    /\ digestPool \in [Sums -> SUBSET Records]
    /\ masterOf \in [Sums -> [Clients -> Sums \cup {NoSum}]]
    /\ transactions \in [Sums -> [Clients -> Statuses]]
    /\ data \in [Sums -> DataStates]
    /\ recv \in [Sums -> RecvStates]
    /\ senderQueue \in [Sums -> Seq(Envelopes)]
    /\ casts \in [Sums -> [Sums -> Seq(Commits \cup Oks)]]
    /\ directs \in [Sums -> [Sums -> Seq(TryingReadies)]]
    /\ listening \in SUBSET Sums
    /\ brokenCast \in SUBSET Sums
    /\ brokenDirect \in SUBSET (Sums \X Sums)
    /\ lost \in BOOLEAN
    /\ shipped \in [Sums -> Seq(Batches)]

\* Worker s acts as the master of c, or is about to, or somebody takes it for
\* the master of c: in memory, in a thread's hands, or in a message.
QueuedFor(d, s, c) ==
    \E e \in Elements(senderQueue[d]) :
        \/ e.mode = "broadcast" /\ e.message = Commit(c, s)
        \/ e.mode = "broadcast" /\ e.message = Ok(c) /\ d = s
        \/ e.mode = "direct" /\ e.to = s /\ e.message.txn = c

InFlightFor(d, s, c) ==
    \/ \E src \in Sums : Commit(c, s) \in Elements(casts[src][d])
    \/ Ok(c) \in Elements(casts[s][d])
    \/ \E msg \in Elements(directs[d][s]) : msg.txn = c

IsTakenForMaster(s, c) ==
    \/ c \in eofInbox[s]
    \/ data[s].at = "maybe_ok" /\ data[s].txn = c
    \/ transactions[s][c].open
    \/ recv[s].at = "check" /\ recv[s].txn = c
    \/ \E d \in Sums : \/ masterOf[d][c] = s
                       \/ recv[d].master = s /\ recv[d].txn = c
                       \/ QueuedFor(d, s, c)
                       \/ InFlightFor(d, s, c)

\* Everybody who believes in a master of a client believes in the same one:
\* no interleaving, lost envelope or repeated Ok makes two workers coordinate
\* one closing (sum/main.py _process_data_eof, control_plane_receiver.py).
SingleMaster ==
    \A c \in Clients : \A s1, s2 \in Sums :
        IsTakenForMaster(s1, c) /\ IsTakenForMaster(s2, c) => s1 = s2

\* No record reaches the aggregators in two batches, of one worker or of two,
\* although an Ok can be repeated and a record can be digested while its
\* client is being flushed (_send_digest_to_aggregators).
ShippedAtMostOnce ==
    \A s1, s2 \in Sums : \A i \in DOMAIN shipped[s1], j \in DOMAIN shipped[s2] :
        << s1, i >> # << s2, j >> =>
            shipped[s1][i].records \cap shipped[s2][j].records = {}

Flushing(s, c) ==
    /\ recv[s].at \in {"delete_digest", "delete_transaction", "delete_master"}
    /\ recv[s].txn = c

\* Once a worker has finished an Ok of a client, nothing makes it report to a
\* master of that client again: its entry is gone, and no Commit that would
\* bring it back is on its way or in its hands.
NoStaleMaster ==
    \A s \in Sums : \A i \in DOMAIN shipped[s] :
        LET c == shipped[s][i].txn IN
        ~Flushing(s, c) =>
            /\ masterOf[s][c] = NoSum
            /\ recv[s].txn = c => recv[s].at # "snapshot"
            /\ \A src, m \in Sums : Commit(c, m) \notin Elements(casts[src][s])

\* Nothing more will happen to the closing of c.
Settled(c) ==
    /\ RecordsOf(c) \cap unsent = {}
    /\ c \in ended
    /\ \A s \in Sums :
        /\ c \notin eofInbox[s]
        /\ RecordsOf(c) \cap inbox[s] = {}
        /\ data[s].txn # c
        /\ recv[s].txn # c
        /\ \A e \in Elements(senderQueue[s]) : e.message.txn # c
        /\ \A d \in Sums : /\ \A msg \in Elements(casts[s][d]) : msg.txn # c
                           /\ \A msg \in Elements(directs[s][d]) : msg.txn # c

\* As long as no control message was lost, no record escapes the count: a
\* transaction that never completes has counted too much, never too little.  A
\* record digested before the Commit is in the snapshot, one digested after it
\* is reported by the data thread (sum/main.py _process_data,
\* control_plane_receiver.py _process_control_commit).
NoUndercount ==
    \A c \in Clients : Settled(c) /\ ~lost =>
        \A s \in Sums : transactions[s][c].open =>
            transactions[s][c].current > transactions[s][c].expected

\* README.md:71, "Esto evita que algun nodo flushee prematuramente": a client
\* is flushed only when all its records are digested.
NoPrematureFlush ==
    \A s \in Sums : \A i \in DOMAIN shipped[s] :
        \A r \in RecordsOf(shipped[s][i].txn) :
            r \notin unsent /\ \A d \in Sums : r \notin inbox[d]

-----------------------------------------------------------------------------
(* The barrier the workers implement.  A client is released by the first   *)
(* Ok; the snapshot in a batch is handed over although the digest still    *)
(* holds it until DeleteClientDigest.                                      *)

OkIssued(c) ==
    \E s \in Sums : \/ Broadcast(Ok(c)) \in Elements(senderQueue[s])
                    \/ \E d \in Sums : Ok(c) \in Elements(casts[s][d])
                    \/ \E b \in Elements(shipped[s]) : b.txn = c

Shipped(s) == UNION {b.records : b \in Elements(shipped[s])}

Barrier == INSTANCE FlushBarrier WITH
    waiting  <- unsent \cup UNION {inbox[s] : s \in Sums},
    held     <- [s \in Sums |-> digestPool[s] \ Shipped(s)],
    released <- {c \in Clients : OkIssued(c)},
    out      <- UNION {Shipped(s) : s \in Sums}

\* The protocol keeps the promise, and its liveness, in the schedules where
\* the two handlers of a worker do not overlap: it loses no record, repeats
\* none, releases none early.
ImplementsBarrier == Barrier!FairSpec

=============================================================================

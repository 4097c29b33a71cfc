--------------------------- MODULE SumClusterProofs ---------------------------
(***************************************************************************)
(* Proofs about SumCluster for any number of workers, clients and records, *)
(* any assignment of records to clients, and whatever publications are     *)
(* lost: type correctness, one master per client, no record in two         *)
(* batches, no master known after a flush.                                 *)
(*                                                                         *)
(* Everything that makes a worker the master of a client goes back to the  *)
(* one data message that carries the client's EOF.  The invariant adds to  *)
(* SingleMaster that nobody is taken for master before the EOF is out: the *)
(* EOF then creates the only one, and every later message, table entry or  *)
(* thread that names a master copies it from another that names the same.  *)
(***************************************************************************)
EXTENDS SumCluster, FiniteSetTheorems, SequenceTheorems, TLAPS

USE SumsAssumption, ClientsAssumption, RecordsAssumption, StartAssumption, BoundAssumption

-----------------------------------------------------------------------------
(* What the operators return.                                              *)

\* The digest of a client is a finite set of records, so it can be counted.
LEMMA DigestCount ==
    ASSUME NEW R \in SUBSET Records
    PROVE  Cardinality(R) \in Nat
  BY FS_Subset, FS_CardinalityType

LEMMA MessageTypes ==
    ASSUME NEW c \in Clients
    PROVE  /\ \A m \in Sums : Broadcast(Commit(c, m)) \in Envelopes
           /\ Broadcast(Ok(c)) \in Envelopes
           /\ \A m \in Sums, n \in Nat : Direct(m, TryingReady(c, n)) \in Envelopes
  BY DEF Broadcast, Direct, Commit, Ok, TryingReady, Envelopes, Commits, Oks,
         TryingReadies

\* The messages of the broadcast and of the direct connections by their type.
LEMMA CastFields ==
    ASSUME NEW msg \in Commits \cup Oks
    PROVE  /\ msg.txn \in Clients
           /\ msg.type = "commit" => msg.master \in Sums
           /\ msg.type = "commit" => msg = Commit(msg.txn, msg.master)
           /\ msg.type = "ok" => msg = Ok(msg.txn)
  BY DEF Commits, Oks, Commit, Ok

LEMMA EnvelopeFields ==
    ASSUME NEW e \in Envelopes
    PROVE  /\ e.mode = "broadcast" => e.message \in Commits \cup Oks
           /\ e.mode = "direct" => e.message \in TryingReadies /\ e.to \in Sums
           /\ e.message.txn \in Clients
  BY CastFields DEF Envelopes, TryingReadies

-----------------------------------------------------------------------------
(* Type correctness.                                                       *)

LEMMA TypeInit == Init => TypeOK
  <1> SUFFICES ASSUME Init PROVE TypeOK
    OBVIOUS
  <1>1. /\ unsent \in SUBSET Records /\ ended \in SUBSET Clients
        /\ inbox \in [Sums -> SUBSET Records] /\ eofInbox \in [Sums -> SUBSET Clients]
        /\ digestPool \in [Sums -> SUBSET Records]
        /\ masterOf \in [Sums -> [Clients -> Sums \cup {NoSum}]]
    BY DEF Init
  <1>2. /\ transactions \in [Sums -> [Clients -> Statuses]]
        /\ data \in [Sums -> DataStates] /\ recv \in [Sums -> RecvStates]
    BY DEF Init, DataStates, RecvStates, DataIdle, RecvIdle, Statuses, NoStatus
  <1>3. /\ senderQueue \in [Sums -> Seq(Envelopes)]
        /\ casts \in [Sums -> [Sums -> Seq(Commits \cup Oks)]]
        /\ directs \in [Sums -> [Sums -> Seq(TryingReadies)]]
        /\ shipped \in [Sums -> Seq(Batches)]
    BY DEF Init
  <1>4. /\ listening \in SUBSET Sums /\ lost \in BOOLEAN
        /\ brokenCast \in SUBSET Sums /\ brokenDirect \in SUBSET (Sums \X Sums)
    BY StartAssumption DEF Init
  <1> QED BY <1>1, <1>2, <1>3, <1>4 DEF TypeOK

LEMMA TypePublishRecord ==
    ASSUME TypeOK, NEW s \in Sums, NEW r \in Records, PublishRecord(r, s)
    PROVE  TypeOK'
  BY DEF TypeOK, PublishRecord, controlVars

LEMMA TypePublishEof ==
    ASSUME TypeOK, NEW s \in Sums, NEW c \in Clients, PublishEof(c, s)
    PROVE  TypeOK'
  BY DEF TypeOK, PublishEof, controlVars

LEMMA TypeDigestData ==
    ASSUME TypeOK, NEW s \in Sums, NEW r \in Records, DigestData(s, r)
    PROVE  TypeOK'
  BY DEF TypeOK, DigestData, controlVars, DataStates

LEMMA TypeReportProgress ==
    ASSUME TypeOK, NEW s \in Sums, ReportProgress(s)
    PROVE  TypeOK'
  <1> DEFINE c == data[s].txn
  <1>1. c \in Clients /\ data' \in [Sums -> DataStates]
    BY DEF TypeOK, ReportProgress, DataStates, DataIdle
  <1>2. senderQueue' \in [Sums -> Seq(Envelopes)]
    <2>1. CASE masterOf[s][c] = NoSum
      BY <2>1 DEF TypeOK, ReportProgress
    <2>2. CASE masterOf[s][c] # NoSum
      <3>1. Direct(masterOf[s][c], TryingReady(c, 1)) \in Envelopes
        BY <1>1, <2>2, MessageTypes DEF TypeOK
      <3> QED BY <2>2, <3>1 DEF TypeOK, ReportProgress
    <2> QED BY <2>1, <2>2
  <1> QED BY <1>1, <1>2 DEF TypeOK, ReportProgress

LEMMA TypeMaybeBroadcastOk ==
    ASSUME TypeOK, NEW s \in Sums, NEW c \in Clients, MaybeBroadcastOk(s, c)
    PROVE  senderQueue' \in [Sums -> Seq(Envelopes)]
  BY MessageTypes DEF TypeOK, MaybeBroadcastOk

LEMMA TypeBeginTransaction ==
    ASSUME TypeOK, NEW s \in Sums, NEW c \in Clients, BeginTransaction(s, c)
    PROVE  TypeOK'
  <1>1. Cardinality(RecordsOf(c)) \in Nat
    BY DigestCount DEF RecordsOf
  <1>2. transactions' \in [Sums -> [Clients -> Statuses]]
    BY <1>1 DEF TypeOK, BeginTransaction, Statuses
  <1>3. senderQueue' \in [Sums -> Seq(Envelopes)]
    BY MessageTypes DEF TypeOK, BeginTransaction
  <1>4. data' \in [Sums -> DataStates]
    BY DEF TypeOK, BeginTransaction, DataStates
  <1> QED BY <1>2, <1>3, <1>4 DEF TypeOK, BeginTransaction

LEMMA TypeFinishEof ==
    ASSUME TypeOK, NEW s \in Sums, FinishEof(s)
    PROVE  TypeOK'
  <1>1. data[s].txn \in Clients /\ data' \in [Sums -> DataStates]
    BY DEF TypeOK, FinishEof, DataStates, DataIdle
  <1>2. senderQueue' \in [Sums -> Seq(Envelopes)]
    BY <1>1, TypeMaybeBroadcastOk DEF FinishEof
  <1> QED BY <1>1, <1>2 DEF TypeOK, FinishEof

\* The head of a channel is a message of the channel, the tail a channel.
LEMMA Pop ==
    ASSUME NEW S, NEW q \in Seq(S), q # <<>>
    PROVE  Head(q) \in S /\ Tail(q) \in Seq(S)
  BY HeadTailProperties

LEMMA TypeReceiveCommit ==
    ASSUME TypeOK, NEW s \in Sums, NEW src \in Sums, ReceiveCommit(s, src)
    PROVE  TypeOK'
  <1> DEFINE msg == Head(casts[src][s])
  <1>1. msg \in Commits \cup Oks /\ Tail(casts[src][s]) \in Seq(Commits \cup Oks)
    BY Pop DEF TypeOK, ReceiveCommit
  <1>2. msg.txn \in Clients /\ msg.master \in Sums
    BY <1>1, CastFields DEF ReceiveCommit
  <1>3. casts' \in [Sums -> [Sums -> Seq(Commits \cup Oks)]]
    BY <1>1 DEF TypeOK, ReceiveCommit
  <1>4. masterOf' \in [Sums -> [Clients -> Sums \cup {NoSum}]]
    BY <1>2 DEF TypeOK, ReceiveCommit
  <1>5. recv' \in [Sums -> RecvStates]
    BY <1>2 DEF TypeOK, ReceiveCommit, RecvStates
  <1> QED BY <1>3, <1>4, <1>5 DEF TypeOK, ReceiveCommit, dataPlane, network, connections

\* What a busy receiver holds, and what it may hold next.
LEMMA RecvFields ==
    ASSUME TypeOK, NEW s \in Sums, recv[s].at # "idle"
    PROVE  /\ recv[s].txn \in Clients
           /\ recv[s].at \in {"snapshot", "answer"} =>
                recv[s].master \in Sums /\ recv[s].processed \in Nat
  <1>1. recv[s] \in RecvStates /\ recv[s] # RecvIdle
    BY DEF TypeOK, RecvIdle
  <1> QED BY <1>1 DEF RecvStates

LEMMA RecvAnswer ==
    ASSUME NEW old \in RecvStates, old.at = "snapshot", NEW n \in Nat
    PROVE  [old EXCEPT !.at = "answer", !.processed = n] \in RecvStates
  <1>1. old \in [at : {"snapshot", "answer"}, txn : Clients, master : Sums, processed : Nat]
    BY DEF RecvStates, RecvIdle
  <1> QED BY <1>1 DEF RecvStates

LEMMA RecvDelete ==
    ASSUME NEW old \in RecvStates, old.at \in {"delete_digest", "delete_transaction"},
           NEW at \in {"delete_transaction", "delete_master"}
    PROVE  [old EXCEPT !.at = at] \in RecvStates
  <1>1. old \in [at : {"check", "delete_digest", "delete_transaction", "delete_master"},
                 txn : Clients, master : {NoSum}, processed : {0}]
    BY DEF RecvStates, RecvIdle
  <1> QED BY <1>1 DEF RecvStates

LEMMA RecvTurn ==
    ASSUME NEW c \in Clients, NEW at \in {"check", "delete_digest"}
    PROVE  [RecvIdle EXCEPT !.at = at, !.txn = c] \in RecvStates
  BY DEF RecvStates, RecvIdle

LEMMA TypeSnapshotDigest ==
    ASSUME TypeOK, NEW s \in Sums, SnapshotDigest(s)
    PROVE  TypeOK'
  <1>1. Cardinality(DigestOf(s, recv[s].txn)) \in Nat
    BY DigestCount DEF DigestOf, RecordsOf
  <1>2. recv' \in [Sums -> RecvStates]
    BY <1>1, RecvAnswer DEF TypeOK, SnapshotDigest
  <1> QED BY <1>2 DEF TypeOK, SnapshotDigest, dataPlane, network, connections

LEMMA TypeAnswerCommit ==
    ASSUME TypeOK, NEW s \in Sums, AnswerCommit(s)
    PROVE  TypeOK'
  <1>1. Direct(recv[s].master, TryingReady(recv[s].txn, recv[s].processed)) \in Envelopes
    BY RecvFields, MessageTypes DEF AnswerCommit
  <1>2. senderQueue' \in [Sums -> Seq(Envelopes)]
    BY <1>1 DEF TypeOK, AnswerCommit
  <1> QED BY <1>2 DEF TypeOK, AnswerCommit, RecvStates, dataPlane, network, connections

LEMMA StatusAdd ==
    ASSUME NEW status \in Statuses, NEW n \in Nat
    PROVE  [status EXCEPT !.current = @ + n] \in Statuses
  BY DEF Statuses

LEMMA TypeReceiveTryingReady ==
    ASSUME TypeOK, NEW s \in Sums, NEW src \in Sums, ReceiveTryingReady(s, src)
    PROVE  TypeOK'
  <1> DEFINE msg == Head(directs[src][s])
             added == [transactions[s][msg.txn] EXCEPT !.current = @ + msg.processed]
             turn == [RecvIdle EXCEPT !.at = "check", !.txn = msg.txn]
  <1>1. msg \in TryingReadies /\ Tail(directs[src][s]) \in Seq(TryingReadies)
    BY Pop DEF TypeOK, ReceiveTryingReady
  <1>2. msg.txn \in Clients /\ msg.processed \in Nat
    BY <1>1 DEF TryingReadies
  <1>3. directs' \in [Sums -> [Sums -> Seq(TryingReadies)]]
    BY <1>1 DEF TypeOK, ReceiveTryingReady
  <1>4. CASE /\ transactions' = [transactions EXCEPT ![s][msg.txn].current =
                                    @ + msg.processed]
             /\ recv' = [recv EXCEPT ![s] = turn]
    <2>1. added \in Statuses
      BY <1>2, StatusAdd DEF TypeOK
    <2>2. transactions' = [transactions EXCEPT ![s][msg.txn] = added]
      BY <1>4
    <2>3. transactions' \in [Sums -> [Clients -> Statuses]]
      BY <1>2, <2>1, <2>2 DEF TypeOK
    <2>4. turn \in RecvStates
      BY <1>2, RecvTurn
    <2>5. recv' \in [Sums -> RecvStates]
      BY <1>4, <2>4 DEF TypeOK
    <2> QED BY <1>3, <2>3, <2>5 DEF TypeOK, ReceiveTryingReady, dataPlane, network, connections
  <1>5. CASE UNCHANGED << transactions, recv >>
    BY <1>3, <1>5 DEF TypeOK, ReceiveTryingReady, dataPlane, network, connections
  <1> QED BY <1>4, <1>5 DEF ReceiveTryingReady

LEMMA TypeCheckCompletion ==
    ASSUME TypeOK, NEW s \in Sums, CheckCompletion(s)
    PROVE  TypeOK'
  <1>1. senderQueue' \in [Sums -> Seq(Envelopes)]
    BY RecvFields, TypeMaybeBroadcastOk DEF CheckCompletion
  <1> QED BY <1>1 DEF TypeOK, CheckCompletion, RecvStates, dataPlane, network, connections

LEMMA TypeReceiveOk ==
    ASSUME TypeOK, NEW s \in Sums, NEW src \in Sums, ReceiveOk(s, src)
    PROVE  TypeOK'
  <1> DEFINE msg == Head(casts[src][s])
             batch == [txn |-> msg.txn, records |-> DigestOf(s, msg.txn)]
  <1>1. msg \in Commits \cup Oks /\ Tail(casts[src][s]) \in Seq(Commits \cup Oks)
    BY Pop DEF TypeOK, ReceiveOk
  <1>2. msg.txn \in Clients
    BY <1>1, CastFields
  <1>3. casts' \in [Sums -> [Sums -> Seq(Commits \cup Oks)]]
    BY <1>1 DEF TypeOK, ReceiveOk
  <1>4. batch \in Batches
    BY <1>2 DEF Batches, DigestOf, RecordsOf
  <1>5. shipped' \in [Sums -> Seq(Batches)]
    BY <1>4 DEF TypeOK, ReceiveOk
  <1>6. recv' \in [Sums -> RecvStates]
    BY <1>2, RecvTurn DEF TypeOK, ReceiveOk
  <1> QED BY <1>3, <1>5, <1>6 DEF TypeOK, ReceiveOk, dataPlane, network, connections

LEMMA TypeDeletions ==
    ASSUME TypeOK, NEW s \in Sums,
           DeleteClientDigest(s) \/ DeleteTransaction(s) \/ DeleteTransactionInfo(s)
    PROVE  TypeOK'
  <1>1. CASE DeleteClientDigest(s)
    <2>1. recv' \in [Sums -> RecvStates]
      BY <1>1, RecvDelete DEF TypeOK, DeleteClientDigest
    <2>2. digestPool' \in [Sums -> SUBSET Records]
      BY <1>1 DEF TypeOK, DeleteClientDigest
    <2> QED BY <1>1, <2>1, <2>2 DEF TypeOK, DeleteClientDigest, dataPlane, network, connections
  <1>2. CASE DeleteTransaction(s)
    <2>1. recv' \in [Sums -> RecvStates]
      BY <1>2, RecvDelete DEF TypeOK, DeleteTransaction
    <2>2. transactions' \in [Sums -> [Clients -> Statuses]]
      BY <1>2 DEF TypeOK, DeleteTransaction, Statuses, NoStatus
    <2> QED BY <1>2, <2>1, <2>2 DEF TypeOK, DeleteTransaction, dataPlane, network, connections
  <1>3. CASE DeleteTransactionInfo(s)
    <2>1. recv' \in [Sums -> RecvStates]
      BY <1>3 DEF TypeOK, DeleteTransactionInfo, RecvStates, RecvIdle
    <2>2. masterOf' \in [Sums -> [Clients -> Sums \cup {NoSum}]]
      BY <1>3 DEF TypeOK, DeleteTransactionInfo
    <2> QED BY <1>3, <2>1, <2>2 DEF TypeOK, DeleteTransactionInfo, dataPlane, network, connections
  <1> QED BY <1>1, <1>2, <1>3

LEMMA TypeReceiverThread ==
    ASSUME TypeOK, NEW s \in Sums, ReceiverThread(s)
    PROVE  TypeOK'
  BY TypeReceiveCommit, TypeReceiveTryingReady, TypeReceiveOk, TypeSnapshotDigest,
     TypeAnswerCommit, TypeCheckCompletion, TypeDeletions DEF ReceiverThread

\* Delivering a broadcast keeps the channels typed, whoever it reaches.
LEMMA TypeDeliverCast ==
    ASSUME TypeOK, NEW s \in Sums, NEW reached, NEW msg \in Commits \cup Oks,
           DeliverCast(s, reached, msg)
    PROVE  casts' \in [Sums -> [Sums -> Seq(Commits \cup Oks)]]
  <1> DEFINE S == Commits \cup Oks
             row == [d \in Sums |-> IF d \in reached THEN Append(casts[s][d], msg)
                                   ELSE casts[s][d]]
  <1>1. \A d \in Sums : casts[s][d] \in Seq(S)
    BY DEF TypeOK
  <1>2. \A d \in Sums : Append(casts[s][d], msg) \in Seq(S)
    BY <1>1
  <1>3. row \in [Sums -> Seq(S)]
    BY <1>1, <1>2
  <1>4. casts' = [casts EXCEPT ![s] = row]
    BY DEF DeliverCast
  <1> QED BY <1>3, <1>4 DEF TypeOK

\* The envelope at the head of a sender's queue, and the queue without it.
LEMMA SenderHead ==
    ASSUME TypeOK, NEW s \in Sums, senderQueue[s] # <<>>
    PROVE  /\ Head(senderQueue[s]) \in Envelopes
           /\ Tail(senderQueue[s]) \in Seq(Envelopes)
           /\ Taken(s) => senderQueue' \in [Sums -> Seq(Envelopes)]
  <1>1. Head(senderQueue[s]) \in Envelopes /\ Tail(senderQueue[s]) \in Seq(Envelopes)
    BY Pop DEF TypeOK
  <1>2. senderQueue \in [Sums -> Seq(Envelopes)]
    BY DEF TypeOK
  <1> QED BY <1>1, <1>2 DEF Taken

LEMMA TypeSenderThread ==
    ASSUME TypeOK, NEW s \in Sums, SenderThread(s)
    PROVE  TypeOK'
  <1> DEFINE e == Head(senderQueue[s])
  <1>1. CASE PublishBroadcast(s)
    <2>1. e.message \in Commits \cup Oks
      BY <1>1, SenderHead, EnvelopeFields DEF PublishBroadcast
    <2>2. casts' \in [Sums -> [Sums -> Seq(Commits \cup Oks)]]
      BY <1>1, <2>1, TypeDeliverCast DEF PublishBroadcast
    <2>3. senderQueue' \in [Sums -> Seq(Envelopes)]
      BY <1>1, SenderHead DEF PublishBroadcast
    <2> QED BY <1>1, <2>2, <2>3 DEF TypeOK, PublishBroadcast, senderFrame, network, connections
  <1>2. CASE PublishDirect(s)
    <2>1. e.message \in TryingReadies /\ e.to \in Sums
      BY <1>2, SenderHead, EnvelopeFields DEF PublishDirect
    <2>2. directs' \in [Sums -> [Sums -> Seq(TryingReadies)]]
      <3>1. Append(directs[s][e.to], e.message) \in Seq(TryingReadies)
        BY <2>1 DEF TypeOK
      <3> QED BY <1>2, <2>1, <3>1 DEF TypeOK, PublishDirect
    <2>3. senderQueue' \in [Sums -> Seq(Envelopes)]
      BY <1>2, SenderHead DEF PublishDirect
    <2> QED BY <1>2, <2>2, <2>3 DEF TypeOK, PublishDirect, senderFrame, network, connections
  <1>3. CASE SendBroadcastFails(s)
    <2>1. e.message \in Commits \cup Oks
      BY <1>3, SenderHead, EnvelopeFields DEF SendBroadcastFails
    <2>2. casts' \in [Sums -> [Sums -> Seq(Commits \cup Oks)]]
      BY <1>3, <2>1, TypeDeliverCast DEF SendBroadcastFails, TypeOK
    <2>3. senderQueue' \in [Sums -> Seq(Envelopes)]
      BY <1>3, SenderHead DEF SendBroadcastFails
    <2>4. brokenCast' \in SUBSET Sums
      BY <1>3 DEF TypeOK, SendBroadcastFails
    <2> QED BY <1>3, <2>2, <2>3, <2>4 DEF TypeOK, SendBroadcastFails, senderFrame
  <1>4. CASE SendDirectFails(s)
    <2>1. e.to \in Sums
      BY <1>4, SenderHead, EnvelopeFields DEF SendDirectFails
    <2>2. senderQueue' \in [Sums -> Seq(Envelopes)]
      BY <1>4, SenderHead DEF SendDirectFails
    <2>3. brokenDirect' \in SUBSET (Sums \X Sums)
      BY <1>4, <2>1 DEF TypeOK, SendDirectFails
    <2> QED BY <1>4, <2>2, <2>3 DEF TypeOK, SendDirectFails, senderFrame
  <1> QED BY <1>1, <1>2, <1>3, <1>4 DEF SenderThread

LEMMA TypeStep == TypeOK /\ [Next]_vars => TypeOK'
  <1> SUFFICES ASSUME TypeOK, [Next]_vars PROVE TypeOK'
    OBVIOUS
  <1>1. CASE Gateway
    BY <1>1, TypePublishRecord, TypePublishEof DEF Gateway
  <1>2. ASSUME NEW s \in Sums, DataThread(s) PROVE TypeOK'
    BY <1>2, TypeDigestData, TypeReportProgress, TypeBeginTransaction, TypeFinishEof
    DEF DataThread
  <1>3. ASSUME NEW s \in Sums, ReceiverThread(s) PROVE TypeOK'
    BY <1>3, TypeReceiverThread
  <1>4. ASSUME NEW s \in Sums, SenderThread(s) PROVE TypeOK'
    BY <1>4, TypeSenderThread
  <1>5. ASSUME NEW s \in Sums, Listen(s) PROVE TypeOK'
    BY <1>5 DEF Listen, TypeOK, senderFrame
  <1>6. CASE UNCHANGED vars
    BY <1>6 DEF TypeOK, vars
  <1> QED BY <1>1, <1>2, <1>3, <1>4, <1>5, <1>6 DEF Next

\* The threads of a worker only ever exchange well-formed messages, and no
\* envelope is addressed to nobody (None as a routing key).
THEOREM TypeCorrect == Spec => []TypeOK
  BY TypeInit, TypeStep, PTL DEF Spec

-----------------------------------------------------------------------------
(* What a step leaves in a queue.                                          *)

LEMMA ElementsAppend ==
    ASSUME NEW S, NEW q \in Seq(S), NEW e \in S
    PROVE  Elements(Append(q, e)) = Elements(q) \cup {e}
  <1>1. /\ DOMAIN Append(q, e) = 1 .. Len(q) + 1
        /\ DOMAIN q = 1 .. Len(q)
        /\ Append(q, e)[Len(q) + 1] = e
        /\ \A i \in 1 .. Len(q) : Append(q, e)[i] = q[i]
    OBVIOUS
  <1>2. Len(q) \in Nat
    OBVIOUS
  <1>3. Elements(Append(q, e)) \subseteq Elements(q) \cup {e}
    <2> SUFFICES ASSUME NEW i \in 1 .. Len(q) + 1
                 PROVE  Append(q, e)[i] \in Elements(q) \cup {e}
      BY <1>1 DEF Elements
    <2>1. CASE i = Len(q) + 1
      BY <1>1, <2>1
    <2>2. CASE i # Len(q) + 1
      <3>1. i \in 1 .. Len(q)
        BY <1>2, <2>2
      <3> QED BY <1>1, <3>1 DEF Elements
    <2> QED BY <2>1, <2>2
  <1>4. Elements(q) \subseteq Elements(Append(q, e))
    <2>1. \A i \in 1 .. Len(q) : i \in 1 .. Len(q) + 1
      BY <1>2
    <2> QED BY <1>1, <2>1 DEF Elements
  <1>5. e \in Elements(Append(q, e))
    <2>1. Len(q) + 1 \in 1 .. Len(q) + 1
      BY <1>2
    <2> QED BY <1>1, <2>1 DEF Elements
  <1> QED BY <1>3, <1>4, <1>5

LEMMA ElementsTail ==
    ASSUME NEW S, NEW q \in Seq(S), q # <<>>
    PROVE  /\ Elements(Tail(q)) \subseteq Elements(q)
           /\ Head(q) \in Elements(q)
           /\ Elements(q) \subseteq S
  <1>1. /\ DOMAIN q = 1 .. Len(q)
        /\ Len(q) \in Nat \ {0}
        /\ DOMAIN Tail(q) = 1 .. Len(q) - 1
        /\ \A i \in 1 .. Len(q) - 1 : Tail(q)[i] = q[i + 1]
        /\ Head(q) = q[1]
    BY HeadTailProperties, LenProperties, EmptySeq
  <1>2. \A i \in 1 .. Len(q) - 1 : i + 1 \in 1 .. Len(q)
    BY <1>1
  <1>3. 1 \in 1 .. Len(q)
    BY <1>1
  <1>4. \A i \in 1 .. Len(q) : q[i] \in S
    OBVIOUS
  <1>5. Elements(Tail(q)) \subseteq Elements(q)
    BY <1>1, <1>2 DEF Elements
  <1> QED BY <1>1, <1>3, <1>4, <1>5 DEF Elements

\* One envelope joins the queue of s.
LEMMA Enqueue ==
    ASSUME TypeOK, NEW s \in Sums, NEW e \in Envelopes,
           senderQueue' = [senderQueue EXCEPT ![s] = Append(@, e)]
    PROVE  \A d \in Sums : Elements(senderQueue'[d]) =
               IF d = s THEN Elements(senderQueue[d]) \cup {e} ELSE Elements(senderQueue[d])
  <1>1. senderQueue \in [Sums -> Seq(Envelopes)]
    BY DEF TypeOK
  <1>2. Elements(Append(senderQueue[s], e)) = Elements(senderQueue[s]) \cup {e}
    BY <1>1, ElementsAppend
  <1> QED BY <1>1, <1>2

\* The envelope at the head leaves the queue of s.
LEMMA Dequeue ==
    ASSUME TypeOK, NEW s \in Sums, senderQueue[s] # <<>>, Taken(s)
    PROVE  /\ Head(senderQueue[s]) \in Elements(senderQueue[s])
           /\ \A d \in Sums : Elements(senderQueue'[d]) \subseteq Elements(senderQueue[d])
  <1>1. senderQueue \in [Sums -> Seq(Envelopes)]
    BY DEF TypeOK
  <1>2. /\ Elements(Tail(senderQueue[s])) \subseteq Elements(senderQueue[s])
        /\ Head(senderQueue[s]) \in Elements(senderQueue[s])
    BY <1>1, ElementsTail
  <1> QED BY <1>1, <1>2 DEF Taken

\* A delivery adds its message, or nothing, to the channels of its sender.
LEMMA Cast ==
    ASSUME TypeOK, NEW s \in Sums, NEW reached, NEW msg \in Commits \cup Oks,
           DeliverCast(s, reached, msg)
    PROVE  \A a, d \in Sums : Elements(casts'[a][d]) =
               IF a = s /\ d \in reached THEN Elements(casts[a][d]) \cup {msg}
               ELSE Elements(casts[a][d])
  <1>1. casts \in [Sums -> [Sums -> Seq(Commits \cup Oks)]]
    BY DEF TypeOK
  <1>2. \A d \in Sums : Elements(Append(casts[s][d], msg)) =
                            Elements(casts[s][d]) \cup {msg}
    <2> TAKE d \in Sums
    <2> DEFINE S == Commits \cup Oks
               q == casts[s][d]
    <2>1. q \in Seq(S) /\ msg \in S
      BY <1>1
    <2> HIDE DEF S, q
    <2>2. Elements(Append(q, msg)) = Elements(q) \cup {msg}
      BY <2>1, ElementsAppend
    <2> QED BY <2>2 DEF q
  <1>3. \A a, d \in Sums : casts'[a][d] = IF a = s /\ d \in reached
                                          THEN Append(casts[a][d], msg) ELSE casts[a][d]
    BY <1>1 DEF DeliverCast
  <1> QED BY <1>2, <1>3

\* The receiver of s takes the first message of a broadcast channel.
LEMMA TakeCast ==
    ASSUME TypeOK, NEW s \in Sums, NEW src \in Sums, casts[src][s] # <<>>,
           casts' = [casts EXCEPT ![src][s] = Tail(@)]
    PROVE  /\ Head(casts[src][s]) \in Elements(casts[src][s])
           /\ Head(casts[src][s]) \in Commits \cup Oks
           /\ \A a, d \in Sums : Elements(casts'[a][d]) \subseteq Elements(casts[a][d])
  <1>1. casts \in [Sums -> [Sums -> Seq(Commits \cup Oks)]]
    BY DEF TypeOK
  <1>2. /\ Head(casts[src][s]) \in Elements(casts[src][s])
        /\ Elements(casts[src][s]) \subseteq Commits \cup Oks
        /\ Elements(Tail(casts[src][s])) \subseteq Elements(casts[src][s])
    BY <1>1, ElementsTail
  <1>3. \A a, d \in Sums : casts'[a][d] = IF a = src /\ d = s THEN Tail(casts[a][d])
                                          ELSE casts[a][d]
    BY <1>1
  <1> QED BY <1>2, <1>3

LEMMA TakeDirect ==
    ASSUME TypeOK, NEW s \in Sums, NEW src \in Sums, directs[src][s] # <<>>,
           directs' = [directs EXCEPT ![src][s] = Tail(@)]
    PROVE  /\ Head(directs[src][s]) \in Elements(directs[src][s])
           /\ Head(directs[src][s]) \in TryingReadies
           /\ \A a, d \in Sums : Elements(directs'[a][d]) \subseteq Elements(directs[a][d])
  <1>1. directs \in [Sums -> [Sums -> Seq(TryingReadies)]]
    BY DEF TypeOK
  <1>2. /\ Head(directs[src][s]) \in Elements(directs[src][s])
        /\ Elements(directs[src][s]) \subseteq TryingReadies
        /\ Elements(Tail(directs[src][s])) \subseteq Elements(directs[src][s])
    BY <1>1, ElementsTail
  <1>3. \A a, d \in Sums : directs'[a][d] = IF a = src /\ d = s THEN Tail(directs[a][d])
                                            ELSE directs[a][d]
    BY <1>1
  <1> QED BY <1>2, <1>3

-----------------------------------------------------------------------------
(* One master per client.  A worker is first taken for a master when the   *)
(* broker hands it the client's EOF, which happens once; every other step  *)
(* only repeats what somebody already believed.                            *)

NoNewMaster == \A s \in Sums, c \in Clients :
                   IsTakenForMaster(s, c)' => IsTakenForMaster(s, c)

\* What a queued envelope or a message in flight says is what somebody believes.
LEMMA Believed ==
    ASSUME NEW d \in Sums, NEW m \in Sums, NEW c \in Clients,
           QueuedFor(d, m, c) \/ InFlightFor(d, m, c)
    PROVE  IsTakenForMaster(m, c)
  BY DEF IsTakenForMaster

\* The queues are the same, and the channels have not grown.
SameMessages ==
    /\ \A d \in Sums : Elements(senderQueue'[d]) \subseteq Elements(senderQueue[d])
    /\ \A a, d \in Sums : /\ Elements(casts'[a][d]) \subseteq Elements(casts[a][d])
                          /\ Elements(directs'[a][d]) \subseteq Elements(directs[a][d])

LEMMA SameBelief ==
    ASSUME SameMessages, NEW m \in Sums, NEW c \in Clients, NEW d \in Sums
    PROVE  /\ QueuedFor(d, m, c)' => QueuedFor(d, m, c)
           /\ InFlightFor(d, m, c)' => InFlightFor(d, m, c)
  BY DEF SameMessages, QueuedFor, InFlightFor

\* An envelope that says no more than what is believed joins a queue.
LEMMA EnqueueBelief ==
    ASSUME TypeOK, NEW s \in Sums, NEW e \in Envelopes,
           senderQueue' = [senderQueue EXCEPT ![s] = Append(@, e)],
           NEW b \in Sums, IsTakenForMaster(b, e.message.txn),
           \/ e = Broadcast(Commit(e.message.txn, b))
           \/ e = Broadcast(Ok(e.message.txn)) /\ b = s
           \/ e.mode = "direct" /\ e.to = b,
           NEW m \in Sums, NEW c \in Clients, NEW d \in Sums, QueuedFor(d, m, c)'
    PROVE  IsTakenForMaster(m, c)
  <1>1. PICK f \in Elements(senderQueue'[d]) :
            \/ f.mode = "broadcast" /\ f.message = Commit(c, m)
            \/ f.mode = "broadcast" /\ f.message = Ok(c) /\ d = m
            \/ f.mode = "direct" /\ f.to = m /\ f.message.txn = c
    BY DEF QueuedFor
  <1>2. CASE f \in Elements(senderQueue[d])
    BY <1>1, <1>2, Believed DEF QueuedFor
  <1>3. CASE f = e /\ d = s
    BY <1>1, <1>3 DEF Broadcast, Commit, Ok
  <1>4. f \in Elements(senderQueue[d]) \/ (f = e /\ d = s)
    <2>1. \A a \in Sums : Elements(senderQueue'[a]) =
              IF a = s THEN Elements(senderQueue[a]) \cup {e} ELSE Elements(senderQueue[a])
      BY Enqueue
    <2>2. CASE d = s
      <3>1. Elements(senderQueue'[s]) = Elements(senderQueue[s]) \cup {e}
        BY <2>1, Zenon
      <3>2. f \in Elements(senderQueue'[s])
        BY <2>2
      <3>3. f \in Elements(senderQueue[s]) \/ f = e
        BY <3>1, <3>2, Zenon
      <3> QED BY <2>2, <3>3
    <2>3. CASE d # s
      BY <2>1, <2>3, Zenon
    <2> QED BY <2>2, <2>3
  <1> QED BY <1>2, <1>3, <1>4

LEMMA BeliefReportProgress ==
    ASSUME TypeOK, NEW s \in Sums, ReportProgress(s)
    PROVE  NoNewMaster
  <1> SUFFICES ASSUME NEW m \in Sums, NEW c \in Clients, IsTakenForMaster(m, c)'
               PROVE  IsTakenForMaster(m, c)
    BY DEF NoNewMaster
  <1> DEFINE t == data[s].txn
             e == Direct(masterOf[s][t], TryingReady(t, 1))
  <1>1. t \in Clients
    BY DEF TypeOK, ReportProgress, DataStates, DataIdle
  <1>2. CASE \E d \in Sums : QueuedFor(d, m, c)'
    <2>1. CASE masterOf[s][t] = NoSum
      BY <1>2, <2>1, Believed DEF ReportProgress, QueuedFor
    <2>2. CASE masterOf[s][t] # NoSum
      <3>1. masterOf[s][t] \in Sums
        BY <1>1, <2>2 DEF TypeOK
      <3>2. IsTakenForMaster(masterOf[s][t], t)
        BY <3>1 DEF IsTakenForMaster
      <3>3. e \in Envelopes /\ e.message.txn = t /\ e.mode = "direct" /\ e.to = masterOf[s][t]
        BY <1>1, <3>1, MessageTypes DEF Direct, TryingReady
      <3>4. senderQueue' = [senderQueue EXCEPT ![s] = Append(@, e)]
        BY <2>2 DEF ReportProgress
      <3> HIDE DEF e
      <3> QED BY <1>2, <3>1, <3>2, <3>3, <3>4, EnqueueBelief
    <2> QED BY <2>1, <2>2
  <1>3. CASE ~\E d \in Sums : QueuedFor(d, m, c)'
    BY <1>3 DEF IsTakenForMaster, InFlightFor, ReportProgress, TypeOK, DataIdle
  <1> QED BY <1>2, <1>3

LEMMA BeliefMaybeBroadcastOk ==
    ASSUME TypeOK, NEW s \in Sums, NEW t \in Clients, MaybeBroadcastOk(s, t),
           NEW m \in Sums, NEW c \in Clients, NEW d \in Sums, QueuedFor(d, m, c)'
    PROVE  IsTakenForMaster(m, c)
  <1> DEFINE e == Broadcast(Ok(t))
  <1>1. CASE DigestionComplete(s, t)
    <2>1. IsTakenForMaster(s, t)
      BY <1>1 DEF DigestionComplete, IsTakenForMaster
    <2>2. e \in Envelopes /\ e.message.txn = t /\ e = Broadcast(Ok(e.message.txn))
      BY MessageTypes DEF Broadcast, Ok
    <2>3. senderQueue' = [senderQueue EXCEPT ![s] = Append(@, e)]
      BY <1>1 DEF MaybeBroadcastOk
    <2> HIDE DEF e
    <2> QED BY <2>1, <2>2, <2>3, EnqueueBelief
  <1>2. CASE ~DigestionComplete(s, t)
    BY <1>2, Believed DEF MaybeBroadcastOk, QueuedFor
  <1> QED BY <1>1, <1>2

LEMMA BeliefBeginTransaction ==
    ASSUME TypeOK, NEW s \in Sums, NEW t \in Clients, BeginTransaction(s, t)
    PROVE  NoNewMaster
  <1> SUFFICES ASSUME NEW m \in Sums, NEW c \in Clients, IsTakenForMaster(m, c)'
               PROVE  IsTakenForMaster(m, c)
    BY DEF NoNewMaster
  <1> DEFINE e == Broadcast(Commit(t, s))
  <1>1. IsTakenForMaster(s, t)
    BY DEF BeginTransaction, IsTakenForMaster
  <1>2. CASE \E d \in Sums : QueuedFor(d, m, c)'
    <2>1. e \in Envelopes /\ e.message.txn = t /\ e = Broadcast(Commit(e.message.txn, s))
      BY MessageTypes DEF Broadcast, Commit
    <2>2. senderQueue' = [senderQueue EXCEPT ![s] = Append(@, e)]
      BY DEF BeginTransaction
    <2> HIDE DEF e
    <2> QED BY <1>1, <1>2, <2>1, <2>2, EnqueueBelief
  <1>3. CASE m = s /\ c = t
    BY <1>1, <1>3
  <1>4. CASE ~(m = s /\ c = t) /\ ~\E d \in Sums : QueuedFor(d, m, c)'
    <2>1. /\ c \in eofInbox'[m] => c \in eofInbox[m]
          /\ data'[m].at = "maybe_ok" /\ data'[m].txn = c =>
                data[m].at = "maybe_ok" /\ data[m].txn = c
          /\ transactions'[m][c] = transactions[m][c]
          /\ \A d \in Sums : masterOf'[d][c] = m => masterOf[d][c] = m
      BY <1>4 DEF BeginTransaction, TypeOK
    <2>2. \A d \in Sums : InFlightFor(d, m, c)' <=> InFlightFor(d, m, c)
      BY DEF BeginTransaction, InFlightFor
    <2>3. recv' = recv
      BY DEF BeginTransaction
    <2> QED BY <1>4, <2>1, <2>2, <2>3 DEF IsTakenForMaster
  <1> QED BY <1>2, <1>3, <1>4

LEMMA BeliefFinishEof ==
    ASSUME TypeOK, NEW s \in Sums, FinishEof(s)
    PROVE  NoNewMaster
  <1> SUFFICES ASSUME NEW m \in Sums, NEW c \in Clients, IsTakenForMaster(m, c)'
               PROVE  IsTakenForMaster(m, c)
    BY DEF NoNewMaster
  <1>1. data[s].txn \in Clients
    BY DEF TypeOK, FinishEof, DataStates, DataIdle
  <1>2. CASE \E d \in Sums : QueuedFor(d, m, c)'
    BY <1>1, <1>2, BeliefMaybeBroadcastOk DEF FinishEof
  <1>3. CASE ~\E d \in Sums : QueuedFor(d, m, c)'
    BY <1>3 DEF IsTakenForMaster, InFlightFor, FinishEof, TypeOK, DataIdle
  <1> QED BY <1>2, <1>3

LEMMA BeliefReceiveCommit ==
    ASSUME TypeOK, NEW s \in Sums, NEW src \in Sums, ReceiveCommit(s, src)
    PROVE  NoNewMaster
  <1> SUFFICES ASSUME NEW m \in Sums, NEW c \in Clients, IsTakenForMaster(m, c)'
               PROVE  IsTakenForMaster(m, c)
    BY DEF NoNewMaster
  <1> DEFINE msg == Head(casts[src][s])
  <1>1. /\ msg \in Elements(casts[src][s])
        /\ msg \in Commits \cup Oks
        /\ \A a, d \in Sums : Elements(casts'[a][d]) \subseteq Elements(casts[a][d])
    BY TakeCast DEF ReceiveCommit
  <1>2. msg = Commit(msg.txn, msg.master) /\ msg.txn \in Clients /\ msg.master \in Sums
    BY <1>1, CastFields DEF ReceiveCommit
  <1>3. IsTakenForMaster(msg.master, msg.txn)
    BY <1>1, <1>2, Believed DEF InFlightFor
  <1>4. SameMessages
    BY <1>1 DEF SameMessages, ReceiveCommit
  <1>5. CASE m = msg.master /\ c = msg.txn
    BY <1>3, <1>5
  <1>6. CASE ~(m = msg.master /\ c = msg.txn)
    <2>1. /\ \A d \in Sums : masterOf'[d][c] = m => masterOf[d][c] = m
          /\ \A d \in Sums : recv'[d].master = m /\ recv'[d].txn = c =>
                                recv[d].master = m /\ recv[d].txn = c
          /\ recv'[m].at = "check" => recv[m] = recv'[m]
      BY <1>2, <1>6 DEF ReceiveCommit, TypeOK
    <2>2. UNCHANGED << eofInbox, data, transactions >>
      BY DEF ReceiveCommit, dataPlane
    <2> QED BY <1>4, <2>1, <2>2, SameBelief DEF IsTakenForMaster
  <1> QED BY <1>5, <1>6

LEMMA BeliefAnswerCommit ==
    ASSUME TypeOK, NEW s \in Sums, AnswerCommit(s)
    PROVE  NoNewMaster
  <1> SUFFICES ASSUME NEW m \in Sums, NEW c \in Clients, IsTakenForMaster(m, c)'
               PROVE  IsTakenForMaster(m, c)
    BY DEF NoNewMaster
  <1> DEFINE t == recv[s].txn
             e == Direct(recv[s].master, TryingReady(t, recv[s].processed))
  <1>1. t \in Clients /\ recv[s].master \in Sums /\ recv[s].processed \in Nat
    BY RecvFields DEF AnswerCommit
  <1>2. CASE \E d \in Sums : QueuedFor(d, m, c)'
    <2>1. IsTakenForMaster(recv[s].master, t)
      BY <1>1 DEF IsTakenForMaster
    <2>2. e \in Envelopes /\ e.message.txn = t /\ e.mode = "direct" /\ e.to = recv[s].master
      BY <1>1, MessageTypes DEF Direct, TryingReady
    <2>3. senderQueue' = [senderQueue EXCEPT ![s] = Append(@, e)]
      BY DEF AnswerCommit
    <2> HIDE DEF e
    <2> QED BY <1>1, <1>2, <2>1, <2>2, <2>3, EnqueueBelief
  <1>3. CASE ~\E d \in Sums : QueuedFor(d, m, c)'
    BY <1>3 DEF IsTakenForMaster, InFlightFor, AnswerCommit, TypeOK, RecvIdle, dataPlane
  <1> QED BY <1>2, <1>3

LEMMA BeliefCheckCompletion ==
    ASSUME TypeOK, NEW s \in Sums, CheckCompletion(s)
    PROVE  NoNewMaster
  <1> SUFFICES ASSUME NEW m \in Sums, NEW c \in Clients, IsTakenForMaster(m, c)'
               PROVE  IsTakenForMaster(m, c)
    BY DEF NoNewMaster
  <1>1. recv[s].txn \in Clients
    BY RecvFields DEF CheckCompletion
  <1>2. CASE \E d \in Sums : QueuedFor(d, m, c)'
    BY <1>1, <1>2, BeliefMaybeBroadcastOk DEF CheckCompletion
  <1>3. CASE ~\E d \in Sums : QueuedFor(d, m, c)'
    BY <1>3 DEF IsTakenForMaster, InFlightFor, CheckCompletion, TypeOK, RecvIdle, dataPlane
  <1> QED BY <1>2, <1>3

LEMMA BeliefReceiveTryingReady ==
    ASSUME TypeOK, NEW s \in Sums, NEW src \in Sums, ReceiveTryingReady(s, src)
    PROVE  NoNewMaster
  <1> SUFFICES ASSUME NEW m \in Sums, NEW c \in Clients, IsTakenForMaster(m, c)'
               PROVE  IsTakenForMaster(m, c)
    BY DEF NoNewMaster
  <1> DEFINE msg == Head(directs[src][s])
  <1>1. /\ msg \in TryingReadies
        /\ \A a, d \in Sums : Elements(directs'[a][d]) \subseteq Elements(directs[a][d])
    BY TakeDirect DEF ReceiveTryingReady
  <1>2. SameMessages
    BY <1>1 DEF SameMessages, ReceiveTryingReady
  <1> DEFINE turn == [RecvIdle EXCEPT !.at = "check", !.txn = msg.txn]
  <1>3. msg.txn \in Clients /\ turn.master = NoSum /\ turn.txn = msg.txn
    BY <1>1 DEF TryingReadies, RecvIdle
  <1>4. /\ transactions'[m][c].open = transactions[m][c].open
        /\ recv'[m].at = "check" /\ recv'[m].txn = c =>
              transactions[m][c].open \/ recv[m] = recv'[m]
        /\ \A d \in Sums : recv'[d].master = m => recv'[d] = recv[d]
    <2>1. CASE /\ transactions[s][msg.txn].open
               /\ transactions' = [transactions EXCEPT ![s][msg.txn].current =
                                      @ + msg.processed]
               /\ recv' = [recv EXCEPT ![s] = turn]
      <3> DEFINE added == [transactions[s][msg.txn] EXCEPT !.current = @ + msg.processed]
      <3>1. added.open = transactions[s][msg.txn].open
        BY <1>3 DEF TypeOK, Statuses
      <3>2. transactions' = [transactions EXCEPT ![s][msg.txn] = added]
        BY <2>1
      <3>3. transactions'[m][c].open = transactions[m][c].open
        BY <1>3, <3>1, <3>2 DEF TypeOK
      <3>4. \A d \in Sums : recv'[d] = IF d = s THEN turn ELSE recv[d]
        BY <2>1 DEF TypeOK
      <3> HIDE DEF turn
      <3> QED BY <1>3, <2>1, <3>3, <3>4, SumsAssumption
    <2>2. CASE UNCHANGED << transactions, recv >>
      BY <2>2
    <2> QED BY <2>1, <2>2 DEF ReceiveTryingReady
  <1>6. UNCHANGED << eofInbox, data, masterOf >>
    BY DEF ReceiveTryingReady, dataPlane
  <1> QED BY <1>2, <1>4, <1>6, SameBelief DEF IsTakenForMaster

LEMMA RecvKept ==
    ASSUME NEW old \in RecvStates, NEW at, NEW n
    PROVE  /\ [old EXCEPT !.at = at].at = at
           /\ [old EXCEPT !.at = at].txn = old.txn
           /\ [old EXCEPT !.at = at].master = old.master
           /\ [old EXCEPT !.at = at, !.processed = n].at = at
           /\ [old EXCEPT !.at = at, !.processed = n].txn = old.txn
           /\ [old EXCEPT !.at = at, !.processed = n].master = old.master
  BY DEF RecvStates, RecvIdle

\* Taking an Ok, and the steps that only delete or count.
LEMMA BeliefQuiet ==
    ASSUME TypeOK, NEW s \in Sums,
           \/ \E src \in Sums : ReceiveOk(s, src)
           \/ SnapshotDigest(s)
           \/ DeleteClientDigest(s)
           \/ DeleteTransaction(s)
           \/ DeleteTransactionInfo(s)
    PROVE  NoNewMaster
  <1> SUFFICES ASSUME NEW m \in Sums, NEW c \in Clients, IsTakenForMaster(m, c)'
               PROVE  IsTakenForMaster(m, c)
    BY DEF NoNewMaster
  <1>1. /\ UNCHANGED << eofInbox, data >>
        /\ SameMessages
        /\ transactions'[m][c].open => transactions[m][c].open
        /\ \A d \in Sums : masterOf'[d][c] = m => masterOf[d][c] = m
        /\ recv'[m].at = "check" => recv[m] = recv'[m]
        /\ \A d \in Sums : recv'[d].master = m /\ recv'[d].txn = c =>
                              recv[d].master = m /\ recv[d].txn = c
    <2>1. ASSUME NEW src \in Sums, ReceiveOk(s, src) PROVE <1>1!:
      <3>1. SameMessages
        BY <2>1, TakeCast DEF SameMessages, ReceiveOk
      <3> QED BY <2>1, <3>1, SumsAssumption DEF ReceiveOk, TypeOK, RecvIdle, dataPlane
    <2>2. CASE SnapshotDigest(s)
      <3>1. \A d \in Sums : /\ recv'[d].txn = recv[d].txn
                            /\ recv'[d].master = recv[d].master
                            /\ recv'[d].at = "check" => recv'[d] = recv[d]
        <4> DEFINE next == [recv[s] EXCEPT !.at = "answer",
                                       !.processed = Cardinality(DigestOf(s, recv[s].txn))]
        <4>1. \A d \in Sums : recv'[d] = IF d = s THEN next ELSE recv[d]
          BY <2>2 DEF SnapshotDigest, TypeOK
        <4>2. /\ next.at # "check" /\ next.txn = recv[s].txn
              /\ next.master = recv[s].master
          BY RecvKept DEF TypeOK
        <4> HIDE DEF next
        <4> QED BY <4>1, <4>2
      <3> QED BY <2>2, <3>1 DEF SnapshotDigest, SameMessages, dataPlane
    <2>3. CASE DeleteClientDigest(s)
      <3>1. \A d \in Sums : /\ recv'[d].txn = recv[d].txn
                            /\ recv'[d].master = recv[d].master
                            /\ recv'[d].at = "check" => recv'[d] = recv[d]
        <4> DEFINE next == [recv[s] EXCEPT !.at = "delete_transaction"]
        <4>1. \A d \in Sums : recv'[d] = IF d = s THEN next ELSE recv[d]
          BY <2>3 DEF DeleteClientDigest, TypeOK
        <4>2. /\ next.at # "check" /\ next.txn = recv[s].txn
              /\ next.master = recv[s].master
          BY RecvKept DEF TypeOK
        <4> HIDE DEF next
        <4> QED BY <4>1, <4>2
      <3> QED BY <2>3, <3>1 DEF DeleteClientDigest, SameMessages, dataPlane
    <2>4. CASE DeleteTransaction(s)
      <3>1. \A d \in Sums : /\ recv'[d].txn = recv[d].txn
                            /\ recv'[d].master = recv[d].master
                            /\ recv'[d].at = "check" => recv'[d] = recv[d]
        <4> DEFINE next == [recv[s] EXCEPT !.at = "delete_master"]
        <4>1. \A d \in Sums : recv'[d] = IF d = s THEN next ELSE recv[d]
          BY <2>4 DEF DeleteTransaction, TypeOK
        <4>2. /\ next.at # "check" /\ next.txn = recv[s].txn
              /\ next.master = recv[s].master
          BY RecvKept DEF TypeOK
        <4> HIDE DEF next
        <4> QED BY <4>1, <4>2
      <3>2. transactions'[m][c].open => transactions[m][c].open
        BY <2>4 DEF DeleteTransaction, TypeOK, NoStatus
      <3> QED BY <2>4, <3>1, <3>2 DEF DeleteTransaction, SameMessages, dataPlane
    <2>5. CASE DeleteTransactionInfo(s)
      BY <2>5, SumsAssumption
      DEF DeleteTransactionInfo, SameMessages, TypeOK, RecvIdle, dataPlane
    <2> QED BY <2>1, <2>2, <2>3, <2>4, <2>5
  <1> QED BY <1>1, SameBelief DEF IsTakenForMaster

\* Publishing, wholly or in part, moves an envelope's message to channels.
LEMMA BeliefBroadcast ==
    ASSUME TypeOK, NEW s \in Sums, senderQueue[s] # <<>>,
           Head(senderQueue[s]).mode = "broadcast", Taken(s),
           \/ casts' = casts
           \/ \E reached : DeliverCast(s, reached, Head(senderQueue[s]).message),
           UNCHANGED << senderFrame, directs >>
    PROVE  NoNewMaster
  <1> SUFFICES ASSUME NEW m \in Sums, NEW c \in Clients, IsTakenForMaster(m, c)'
               PROVE  IsTakenForMaster(m, c)
    BY DEF NoNewMaster
  <1> DEFINE e == Head(senderQueue[s])
             msg == e.message
  <1>1. /\ e \in Elements(senderQueue[s])
        /\ \A d \in Sums : Elements(senderQueue'[d]) \subseteq Elements(senderQueue[d])
    BY Dequeue
  <1>2. msg \in Commits \cup Oks
    BY SenderHead, EnvelopeFields
  <1>3. \A a, d \in Sums : Elements(casts'[a][d]) \subseteq
            Elements(casts[a][d]) \cup (IF a = s THEN {msg} ELSE {})
    <2>1. CASE casts' = casts
      BY <2>1
    <2>2. ASSUME NEW reached, DeliverCast(s, reached, msg) PROVE <1>3
      <3>1. \A a, d \in Sums : Elements(casts'[a][d]) =
                IF a = s /\ d \in reached THEN Elements(casts[a][d]) \cup {msg}
                ELSE Elements(casts[a][d])
        <4>1. PICK sent \in Commits \cup Oks : sent = msg
          BY <1>2
        <4>2. DeliverCast(s, reached, sent)
          BY <2>2, <4>1 DEF DeliverCast
        <4>3. \A a, d \in Sums : Elements(casts'[a][d]) =
                  IF a = s /\ d \in reached THEN Elements(casts[a][d]) \cup {sent}
                  ELSE Elements(casts[a][d])
          BY ONLY TypeOK, <4>2, Cast
        <4> HIDE DEF msg
        <4> QED BY <4>1, <4>3
      <3> HIDE DEF msg
      <3> QED BY <3>1
    <2> QED BY <2>1, <2>2
  <1>4. \A d \in Sums : QueuedFor(d, m, c)' => QueuedFor(d, m, c)
    BY <1>1 DEF QueuedFor
  <1>5. ASSUME NEW d \in Sums, InFlightFor(d, m, c)'
        PROVE  IsTakenForMaster(m, c)
    <2>1. CASE \E src \in Sums : Commit(c, m) \in Elements(casts'[src][d])
      <3>1. PICK src \in Sums : Commit(c, m) \in Elements(casts'[src][d])
        BY <2>1
      <3>2. CASE Commit(c, m) \in Elements(casts[src][d])
        BY <3>2, Believed DEF InFlightFor
      <3>3. CASE msg = Commit(c, m)
        BY <1>1, <3>3, Believed DEF QueuedFor
      <3>4. Commit(c, m) \in Elements(casts[src][d]) \/ msg = Commit(c, m)
        <4> HIDE DEF msg
        <4> QED BY <1>3, <3>1
      <3> QED BY <3>2, <3>3, <3>4
    <2>2. CASE Ok(c) \in Elements(casts'[m][d])
      <3>1. CASE Ok(c) \in Elements(casts[m][d])
        BY <3>1, Believed DEF InFlightFor
      <3>2. CASE msg = Ok(c) /\ m = s
        BY <1>1, <3>2, Believed DEF QueuedFor
      <3>3. Ok(c) \in Elements(casts[m][d]) \/ (msg = Ok(c) /\ m = s)
        <4> HIDE DEF msg
        <4> QED BY <1>3, <2>2
      <3> QED BY <3>1, <3>2, <3>3
    <2>3. CASE \E f \in Elements(directs'[d][m]) : f.txn = c
      BY <2>3, Believed DEF InFlightFor
    <2> QED BY <1>5, <2>1, <2>2, <2>3 DEF InFlightFor
  <1>6. UNCHANGED << eofInbox, data, transactions, recv, masterOf >>
    BY DEF senderFrame
  <1> QED BY <1>4, <1>5, <1>6 DEF IsTakenForMaster

LEMMA BeliefDirect ==
    ASSUME TypeOK, NEW s \in Sums, PublishDirect(s) \/ SendDirectFails(s)
    PROVE  NoNewMaster
  <1> SUFFICES ASSUME NEW m \in Sums, NEW c \in Clients, IsTakenForMaster(m, c)'
               PROVE  IsTakenForMaster(m, c)
    BY DEF NoNewMaster
  <1> DEFINE e == Head(senderQueue[s])
             msg == e.message
  <1>1. /\ senderQueue[s] # <<>> /\ Taken(s) /\ e.mode = "direct"
        /\ UNCHANGED << senderFrame, casts >>
    BY DEF PublishDirect, SendDirectFails
  <1>2. /\ e \in Elements(senderQueue[s])
        /\ \A d \in Sums : Elements(senderQueue'[d]) \subseteq Elements(senderQueue[d])
    BY <1>1, Dequeue
  <1>3. msg \in TryingReadies /\ e.to \in Sums
    BY <1>1, SenderHead, EnvelopeFields
  <1>4. \A a, d \in Sums : Elements(directs'[a][d]) \subseteq
            Elements(directs[a][d]) \cup (IF a = s /\ d = e.to THEN {msg} ELSE {})
    <2>1. CASE directs' = directs
      BY <2>1
    <2>2. CASE directs' = [directs EXCEPT ![s][e.to] = Append(@, msg)]
      <3>1. Elements(Append(directs[s][e.to], msg)) = Elements(directs[s][e.to]) \cup {msg}
        <4>1. directs[s][e.to] \in Seq(TryingReadies)
          <5>1. directs \in [Sums -> [Sums -> Seq(TryingReadies)]]
            BY DEF TypeOK
          <5> HIDE DEF e
          <5> QED BY <1>3, <5>1
        <4>2. msg \in TryingReadies
          BY <1>3
        <4> DEFINE q == directs[s][e.to]
        <4> HIDE DEF msg, q
        <4>3. Elements(Append(q, msg)) = Elements(q) \cup {msg}
          BY <4>1, <4>2, ElementsAppend DEF q
        <4> QED BY <4>3 DEF q
      <3>2. \A a, d \in Sums : directs'[a][d] = IF a = s /\ d = e.to
                                                THEN Append(directs[a][d], msg)
                                                ELSE directs[a][d]
        BY <1>3, <2>2 DEF TypeOK
      <3> HIDE DEF msg, e
      <3> QED BY <3>1, <3>2
    <2> QED BY <2>1, <2>2 DEF PublishDirect, SendDirectFails
  <1>5. \A d \in Sums : QueuedFor(d, m, c)' => QueuedFor(d, m, c)
    BY <1>2 DEF QueuedFor
  <1>6. ASSUME NEW d \in Sums, InFlightFor(d, m, c)'
        PROVE  IsTakenForMaster(m, c)
    <2>1. CASE \/ \E src \in Sums : Commit(c, m) \in Elements(casts'[src][d])
               \/ Ok(c) \in Elements(casts'[m][d])
      BY <1>1, <2>1, Believed DEF InFlightFor
    <2>2. CASE \E f \in Elements(directs'[d][m]) : f.txn = c
      <3>1. PICK f \in Elements(directs'[d][m]) : f.txn = c
        BY <2>2
      <3>2. CASE f \in Elements(directs[d][m])
        BY <3>1, <3>2, Believed DEF InFlightFor
      <3>3. CASE f = msg /\ d = s /\ m = e.to
        BY <1>1, <1>2, <3>1, <3>3, Believed DEF QueuedFor
      <3>4. f \in Elements(directs[d][m]) \/ (f = msg /\ d = s /\ m = e.to)
        <4> HIDE DEF msg, e
        <4> QED BY <1>4, <3>1
      <3> QED BY <3>2, <3>3, <3>4
    <2> QED BY <1>6, <2>1, <2>2 DEF InFlightFor
  <1>7. UNCHANGED << eofInbox, data, transactions, recv, masterOf >>
    BY <1>1 DEF senderFrame
  <1> QED BY <1>5, <1>6, <1>7 DEF IsTakenForMaster

\* Every step but the arrival of the client's EOF.
LEMMA BeliefStep ==
    ASSUME TypeOK, [Next]_vars,
           ~\E s \in Sums, c \in Clients : PublishEof(c, s)
    PROVE  NoNewMaster
  <1>1. ASSUME NEW s \in Sums, NEW r \in Records, PublishRecord(r, s)
        PROVE  NoNewMaster
    BY <1>1 DEF NoNewMaster, PublishRecord, IsTakenForMaster, QueuedFor, InFlightFor,
                controlVars
  <1>2. ASSUME NEW s \in Sums, DataThread(s) PROVE NoNewMaster
    <2>1. ASSUME NEW r \in Records, DigestData(s, r) PROVE NoNewMaster
      BY <2>1 DEF NoNewMaster, DigestData, IsTakenForMaster, QueuedFor, InFlightFor,
                  controlVars, TypeOK
    <2> QED BY <1>2, <2>1, BeliefReportProgress, BeliefBeginTransaction, BeliefFinishEof
        DEF DataThread
  <1>3. ASSUME NEW s \in Sums, ReceiverThread(s) PROVE NoNewMaster
    BY <1>3, BeliefReceiveCommit, BeliefReceiveTryingReady, BeliefAnswerCommit,
       BeliefCheckCompletion, BeliefQuiet DEF ReceiverThread
  <1>4. ASSUME NEW s \in Sums, SenderThread(s) PROVE NoNewMaster
    <2>1. CASE PublishBroadcast(s)
      BY <2>1, BeliefBroadcast DEF PublishBroadcast
    <2>2. CASE SendBroadcastFails(s)
      BY <2>2, BeliefBroadcast DEF SendBroadcastFails
    <2> QED BY <1>4, <2>1, <2>2, BeliefDirect DEF SenderThread
  <1>5. ASSUME NEW s \in Sums, Listen(s) PROVE NoNewMaster
    BY <1>5 DEF NoNewMaster, Listen, IsTakenForMaster, QueuedFor, InFlightFor, senderFrame
  <1>6. CASE UNCHANGED vars
    BY <1>6 DEF NoNewMaster, IsTakenForMaster, QueuedFor, InFlightFor, vars
  <1> QED BY <1>1, <1>2, <1>3, <1>4, <1>5, <1>6 DEF Next, Gateway

\* Nobody is taken for the master of a client whose EOF is not published.
NoMasterBeforeEof == \A s \in Sums, c \in Clients : IsTakenForMaster(s, c) => c \in ended

MasterInv == TypeOK /\ SingleMaster /\ NoMasterBeforeEof

LEMMA MasterInit == Init => MasterInv
  <1> SUFFICES ASSUME Init, NEW s \in Sums, NEW c \in Clients
               PROVE  ~IsTakenForMaster(s, c)
    BY TypeInit DEF MasterInv, SingleMaster, NoMasterBeforeEof
  <1>1. Elements(<<>>) = {}
    BY DEF Elements
  <1> QED BY <1>1, SumsAssumption
      DEF Init, IsTakenForMaster, QueuedFor, InFlightFor, DataIdle, RecvIdle, NoStatus

LEMMA EofsPublished ==
    ASSUME [Next]_vars, ~\E s \in Sums, c \in Clients : PublishEof(c, s)
    PROVE  ended' = ended
  <1>1. ASSUME NEW s \in Sums, NEW r \in Records, PublishRecord(r, s)
        PROVE  ended' = ended
    BY <1>1 DEF PublishRecord
  <1>2. ASSUME NEW s \in Sums, DataThread(s) PROVE ended' = ended
    BY <1>2 DEF DataThread, DigestData, ReportProgress, BeginTransaction, FinishEof
  <1>3. ASSUME NEW s \in Sums, ReceiverThread(s) PROVE ended' = ended
    BY <1>3 DEF ReceiverThread, ReceiveCommit, ReceiveTryingReady, ReceiveOk,
                SnapshotDigest, AnswerCommit, CheckCompletion, DeleteClientDigest,
                DeleteTransaction, DeleteTransactionInfo, dataPlane
  <1>4. ASSUME NEW s \in Sums, SenderThread(s) PROVE ended' = ended
    BY <1>4 DEF SenderThread, PublishBroadcast, PublishDirect, SendBroadcastFails,
                SendDirectFails, senderFrame
  <1>5. ASSUME NEW s \in Sums, Listen(s) PROVE ended' = ended
    BY <1>5 DEF Listen, senderFrame
  <1>6. CASE UNCHANGED vars
    BY <1>6 DEF vars
  <1> QED BY <1>1, <1>2, <1>3, <1>4, <1>5, <1>6 DEF Next, Gateway

LEMMA MasterStep == MasterInv /\ [Next]_vars => MasterInv'
  <1> SUFFICES ASSUME MasterInv, [Next]_vars PROVE MasterInv'
    OBVIOUS
  <1>1. TypeOK /\ TypeOK'
    BY TypeStep DEF MasterInv
  <1>2. CASE ~\E s \in Sums, c \in Clients : PublishEof(c, s)
    <2>1. NoNewMaster
      BY <1>1, <1>2, BeliefStep
    <2>2. ended' = ended
      BY <1>2, EofsPublished
    <2> QED BY <1>1, <2>1, <2>2 DEF MasterInv, NoNewMaster, SingleMaster, NoMasterBeforeEof
  <1>3. ASSUME NEW s \in Sums, NEW c \in Clients, PublishEof(c, s)
        PROVE  MasterInv'
    <2>1. \A m \in Sums : ~IsTakenForMaster(m, c)
      BY <1>3 DEF PublishEof, MasterInv, NoMasterBeforeEof
    <2>2. ASSUME NEW m \in Sums, NEW t \in Clients, IsTakenForMaster(m, t)'
          PROVE  IsTakenForMaster(m, t) \/ (m = s /\ t = c)
      BY <1>1, <1>3, <2>2 DEF PublishEof, controlVars, IsTakenForMaster, QueuedFor,
                              InFlightFor, TypeOK
    <2>3. ended' = ended \cup {c}
      BY <1>3 DEF PublishEof
    <2> QED BY <1>1, <2>1, <2>2, <2>3 DEF MasterInv, SingleMaster, NoMasterBeforeEof
  <1> QED BY <1>2, <1>3

\* In every execution, whatever is lost and however threads interleave, all
\* that is believed or said about the master of a client names one worker.
THEOREM SingleMasterHolds == Spec => []SingleMaster
  <1>1. MasterInv => SingleMaster
    BY DEF MasterInv
  <1> QED BY <1>1, MasterInit, MasterStep, PTL DEF Spec

-----------------------------------------------------------------------------
(***************************************************************************)
(* No record reaches the aggregators twice.                                *)
(*                                                                         *)
(* The invariant says where a record can be: with the gateway, in one      *)
(* inbox, in one digest, in one batch.  Only a worker in the middle of a   *)
(* flush has the same record in its digest and in a batch, and it deletes  *)
(* the digest of that client before it takes another message.              *)
(***************************************************************************)
InBatch(r, s) == \E i \in DOMAIN shipped[s] : r \in shipped[s][i].records

Places ==
    /\ \A r \in unsent : \A s \in Sums :
           r \notin inbox[s] /\ r \notin digestPool[s] /\ ~InBatch(r, s)
    /\ \A s, t \in Sums : \A r \in inbox[s] :
           (t # s => r \notin inbox[t]) /\ r \notin digestPool[t] /\ ~InBatch(r, t)
    /\ \A s, t \in Sums : \A r \in digestPool[s] :
           /\ t # s => r \notin digestPool[t]
           /\ InBatch(r, t) => /\ t = s
                               /\ recv[s].at = "delete_digest"
                               /\ recv[s].txn = ClientOf[r]

ShipInv == TypeOK /\ Places /\ ShippedAtMostOnce

LEMMA ShipInit == Init => ShipInv
  <1> SUFFICES ASSUME Init PROVE ShipInv
    OBVIOUS
  <1>1. \A s \in Sums : DOMAIN shipped[s] = {}
    BY DEF Init
  <1>2. ShippedAtMostOnce
    BY <1>1 DEF ShippedAtMostOnce
  <1>3. Places
    BY <1>1 DEF Init, Places, InBatch
  <1> QED BY <1>2, <1>3, TypeInit DEF ShipInv

\* The steps that move no record, and no thread across a flush.
Still ==
    /\ UNCHANGED << unsent, inbox, digestPool, shipped >>
    /\ \A s \in Sums : recv[s].at = "delete_digest" => recv'[s] = recv[s]

LEMMA ShipStill == ASSUME ShipInv, Still PROVE Places' /\ ShippedAtMostOnce'
  <1>1. \A r, s : InBatch(r, s)' <=> InBatch(r, s)
    BY DEF Still, InBatch
  <1>2. ShippedAtMostOnce'
    BY DEF Still, ShipInv, ShippedAtMostOnce
  <1>3. Places'
    BY <1>1 DEF Still, ShipInv, Places
  <1> QED BY <1>2, <1>3

LEMMA StillReceiver ==
    ASSUME TypeOK, NEW s \in Sums,
           \/ \E src \in Sums : ReceiveCommit(s, src) \/ ReceiveTryingReady(s, src)
           \/ SnapshotDigest(s)
           \/ AnswerCommit(s)
           \/ CheckCompletion(s)
           \/ DeleteTransaction(s)
           \/ DeleteTransactionInfo(s)
    PROVE  Still
  <1>1. UNCHANGED << unsent, inbox, digestPool, shipped >>
    BY DEF ReceiveCommit, ReceiveTryingReady, SnapshotDigest, AnswerCommit,
           CheckCompletion, DeleteTransaction, DeleteTransactionInfo, dataPlane
  <1>2. recv[s].at # "delete_digest"
    BY DEF ReceiveCommit, ReceiveTryingReady, SnapshotDigest, AnswerCommit,
           CheckCompletion, DeleteTransaction, DeleteTransactionInfo
  <1>3. \A t \in Sums : t # s => recv'[t] = recv[t]
    BY DEF TypeOK, ReceiveCommit, ReceiveTryingReady, SnapshotDigest, AnswerCommit,
           CheckCompletion, DeleteTransaction, DeleteTransactionInfo
  <1> QED BY <1>1, <1>2, <1>3 DEF Still

LEMMA ShipPublishRecord ==
    ASSUME ShipInv, NEW s \in Sums, NEW r \in Records, PublishRecord(r, s)
    PROVE  Places' /\ ShippedAtMostOnce'
  <1>1. shipped' = shipped /\ recv' = recv /\ digestPool' = digestPool
    BY DEF PublishRecord
  <1>2. \A q, t : InBatch(q, t)' <=> InBatch(q, t)
    BY <1>1 DEF InBatch
  <1>3. ShippedAtMostOnce'
    BY <1>1 DEF ShipInv, ShippedAtMostOnce
  <1>4. /\ unsent' = unsent \ {r}
        /\ \A t \in Sums : inbox'[t] = IF t = s THEN inbox[t] \cup {r} ELSE inbox[t]
    BY DEF PublishRecord, ShipInv, TypeOK
  <1>5. r \in unsent
    BY DEF PublishRecord
  <1>6. Places'
    <2>1. ASSUME NEW q \in unsent', NEW t \in Sums
          PROVE  q \notin inbox'[t] /\ q \notin digestPool'[t] /\ ~InBatch(q, t)
      <3>1. q \in unsent /\ q # r
        BY <1>4, <2>1
      <3>2. q \notin inbox[t] /\ q \notin digestPool[t] /\ ~InBatch(q, t)
        BY <2>1, <3>1 DEF ShipInv, Places
      <3> QED BY <1>1, <1>4, <2>1, <3>1, <3>2
    <2>2. ASSUME NEW a \in Sums, NEW t \in Sums, NEW q \in inbox'[a]
          PROVE  (t # a => q \notin inbox'[t]) /\ q \notin digestPool'[t] /\ ~InBatch(q, t)
      <3>1. CASE q = r
        <4>1. a = s
          BY <1>4, <1>5, <3>1 DEF ShipInv, Places
        <4>2. \A x \in Sums : r \notin inbox[x] /\ r \notin digestPool[x] /\ ~InBatch(r, x)
          BY <1>5 DEF ShipInv, Places
        <4> QED BY <1>1, <1>4, <3>1, <4>1, <4>2
      <3>2. CASE q # r
        <4>1. q \in inbox[a]
          BY <1>4, <3>2
        <4>2. (t # a => q \notin inbox[t]) /\ q \notin digestPool[t] /\ ~InBatch(q, t)
          BY <4>1 DEF ShipInv, Places
        <4> QED BY <1>1, <1>4, <3>2, <4>2
      <3> QED BY <3>1, <3>2
    <2>3. ASSUME NEW a \in Sums, NEW t \in Sums, NEW q \in digestPool'[a]
          PROVE  /\ t # a => q \notin digestPool'[t]
                 /\ InBatch(q, t) => /\ t = a
                                     /\ recv[a].at = "delete_digest"
                                     /\ recv[a].txn = ClientOf[q]
      BY <1>1, <1>4, <1>5 DEF ShipInv, Places
    <2> QED BY <1>1, <1>2, <2>1, <2>2, <2>3 DEF Places
  <1> QED BY <1>3, <1>6

LEMMA ShipDigestData ==
    ASSUME ShipInv, NEW s \in Sums, NEW r \in Records, DigestData(s, r)
    PROVE  Places' /\ ShippedAtMostOnce'
  <1>1. shipped' = shipped /\ recv' = recv /\ unsent' = unsent
    BY DEF DigestData
  <1>2. \A q, t : InBatch(q, t)' <=> InBatch(q, t)
    BY <1>1 DEF InBatch
  <1>3. ShippedAtMostOnce'
    BY <1>1 DEF ShipInv, ShippedAtMostOnce
  <1>4. \A t \in Sums :
            /\ inbox'[t] = IF t = s THEN inbox[t] \ {r} ELSE inbox[t]
            /\ digestPool'[t] = IF t = s THEN digestPool[t] \cup {r} ELSE digestPool[t]
    BY DEF DigestData, ShipInv, TypeOK
  <1>5. r \in inbox[s]
    BY DEF DigestData
  <1>6. Places'
    <2>1. ASSUME NEW q \in unsent', NEW t \in Sums
          PROVE  q \notin inbox'[t] /\ q \notin digestPool'[t] /\ ~InBatch(q, t)
      <3>1. q \notin inbox[s]
        BY <1>1 DEF ShipInv, Places
      <3>2. q \notin inbox[t] /\ q \notin digestPool[t] /\ ~InBatch(q, t) /\ q # r
        BY <1>1, <1>5, <3>1 DEF ShipInv, Places
      <3> QED BY <1>4, <3>2
    <2>2. ASSUME NEW a \in Sums, NEW t \in Sums, NEW q \in inbox'[a]
          PROVE  (t # a => q \notin inbox'[t]) /\ q \notin digestPool'[t] /\ ~InBatch(q, t)
      <3>1. q \in inbox[a] /\ (a = s => q # r)
        BY <1>4
      <3>2. (t # a => q \notin inbox[t]) /\ q \notin digestPool[t] /\ ~InBatch(q, t)
        BY <3>1 DEF ShipInv, Places
      <3>3. q # r
        BY <1>5, <3>1 DEF ShipInv, Places
      <3> QED BY <1>4, <3>2, <3>3
    <2>3. ASSUME NEW a \in Sums, NEW t \in Sums, NEW q \in digestPool'[a]
          PROVE  /\ t # a => q \notin digestPool'[t]
                 /\ InBatch(q, t) => /\ t = a
                                     /\ recv[a].at = "delete_digest"
                                     /\ recv[a].txn = ClientOf[q]
      <3>1. \A x \in Sums : r \notin digestPool[x] /\ ~InBatch(r, x)
        BY <1>5 DEF ShipInv, Places
      <3>2. CASE q = r
        BY <1>4, <3>1, <3>2
      <3>3. CASE q # r
        <4>1. q \in digestPool[a] /\ digestPool'[t] \subseteq digestPool[t] \cup {r}
          BY <1>4, <3>3
        <4> QED BY <3>3, <4>1 DEF ShipInv, Places
      <3> QED BY <3>2, <3>3
    <2> QED BY <1>1, <1>2, <2>1, <2>2, <2>3 DEF Places
  <1> QED BY <1>3, <1>6

\* The receiver is idle, so what it ships is in no batch yet.
LEMMA ShipReceiveOk ==
    ASSUME ShipInv, NEW s \in Sums, NEW src \in Sums, ReceiveOk(s, src)
    PROVE  Places' /\ ShippedAtMostOnce'
  <1> DEFINE c == Head(casts[src][s]).txn
             batch == [txn |-> c, records |-> DigestOf(s, c)]
             n == Len(shipped[s])
  <1>1. recv[s].at = "idle"
    BY DEF ReceiveOk
  <1>2. c \in Clients
    BY Pop, CastFields DEF ShipInv, TypeOK, ReceiveOk
  <1>3. batch \in Batches /\ batch.records = digestPool[s] \cap RecordsOf(c)
    BY <1>2 DEF Batches, DigestOf, RecordsOf
  <1>4. \A t \in Sums : ~\E q \in batch.records : InBatch(q, t)
    BY <1>1, <1>3 DEF ShipInv, Places
  <1>5. /\ shipped \in [Sums -> Seq(Batches)]
        /\ shipped' = [shipped EXCEPT ![s] = Append(@, batch)]
    BY DEF ShipInv, TypeOK, ReceiveOk
  <1> HIDE DEF batch, c
  <1>6. /\ n \in Nat
        /\ DOMAIN shipped[s] = 1 .. n
        /\ DOMAIN shipped'[s] = 1 .. n + 1
        /\ shipped'[s][n + 1] = batch
        /\ \A i \in 1 .. n : shipped'[s][i] = shipped[s][i]
        /\ \A t \in Sums : t # s => shipped'[t] = shipped[t]
    <2>1. shipped[s] \in Seq(Batches) /\ shipped'[s] = Append(shipped[s], batch)
      BY <1>5
    <2>2. \A t \in Sums : t # s => shipped'[t] = shipped[t]
      BY <1>5
    <2> QED BY <1>3, <2>1, <2>2, LenProperties, AppendProperties
  <1>7. \A i : i \in 1 .. n + 1 <=> i \in 1 .. n \/ i = n + 1
    BY <1>6
  <1>8. \A t \in Sums : \A i \in DOMAIN shipped'[t] :
            \/ i \in DOMAIN shipped[t] /\ shipped'[t][i] = shipped[t][i]
            \/ t = s /\ i = n + 1 /\ shipped'[t][i] = batch
    BY <1>6, <1>7
  <1>9. ShippedAtMostOnce'
    <2> SUFFICES ASSUME NEW a \in Sums, NEW b \in Sums,
                        NEW i \in DOMAIN shipped'[a], NEW j \in DOMAIN shipped'[b],
                        << a, i >> # << b, j >>
                 PROVE  shipped'[a][i].records \cap shipped'[b][j].records = {}
      BY DEF ShippedAtMostOnce
    <2>1. CASE /\ i \in DOMAIN shipped[a] /\ shipped'[a][i] = shipped[a][i]
               /\ j \in DOMAIN shipped[b] /\ shipped'[b][j] = shipped[b][j]
      BY <2>1 DEF ShipInv, ShippedAtMostOnce
    <2>2. CASE /\ i \in DOMAIN shipped[a] /\ shipped'[a][i] = shipped[a][i]
               /\ shipped'[b][j] = batch
      BY <1>4, <2>2 DEF InBatch
    <2>3. CASE /\ j \in DOMAIN shipped[b] /\ shipped'[b][j] = shipped[b][j]
               /\ shipped'[a][i] = batch
      BY <1>4, <2>3 DEF InBatch
    <2> QED BY <1>8, <2>1, <2>2, <2>3
  <1>10. \A q, t : t \in Sums /\ InBatch(q, t)' =>
                      InBatch(q, t) \/ (t = s /\ q \in batch.records)
    BY <1>8 DEF InBatch
  <1>11. /\ UNCHANGED << unsent, inbox, digestPool >>
         /\ recv'[s].at = "delete_digest" /\ recv'[s].txn = c
         /\ \A t \in Sums : t # s => recv'[t] = recv[t]
    BY DEF ReceiveOk, dataPlane, ShipInv, TypeOK, RecvIdle, c
  <1>12. \A q \in batch.records : ClientOf[q] = c /\ q \in digestPool[s]
    BY <1>3 DEF RecordsOf
  <1>13. Places'
    <2>1. ASSUME NEW q \in unsent, NEW t \in Sums
          PROVE  q \notin inbox[t] /\ q \notin digestPool[t] /\ ~InBatch(q, t)'
      BY <1>10, <1>12 DEF ShipInv, Places
    <2>2. ASSUME NEW a \in Sums, NEW t \in Sums, NEW q \in inbox[a]
          PROVE  (t # a => q \notin inbox[t]) /\ q \notin digestPool[t] /\ ~InBatch(q, t)'
      BY <1>10, <1>12 DEF ShipInv, Places
    <2>3. ASSUME NEW a \in Sums, NEW t \in Sums, NEW q \in digestPool[a]
          PROVE  /\ t # a => q \notin digestPool[t]
                 /\ InBatch(q, t)' => /\ t = a
                                      /\ recv'[a].at = "delete_digest"
                                      /\ recv'[a].txn = ClientOf[q]
      BY <1>1, <1>10, <1>11, <1>12 DEF ShipInv, Places
    <2> QED BY <1>11, <2>1, <2>2, <2>3 DEF Places
  <1> QED BY <1>9, <1>13

LEMMA ShipDeleteClientDigest ==
    ASSUME ShipInv, NEW s \in Sums, DeleteClientDigest(s)
    PROVE  Places' /\ ShippedAtMostOnce'
  <1>1. UNCHANGED << unsent, inbox, shipped >> /\ recv[s].at = "delete_digest"
    BY DEF DeleteClientDigest, dataPlane
  <1>2. \A q, t : InBatch(q, t)' <=> InBatch(q, t)
    BY <1>1 DEF InBatch
  <1>3. ShippedAtMostOnce'
    BY <1>1 DEF ShipInv, ShippedAtMostOnce
  <1>4. \A t \in Sums :
            /\ t # s => digestPool'[t] = digestPool[t] /\ recv'[t] = recv[t]
            /\ t = s => digestPool'[t] = digestPool[t] \ RecordsOf(recv[s].txn)
    BY DEF DeleteClientDigest, ShipInv, TypeOK
  <1>5. \A q \in digestPool'[s] : q \in digestPool[s] /\ ClientOf[q] # recv[s].txn
    BY <1>4 DEF ShipInv, TypeOK, RecordsOf
  <1>6. \A q \in digestPool'[s], t \in Sums : ~InBatch(q, t)
    BY <1>5 DEF ShipInv, Places
  <1>7. Places'
    BY <1>1, <1>2, <1>4, <1>5, <1>6 DEF ShipInv, Places
  <1> QED BY <1>3, <1>7

LEMMA ShipStep == ShipInv /\ [Next]_vars => ShipInv'
  <1> SUFFICES ASSUME ShipInv, [Next]_vars PROVE Places' /\ ShippedAtMostOnce'
    BY TypeStep DEF ShipInv
  <1>1. TypeOK
    BY DEF ShipInv
  <1>2. ASSUME NEW s \in Sums, NEW c \in Clients, PublishEof(c, s)
        PROVE  Still
    BY <1>2 DEF PublishEof, Still
  <1>3. ASSUME NEW s \in Sums, NEW c \in Clients,
               ReportProgress(s) \/ BeginTransaction(s, c) \/ FinishEof(s)
        PROVE  Still
    BY <1>3 DEF ReportProgress, BeginTransaction, FinishEof, Still
  <1>4. ASSUME NEW s \in Sums, ReportProgress(s) \/ FinishEof(s)
        PROVE  Still
    BY <1>4 DEF ReportProgress, FinishEof, Still
  <1>5. ASSUME NEW s \in Sums, DataThread(s) PROVE Places' /\ ShippedAtMostOnce'
    BY <1>3, <1>4, <1>5, ShipDigestData, ShipStill DEF DataThread
  <1>6. ASSUME NEW s \in Sums, ReceiverThread(s) PROVE Places' /\ ShippedAtMostOnce'
    BY <1>1, <1>6, StillReceiver, ShipStill, ShipReceiveOk, ShipDeleteClientDigest
    DEF ReceiverThread
  <1>7. ASSUME NEW s \in Sums, SenderThread(s) \/ Listen(s) PROVE Still
    BY <1>7 DEF SenderThread, PublishBroadcast, PublishDirect, SendBroadcastFails,
                SendDirectFails, Listen, senderFrame, Still
  <1>8. CASE UNCHANGED vars
    <2>1. Still
      BY <1>8 DEF vars, Still
    <2> QED BY <2>1, ShipStill
  <1> QED BY <1>2, <1>5, <1>6, <1>7, <1>8, ShipStill, ShipPublishRecord DEF Next, Gateway

\* A record is flushed at most once: repeated Oks, records digested during a
\* flush and lost messages never make an aggregator add a record twice.
THEOREM ShippedAtMostOnceHolds == Spec => []ShippedAtMostOnce
  <1>1. ShipInv => ShippedAtMostOnce
    BY DEF ShipInv
  <1> QED BY <1>1, ShipInit, ShipStep, PTL DEF Spec

-----------------------------------------------------------------------------
(***************************************************************************)
(* A worker that has flushed a client never comes to know a master of that *)
(* client again.                                                           *)
(*                                                                         *)
(* Only the master sends a client's Commit and Ok, both over its broadcast *)
(* connection, and the Commit is queued first.  The invariant follows the  *)
(* two: in the sender's queue, between the queue and a channel, and within *)
(* a channel the Commit is ahead, so a worker that takes the Ok has taken  *)
(* the Commit or will never see it.  It also says that nothing is said     *)
(* about a client before its transaction begins, which happens once.       *)
(***************************************************************************)
\* In the sequence q every a is ahead of every b.
Precedes(q, a, b) == \A i, j \in DOMAIN q : q[i] = a /\ q[j] = b => i < j

\* The transaction of c has not begun: its EOF is unpublished or unread.
Unstarted(c) == c \notin ended \/ \E s \in Sums : c \in eofInbox[s]

Queued(s, msg) == Broadcast(msg) \in Elements(senderQueue[s])
InCast(s, d, msg) == msg \in Elements(casts[s][d])
HasFlushed(s, c) == \E i \in DOMAIN shipped[s] : shipped[s][i].txn = c

NothingSaid ==
    \A c \in Clients : Unstarted(c) => \A s \in Sums :
        /\ ~transactions[s][c].open
        /\ ~Queued(s, Ok(c))
        /\ \A d \in Sums : ~InCast(s, d, Ok(c))
        /\ ~HasFlushed(s, c)

\* A Commit only travels from the master it names.
OwnCommits ==
    \A c \in Clients, s, m \in Sums :
        /\ Queued(s, Commit(c, m)) => m = s
        /\ \A d \in Sums : InCast(s, d, Commit(c, m)) => m = s

CommitsFirst ==
    \A c \in Clients, s \in Sums :
        /\ Precedes(senderQueue[s], Broadcast(Commit(c, s)), Broadcast(Ok(c)))
        /\ \A d \in Sums :
            /\ Precedes(casts[s][d], Commit(c, s), Ok(c))
            /\ InCast(s, d, Ok(c)) => ~Queued(s, Commit(c, s))

\* NoStaleMaster, with the Commits nobody has published yet.
AfterFlush ==
    \A s \in Sums, c \in Clients : HasFlushed(s, c) =>
        /\ ~Flushing(s, c) => masterOf[s][c] = NoSum
        /\ recv[s].txn = c => recv[s].at # "snapshot"
        /\ \A src, m \in Sums : ~InCast(src, s, Commit(c, m)) /\ ~Queued(src, Commit(c, m))

OrderInv == MasterInv /\ NothingSaid /\ OwnCommits /\ CommitsFirst /\ AfterFlush

-----------------------------------------------------------------------------
(* The order of two messages in a queue.                                  *)

LEMMA BeforeAppend ==
    ASSUME NEW S, NEW q \in Seq(S), NEW e \in S, NEW a, NEW b, a # b,
           Precedes(q, a, b), e = a => b \notin Elements(q)
    PROVE  Precedes(Append(q, e), a, b)
  <1>1. /\ DOMAIN Append(q, e) = 1 .. Len(q) + 1
        /\ DOMAIN q = 1 .. Len(q)
        /\ Append(q, e)[Len(q) + 1] = e
        /\ \A i \in 1 .. Len(q) : Append(q, e)[i] = q[i]
        /\ Len(q) \in Nat
    OBVIOUS
  <1> SUFFICES ASSUME NEW i \in 1 .. Len(q) + 1, NEW j \in 1 .. Len(q) + 1,
                      Append(q, e)[i] = a, Append(q, e)[j] = b
               PROVE  i < j
    BY <1>1 DEF Precedes
  <1>2. CASE i = Len(q) + 1
    <2>1. j # Len(q) + 1
      BY <1>1, <1>2
    <2>2. j \in 1 .. Len(q)
      BY <1>1, <2>1
    <2> QED BY <1>1, <1>2, <2>2 DEF Elements
  <1>3. CASE i # Len(q) + 1 /\ j = Len(q) + 1
    BY <1>1, <1>3
  <1>4. CASE i # Len(q) + 1 /\ j # Len(q) + 1
    <2>1. i \in 1 .. Len(q) /\ j \in 1 .. Len(q)
      BY <1>1, <1>4
    <2> QED BY <1>1, <2>1 DEF Precedes
  <1> QED BY <1>2, <1>3, <1>4

LEMMA BeforeTail ==
    ASSUME NEW S, NEW q \in Seq(S), q # <<>>, NEW a, NEW b, Precedes(q, a, b)
    PROVE  /\ Precedes(Tail(q), a, b)
           /\ Head(q) = b => a \notin Elements(q)
  <1>1. /\ DOMAIN q = 1 .. Len(q)
        /\ Len(q) \in Nat \ {0}
        /\ DOMAIN Tail(q) = 1 .. Len(q) - 1
        /\ \A i \in 1 .. Len(q) - 1 : Tail(q)[i] = q[i + 1]
        /\ Head(q) = q[1]
    BY HeadTailProperties, LenProperties, EmptySeq
  <1>2. Precedes(Tail(q), a, b)
    <2> SUFFICES ASSUME NEW i \in 1 .. Len(q) - 1, NEW j \in 1 .. Len(q) - 1,
                        q[i + 1] = a, q[j + 1] = b
                 PROVE  i < j
      BY <1>1 DEF Precedes
    <2>1. i + 1 \in 1 .. Len(q) /\ j + 1 \in 1 .. Len(q)
      BY <1>1
    <2>2. i + 1 < j + 1
      BY <1>1, <2>1 DEF Precedes
    <2> QED BY <2>2
  <1>3. ASSUME Head(q) = b, a \in Elements(q) PROVE FALSE
    <2>1. PICK i \in 1 .. Len(q) : q[i] = a
      BY <1>1, <1>3 DEF Elements
    <2>2. 1 \in 1 .. Len(q)
      BY <1>1
    <2>3. i < 1
      BY <1>1, <1>3, <2>1, <2>2 DEF Precedes
    <2> QED BY <2>3
  <1> QED BY <1>2, <1>3

LEMMA KindsDiffer ==
    ASSUME NEW c, NEW t, NEW m
    PROVE  Commit(c, m) # Ok(t) /\ Broadcast(Commit(c, m)) # Broadcast(Ok(t))
  <1>1. Commit(c, m).type = "commit" /\ Ok(t).type = "ok"
    BY DEF Commit, Ok
  <1>2. Broadcast(Commit(c, m)).message = Commit(c, m) /\ Broadcast(Ok(t)).message = Ok(t)
    BY DEF Broadcast
  <1> QED BY <1>1, <1>2

LEMMA NamesDiffer ==
    ASSUME NEW c, NEW t, NEW m, NEW n
    PROVE  /\ Broadcast(Commit(c, m)) = Broadcast(Commit(t, n)) => c = t /\ m = n
           /\ Broadcast(Ok(c)) = Broadcast(Ok(t)) => c = t
           /\ Commit(c, m) = Commit(t, n) => c = t /\ m = n
           /\ Ok(c) = Ok(t) => c = t
  BY DEF Broadcast, Commit, Ok

-----------------------------------------------------------------------------
(* The steps that say nothing new: the queue and the channels lose their   *)
(* heads at most, or take a message that is neither a Commit nor an Ok.    *)

QueuesKept ==
    \A s \in Sums, c \in Clients :
        /\ Queued(s, Ok(c))' => Queued(s, Ok(c))
        /\ \A m \in Sums : Queued(s, Commit(c, m))' => Queued(s, Commit(c, m))
        /\ Precedes(senderQueue[s], Broadcast(Commit(c, s)), Broadcast(Ok(c))) =>
               Precedes(senderQueue[s], Broadcast(Commit(c, s)), Broadcast(Ok(c)))'

ChannelsKept ==
    \A s, d \in Sums, c \in Clients :
        /\ InCast(s, d, Ok(c))' => InCast(s, d, Ok(c))
        /\ \A m \in Sums : InCast(s, d, Commit(c, m))' => InCast(s, d, Commit(c, m))
        /\ Precedes(casts[s][d], Commit(c, s), Ok(c)) =>
               Precedes(casts[s][d], Commit(c, s), Ok(c))'

StartsKept ==
    \A c \in Clients : /\ Unstarted(c)' => Unstarted(c)
                       /\ Unstarted(c)' => \A s \in Sums :
                              transactions[s][c].open' => transactions[s][c].open

LEMMA UnchangedQueues ==
    ASSUME senderQueue' = senderQueue
    PROVE  QueuesKept
  BY DEF QueuesKept, Queued, Precedes, Elements

LEMMA UnchangedChannels ==
    ASSUME casts' = casts
    PROVE  ChannelsKept
  BY DEF ChannelsKept, InCast, Precedes, Elements

LEMMA DirectQueued ==
    ASSUME TypeOK, NEW s \in Sums, NEW e \in Envelopes, e.mode = "direct",
           senderQueue' = [senderQueue EXCEPT ![s] = Append(@, e)]
    PROVE  QueuesKept
  <1>1. senderQueue \in [Sums -> Seq(Envelopes)]
    BY DEF TypeOK
  <1>2. \A msg : Broadcast(msg) # e
    <2> SUFFICES ASSUME NEW msg, Broadcast(msg) = e PROVE FALSE
      OBVIOUS
    <2>1. e.mode = "broadcast"
      BY DEF Broadcast
    <2> QED BY <2>1
  <1>3. \A d \in Sums : Elements(senderQueue'[d]) \subseteq Elements(senderQueue[d]) \cup {e}
    <2>1. \A d \in Sums : Elements(senderQueue'[d]) =
              IF d = s THEN Elements(senderQueue[d]) \cup {e} ELSE Elements(senderQueue[d])
      BY Enqueue
    <2> QED BY <2>1, Zenon
  <1>4. \A d \in Sums : \A msg : Queued(d, msg)' => Queued(d, msg)
    BY <1>2, <1>3 DEF Queued
  <1>5. ASSUME NEW d \in Sums, NEW c \in Clients,
               Precedes(senderQueue[d], Broadcast(Commit(c, d)), Broadcast(Ok(c)))
        PROVE  Precedes(senderQueue'[d], Broadcast(Commit(c, d)), Broadcast(Ok(c)))
    <2>1. CASE d # s
      BY <1>1, <1>5, <2>1
    <2>2. CASE d = s
      <3> DEFINE a == Broadcast(Commit(c, d))
                 b == Broadcast(Ok(c))
                 q == senderQueue[d]
      <3>1. q \in Seq(Envelopes) /\ a # b /\ e # a /\ Precedes(q, a, b)
        BY <1>1, <1>2, <1>5, KindsDiffer
      <3>2. senderQueue'[d] = Append(q, e)
        BY <1>1, <2>2
      <3> HIDE DEF a, b, q
      <3>3. Precedes(Append(q, e), a, b)
        BY <3>1, BeforeAppend
      <3> QED BY <3>2, <3>3 DEF a, b
    <2> QED BY <2>1, <2>2
  <1> QED BY <1>4, <1>5 DEF QueuesKept

LEMMA HeadTaken ==
    ASSUME TypeOK, NEW s \in Sums, senderQueue[s] # <<>>, Taken(s)
    PROVE  QueuesKept
  <1>1. senderQueue \in [Sums -> Seq(Envelopes)]
    BY DEF TypeOK
  <1>2. \A d \in Sums : \A msg : Queued(d, msg)' => Queued(d, msg)
    BY Dequeue DEF Queued
  <1>3. ASSUME NEW d \in Sums, NEW c \in Clients,
               Precedes(senderQueue[d], Broadcast(Commit(c, d)), Broadcast(Ok(c)))
        PROVE  Precedes(senderQueue'[d], Broadcast(Commit(c, d)), Broadcast(Ok(c)))
    <2>1. CASE d # s
      BY <1>1, <1>3, <2>1 DEF Taken
    <2>2. CASE d = s
      <3> DEFINE a == Broadcast(Commit(c, d))
                 b == Broadcast(Ok(c))
                 q == senderQueue[d]
      <3>1. q \in Seq(Envelopes) /\ q # <<>> /\ Precedes(q, a, b)
        BY <1>1, <1>3, <2>2
      <3>2. senderQueue'[d] = Tail(q)
        BY <1>1, <2>2 DEF Taken
      <3> HIDE DEF a, b, q
      <3>3. Precedes(Tail(q), a, b)
        BY <3>1, BeforeTail
      <3> QED BY <3>2, <3>3 DEF a, b
    <2> QED BY <2>1, <2>2
  <1> QED BY <1>2, <1>3 DEF QueuesKept

LEMMA CastTaken ==
    ASSUME TypeOK, NEW s \in Sums, NEW src \in Sums, casts[src][s] # <<>>,
           casts' = [casts EXCEPT ![src][s] = Tail(@)]
    PROVE  ChannelsKept
  <1>1. casts \in [Sums -> [Sums -> Seq(Commits \cup Oks)]]
    BY DEF TypeOK
  <1>2. \A a, d \in Sums : \A msg : InCast(a, d, msg)' => InCast(a, d, msg)
    BY TakeCast DEF InCast
  <1>3. ASSUME NEW a \in Sums, NEW d \in Sums, NEW c \in Clients,
               Precedes(casts[a][d], Commit(c, a), Ok(c))
        PROVE  Precedes(casts'[a][d], Commit(c, a), Ok(c))
    <2>1. CASE ~(a = src /\ d = s)
      <3>1. casts'[a][d] = casts[a][d]
        BY <1>1, <2>1
      <3> QED BY <1>3, <3>1
    <2>2. CASE a = src /\ d = s
      <3> DEFINE q == casts[a][d]
      <3>1. q \in Seq(Commits \cup Oks) /\ q # <<>> /\ Precedes(q, Commit(c, a), Ok(c))
        BY <1>1, <1>3, <2>2
      <3>2. casts'[a][d] = Tail(q)
        BY <1>1, <2>2
      <3> HIDE DEF q
      <3>3. Precedes(Tail(q), Commit(c, a), Ok(c))
        BY <3>1, BeforeTail
      <3> QED BY <3>2, <3>3
    <2> QED BY <2>1, <2>2
  <1> QED BY <1>2, <1>3 DEF ChannelsKept

LEMMA NothingNew ==
    ASSUME OrderInv, QueuesKept, ChannelsKept, StartsKept, shipped' = shipped
    PROVE  NothingSaid' /\ OwnCommits' /\ CommitsFirst'
  <1>1. \A s, c : HasFlushed(s, c)' <=> HasFlushed(s, c)
    BY DEF HasFlushed
  <1>2. NothingSaid'
    BY <1>1 DEF OrderInv, NothingSaid, QueuesKept, ChannelsKept, StartsKept
  <1>3. OwnCommits'
    BY DEF OrderInv, OwnCommits, QueuesKept, ChannelsKept
  <1>4. CommitsFirst'
    BY DEF OrderInv, CommitsFirst, QueuesKept, ChannelsKept
  <1> QED BY <1>2, <1>3, <1>4

-----------------------------------------------------------------------------
(* The steps that queue or deliver a Commit or an Ok.                      *)

LEMMA BroadcastQueued ==
    ASSUME TypeOK, NEW s \in Sums, NEW msg, Broadcast(msg) \in Envelopes,
           senderQueue' = [senderQueue EXCEPT ![s] = Append(@, Broadcast(msg))]
    PROVE  \A d \in Sums : \A n : Queued(d, n)' => Queued(d, n) \/ (d = s /\ n = msg)
  <1>1. \A d \in Sums : Elements(senderQueue'[d]) =
            IF d = s THEN Elements(senderQueue[d]) \cup {Broadcast(msg)}
            ELSE Elements(senderQueue[d])
    BY Enqueue
  <1>2. ASSUME NEW n, Broadcast(n) = Broadcast(msg) PROVE n = msg
    BY <1>2 DEF Broadcast
  <1> SUFFICES ASSUME NEW d \in Sums, NEW n, Queued(d, n)', ~Queued(d, n)
               PROVE  d = s /\ n = msg
    OBVIOUS
  <1>3. /\ Broadcast(n) \in Elements(senderQueue'[d])
        /\ Broadcast(n) \notin Elements(senderQueue[d])
    BY DEF Queued
  <1>4. d = s /\ Broadcast(n) = Broadcast(msg)
    <2>1. CASE d = s
      <3>1. Elements(senderQueue'[d]) = Elements(senderQueue[d]) \cup {Broadcast(msg)}
        BY <1>1, <2>1, Zenon
      <3> QED BY <1>3, <2>1, <3>1, Zenon
    <2>2. CASE d # s
      BY <1>1, <1>3, <2>2, Zenon
    <2> QED BY <2>1, <2>2
  <1> QED BY <1>2, <1>4

LEMMA OkQueued ==
    ASSUME OrderInv, NEW s \in Sums, NEW c \in Clients, MaybeBroadcastOk(s, c),
           ChannelsKept, StartsKept, shipped' = shipped
    PROVE  /\ NothingSaid' /\ OwnCommits' /\ CommitsFirst'
           /\ \A d, m \in Sums, t \in Clients : Queued(d, Commit(t, m))' => Queued(d, Commit(t, m))
  <1>1. TypeOK
    BY DEF OrderInv, MasterInv
  <1>2. CASE ~DigestionComplete(s, c)
    <2>1. QueuesKept
      BY <1>2, UnchangedQueues DEF MaybeBroadcastOk
    <2> QED BY <2>1, NothingNew DEF QueuesKept
  <1>3. CASE DigestionComplete(s, c)
    <2>1. senderQueue' = [senderQueue EXCEPT ![s] = Append(@, Broadcast(Ok(c)))]
      BY <1>3 DEF MaybeBroadcastOk
    <2>2. Broadcast(Ok(c)) \in Envelopes
      BY MessageTypes
    <2>3. \A d \in Sums : \A n : Queued(d, n)' => Queued(d, n) \/ (d = s /\ n = Ok(c))
      BY <1>1, <2>1, <2>2, BroadcastQueued
    <2>4. ~Unstarted(c)'
      BY <1>3 DEF OrderInv, NothingSaid, StartsKept, DigestionComplete
    <2>5. \A a, d : HasFlushed(a, d)' <=> HasFlushed(a, d)
      BY DEF HasFlushed
    <2>6. ASSUME NEW d \in Sums, NEW t \in Clients, Unstarted(t)'
          PROVE  ~Queued(d, Ok(t))'
      <3>1. Unstarted(t) /\ t # c
        BY <2>4, <2>6 DEF StartsKept
      <3>2. Ok(t) # Ok(c) /\ ~Queued(d, Ok(t))
        BY <3>1, NamesDiffer DEF OrderInv, NothingSaid
      <3> QED BY <2>3, <3>2
    <2>7. NothingSaid'
      BY <2>5, <2>6 DEF OrderInv, NothingSaid, ChannelsKept, StartsKept
    <2>8. \A d, m \in Sums, t \in Clients : Queued(d, Commit(t, m))' => Queued(d, Commit(t, m))
      BY <2>3, KindsDiffer
    <2>9. OwnCommits'
      BY <2>8 DEF OrderInv, OwnCommits, ChannelsKept
    <2>10. ASSUME NEW d \in Sums, NEW t \in Clients
           PROVE  Precedes(senderQueue'[d], Broadcast(Commit(t, d)), Broadcast(Ok(t)))
      <3> DEFINE a == Broadcast(Commit(t, d))
                 b == Broadcast(Ok(t))
                 e == Broadcast(Ok(c))
                 q == senderQueue[d]
      <3>1. senderQueue \in [Sums -> Seq(Envelopes)]
        BY <1>1 DEF TypeOK
      <3>2. Precedes(q, a, b)
        BY DEF OrderInv, CommitsFirst
      <3>3. a # b /\ e # a /\ q \in Seq(Envelopes)
        BY <3>1, KindsDiffer
      <3>4. senderQueue'[d] = IF d = s THEN Append(q, e) ELSE q
        BY <2>1, <3>1
      <3> HIDE DEF a, b, e, q
      <3>5. e \in Envelopes
        BY <2>2 DEF e
      <3>6. Precedes(Append(q, e), a, b)
        BY <3>2, <3>3, <3>5, BeforeAppend
      <3>7. Precedes(senderQueue'[d], a, b)
        BY <3>2, <3>4, <3>6
      <3> QED BY <3>7 DEF a, b
    <2>11. CommitsFirst'
      BY <2>8, <2>10 DEF OrderInv, CommitsFirst, ChannelsKept
    <2> QED BY <2>7, <2>8, <2>9, <2>11
  <1> QED BY <1>2, <1>3

\* The only Commit of a client, queued before anything else is said about it.
LEMMA CommitQueued ==
    ASSUME OrderInv, NEW s \in Sums, NEW c \in Clients, BeginTransaction(s, c)
    PROVE  NothingSaid' /\ OwnCommits' /\ CommitsFirst'
  <1>1. TypeOK
    BY DEF OrderInv, MasterInv
  <1>2. /\ senderQueue' = [senderQueue EXCEPT ![s] = Append(@, Broadcast(Commit(c, s)))]
        /\ UNCHANGED << ended, casts, shipped >>
        /\ c \in eofInbox[s]
    BY DEF BeginTransaction
  <1>3. Broadcast(Commit(c, s)) \in Envelopes
    BY MessageTypes
  <1>4. \A d \in Sums : \A n : Queued(d, n)' => Queued(d, n) \/ (d = s /\ n = Commit(c, s))
    BY <1>1, <1>2, <1>3, BroadcastQueued
  <1>5. \A d \in Sums : eofInbox'[d] = IF d = s THEN eofInbox[d] \ {c} ELSE eofInbox[d]
    BY <1>1 DEF BeginTransaction, TypeOK
  <1>6. Unstarted(c) /\ ~Unstarted(c)'
    <2>1. IsTakenForMaster(s, c)
      BY <1>2 DEF IsTakenForMaster
    <2>2. c \in ended
      BY <2>1 DEF OrderInv, MasterInv, NoMasterBeforeEof
    <2>3. \A d \in Sums : c \in eofInbox[d] => d = s
      BY <2>1 DEF OrderInv, MasterInv, SingleMaster, IsTakenForMaster
    <2> QED BY <1>2, <1>5, <2>2, <2>3 DEF Unstarted
  <1>7. \A t \in Clients : Unstarted(t)' => Unstarted(t) /\ t # c
    BY <1>2, <1>5, <1>6 DEF Unstarted
  <1>8. \A a, d : /\ HasFlushed(a, d)' <=> HasFlushed(a, d)
                  /\ \A n : InCast(a, d, n)' <=> InCast(a, d, n)
    BY <1>2 DEF HasFlushed, InCast
  <1>9. NothingSaid'
    <2> SUFFICES ASSUME NEW t \in Clients, Unstarted(t)', NEW d \in Sums
                 PROVE  /\ ~transactions'[d][t].open
                        /\ ~Queued(d, Ok(t))'
                        /\ \A a \in Sums : ~InCast(d, a, Ok(t))'
                        /\ ~HasFlushed(d, t)'
      BY DEF NothingSaid
    <2>1. Unstarted(t) /\ t # c
      BY <1>7
    <2>2. /\ ~transactions[d][t].open /\ ~Queued(d, Ok(t)) /\ ~HasFlushed(d, t)
          /\ \A a \in Sums : ~InCast(d, a, Ok(t))
      BY <2>1 DEF OrderInv, NothingSaid
    <2>3. transactions'[d][t] = transactions[d][t]
      BY <1>1, <2>1 DEF BeginTransaction, TypeOK
    <2>4. ~Queued(d, Ok(t))'
      BY <1>4, <2>2, KindsDiffer
    <2> QED BY <1>8, <2>2, <2>3, <2>4
  <1>10. OwnCommits'
    <2> SUFFICES ASSUME NEW t \in Clients, NEW d \in Sums, NEW m \in Sums
                 PROVE  /\ Queued(d, Commit(t, m))' => m = d
                        /\ \A x \in Sums : InCast(d, x, Commit(t, m))' => m = d
      BY DEF OwnCommits
    <2>1. Queued(d, Commit(t, m))' =>
              Queued(d, Commit(t, m)) \/ (d = s /\ Commit(t, m) = Commit(c, s))
      BY <1>4
    <2>2. \A x \in Sums : InCast(d, x, Commit(t, m))' => InCast(d, x, Commit(t, m))
      BY <1>8
    <2> QED BY <2>1, <2>2, NamesDiffer DEF OrderInv, OwnCommits
  <1>11. ASSUME NEW d \in Sums, NEW t \in Clients
         PROVE  /\ Precedes(senderQueue'[d], Broadcast(Commit(t, d)), Broadcast(Ok(t)))
                /\ \A a \in Sums : InCast(d, a, Ok(t)) => ~Queued(d, Commit(t, d))'
    <2> DEFINE a == Broadcast(Commit(t, d))
               b == Broadcast(Ok(t))
               e == Broadcast(Commit(c, s))
               q == senderQueue[d]
    <2>1. senderQueue \in [Sums -> Seq(Envelopes)]
      BY <1>1 DEF TypeOK
    <2>2. Precedes(q, a, b)
      BY DEF OrderInv, CommitsFirst
    <2>3. a # b /\ q \in Seq(Envelopes)
      BY <2>1, KindsDiffer
    <2>4. senderQueue'[d] = IF d = s THEN Append(q, e) ELSE q
      BY <1>2, <2>1
    <2>5. e = a => b \notin Elements(q)
      <3>1. e = a => t = c /\ d = s
        BY NamesDiffer
      <3>2. ~Queued(d, Ok(c))
        BY <1>6 DEF OrderInv, NothingSaid
      <3> QED BY <3>1, <3>2 DEF Queued
    <2>6. \A x \in Sums : InCast(d, x, Ok(t)) => ~Queued(d, Commit(t, d))'
      <3> SUFFICES ASSUME NEW x \in Sums, InCast(d, x, Ok(t)), Queued(d, Commit(t, d))'
                   PROVE  FALSE
        OBVIOUS
      <3>1. ~Queued(d, Commit(t, d))
        BY DEF OrderInv, CommitsFirst
      <3>2. Commit(t, d) = Commit(c, s)
        BY <1>4, <3>1
      <3>3. t = c
        BY <3>2, NamesDiffer
      <3> QED BY <1>6, <3>3 DEF OrderInv, NothingSaid
    <2> HIDE DEF a, b, e, q
    <2>7. e \in Envelopes
      BY <1>3 DEF e
    <2>8. Precedes(Append(q, e), a, b)
      BY <2>2, <2>3, <2>5, <2>7, BeforeAppend
    <2>9. Precedes(senderQueue'[d], a, b)
      BY <2>2, <2>4, <2>8
    <2> QED BY <2>6, <2>9 DEF a, b
  <1>12. CommitsFirst'
    BY <1>2, <1>8, <1>11 DEF OrderInv, CommitsFirst
  <1> QED BY <1>9, <1>10, <1>12

\* Delivering the head of the queue, to everybody or to some.
LEMMA HeadDelivered ==
    ASSUME OrderInv, NEW s \in Sums, senderQueue[s] # <<>>,
           Head(senderQueue[s]).mode = "broadcast", Taken(s),
           NEW reached, DeliverCast(s, reached, Head(senderQueue[s]).message),
           UNCHANGED senderFrame
    PROVE  /\ NothingSaid' /\ OwnCommits' /\ CommitsFirst'
           /\ QueuesKept
           /\ \A a, d, m \in Sums, t \in Clients :
                InCast(a, d, Commit(t, m))' => InCast(a, d, Commit(t, m)) \/ Queued(a, Commit(t, m))
  <1>1. TypeOK
    BY DEF OrderInv, MasterInv
  <1>2. PICK msg \in Commits \cup Oks : msg = Head(senderQueue[s]).message
    BY <1>1, SenderHead, EnvelopeFields
  <1>3. Head(senderQueue[s]) = Broadcast(msg)
    BY <1>1, <1>2, SenderHead DEF Envelopes, Broadcast
  <1>4. Queued(s, msg)
    BY <1>1, <1>3, Dequeue DEF Queued
  <1>5. QueuesKept
    BY <1>1, HeadTaken
  <1>6. DeliverCast(s, reached, msg)
    BY <1>2 DEF DeliverCast
  <1>7. \A a, d \in Sums : Elements(casts'[a][d]) =
            IF a = s /\ d \in reached THEN Elements(casts[a][d]) \cup {msg}
            ELSE Elements(casts[a][d])
    BY ONLY TypeOK, <1>1, <1>6, Cast
  <1>8. \A a, d \in Sums : \A n : InCast(a, d, n)' => InCast(a, d, n) \/ (a = s /\ n = msg)
    BY <1>7, Zenon DEF InCast
  <1>9. /\ \A a, t : HasFlushed(a, t)' <=> HasFlushed(a, t)
        /\ \A t : Unstarted(t)' <=> Unstarted(t)
        /\ transactions' = transactions
    BY DEF HasFlushed, Unstarted, senderFrame
  <1>10. NothingSaid'
    <2> SUFFICES ASSUME NEW t \in Clients, Unstarted(t), NEW d \in Sums, NEW x \in Sums
                 PROVE  ~InCast(d, x, Ok(t))'
      BY <1>5, <1>9 DEF OrderInv, NothingSaid, QueuesKept
    <2>1. ~InCast(d, x, Ok(t)) /\ ~Queued(d, Ok(t))
      BY DEF OrderInv, NothingSaid
    <2> QED BY <1>4, <1>8, <2>1
  <1>11. OwnCommits'
    <2> SUFFICES ASSUME NEW t \in Clients, NEW d \in Sums, NEW x \in Sums, NEW m \in Sums,
                        InCast(d, x, Commit(t, m))'
                 PROVE  m = d
      BY <1>5 DEF OrderInv, OwnCommits, QueuesKept
    <2>1. InCast(d, x, Commit(t, m)) \/ Queued(d, Commit(t, m))
      BY <1>4, <1>8
    <2> QED BY <2>1 DEF OrderInv, OwnCommits
  <1>12. ASSUME NEW a \in Sums, NEW d \in Sums, NEW t \in Clients
         PROVE  Precedes(casts'[a][d], Commit(t, a), Ok(t))
    <2> DEFINE S == Commits \cup Oks
               q == casts[a][d]
               x == Commit(t, a)
               y == Ok(t)
    <2>1. casts \in [Sums -> [Sums -> Seq(Commits \cup Oks)]]
      BY <1>1 DEF TypeOK
    <2>2. casts'[a][d] = IF a = s /\ d \in reached THEN Append(casts[a][d], msg)
                         ELSE casts[a][d]
      BY ONLY <1>6, <2>1, a \in Sums, d \in Sums, s \in Sums DEF DeliverCast
    <2>3. casts'[a][d] = IF a = s /\ d \in reached THEN Append(q, msg) ELSE q
      BY <2>2
    <2>4. Precedes(q, x, y) /\ x # y /\ q \in Seq(S) /\ msg \in S
      BY <2>1, KindsDiffer DEF OrderInv, CommitsFirst
    <2>5. a = s /\ msg = x => y \notin Elements(q)
      BY <1>4 DEF OrderInv, CommitsFirst, InCast
    <2> HIDE DEF S, q, x, y
    <2>6. a = s => Precedes(Append(q, msg), x, y)
      BY <2>4, <2>5, BeforeAppend
    <2>7. Precedes(casts'[a][d], x, y)
      BY <2>3, <2>4, <2>6
    <2> QED BY <2>7 DEF x, y
  <1>13. ASSUME NEW a \in Sums, NEW d \in Sums, NEW t \in Clients, InCast(a, d, Ok(t))'
         PROVE  ~Queued(a, Commit(t, a))'
    <2>1. CASE InCast(a, d, Ok(t))
      BY <1>5, <2>1 DEF OrderInv, CommitsFirst, QueuesKept
    <2>2. CASE a = s /\ msg = Ok(t)
      <3> DEFINE q == senderQueue[a]
                 x == Broadcast(Commit(t, a))
                 y == Broadcast(Ok(t))
      <3>1. senderQueue \in [Sums -> Seq(Envelopes)]
        BY <1>1 DEF TypeOK
      <3>2. Precedes(q, x, y) /\ q \in Seq(Envelopes) /\ q # <<>> /\ Head(q) = y
        BY <1>3, <2>2, <3>1 DEF OrderInv, CommitsFirst
      <3> HIDE DEF q, x, y
      <3>3. x \notin Elements(q)
        BY <3>2, BeforeTail
      <3>4. ~Queued(a, Commit(t, a))
        BY <3>3 DEF q, x, Queued
      <3> QED BY <1>5, <3>4 DEF QueuesKept
    <2> QED BY <1>8, <1>13, <2>1, <2>2
  <1>14. CommitsFirst'
    BY <1>5, <1>12, <1>13 DEF OrderInv, CommitsFirst, QueuesKept
  <1>15. \A a, d, m \in Sums, t \in Clients :
            InCast(a, d, Commit(t, m))' => InCast(a, d, Commit(t, m)) \/ Queued(a, Commit(t, m))
    BY <1>4, <1>8
  <1> QED BY <1>5, <1>10, <1>11, <1>14, <1>15

-----------------------------------------------------------------------------
(* After a worker has flushed a client.                                    *)

ThreadsDone ==
    \A s \in Sums, c \in Clients : HasFlushed(s, c) =>
        /\ ~Flushing(s, c) => masterOf[s][c] = NoSum
        /\ recv[s].txn = c => recv[s].at # "snapshot"

NoCommitLeft ==
    \A s \in Sums, c \in Clients : HasFlushed(s, c) =>
        \A src, m \in Sums : ~InCast(src, s, Commit(c, m)) /\ ~Queued(src, Commit(c, m))

LEMMA AfterFlushParts == AfterFlush <=> ThreadsDone /\ NoCommitLeft
  BY DEF AfterFlush, ThreadsDone, NoCommitLeft

\* The receiver of s takes a step other than a flush.
LEMMA ThreadsReceiver ==
    ASSUME OrderInv, shipped' = shipped, NEW s \in Sums,
           \/ \E src \in Sums : ReceiveCommit(s, src) \/ ReceiveTryingReady(s, src)
           \/ SnapshotDigest(s)
           \/ AnswerCommit(s)
           \/ CheckCompletion(s)
           \/ DeleteClientDigest(s)
           \/ DeleteTransaction(s)
           \/ DeleteTransactionInfo(s)
    PROVE  ThreadsDone'
  <1>1. TypeOK /\ ThreadsDone /\ NoCommitLeft
    BY AfterFlushParts DEF OrderInv, MasterInv
  <1>2. \A a, t : HasFlushed(a, t)' <=> HasFlushed(a, t)
    BY DEF HasFlushed
  <1> SUFFICES ASSUME NEW a \in Sums, NEW c \in Clients, HasFlushed(a, c)
               PROVE  /\ ~Flushing(a, c)' => masterOf'[a][c] = NoSum
                      /\ recv'[a].txn = c => recv'[a].at # "snapshot"
    BY <1>2 DEF ThreadsDone
  <1>3. /\ ~Flushing(a, c) => masterOf[a][c] = NoSum
        /\ recv[a].txn = c => recv[a].at # "snapshot"
    BY <1>1 DEF ThreadsDone
  <1>4. CASE a # s
    <2>1. recv'[a] = recv[a] /\ masterOf'[a] = masterOf[a]
      BY <1>1, <1>4 DEF ReceiveCommit, ReceiveTryingReady, SnapshotDigest, AnswerCommit,
         CheckCompletion, DeleteClientDigest, DeleteTransaction, DeleteTransactionInfo, TypeOK
    <2> QED BY <1>3, <2>1 DEF Flushing
  <1>5. ASSUME NEW src \in Sums, ReceiveCommit(s, src), a = s
        PROVE  /\ ~Flushing(a, c)' => masterOf'[a][c] = NoSum
               /\ recv'[a].txn = c => recv'[a].at # "snapshot"
    <2> DEFINE msg == Head(casts[src][s])
    <2>1. msg \in Elements(casts[src][s]) /\ msg \in Commits \cup Oks
      BY <1>1, <1>5, TakeCast DEF ReceiveCommit
    <2>2. msg = Commit(msg.txn, msg.master) /\ msg.txn \in Clients /\ msg.master \in Sums
      BY <1>5, <2>1, CastFields DEF ReceiveCommit
    <2>3. InCast(src, s, Commit(msg.txn, msg.master))
      BY <2>1, <2>2 DEF InCast
    <2>4. msg.txn # c
      BY <1>1, <1>5, <2>2, <2>3 DEF NoCommitLeft
    <2>5. recv[s].at = "idle" /\ recv'[s].txn = msg.txn /\ masterOf'[s][c] = masterOf[s][c]
      BY <1>1, <1>5, <2>2, <2>4 DEF ReceiveCommit, TypeOK
    <2> HIDE DEF msg
    <2> QED BY <1>3, <1>5, <2>4, <2>5 DEF Flushing
  <1>6. ASSUME NEW src \in Sums, ReceiveTryingReady(s, src), a = s
        PROVE  /\ ~Flushing(a, c)' => masterOf'[a][c] = NoSum
               /\ recv'[a].txn = c => recv'[a].at # "snapshot"
    <2> DEFINE turn == [RecvIdle EXCEPT !.at = "check", !.txn = Head(directs[src][s]).txn]
    <2>1. turn.at = "check"
      BY DEF RecvIdle
    <2>2. /\ recv[s].at = "idle" /\ masterOf' = masterOf
          /\ recv'[s] = recv[s] \/ recv'[s] = turn
      BY <1>1, <1>6 DEF ReceiveTryingReady, TypeOK
    <2> HIDE DEF turn
    <2> QED BY <1>3, <1>6, <2>1, <2>2 DEF Flushing
  <1>7. CASE SnapshotDigest(s) /\ a = s
    <2> DEFINE next == [recv[s] EXCEPT !.at = "answer",
                                       !.processed = Cardinality(DigestOf(s, recv[s].txn))]
    <2>1. recv'[s] = next /\ masterOf' = masterOf /\ recv[s].at = "snapshot"
      BY <1>1, <1>7 DEF SnapshotDigest, TypeOK
    <2>2. next.at = "answer"
      BY <1>1, RecvKept DEF TypeOK
    <2> HIDE DEF next
    <2> QED BY <1>3, <1>7, <2>1, <2>2 DEF Flushing
  <1>8. CASE (AnswerCommit(s) \/ CheckCompletion(s)) /\ a = s
    <2>1. /\ recv[s].at \in {"answer", "check"} /\ recv'[s].at = "idle"
          /\ masterOf' = masterOf
      BY <1>1, <1>8 DEF AnswerCommit, CheckCompletion, TypeOK, RecvIdle
    <2> QED BY <1>3, <1>8, <2>1 DEF Flushing
  <1>9. CASE DeleteClientDigest(s) /\ a = s
    <2> DEFINE next == [recv[s] EXCEPT !.at = "delete_transaction"]
    <2>1. recv'[s] = next /\ masterOf' = masterOf /\ recv[s].at = "delete_digest"
      BY <1>1, <1>9 DEF DeleteClientDigest, TypeOK
    <2>2. next.at = "delete_transaction" /\ next.txn = recv[s].txn
      BY <1>1, RecvKept DEF TypeOK
    <2> HIDE DEF next
    <2> QED BY <1>3, <1>9, <2>1, <2>2 DEF Flushing
  <1>10. CASE DeleteTransaction(s) /\ a = s
    <2> DEFINE next == [recv[s] EXCEPT !.at = "delete_master"]
    <2>1. recv'[s] = next /\ masterOf' = masterOf /\ recv[s].at = "delete_transaction"
      BY <1>1, <1>10 DEF DeleteTransaction, TypeOK
    <2>2. next.at = "delete_master" /\ next.txn = recv[s].txn
      BY <1>1, RecvKept DEF TypeOK
    <2> HIDE DEF next
    <2> QED BY <1>3, <1>10, <2>1, <2>2 DEF Flushing
  <1>11. CASE DeleteTransactionInfo(s) /\ a = s
    <2>1. /\ recv'[s].at = "idle"
          /\ masterOf'[s][c] = IF c = recv[s].txn THEN NoSum ELSE masterOf[s][c]
      BY <1>1, <1>11 DEF DeleteTransactionInfo, TypeOK, RecvIdle
    <2> QED BY <1>3, <1>11, <2>1 DEF Flushing
  <1> QED BY <1>4, <1>5, <1>6, <1>7, <1>8, <1>9, <1>10, <1>11

LEMMA ThreadsSame ==
    ASSUME OrderInv, UNCHANGED << shipped, recv, masterOf >>
    PROVE  ThreadsDone'
  BY AfterFlushParts DEF OrderInv, ThreadsDone, HasFlushed, Flushing

LEMMA NoCommitSame ==
    ASSUME OrderInv, shipped' = shipped,
           \A a, m \in Sums, t \in Clients :
                /\ Queued(a, Commit(t, m))' => Queued(a, Commit(t, m))
                /\ \A d \in Sums : InCast(a, d, Commit(t, m))' =>
                       InCast(a, d, Commit(t, m)) \/ Queued(a, Commit(t, m))
    PROVE  NoCommitLeft'
  <1>1. \A a, t : HasFlushed(a, t)' <=> HasFlushed(a, t)
    BY DEF HasFlushed
  <1> QED BY <1>1, AfterFlushParts DEF OrderInv, NoCommitLeft

\* Nothing of a client has been flushed when its transaction begins.
LEMMA AfterBegin ==
    ASSUME OrderInv, NEW s \in Sums, NEW c \in Clients, BeginTransaction(s, c)
    PROVE  ThreadsDone' /\ NoCommitLeft'
  <1>1. TypeOK
    BY DEF OrderInv, MasterInv
  <1>2. \A a \in Sums : ~HasFlushed(a, c)
    BY DEF OrderInv, NothingSaid, Unstarted, BeginTransaction
  <1>3. /\ UNCHANGED << shipped, recv, casts >>
        /\ \A a \in Sums, t \in Clients : t # c => masterOf'[a][t] = masterOf[a][t]
    BY <1>1 DEF BeginTransaction, TypeOK
  <1>4. \A a, t : HasFlushed(a, t)' <=> HasFlushed(a, t)
    BY <1>3 DEF HasFlushed
  <1>5. ThreadsDone'
    BY <1>2, <1>3, <1>4, AfterFlushParts DEF OrderInv, ThreadsDone, Flushing
  <1>6. \A d \in Sums : \A n : Queued(d, n)' => Queued(d, n) \/ (d = s /\ n = Commit(c, s))
    BY <1>1, MessageTypes, BroadcastQueued DEF BeginTransaction
  <1>7. NoCommitLeft'
    <2> SUFFICES ASSUME NEW d \in Sums, NEW t \in Clients, HasFlushed(d, t),
                        NEW src \in Sums, NEW m \in Sums
                 PROVE  ~InCast(src, d, Commit(t, m))' /\ ~Queued(src, Commit(t, m))'
      BY <1>4 DEF NoCommitLeft
    <2>1. t # c
      BY <1>2
    <2>2. ~InCast(src, d, Commit(t, m)) /\ ~Queued(src, Commit(t, m))
      BY AfterFlushParts DEF OrderInv, NoCommitLeft
    <2>3. Commit(t, m) # Commit(c, s)
      BY <2>1, NamesDiffer
    <2> QED BY <1>3, <1>6, <2>2, <2>3 DEF InCast
  <1> QED BY <1>5, <1>7

\* The Ok a worker takes is the master's, and the Commit of the same client,
\* which only the master sends, was ahead of it all the way.
LEMMA AfterReceiveOk ==
    ASSUME OrderInv, NEW s \in Sums, NEW src \in Sums, ReceiveOk(s, src)
    PROVE  NothingSaid' /\ OwnCommits' /\ CommitsFirst' /\ ThreadsDone' /\ NoCommitLeft'
  <1>1. TypeOK /\ ThreadsDone /\ NoCommitLeft
    BY AfterFlushParts DEF OrderInv, MasterInv
  <1> DEFINE msg == Head(casts[src][s])
  <1>2. msg \in Elements(casts[src][s]) /\ msg \in Commits \cup Oks
    BY <1>1, TakeCast DEF ReceiveOk
  <1>3. PICK c \in Clients : msg = Ok(c) /\ c = msg.txn
    BY <1>2, CastFields DEF ReceiveOk
  <1> DEFINE batch == [txn |-> c, records |-> DigestOf(s, c)]
  <1>4. InCast(src, s, Ok(c))
    BY <1>2, <1>3 DEF InCast
  <1>5. ChannelsKept
    BY <1>1, CastTaken DEF ReceiveOk
  <1>6. UNCHANGED << senderQueue, ended, eofInbox, transactions, masterOf >>
    BY DEF ReceiveOk, dataPlane
  <1>7. \A a \in Sums, t \in Clients : HasFlushed(a, t)' =>
            HasFlushed(a, t) \/ (a = s /\ t = c)
    <2>1. shipped \in [Sums -> Seq(Batches)]
      BY <1>1 DEF TypeOK
    <2>2. shipped' = [shipped EXCEPT ![s] = Append(@, batch)] /\ batch \in Batches
      BY <1>3 DEF ReceiveOk, Batches, DigestOf, RecordsOf
    <2>3. batch.txn = c
      OBVIOUS
    <2> HIDE DEF batch
    <2> SUFFICES ASSUME NEW a \in Sums, NEW t \in Clients, NEW i \in DOMAIN shipped'[a],
                        shipped'[a][i].txn = t
                 PROVE  HasFlushed(a, t) \/ (a = s /\ t = c)
      BY DEF HasFlushed
    <2>4. CASE a # s
      BY <2>1, <2>2, <2>4 DEF HasFlushed
    <2>5. CASE a = s
      <3>1. /\ shipped'[s] = Append(shipped[s], batch)
            /\ shipped[s] \in Seq(Batches)
        BY <2>1, <2>2
      <3>2. /\ i \in 1 .. Len(shipped[s]) + 1
            /\ DOMAIN shipped[s] = 1 .. Len(shipped[s])
            /\ Append(shipped[s], batch)[Len(shipped[s]) + 1] = batch
            /\ \A j \in 1 .. Len(shipped[s]) : Append(shipped[s], batch)[j] = shipped[s][j]
            /\ Len(shipped[s]) \in Nat
        BY <2>2, <2>5, <3>1
      <3>3. CASE i = Len(shipped[s]) + 1
        BY <2>3, <2>5, <3>1, <3>2, <3>3
      <3>4. CASE i # Len(shipped[s]) + 1
        <4>1. i \in 1 .. Len(shipped[s])
          BY <3>2, <3>4
        <4> QED BY <2>5, <3>1, <3>2, <4>1 DEF HasFlushed
      <3> QED BY <3>3, <3>4
    <2> QED BY <2>4, <2>5
  <1>8. \A d \in Sums : \A n : Queued(d, n)' <=> Queued(d, n)
    BY <1>6 DEF Queued
  <1>9. QueuesKept
    BY <1>6, UnchangedQueues
  <1>10. ~Unstarted(c)
    BY <1>3, <1>4 DEF OrderInv, NothingSaid
  <1>11. \A t : Unstarted(t)' <=> Unstarted(t)
    BY <1>6 DEF Unstarted
  <1>12. NothingSaid'
    <2> SUFFICES ASSUME NEW t \in Clients, Unstarted(t), NEW d \in Sums
                 PROVE  /\ ~transactions'[d][t].open
                        /\ ~Queued(d, Ok(t))'
                        /\ \A a \in Sums : ~InCast(d, a, Ok(t))'
                        /\ ~HasFlushed(d, t)'
      BY <1>11 DEF NothingSaid
    <2>1. t # c
      BY <1>10
    <2>2. /\ ~transactions[d][t].open /\ ~Queued(d, Ok(t)) /\ ~HasFlushed(d, t)
          /\ \A a \in Sums : ~InCast(d, a, Ok(t))
      BY DEF OrderInv, NothingSaid
    <2>3. ~HasFlushed(d, t)'
      BY <1>7, <2>1, <2>2
    <2> HIDE DEF msg
    <2> QED BY <1>5, <1>6, <1>8, <2>2, <2>3 DEF ChannelsKept
  <1>13. OwnCommits' /\ CommitsFirst'
    BY <1>5, <1>9 DEF OrderInv, OwnCommits, CommitsFirst, QueuesKept, ChannelsKept
  <1>14. recv[s].at = "idle" /\ recv'[s].at = "delete_digest" /\ recv'[s].txn = c
    <2> DEFINE turn == [RecvIdle EXCEPT !.at = "delete_digest", !.txn = msg.txn]
    <2>1. turn.at = "delete_digest" /\ turn.txn = msg.txn
      BY DEF RecvIdle
    <2>2. recv[s].at = "idle" /\ recv'[s] = turn
      BY <1>1 DEF ReceiveOk, TypeOK
    <2> HIDE DEF turn, msg
    <2> QED BY <1>3, <2>1, <2>2
  <1>15. \A a \in Sums : a # s => recv'[a] = recv[a]
    BY <1>1 DEF ReceiveOk, TypeOK
  <1>16. ThreadsDone'
    <2> SUFFICES ASSUME NEW a \in Sums, NEW t \in Clients, HasFlushed(a, t)'
                 PROVE  /\ ~Flushing(a, t)' => masterOf[a][t] = NoSum
                        /\ recv'[a].txn = t => recv'[a].at # "snapshot"
      BY <1>6 DEF ThreadsDone
    <2> HIDE DEF msg
    <2>1. CASE a = s /\ t = c
      BY <1>14, <2>1 DEF Flushing
    <2>2. CASE a = s /\ t # c
      <3>1. HasFlushed(a, t)
        BY <1>7, <2>2
      <3> QED BY <1>1, <1>14, <2>2, <3>1 DEF ThreadsDone, Flushing
    <2>3. CASE a # s
      <3>1. HasFlushed(a, t)
        BY <1>7, <2>3
      <3> QED BY <1>1, <1>15, <2>3, <3>1 DEF ThreadsDone, Flushing
    <2> QED BY <2>1, <2>2, <2>3
  <1>17. ASSUME NEW a \in Sums, NEW m \in Sums
         PROVE  ~Queued(a, Commit(c, m)) /\ ~InCast(a, s, Commit(c, m))'
    <2>1. IsTakenForMaster(src, c)
      BY <1>3, <1>4, Believed DEF InFlightFor, InCast
    <2>2. Queued(a, Commit(c, m)) \/ InCast(a, s, Commit(c, m)) => a = src /\ m = src
      <3>1. Queued(a, Commit(c, m)) \/ InCast(a, s, Commit(c, m)) => m = a
        BY <1>3 DEF OrderInv, OwnCommits
      <3>2. InCast(a, s, Commit(c, m)) => IsTakenForMaster(m, c)
        BY <1>3, Believed DEF InFlightFor, InCast
      <3>3. Queued(a, Commit(c, m)) => IsTakenForMaster(m, c)
        <4>1. Broadcast(Commit(c, m)).mode = "broadcast"
              /\ Broadcast(Commit(c, m)).message = Commit(c, m)
          BY DEF Broadcast
        <4> QED BY <1>3, <4>1, Believed DEF Queued, QueuedFor
      <3>4. IsTakenForMaster(m, c) => m = src
        BY <1>3, <2>1 DEF OrderInv, MasterInv, SingleMaster
      <3> QED BY <3>1, <3>2, <3>3, <3>4
    <2>3. ~Queued(src, Commit(c, src))
      BY <1>3, <1>4 DEF OrderInv, CommitsFirst
    <2>4. ~InCast(src, s, Commit(c, src))'
      <3> DEFINE q == casts[src][s]
      <3>1. q \in Seq(Commits \cup Oks) /\ q # <<>> /\ Head(q) = Ok(c)
        <4>1. casts \in [Sums -> [Sums -> Seq(Commits \cup Oks)]]
          BY <1>1 DEF TypeOK
        <4>2. q # <<>>
          BY DEF ReceiveOk
        <4>3. Head(q) = Ok(c)
          BY <1>3
        <4> QED BY <4>1, <4>2, <4>3
      <3>2. Precedes(q, Commit(c, src), Ok(c))
        BY <1>3 DEF OrderInv, CommitsFirst
      <3> HIDE DEF q, msg
      <3>3. Commit(c, src) \notin Elements(q)
        BY <3>1, <3>2, BeforeTail
      <3>4. ~InCast(src, s, Commit(c, src))
        BY <3>3 DEF InCast, q
      <3> QED BY <1>3, <1>5, <3>4 DEF ChannelsKept
    <2> HIDE DEF msg
    <2>5. InCast(a, s, Commit(c, m))' => InCast(a, s, Commit(c, m))
      BY <1>3, <1>5 DEF ChannelsKept
    <2> QED BY <2>2, <2>3, <2>4, <2>5
  <1>18. NoCommitLeft'
    <2> SUFFICES ASSUME NEW d \in Sums, NEW t \in Clients, HasFlushed(d, t)',
                        NEW a \in Sums, NEW m \in Sums
                 PROVE  ~InCast(a, d, Commit(t, m))' /\ ~Queued(a, Commit(t, m))
      BY <1>8 DEF NoCommitLeft
    <2> HIDE DEF msg
    <2>1. CASE d = s /\ t = c
      BY <1>17, <2>1
    <2>2. CASE ~(d = s /\ t = c)
      <3>1. HasFlushed(d, t)
        BY <1>7, <2>2
      <3>2. ~InCast(a, d, Commit(t, m)) /\ ~Queued(a, Commit(t, m))
        BY <1>1, <3>1 DEF NoCommitLeft
      <3> QED BY <1>5, <3>2 DEF ChannelsKept
    <2> QED BY <2>1, <2>2
  <1> QED BY <1>12, <1>13, <1>16, <1>18

-----------------------------------------------------------------------------
(* The invariant holds at the start, and one lemma per kind of step.       *)

LEMMA OrderInit == Init => OrderInv
  <1> SUFFICES ASSUME Init PROVE OrderInv
    OBVIOUS
  <1>1. /\ \A s \in Sums : DOMAIN shipped[s] = {} /\ DOMAIN senderQueue[s] = {}
        /\ \A s, d \in Sums : DOMAIN casts[s][d] = {}
    BY DEF Init
  <1>2. /\ \A s \in Sums : \A msg : ~Queued(s, msg)
        /\ \A s, d \in Sums : \A msg : ~InCast(s, d, msg)
        /\ \A s \in Sums : \A c : ~HasFlushed(s, c)
    BY <1>1 DEF Queued, InCast, HasFlushed, Elements
  <1>3. \A s \in Sums, c \in Clients : ~transactions[s][c].open
    BY DEF Init, NoStatus
  <1>4. CommitsFirst
    BY <1>1, <1>2 DEF CommitsFirst, Precedes
  <1> QED BY <1>2, <1>3, <1>4, MasterInit DEF OrderInv, NothingSaid, OwnCommits, AfterFlush

OrderParts == NothingSaid /\ OwnCommits /\ CommitsFirst /\ ThreadsDone /\ NoCommitLeft

\* The receiver's steps that queue nothing.
LEMMA OrderReceiverQuiet ==
    ASSUME OrderInv, NEW s \in Sums,
           \/ \E src \in Sums : ReceiveCommit(s, src) \/ ReceiveTryingReady(s, src)
           \/ SnapshotDigest(s)
           \/ DeleteClientDigest(s)
           \/ DeleteTransaction(s)
           \/ DeleteTransactionInfo(s)
    PROVE  OrderParts'
  <1>1. TypeOK
    BY DEF OrderInv, MasterInv
  <1>2. UNCHANGED << senderQueue, ended, eofInbox, shipped >>
    BY DEF ReceiveCommit, ReceiveTryingReady, SnapshotDigest, DeleteClientDigest,
           DeleteTransaction, DeleteTransactionInfo, dataPlane
  <1>3. QueuesKept
    BY <1>2, UnchangedQueues
  <1>4. ChannelsKept
    <2>1. ASSUME NEW src \in Sums, ReceiveCommit(s, src) PROVE ChannelsKept
      BY <1>1, <2>1, CastTaken DEF ReceiveCommit
    <2>2. CASE casts' = casts
      BY <2>2, UnchangedChannels
    <2> QED BY <2>1, <2>2 DEF ReceiveTryingReady, SnapshotDigest, DeleteClientDigest,
                              DeleteTransaction, DeleteTransactionInfo
  <1>5. \A a \in Sums, t \in Clients : transactions'[a][t].open => transactions[a][t].open
    <2>1. ASSUME NEW src \in Sums, ReceiveTryingReady(s, src) PROVE <1>5!:
      <3> DEFINE msg == Head(directs[src][s])
                 added == [transactions[s][msg.txn] EXCEPT !.current = @ + msg.processed]
      <3>1. msg \in TryingReadies
        BY <1>1, <2>1, TakeDirect DEF ReceiveTryingReady
      <3>2. msg.txn \in Clients
        BY <3>1 DEF TryingReadies
      <3>3. added.open = transactions[s][msg.txn].open
        BY <1>1, <3>2 DEF TypeOK, Statuses
      <3>4. \/ transactions' = transactions
            \/ transactions' = [transactions EXCEPT ![s][msg.txn] = added]
        BY <2>1 DEF ReceiveTryingReady
      <3>5. transactions \in [Sums -> [Clients -> Statuses]]
        BY <1>1 DEF TypeOK
      <3> HIDE DEF msg, added
      <3>6. \A a \in Sums, t \in Clients :
                \/ transactions'[a][t] = transactions[a][t]
                \/ a = s /\ t = msg.txn /\ transactions'[a][t] = added
        BY <3>2, <3>4, <3>5
      <3> QED BY <3>3, <3>6
    <2>2. CASE DeleteTransaction(s)
      <3>1. \A a \in Sums, t \in Clients :
                transactions'[a][t] = NoStatus \/ transactions'[a][t] = transactions[a][t]
        BY <1>1, <2>2 DEF DeleteTransaction, TypeOK
      <3>2. ~NoStatus.open
        BY DEF NoStatus
      <3> QED BY <3>1, <3>2
    <2>3. CASE transactions' = transactions
      BY <2>3
    <2> QED BY <2>1, <2>2, <2>3 DEF ReceiveCommit, SnapshotDigest, DeleteClientDigest,
                                    DeleteTransactionInfo
  <1>6. StartsKept
    BY <1>2, <1>5 DEF StartsKept, Unstarted
  <1>7. ThreadsDone'
    BY <1>2, ThreadsReceiver
  <1>8. NoCommitLeft'
    BY <1>2, <1>3, <1>4, NoCommitSame DEF QueuesKept, ChannelsKept
  <1> QED BY <1>2, <1>3, <1>4, <1>6, <1>7, <1>8, NothingNew DEF OrderParts

\* The steps that queue at most an answer or a report.
LEMMA OrderDirect ==
    ASSUME OrderInv, NEW s \in Sums, AnswerCommit(s) \/ ReportProgress(s)
    PROVE  OrderParts'
  <1>1. TypeOK
    BY DEF OrderInv, MasterInv
  <1>2. UNCHANGED << ended, eofInbox, shipped, casts, transactions >>
    BY DEF AnswerCommit, ReportProgress, dataPlane
  <1>3. QueuesKept
    <2>1. CASE AnswerCommit(s)
      <3> DEFINE e == Direct(recv[s].master, TryingReady(recv[s].txn, recv[s].processed))
      <3>1. e \in Envelopes
        BY <1>1, <2>1, RecvFields, MessageTypes DEF AnswerCommit
      <3>2. e.mode = "direct"
        BY DEF Direct
      <3>3. senderQueue' = [senderQueue EXCEPT ![s] = Append(@, e)]
        BY <2>1 DEF AnswerCommit
      <3> HIDE DEF e
      <3> QED BY <1>1, <3>1, <3>2, <3>3, DirectQueued
    <2>2. CASE ReportProgress(s)
      <3> DEFINE t == data[s].txn
                 e == Direct(masterOf[s][t], TryingReady(t, 1))
      <3>1. CASE masterOf[s][t] = NoSum
        BY <2>2, <3>1, UnchangedQueues DEF ReportProgress
      <3>2. CASE masterOf[s][t] # NoSum
        <4>1. t \in Clients
          BY <1>1, <2>2 DEF TypeOK, ReportProgress, DataStates, DataIdle
        <4>2. masterOf[s][t] \in Sums
          BY <1>1, <3>2, <4>1 DEF TypeOK
        <4>3. e \in Envelopes
          BY <4>1, <4>2, MessageTypes
        <4>4. e.mode = "direct"
          BY DEF Direct
        <4>5. senderQueue' = [senderQueue EXCEPT ![s] = Append(@, e)]
          BY <2>2, <3>2 DEF ReportProgress
        <4> HIDE DEF e, t
        <4> QED BY <1>1, <4>3, <4>4, <4>5, DirectQueued
      <3> QED BY <3>1, <3>2
    <2> QED BY <2>1, <2>2
  <1>4. ChannelsKept /\ StartsKept
    BY <1>2, UnchangedChannels DEF StartsKept, Unstarted
  <1>5. ThreadsDone'
    <2>1. CASE AnswerCommit(s)
      BY <1>2, <2>1, ThreadsReceiver
    <2>2. CASE ReportProgress(s)
      BY <2>2, ThreadsSame DEF ReportProgress
    <2> QED BY <2>1, <2>2
  <1>6. NoCommitLeft'
    BY <1>2, <1>3, <1>4, NoCommitSame DEF QueuesKept, ChannelsKept
  <1> QED BY <1>2, <1>3, <1>4, <1>5, <1>6, NothingNew DEF OrderParts

\* The two places that ask whether the digestion is complete.
LEMMA OrderMaybeOk ==
    ASSUME OrderInv, NEW s \in Sums, FinishEof(s) \/ CheckCompletion(s)
    PROVE  OrderParts'
  <1>1. TypeOK
    BY DEF OrderInv, MasterInv
  <1>2. UNCHANGED << ended, eofInbox, shipped, casts, transactions >>
    BY DEF FinishEof, CheckCompletion, dataPlane
  <1>3. ChannelsKept /\ StartsKept
    BY <1>2, UnchangedChannels DEF StartsKept, Unstarted
  <1>4. PICK c \in Clients : MaybeBroadcastOk(s, c)
    <2>1. CASE FinishEof(s)
      BY <1>1, <2>1 DEF TypeOK, FinishEof, DataStates, DataIdle
    <2>2. CASE CheckCompletion(s)
      BY <1>1, <2>2, RecvFields DEF CheckCompletion
    <2> QED BY <2>1, <2>2
  <1>5. /\ NothingSaid' /\ OwnCommits' /\ CommitsFirst'
        /\ \A d, m \in Sums, t \in Clients : Queued(d, Commit(t, m))' => Queued(d, Commit(t, m))
    BY <1>2, <1>3, <1>4, OkQueued
  <1>6. ThreadsDone'
    <2>1. CASE FinishEof(s)
      BY <2>1, ThreadsSame DEF FinishEof
    <2>2. CASE CheckCompletion(s)
      BY <1>2, <2>2, ThreadsReceiver
    <2> QED BY <2>1, <2>2
  <1>7. NoCommitLeft'
    BY <1>2, <1>3, <1>5, NoCommitSame DEF ChannelsKept
  <1> QED BY <1>5, <1>6, <1>7 DEF OrderParts

LEMMA OrderSender ==
    ASSUME OrderInv, NEW s \in Sums, SenderThread(s)
    PROVE  OrderParts'
  <1>1. TypeOK
    BY DEF OrderInv, MasterInv
  <1>2. /\ senderQueue[s] # <<>> /\ Taken(s) /\ UNCHANGED senderFrame
        /\ \/ casts' = casts
           \/ /\ Head(senderQueue[s]).mode = "broadcast"
              /\ \E reached : DeliverCast(s, reached, Head(senderQueue[s]).message)
    BY DEF SenderThread, PublishBroadcast, PublishDirect, SendBroadcastFails, SendDirectFails
  <1>3. UNCHANGED << ended, eofInbox, shipped, transactions, recv, masterOf >>
    BY <1>2 DEF senderFrame
  <1>4. ThreadsDone'
    BY <1>3, ThreadsSame
  <1>5. QueuesKept
    BY <1>1, <1>2, HeadTaken
  <1>6. CASE casts' = casts
    <2>1. ChannelsKept /\ StartsKept
      BY <1>3, <1>6, UnchangedChannels DEF StartsKept, Unstarted
    <2>2. NoCommitLeft'
      BY <1>3, <1>5, <2>1, NoCommitSame DEF QueuesKept, ChannelsKept
    <2> QED BY <1>3, <1>4, <1>5, <2>1, <2>2, NothingNew DEF OrderParts
  <1>7. ASSUME NEW reached, DeliverCast(s, reached, Head(senderQueue[s]).message),
               Head(senderQueue[s]).mode = "broadcast"
        PROVE  OrderParts'
    <2>1. /\ NothingSaid' /\ OwnCommits' /\ CommitsFirst'
          /\ \A a, d, m \in Sums, t \in Clients :
                InCast(a, d, Commit(t, m))' => InCast(a, d, Commit(t, m)) \/ Queued(a, Commit(t, m))
      BY <1>2, <1>7, HeadDelivered
    <2>2. NoCommitLeft'
      BY <1>3, <1>5, <2>1, NoCommitSame DEF QueuesKept
    <2> QED BY <1>4, <2>1, <2>2 DEF OrderParts
  <1> QED BY <1>2, <1>6, <1>7

\* The steps that touch nothing of the control plane.
LEMMA OrderElsewhere ==
    ASSUME OrderInv, UNCHANGED << senderQueue, casts, shipped, transactions, recv, masterOf >>,
           \A c \in Clients : Unstarted(c)' => Unstarted(c)
    PROVE  OrderParts'
  <1>1. QueuesKept /\ ChannelsKept /\ StartsKept
    BY UnchangedQueues, UnchangedChannels DEF StartsKept
  <1>2. NoCommitLeft'
    BY <1>1, NoCommitSame DEF QueuesKept, ChannelsKept
  <1> QED BY <1>1, <1>2, NothingNew, ThreadsSame DEF OrderParts

LEMMA OrderStep == OrderInv /\ [Next]_vars => OrderInv'
  <1> SUFFICES ASSUME OrderInv, [Next]_vars PROVE OrderParts'
    BY MasterStep, AfterFlushParts DEF OrderInv, OrderParts, AfterFlush, ThreadsDone, NoCommitLeft
  <1>1. TypeOK
    BY DEF OrderInv, MasterInv
  <1>2. ASSUME NEW s \in Sums, NEW r \in Records, PublishRecord(r, s) \/ DigestData(s, r)
        PROVE  OrderParts'
    BY <1>2, OrderElsewhere DEF PublishRecord, DigestData, controlVars, Unstarted
  <1>3. ASSUME NEW s \in Sums, NEW c \in Clients, PublishEof(c, s)
        PROVE  OrderParts'
    <2>1. \A t \in Clients : Unstarted(t)' => Unstarted(t)
      BY <1>1, <1>3 DEF PublishEof, Unstarted, TypeOK
    <2> QED BY <1>3, <2>1, OrderElsewhere DEF PublishEof, controlVars
  <1>4. ASSUME NEW s \in Sums, DataThread(s) PROVE OrderParts'
    <2>1. ASSUME NEW c \in Clients, BeginTransaction(s, c) PROVE OrderParts'
      BY <2>1, CommitQueued, AfterBegin DEF OrderParts
    <2> QED BY <1>2, <1>4, <2>1, OrderDirect, OrderMaybeOk DEF DataThread
  <1>5. ASSUME NEW s \in Sums, ReceiverThread(s) PROVE OrderParts'
    <2>1. ASSUME NEW src \in Sums, ReceiveOk(s, src) PROVE OrderParts'
      BY <2>1, AfterReceiveOk DEF OrderParts
    <2> QED BY <1>5, <2>1, OrderReceiverQuiet, OrderDirect, OrderMaybeOk DEF ReceiverThread
  <1>6. ASSUME NEW s \in Sums, Listen(s) PROVE OrderParts'
    BY <1>6, OrderElsewhere DEF Listen, senderFrame, Unstarted
  <1>7. CASE UNCHANGED vars
    BY <1>7, OrderElsewhere DEF vars, Unstarted
  <1> QED BY <1>2, <1>3, <1>4, <1>5, <1>6, <1>7, OrderSender DEF Next, Gateway

\* Whatever is lost and whoever repeats an Ok, a worker that has flushed a
\* client never comes to know a master of that client again.
THEOREM NoStaleMasterHolds == Spec => []NoStaleMaster
  <1>1. OrderInv => NoStaleMaster
    <2> SUFFICES ASSUME OrderInv, NEW s \in Sums, NEW i \in DOMAIN shipped[s],
                        ~Flushing(s, shipped[s][i].txn)
                 PROVE  LET c == shipped[s][i].txn IN
                        /\ masterOf[s][c] = NoSum
                        /\ recv[s].txn = c => recv[s].at # "snapshot"
                        /\ \A src, m \in Sums : Commit(c, m) \notin Elements(casts[src][s])
      BY DEF NoStaleMaster
    <2> DEFINE c == shipped[s][i].txn
    <2>1. c \in Clients
      <3>1. shipped[s] \in Seq(Batches)
        BY DEF OrderInv, MasterInv, TypeOK
      <3>2. shipped[s][i] \in Batches
        BY <3>1
      <3> QED BY <3>2 DEF Batches
    <2>2. HasFlushed(s, c)
      BY DEF HasFlushed
    <2> QED BY <2>1, <2>2 DEF OrderInv, AfterFlush, InCast
  <1> QED BY <1>1, OrderInit, OrderStep, PTL DEF Spec
================================================================================

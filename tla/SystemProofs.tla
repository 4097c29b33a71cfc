----------------------------- MODULE SystemProofs -----------------------------
(***************************************************************************)
(* From upload to result, for any numbers of workers, clients and records, *)
(* any hash and any TopSize, and whatever control messages are lost: a     *)
(* client that no worker flushed twice is answered at most once, with the  *)
(* exact top of what it uploaded.                                          *)
(*                                                                         *)
(* SystemSpec has only the schedules in which the two handlers of a Sum    *)
(* worker do not overlap (HandlersDisjoint).  No lock of the code enforces *)
(* that, and where they do overlap a client can be flushed early and       *)
(* answered with too little although nobody flushed it twice.              *)
(*                                                                         *)
(* Two proofs are put together.  SumCountProofs gives the Sum workers:     *)
(* when every worker has flushed a client, each of its records has left in *)
(* one batch (AllHanded).  PipelineProofs gives everything behind them:    *)
(* instantiated with what the batches hand over as its digests (P), its    *)
(* invariant is one of the system, for a flush of the system is a flush of *)
(* the pipeline, the first of its worker and client or a disturbing later  *)
(* one.  What is left is that the amounts of a client's batches add up to  *)
(* those of its records (TotalsAreExact).                                  *)
(***************************************************************************)
EXTENDS System, SumCountProofs, FruitTopProofs

-----------------------------------------------------------------------------
(* What has left the Sum workers.                                          *)

\* What worker s has handed over for client c.
Batched(s, c) == UNION {b.records : b \in {b \in Elements(shipped[s]) : b.txn = c}}

\* A record that was digested is in a digest, or in a batch.
Whereabouts ==
    \A r \in Records : Digested(r) => \E s \in Sums : r \in digestPool[s] \/ r \in Shipped(s)

\* A batch holds records of its client.
OwnBatches == \A s \in Sums : \A b \in Elements(shipped[s]) : b.records \subseteq RecordsOf(b.txn)

\* A worker that flushed a client has nothing of it that is in no batch.
Emptied == \A s \in Sums, c \in Clients : HasFlushed(s, c) => DigestOf(s, c) \subseteq Shipped(s)

FlushInv ==
    /\ AtomicInv /\ AllDigested /\ DeletesShipped
    /\ Whereabouts /\ OwnBatches /\ Emptied

\* What a flush appends.
FlushedBatch(s, c) == [txn |-> c, records |-> DigestOf(s, c)]

LEMMA Flushed ==
    ASSUME TypeOK, NEW s \in Sums, NEW src \in Sums, ReceiveOk(s, src)
    PROVE  \E c \in Clients :
              /\ InCast(src, s, Ok(c))
              /\ FlushedBatch(s, c) \in Batches
              /\ shipped' = [shipped EXCEPT ![s] = Append(@, FlushedBatch(s, c))]
              /\ Elements(shipped'[s]) = Elements(shipped[s]) \cup {FlushedBatch(s, c)}
              /\ \A d \in Sums : d # s => shipped'[d] = shipped[d]
              /\ \A d \in Sums : \A t : HasFlushed(d, t)' => HasFlushed(d, t) \/ (d = s /\ t = c)
<1>1. PICK c \in Clients :
         /\ Head(casts[src][s]) = Ok(c) /\ InCast(src, s, Ok(c))
         /\ \A d \in Sums : \A t : HasFlushed(d, t)' => HasFlushed(d, t) \/ (d = s /\ t = c)
  BY OkHeard
<1>2. Head(casts[src][s]).txn = c
  BY <1>1 DEF Ok
<1>3. PICK b : b = FlushedBatch(s, c)
  OBVIOUS
<1>4. shipped' = [shipped EXCEPT ![s] = Append(@, b)]
  BY <1>2, <1>3 DEF ReceiveOk, FlushedBatch
<1>5. shipped \in [Sums -> Seq(Batches)]
  BY DEF TypeOK
<1>6. b \in Batches
  BY <1>3 DEF FlushedBatch, Batches, DigestOf, RecordsOf
<1>7. Elements(Append(shipped[s], b)) = Elements(shipped[s]) \cup {b}
  BY <1>5, <1>6, ElementsAppend
<1>8. Elements(shipped'[s]) = Elements(shipped[s]) \cup {b}
      /\ \A d \in Sums : d # s => shipped'[d] = shipped[d]
  BY <1>4, <1>5, <1>7
<1> QED BY <1>1, <1>3, <1>4, <1>6, <1>8

\* It is handed over.
LEMMA HandedMore ==
    ASSUME NEW s \in Sums, NEW c \in Clients,
           Elements(shipped'[s]) = Elements(shipped[s]) \cup {FlushedBatch(s, c)},
           \A d \in Sums : d # s => shipped'[d] = shipped[d]
    PROVE  /\ Batched(s, c)' = Batched(s, c) \cup DigestOf(s, c)
           /\ \A d \in Sums, t \in Clients : d # s \/ t # c => Batched(d, t)' = Batched(d, t)
<1>1. FlushedBatch(s, c).txn = c /\ FlushedBatch(s, c).records = DigestOf(s, c)
  BY DEF FlushedBatch
<1>2. Batched(s, c)' = Batched(s, c) \cup DigestOf(s, c)
  BY <1>1 DEF Batched
<1>3. ASSUME NEW d \in Sums, NEW t \in Clients, d # s PROVE Batched(d, t)' = Batched(d, t)
  BY <1>3 DEF Batched
<1>4. ASSUME NEW t \in Clients, t # c PROVE Batched(s, t)' = Batched(s, t)
  BY <1>1, <1>4 DEF Batched
<1> QED BY <1>2, <1>3, <1>4

LEMMA WhereaboutsStep ==
    ASSUME TypeOK, [Next]_vars, DeletesShipped, Whereabouts
    PROVE  Whereabouts'
<1> SUFFICES ASSUME NEW r \in Records, Digested(r)'
             PROVE  \E s \in Sums : r \in digestPool'[s] \/ r \in Shipped(s)'
  BY DEF Whereabouts
<1>1. CASE Digested(r)
  <2>1. PICK s \in Sums : r \in digestPool[s] \/ r \in Shipped(s)
    BY <1>1 DEF Whereabouts
  <2>2. CASE r \in Shipped(s)
    BY <2>2, ShippedStays
  <2>3. CASE r \in digestPool[s] /\ r \in digestPool'[s]
    BY <2>3
  <2>4. CASE r \in digestPool[s] /\ r \notin digestPool'[s]
    <3>1. ASSUME NEW x \in Sums, NEW q \in Records, DigestData(x, q) PROVE FALSE
      BY <2>4, <3>1 DEF DigestData, TypeOK
    <3>2. PICK x \in Sums : DeleteClientDigest(x)
      BY <2>4, <3>1, WhoWrites
    <3>3. digestPool' = [digestPool EXCEPT ![x] = @ \ RecordsOf(recv[x].txn)]
          /\ recv[x].at = "delete_digest"
      BY <3>2 DEF DeleteClientDigest
    <3>4. x = s /\ r \in DigestOf(x, recv[x].txn)
      BY <2>4, <3>3 DEF TypeOK, DigestOf
    <3>5. r \in Shipped(s)
      BY <3>3, <3>4 DEF DeletesShipped
    <3> QED BY <3>5, ShippedStays
  <2> QED BY <2>1, <2>2, <2>3, <2>4
<1>2. CASE ~Digested(r)
  <2>1. ~UNCHANGED << unsent, inbox >>
    BY <1>2 DEF Digested
  <2>2. ASSUME NEW s \in Sums, NEW q \in Records, PublishRecord(q, s) PROVE FALSE
    <3>1. unsent' = unsent \ {q} /\ inbox' = [inbox EXCEPT ![s] = @ \cup {q}]
      BY <2>2 DEF PublishRecord
    <3>2. r # q
      BY <3>1 DEF Digested, TypeOK
    <3> QED BY <1>2, <3>1, <3>2 DEF Digested, TypeOK
  <2>3. ASSUME NEW s \in Sums, NEW q \in Records, DigestData(s, q)
        PROVE  r \in digestPool'[s]
    <3>1. /\ unsent' = unsent /\ inbox' = [inbox EXCEPT ![s] = @ \ {q}]
          /\ digestPool' = [digestPool EXCEPT ![s] = @ \cup {q}]
      BY <2>3 DEF DigestData
    <3>2. r = q
      BY <1>2, <3>1 DEF Digested, TypeOK
    <3> QED BY <3>1, <3>2 DEF TypeOK
  <2> QED BY <2>1, <2>2, <2>3, WhoWrites
<1> QED BY <1>1, <1>2

LEMMA OwnBatchesStep ==
    ASSUME TypeOK, [Next]_vars, OwnBatches
    PROVE  OwnBatches'
<1>1. CASE shipped' = shipped
  BY <1>1 DEF OwnBatches, Elements
<1>2. ASSUME NEW s \in Sums, NEW src \in Sums, ReceiveOk(s, src) PROVE OwnBatches'
  <2>1. PICK c \in Clients :
           /\ Elements(shipped'[s]) = Elements(shipped[s]) \cup {FlushedBatch(s, c)}
           /\ \A d \in Sums : d # s => shipped'[d] = shipped[d]
    BY <1>2, Flushed
  <2>2. FlushedBatch(s, c).records \subseteq RecordsOf(FlushedBatch(s, c).txn)
    BY DEF FlushedBatch, DigestOf
  <2>3. ASSUME NEW d \in Sums, NEW b \in Elements(shipped'[d])
        PROVE  b.records \subseteq RecordsOf(b.txn)
    <3>1. CASE b \in Elements(shipped[d])
      BY <3>1 DEF OwnBatches
    <3>2. CASE b \notin Elements(shipped[d])
      BY <2>1, <2>2, <3>2
    <3> QED BY <3>1, <3>2
  <2> QED BY <2>3 DEF OwnBatches, RecordsOf
<1> QED BY <1>1, <1>2, WhoWrites

LEMMA EmptiedStep ==
    ASSUME TypeOK, [Next]_vars, AllDigested, Emptied
    PROVE  Emptied'
<1> SUFFICES ASSUME NEW s \in Sums, NEW c \in Clients, HasFlushed(s, c)', NEW r \in DigestOf(s, c)'
             PROVE  r \in Shipped(s)'
  BY DEF Emptied
<1>1. r \in digestPool'[s] /\ r \in RecordsOf(c) /\ r \in Records
  BY DEF DigestOf, RecordsOf
<1>2. CASE HasFlushed(s, c)
  <2>1. Digested(r)
    <3>1. OkIssued(c)
      BY <1>2, IssuedMeans
    <3> QED BY <1>1, <3>1 DEF AllDigested
  <2>2. r \in digestPool[s]
    <3>1. CASE digestPool' = digestPool
      BY <1>1, <3>1
    <3>2. ASSUME NEW x \in Sums, NEW q \in Records, DigestData(x, q) PROVE r \in digestPool[s]
      <4>1. q \in inbox[x] /\ digestPool' = [digestPool EXCEPT ![x] = @ \cup {q}]
        BY <3>2 DEF DigestData
      <4>2. r # q
        BY <2>1, <4>1 DEF Digested
      <4> QED BY <1>1, <4>1, <4>2 DEF TypeOK
    <3>3. ASSUME NEW x \in Sums, DeleteClientDigest(x) PROVE r \in digestPool[s]
      BY <1>1, <3>3 DEF DeleteClientDigest, TypeOK
    <3> QED BY <3>1, <3>2, <3>3, WhoWrites
  <2>3. r \in Shipped(s)
    BY <1>1, <1>2, <2>2 DEF Emptied, DigestOf
  <2> QED BY <2>3, ShippedStays
<1>3. CASE ~HasFlushed(s, c)
  <2>1. shipped' # shipped
    BY <1>3 DEF HasFlushed
  <2>2. PICK x \in Sums, src \in Sums : ReceiveOk(x, src)
    BY <2>1, WhoWrites
  <2>3. PICK t \in Clients : /\ Elements(shipped'[x]) = Elements(shipped[x]) \cup {FlushedBatch(x, t)}
                             /\ \A d \in Sums : \A u : HasFlushed(d, u)' => HasFlushed(d, u) \/ (d = x /\ u = t)
    BY <2>2, Flushed
  <2>4. x = s /\ t = c
    BY <1>3, <2>3
  <2>5. digestPool' = digestPool
    BY <2>2 DEF ReceiveOk
  <2>6. r \in FlushedBatch(s, c).records
    BY <1>1, <2>5 DEF FlushedBatch, DigestOf
  <2> QED BY <2>3, <2>4, <2>6 DEF Shipped
<1> QED BY <1>2, <1>3

LEMMA FlushInvInit == Init => FlushInv
<1> SUFFICES ASSUME Init PROVE FlushInv
  OBVIOUS
<1>1. \A s \in Sums : recv[s].at = "idle" /\ DOMAIN shipped[s] = {}
  BY DEF Init, RecvIdle
<1>2. DeletesShipped /\ OwnBatches /\ Emptied
  BY <1>1 DEF DeletesShipped, OwnBatches, Emptied, Elements, HasFlushed
<1>3. Whereabouts
  BY DEF Init, Whereabouts, Digested
<1> QED BY <1>2, <1>3, AtomicInit, AllDigestedInit DEF FlushInv

LEMMA FlushInvStep == FlushInv /\ [AtomicNext]_vars => FlushInv'
<1> SUFFICES ASSUME FlushInv, [AtomicNext]_vars PROVE FlushInv'
  OBVIOUS
<1>1. [Next]_vars /\ AtomicInv' /\ TypeOK
  BY AtomicIsNext, AtomicStep DEF FlushInv, AtomicInv, ShipInv
<1>2. AllDigested' /\ DeletesShipped'
  BY <1>1, AllDigestedStep, DeletesShippedStep DEF FlushInv, AtomicInv
<1>3. Whereabouts' /\ OwnBatches' /\ Emptied'
  BY <1>1, WhereaboutsStep, OwnBatchesStep, EmptiedStep DEF FlushInv
<1> QED BY <1>1, <1>2, <1>3 DEF FlushInv

-----------------------------------------------------------------------------
(* What a batch weighs.                                                    *)

Digests == UNION {[D -> Nat] : D \in {D \in SUBSET Fruits : IsFiniteSet(D)}}

OfFruit(R, f) == {r \in R : FruitOf[r] = f}

\* The records of R, added up per fruit.
TotalsOf(R) == [f \in {FruitOf[r] : r \in R} |-> SumOver(AmountOf, OfFruit(R, f))]

LEMMA AddToIsDigest ==
    ASSUME NEW d \in Digests, NEW f \in Fruits, NEW n \in Nat
    PROVE  A!AddTo(d, f, n) \in Digests
<1>1. PICK D \in SUBSET Fruits : IsFiniteSet(D) /\ d \in [D -> Nat]
  BY DEF Digests
<1> DEFINE E == D \cup {f}
<1>2. E \in SUBSET Fruits /\ IsFiniteSet(E)
  BY <1>1, FS_AddElement
<1>3. A!AddTo(d, f, n) \in [E -> Nat]
  BY <1>1 DEF A!AddTo, A!AmountIn
<1> QED BY <1>2, <1>3 DEF Digests

\* The fold of DataPerFruit exists.
LEMMA DataUnfolds ==
    ASSUME NEW R \in SUBSET Records
    PROVE  \E iter \in [SUBSET R -> Digests] :
              /\ DataPerFruit(R) = iter[R]
              /\ \A s \in SUBSET R :
                    iter[s] = IF s = {} THEN A!NoItems
                              ELSE A!AddTo(iter[s \ {AnyOf(s)}], FruitOf[AnyOf(s)], AmountOf[AnyOf(s)])
<1> DEFINE F == [x \in Digests \X R |-> A!AddTo(x[1], FruitOf[x[2]], AmountOf[x[2]])]
           Says(i) == i = [s \in SUBSET R |->
                             IF s = {} THEN A!NoItems
                             ELSE A!AddTo(i[s \ {AnyOf(s)}], FruitOf[AnyOf(s)], AmountOf[AnyOf(s)])]
           it == CHOOSE i : Says(i)
<1>1. IsFiniteSet(R) /\ \A r \in R : FruitOf[r] \in Fruits /\ AmountOf[r] \in Nat
  BY RecordsAssumption, SystemAssumption, FS_Subset
<1>2. F \in [Digests \X R -> Digests]
  BY <1>1, AddToIsDigest
<1>3. ASSUME NEW d \in Digests, NEW r \in R
      PROVE  F[<< d, r >>] = A!AddTo(d, FruitOf[r], AmountOf[r])
  OBVIOUS
<1> HIDE DEF F
<1>4. A!NoItems \in Digests
  <2>1. A!NoItems \in [{} -> Nat] /\ {} \in SUBSET Fruits /\ IsFiniteSet({})
    BY FS_EmptySet DEF A!NoItems
  <2> QED BY <2>1 DEF Digests
<1>5. PICK k \in [SUBSET R -> Digests] : Folds(k, F, A!NoItems, R)
  BY <1>1, <1>2, <1>4, FoldExists
<1>6. ASSUME NEW s \in SUBSET R
      PROVE  k[s] = IF s = {} THEN A!NoItems
                    ELSE A!AddTo(k[s \ {AnyOf(s)}], FruitOf[AnyOf(s)], AmountOf[AnyOf(s)])
  <2>1. CASE s = {}
    BY <1>5, <2>1 DEF Folds
  <2>2. CASE s # {}
    <3>1. AnyOf(s) \in R /\ s \ {AnyOf(s)} \in SUBSET R
      BY <2>2 DEF AnyOf
    <3>2. k[s] = F[<< k[s \ {AnyOf(s)}], AnyOf(s) >>]
      BY <1>5, <2>2 DEF Folds
    <3> QED BY <1>3, <2>2, <3>1, <3>2
  <2> QED BY <2>1, <2>2
<1>7. Says(k)
  BY <1>6
<1>8. Says(it)
  BY <1>7
<1>9. DataPerFruit(R) = it[R]
  BY DEF DataPerFruit, FoldSet, MapThenFoldSet, AnyOf
<1> HIDE DEF it
<1>10. ASSUME NEW s \in SUBSET R
      PROVE  it[s] = IF s = {} THEN A!NoItems
                    ELSE A!AddTo(it[s \ {AnyOf(s)}], FruitOf[AnyOf(s)], AmountOf[AnyOf(s)])
  BY <1>8
<1>11. it \in [SUBSET R -> Digests]
  <2> DEFINE Wrong == {s \in SUBSET R : it[s] \notin Digests}
  <2> SUFFICES ASSUME Wrong # {} PROVE FALSE
    BY <1>8
  <2>1. PICK s \in Wrong : \A C \in Wrong : C \subseteq s => C = s
    <3>1. Wrong \in SUBSET (SUBSET R)
      OBVIOUS
    <3> HIDE DEF Wrong
    <3> QED BY <1>1, <3>1, LeastSubset
  <2>2. s \in SUBSET R /\ it[s] \notin Digests
    OBVIOUS
  <2>3. s # {}
    BY <1>4, <1>10, <2>2
  <2>4. AnyOf(s) \in s
    BY <2>3 DEF AnyOf
  <2>5. s \ {AnyOf(s)} \in SUBSET R /\ s \ {AnyOf(s)} \notin Wrong
    <3> DEFINE u == s \ {AnyOf(s)}
    <3>1. u \subseteq s /\ u # s
      BY <2>4
    <3> HIDE DEF Wrong, u
    <3>2. u \notin Wrong
      BY <2>1, <3>1
    <3> QED BY <2>2, <3>2 DEF u
  <2>6. PICK d : d = it[s \ {AnyOf(s)}]
    OBVIOUS
  <2>7. d \in Digests
    BY <2>5, <2>6
  <2>8. PICK r : r = AnyOf(s)
    OBVIOUS
  <2>9. FruitOf[r] \in Fruits /\ AmountOf[r] \in Nat
    BY <1>1, <2>2, <2>4, <2>8
  <2>10. it[s] = A!AddTo(d, FruitOf[r], AmountOf[r])
    BY <1>10, <2>2, <2>3, <2>6, <2>8
  <2> QED BY <2>2, <2>7, <2>9, <2>10, AddToIsDigest
<1> QED BY <1>9, <1>10, <1>11

\* A digest adds up the amounts of its records.
LEMMA DataPerFruitIs ==
    ASSUME NEW R \in SUBSET Records
    PROVE  DataPerFruit(R) \in Digests /\ DataPerFruit(R) = TotalsOf(R)
<1>0. IsFiniteSet(R) /\ \A r \in R : FruitOf[r] \in Fruits /\ AmountOf[r] \in Nat
  BY RecordsAssumption, SystemAssumption, FS_Subset
<1>1. PICK k \in [SUBSET R -> Digests] :
         /\ DataPerFruit(R) = k[R]
         /\ \A s \in SUBSET R :
               k[s] = IF s = {} THEN A!NoItems
                      ELSE A!AddTo(k[s \ {AnyOf(s)}], FruitOf[AnyOf(s)], AmountOf[AnyOf(s)])
  BY DataUnfolds
<1> DEFINE Wrong == {s \in SUBSET R : k[s] # TotalsOf(s)}
<1>2. Wrong = {}
  <2> SUFFICES ASSUME Wrong # {} PROVE FALSE
    OBVIOUS
  <2>1. PICK s \in Wrong : \A C \in Wrong : C \subseteq s => C = s
    <3>1. Wrong \in SUBSET (SUBSET R)
      OBVIOUS
    <3> HIDE DEF Wrong
    <3> QED BY <1>0, <3>1, LeastSubset
  <2>2. s \in SUBSET R /\ k[s] # TotalsOf(s)
    OBVIOUS
  <2>3. s # {}
    <3> SUFFICES ASSUME s = {} PROVE FALSE
      OBVIOUS
    <3>1. k[s] = A!NoItems
      BY <1>1, <2>2
    <3> QED BY <2>2, <3>1 DEF TotalsOf, A!NoItems
  <2>4. PICK r : r = AnyOf(s)
    OBVIOUS
  <2>5. r \in s /\ r \in R
    BY <2>2, <2>3, <2>4 DEF AnyOf
  <2>6. PICK u : u = s \ {r}
    OBVIOUS
  <2>7. u \in SUBSET R /\ k[u] = TotalsOf(u)
    <3>1. u \subseteq s /\ u # s /\ u \in SUBSET R
      BY <2>2, <2>5, <2>6
    <3> HIDE DEF Wrong
    <3>2. u \notin Wrong
      BY <2>1, <3>1
    <3> QED BY <3>1, <3>2 DEF Wrong
  <2>8. k[s] = A!AddTo(TotalsOf(u), FruitOf[r], AmountOf[r])
    BY <1>1, <2>2, <2>3, <2>4, <2>6, <2>7
  <2>9. DOMAIN TotalsOf(u) \cup {FruitOf[r]} = DOMAIN TotalsOf(s)
    BY <2>5, <2>6 DEF TotalsOf
  <2>10. ASSUME NEW f \in DOMAIN TotalsOf(s), f # FruitOf[r]
         PROVE  TotalsOf(u)[f] = TotalsOf(s)[f]
    <3>1. OfFruit(s, f) = OfFruit(u, f)
      BY <2>6, <2>10 DEF OfFruit
    <3> QED BY <2>9, <2>10, <3>1 DEF TotalsOf
  <2>11. A!AmountIn(TotalsOf(u), FruitOf[r]) + AmountOf[r] = TotalsOf(s)[FruitOf[r]]
    <3>1. PICK f : f = FruitOf[r]
      OBVIOUS
    <3>2. IsFiniteSet(OfFruit(u, f)) /\ r \notin OfFruit(u, f)
          /\ \A x \in OfFruit(u, f) \cup {r} : AmountOf[x] \in Nat
      <4>1. OfFruit(u, f) \subseteq R
        BY <2>7 DEF OfFruit
      <4> QED BY <1>0, <2>5, <2>6, <4>1, FS_Subset DEF OfFruit
    <3>3. OfFruit(s, f) = OfFruit(u, f) \cup {r}
      BY <2>5, <2>6, <3>1 DEF OfFruit
    <3>4. TotalsOf(s)[f] = SumOver(AmountOf, OfFruit(u, f)) + AmountOf[r]
      <4>1. TotalsOf(s)[f] = SumOver(AmountOf, OfFruit(s, f))
        BY <2>5, <3>1 DEF TotalsOf
      <4>2. PICK U : U = OfFruit(u, f)
        OBVIOUS
      <4>3. SumOver(AmountOf, U \cup {r}) = SumOver(AmountOf, U) + AmountOf[r]
        BY <3>2, <4>2, SumOverAdd
      <4> QED BY <3>3, <4>1, <4>2, <4>3
    <3>5. A!AmountIn(TotalsOf(u), f) = SumOver(AmountOf, OfFruit(u, f))
      <4>1. CASE f \in DOMAIN TotalsOf(u)
        BY <4>1 DEF A!AmountIn, TotalsOf
      <4>2. CASE f \notin DOMAIN TotalsOf(u)
        <5>1. OfFruit(u, f) = {}
          BY <4>2 DEF TotalsOf, OfFruit
        <5>2. SumOver(AmountOf, {}) = 0
          BY <3>2, SumOverStep
        <5> QED BY <4>2, <5>1, <5>2 DEF A!AmountIn
      <4> QED BY <4>1, <4>2
    <3> QED BY <3>1, <3>4, <3>5
  <2>12. A!AddTo(TotalsOf(u), FruitOf[r], AmountOf[r])
         = [g \in DOMAIN TotalsOf(s) |-> TotalsOf(s)[g]]
    BY <2>9, <2>10, <2>11 DEF A!AddTo
  <2>13. TotalsOf(s) = [g \in DOMAIN TotalsOf(s) |-> TotalsOf(s)[g]]
    BY DEF TotalsOf
  <2> QED BY <2>2, <2>8, <2>12, <2>13
<1>3. R \in SUBSET R
  OBVIOUS
<1> QED BY <1>1, <1>2, <1>3

\* When every worker has flushed a client, each of its records has left once.
LEMMA AllHanded ==
    ASSUME FlushInv, NEW c \in Clients, \A s \in Sums : HasFlushed(s, c)
    PROVE  /\ UNION {Batched(s, c) : s \in Sums} = RecordsOf(c)
           /\ \A s, t \in Sums : s # t => Batched(s, c) \cap Batched(t, c) = {}
<1>1. Whereabouts /\ OwnBatches /\ Emptied /\ AllDigested /\ ShippedAtMostOnce
  BY DEF FlushInv, AtomicInv, ShipInv
<1>2. OkIssued(c)
  BY SystemAssumption, IssuedMeans
<1>3. ASSUME NEW s \in Sums, NEW r \in Batched(s, c)
      PROVE  \E i \in DOMAIN shipped[s] : shipped[s][i].txn = c /\ r \in shipped[s][i].records
  BY DEF Batched, Elements
<1>4. ASSUME NEW s \in Sums, NEW r \in Batched(s, c) PROVE r \in RecordsOf(c)
  BY <1>1 DEF Batched, OwnBatches
<1>5. ASSUME NEW r \in RecordsOf(c) PROVE \E s \in Sums : r \in Batched(s, c)
  <2>1. r \in Records /\ ClientOf[r] = c
    BY DEF RecordsOf
  <2>2. Digested(r)
    BY <1>1, <1>2 DEF AllDigested
  <2>3. PICK s \in Sums : r \in digestPool[s] \/ r \in Shipped(s)
    BY <1>1, <2>1, <2>2 DEF Whereabouts
  <2>4. r \in Shipped(s)
    BY <1>1, <2>3 DEF Emptied, DigestOf
  <2>5. PICK b \in Elements(shipped[s]) : r \in b.records
    BY <2>4 DEF Shipped
  <2>6. r \in RecordsOf(b.txn)
    BY <1>1, <2>5 DEF OwnBatches
  <2>7. b.txn = c
    BY <2>1, <2>6 DEF RecordsOf
  <2> QED BY <2>5, <2>7 DEF Batched
<1>6. ASSUME NEW s \in Sums, NEW t \in Sums, s # t, NEW r \in Batched(s, c), r \in Batched(t, c)
      PROVE  FALSE
  <2>1. PICK i \in DOMAIN shipped[s] : r \in shipped[s][i].records
    BY <1>3
  <2>2. PICK j \in DOMAIN shipped[t] : r \in shipped[t][j].records
    BY <1>3, <1>6
  <2>3. << s, i >> # << t, j >>
    BY <1>6
  <2> QED BY <1>1, <2>1, <2>2, <2>3 DEF ShippedAtMostOnce
<1> QED BY <1>4, <1>5, <1>6

LEMMA HandedRecords ==
    ASSUME OwnBatches, NEW s \in Sums, NEW c \in Clients
    PROVE  Batched(s, c) \in SUBSET Records
BY DEF OwnBatches, Batched, RecordsOf

-----------------------------------------------------------------------------
(* What is behind the Sum workers.                                         *)

Shares == [s \in Sums |-> [c \in Clients |-> DataPerFruit(Batched(s, c))]]
Flushes == [s \in Sums |-> [c \in Clients |-> IF HasFlushed(s, c) THEN 1 ELSE 0]]
Repeated == {c \in Clients : FlushedTwice(c)}
NoTries == [s \in Sums |-> [c \in Clients |-> 0]]

\* Any digests, the one hash, and no connection that breaks.
Handovers == [share : [Sums -> [Clients -> Digests]], route : {Route}, breaks : {0}]

P == INSTANCE PipelineProofs WITH
         share <- Shares, route <- Route, flushes <- Flushes, tries <- NoTries,
         disturbed <- Repeated, broken <- {}, breaks <- 0, MaxRetries <- 0,
         inbox <- toAggregators, Inputs <- Handovers

LEMMA DigestIs == ASSUME NEW d \in Digests PROVE P!IsDigest(d)
BY DEF Digests, P!IsDigest, P!IsFiniteSet, IsFiniteSet

\* What PipelineProofs assumes of the workers and their inputs,
LEMMA PipelineFits == P!PipelineAssumption
<1>1. P!IsFiniteSet(Sums)
  BY SystemAssumption DEF P!IsFiniteSet, IsFiniteSet
<1>2. ASSUME NEW input \in Handovers
      PROVE  /\ DOMAIN input.share = Sums
             /\ \A s \in Sums : /\ DOMAIN input.share[s] = Clients
                                /\ \A c \in Clients : P!IsDigest(input.share[s][c])
             /\ input.route \in [Clients \X Fruits -> Aggregators]
             /\ input.breaks \in Nat
  BY SystemAssumption, DigestIs DEF Handovers
<1> QED BY <1>1, <1>2, SystemAssumption DEF P!PipelineAssumption

\* and of the rest.
LEMMA BoundFits == P!RetriesAssumption
BY DEF P!RetriesAssumption

LEMMA AggregatorsFit == P!AggregatorsAssumption
BY AggregatorsAssumption DEF P!AggregatorsAssumption, P!IsFiniteSet, IsFiniteSet

LEMMA TopFits == P!FruitsAssumption /\ P!TopSizeAssumption
BY FruitsAssumption, TopSizeAssumption DEF P!FruitsAssumption, P!TopSizeAssumption

\* One flush, of two modules: the same messages,
LEMMA SameOutgoing ==
    ASSUME NEW c, NEW d
    PROVE  P!Outgoing(c, d, Route) = Messages(c, d, [f \in DOMAIN d |-> Route[c, f]])
BY DEF P!Outgoing, P!Messages, Messages, P!Sent, Sent, P!DataMessage, DataMessage,
       P!EofMessage, EofMessage

\* in the same order,
LEMMA SameInLine ==
    ASSUME NEW msgs, NEW a, NEW type
    PROVE  P!InLine(msgs, a, type) = InLine(msgs, a, type)
<1>1. ASSUME NEW S PROVE P!SetToSeq(S) = SetToSeq(S)
  BY DEF P!SetToSeq, SetToSeq, P!IsInjective, IsInjective, P!Cardinality, Cardinality,
         P!IsFiniteSet, IsFiniteSet
<1> QED BY <1>1 DEF P!InLine, InLine

\* to the same queues.
LEMMA SameDelivered ==
    ASSUME NEW q, NEW s, NEW c, NEW d
    PROVE  P!Delivered(q, s, P!Outgoing(c, d, Route))
           = Delivered(q, s, Messages(c, d, [f \in DOMAIN d |-> Route[c, f]]))
<1>1. PICK msgs : msgs = Messages(c, d, [f \in DOMAIN d |-> Route[c, f]])
  OBVIOUS
<1>2. P!Delivered(q, s, msgs) = Delivered(q, s, msgs)
  BY SameInLine DEF P!Delivered, Delivered
<1> QED BY <1>1, <1>2, SameOutgoing

\* The digests of the pipeline are digests.
LEMMA InputsFit == OwnBatches => P!InputsType
<1> SUFFICES ASSUME OwnBatches PROVE P!InputsType
  OBVIOUS
<1>1. Shares \in [Sums -> [Clients -> Digests]]
  BY HandedRecords, DataPerFruitIs DEF Shares
<1> DEFINE input == [share |-> Shares, route |-> Route, breaks |-> 0]
<1>2. input \in Handovers
  BY <1>1 DEF Handovers
<1>3. P!Cardinality({}) = 0
  BY FS_EmptySet DEF P!Cardinality, Cardinality, P!IsFiniteSet, IsFiniteSet
<1>4. input.share = Shares /\ input.route = Route /\ input.breaks = 0
  OBVIOUS
<1> HIDE DEF input
<1>5. P!Cardinality({}) + 0 = input.breaks
  BY <1>3, <1>4
<1> QED BY <1>2, <1>4, <1>5 DEF P!InputsType

LEMMA InputsStayFit == OwnBatches' => P!InputsType'
BY InputsFit, PTL

-----------------------------------------------------------------------------
(* A flush of the system is a flush of the pipeline.                       *)

\* What a batch appended changes: who has flushed, and who has flushed twice.
LEMMA FlushCounted ==
    ASSUME TypeOK, NEW s \in Sums, NEW c \in Clients, FlushedBatch(s, c) \in Batches,
           shipped' = [shipped EXCEPT ![s] = Append(@, FlushedBatch(s, c))]
    PROVE  /\ shipped'[s] # shipped[s] /\ Last(shipped'[s]) = FlushedBatch(s, c)
           /\ \A d \in Sums : \A t : HasFlushed(d, t)' <=> HasFlushed(d, t) \/ (d = s /\ t = c)
           /\ \A t : FlushedTwice(t)' <=> FlushedTwice(t) \/ (t = c /\ HasFlushed(s, c))
<1>1. PICK b : b = FlushedBatch(s, c)
  OBVIOUS
<1>2. PICK n : n = Len(shipped[s])
  OBVIOUS
<1>3. b \in Batches /\ b.txn = c /\ shipped \in [Sums -> Seq(Batches)]
      /\ shipped' = [shipped EXCEPT ![s] = Append(@, b)]
  BY <1>1 DEF FlushedBatch, TypeOK
<1>4. /\ n \in Nat /\ DOMAIN shipped[s] = 1 .. n /\ DOMAIN shipped'[s] = 1 .. n + 1
      /\ Len(shipped'[s]) = n + 1 /\ shipped'[s][n + 1] = b
      /\ \A i \in 1 .. n : shipped'[s][i] = shipped[s][i]
      /\ \A d \in Sums : d # s => shipped'[d] = shipped[d]
  <2>1. shipped[s] \in Seq(Batches) /\ shipped'[s] = Append(shipped[s], b)
        /\ \A d \in Sums : d # s => shipped'[d] = shipped[d]
    BY <1>3
  <2> QED BY <1>2, <1>3, <2>1, LenProperties, AppendProperties
<1>5. \A i : i \in 1 .. n + 1 <=> i \in 1 .. n \/ i = n + 1
  BY <1>4
<1>6. n + 1 \notin 1 .. n /\ n + 1 # n
  BY <1>4
<1>7. shipped'[s] # shipped[s] /\ Last(shipped'[s]) = b
  <2>1. shipped'[s] # shipped[s]
    BY <1>2, <1>4, <1>6
  <2> QED BY <1>4, <2>1 DEF Last
<1>8. ASSUME NEW d \in Sums, NEW t
      PROVE  HasFlushed(d, t)' <=> HasFlushed(d, t) \/ (d = s /\ t = c)
  <2>1. CASE d = s
    BY <1>3, <1>4, <1>5, <2>1 DEF HasFlushed
  <2>2. CASE d # s
    BY <1>4, <2>2 DEF HasFlushed
  <2> QED BY <2>1, <2>2
<1>9. ASSUME NEW t, FlushedTwice(t)' PROVE FlushedTwice(t) \/ (t = c /\ HasFlushed(s, c))
  <2>1. PICK d \in Sums : \E i, j \in DOMAIN shipped'[d] :
                            i # j /\ shipped'[d][i].txn = t /\ shipped'[d][j].txn = t
    BY <1>9 DEF FlushedTwice
  <2>2. CASE d # s
    BY <1>4, <2>1, <2>2 DEF FlushedTwice
  <2>3. CASE d = s
    <3>1. PICK i \in 1 .. n + 1, j \in 1 .. n + 1 :
             i # j /\ shipped'[s][i].txn = t /\ shipped'[s][j].txn = t
      BY <1>4, <2>1, <2>3
    <3>2. CASE i \in 1 .. n /\ j \in 1 .. n
      BY <1>4, <3>1, <3>2 DEF FlushedTwice
    <3>3. CASE i = n + 1
      <4>1. j \in 1 .. n /\ t = c
        BY <1>3, <1>4, <1>5, <3>1, <3>3
      <4> QED BY <1>4, <3>1, <4>1 DEF HasFlushed
    <3>4. CASE j = n + 1
      <4>1. i \in 1 .. n /\ t = c
        BY <1>3, <1>4, <1>5, <3>1, <3>4
      <4> QED BY <1>4, <3>1, <4>1 DEF HasFlushed
    <3> QED BY <1>5, <3>2, <3>3, <3>4
  <2> QED BY <2>2, <2>3
<1>10. ASSUME NEW t, FlushedTwice(t) PROVE FlushedTwice(t)'
  <2>1. PICK d \in Sums : \E i, j \in DOMAIN shipped[d] :
                            i # j /\ shipped[d][i].txn = t /\ shipped[d][j].txn = t
    BY <1>10 DEF FlushedTwice
  <2>2. CASE d # s
    BY <1>4, <2>1, <2>2 DEF FlushedTwice
  <2>3. CASE d = s
    BY <1>4, <1>5, <2>1, <2>3 DEF FlushedTwice
  <2> QED BY <2>2, <2>3
<1>11. ASSUME HasFlushed(s, c) PROVE FlushedTwice(c)'
  <2>1. PICK i \in 1 .. n : shipped[s][i].txn = c
    BY <1>4, <1>11 DEF HasFlushed
  <2>2. i # n + 1 /\ i \in DOMAIN shipped'[s] /\ n + 1 \in DOMAIN shipped'[s]
        /\ shipped'[s][i].txn = c /\ shipped'[s][n + 1].txn = c
    BY <1>3, <1>4, <1>5, <1>6, <2>1
  <2> QED BY <2>2 DEF FlushedTwice
<1> QED BY <1>1, <1>7, <1>8, <1>9, <1>10, <1>11

\* What the batch changes of the pipeline's inputs.
LEMMA SharesChange ==
    ASSUME NEW s \in Sums, NEW c \in Clients,
           Elements(shipped'[s]) = Elements(shipped[s]) \cup {FlushedBatch(s, c)},
           \A d \in Sums : d # s => shipped'[d] = shipped[d]
    PROVE  /\ \A t \in Sums, e \in Clients : t # s \/ e # c => Shares'[t][e] = Shares[t][e]
           /\ ~HasFlushed(s, c) => Shares'[s][c] = DataPerFruit(DigestOf(s, c))
<1>1. ASSUME NEW t \in Sums, NEW e \in Clients
      PROVE  Shares[t][e] = DataPerFruit(Batched(t, e))
             /\ Shares'[t][e] = DataPerFruit(Batched(t, e)')
  BY DEF Shares
<1>2. /\ Batched(s, c)' = Batched(s, c) \cup DigestOf(s, c)
      /\ \A d \in Sums, t \in Clients : d # s \/ t # c => Batched(d, t)' = Batched(d, t)
  BY HandedMore
<1>3. ASSUME ~HasFlushed(s, c) PROVE Batched(s, c) = {}
  BY <1>3 DEF HasFlushed, Batched, Elements
<1>4. ASSUME ~HasFlushed(s, c) PROVE Batched(s, c)' = DigestOf(s, c)
  BY <1>2, <1>3, <1>4
<1>5. ASSUME NEW t \in Sums, NEW e \in Clients, t # s \/ e # c
      PROVE  Shares'[t][e] = Shares[t][e]
  <2>1. Batched(t, e)' = Batched(t, e)
    BY <1>2, <1>5
  <2> QED BY <1>1, <2>1
<1>6. ASSUME ~HasFlushed(s, c) PROVE Shares'[s][c] = DataPerFruit(DigestOf(s, c))
  BY <1>1, <1>4, <1>6
<1> QED BY <1>5, <1>6

LEMMA BatchShipped ==
    ASSUME NEW s \in Sums, NEW c \in Clients, Ship(s),
           shipped'[s] # shipped[s], Last(shipped'[s]) = FlushedBatch(s, c)
    PROVE  toAggregators' = P!Delivered(toAggregators, s,
                                        P!Outgoing(c, DataPerFruit(DigestOf(s, c)), Route))
<1>1. FlushedBatch(s, c).txn = c /\ FlushedBatch(s, c).records = DigestOf(s, c)
  BY DEF FlushedBatch
<1>2. PICK d : d = DataPerFruit(DigestOf(s, c))
  OBVIOUS
<1>3. toAggregators' = Delivered(toAggregators, s, Messages(c, d, [f \in DOMAIN d |-> Route[c, f]]))
  <2>1. PICK b : b = Last(shipped'[s])
    OBVIOUS
  <2>2. b.txn = c /\ DataPerFruit(b.records) = d
    BY <1>1, <1>2, <2>1
  <2>3. PICK e : e = DataPerFruit(b.records)
    OBVIOUS
  <2>4. toAggregators' = Delivered(toAggregators, s,
                                   Messages(b.txn, e, [f \in DOMAIN e |-> Route[b.txn, f]]))
    BY <2>1, <2>3 DEF Ship
  <2> QED BY <2>2, <2>3, <2>4
<1>4. P!Delivered(toAggregators, s, P!Outgoing(c, d, Route))
      = Delivered(toAggregators, s, Messages(c, d, [f \in DOMAIN d |-> Route[c, f]]))
  BY SameDelivered
<1>5. toAggregators' = P!Delivered(toAggregators, s, P!Outgoing(c, d, Route))
  BY <1>3, <1>4
<1> QED BY <1>2, <1>5

\* The two cases.
LEMMA FlushRefines ==
    ASSUME FlushInv, OwnBatches', NEW s \in Sums, NEW src \in Sums, ReceiveOk(s, src),
           UNCHANGED downstream, Ship(s)
    PROVE  \E c \in Clients : P!FirstFlush(s, c) \/ P!FlushAgain(s, c)
<1>0. TypeOK
  BY DEF FlushInv, AtomicInv, ShipInv
<1>1. PICK c \in Clients :
         /\ FlushedBatch(s, c) \in Batches
         /\ shipped' = [shipped EXCEPT ![s] = Append(@, FlushedBatch(s, c))]
         /\ Elements(shipped'[s]) = Elements(shipped[s]) \cup {FlushedBatch(s, c)}
         /\ \A d \in Sums : d # s => shipped'[d] = shipped[d]
  BY <1>0, Flushed
<1>2. /\ shipped'[s] # shipped[s] /\ Last(shipped'[s]) = FlushedBatch(s, c)
      /\ \A d \in Sums : \A t : HasFlushed(d, t)' <=> HasFlushed(d, t) \/ (d = s /\ t = c)
      /\ \A t : FlushedTwice(t)' <=> FlushedTwice(t) \/ (t = c /\ HasFlushed(s, c))
  BY <1>0, <1>1, FlushCounted
<1>3. PICK d : d = DataPerFruit(DigestOf(s, c))
  OBVIOUS
<1>4. toAggregators' = P!Delivered(toAggregators, s, P!Outgoing(c, d, Route))
  BY <1>2, <1>3, BatchShipped
<1>5. /\ \A t \in Sums, e \in Clients : t # s \/ e # c => Shares'[t][e] = Shares[t][e]
      /\ ~HasFlushed(s, c) => Shares'[s][c] = d
  BY <1>1, <1>3, SharesChange
<1>6. P!InputsType'
  BY InputsStayFit
<1>7. /\ fruitItems' = fruitItems /\ eofCount' = eofCount /\ partialTops' = partialTops
      /\ topHeap' = topHeap /\ received' = received /\ results' = results
  BY DEF downstream, joinVars
<1>8. CASE ~HasFlushed(s, c)
  <2>1. Repeated' = Repeated
    BY <1>2, <1>8 DEF Repeated
  <2>2. Flushes[s][c] = 0
    BY <1>8 DEF Flushes
  <2>3. Flushes' = [Flushes EXCEPT ![s][c] = 1]
    BY <1>2, <1>8 DEF Flushes
  <2>4. toAggregators' = P!Delivered(toAggregators, s, P!Outgoing(c, Shares'[s][c], Route))
    BY <1>4, <1>5, <1>8
  <2>5. NoTries' = NoTries
    BY DEF NoTries
  <2>6. P!FirstFlush(s, c)
    BY <1>5, <1>6, <1>7, <2>1, <2>2, <2>3, <2>4, <2>5 DEF P!FirstFlush, P!connectionVars
  <2> QED BY <2>6
<1>9. CASE HasFlushed(s, c)
  <2>1. Repeated' = Repeated \cup {c}
    BY <1>2, <1>9 DEF Repeated
  <2>2. Flushes' = Flushes
    BY <1>2, <1>9 DEF Flushes
  <2>3. d \in Digests
    BY <1>3, DataPerFruitIs DEF DigestOf, RecordsOf
  <2>4. P!IsDigest(d)
    BY <2>3, DigestIs
  <2>5. NoTries' = NoTries
    BY DEF NoTries
  <2>6. P!FlushAgain(s, c)
    BY <1>4, <1>5, <1>6, <1>7, <2>1, <2>2, <2>4, <2>5 DEF P!FlushAgain
  <2> QED BY <2>6
<1> QED BY <1>8, <1>9

-----------------------------------------------------------------------------
(* The workers behind are those of the pipeline, and nothing else is.      *)

\* One heap of Aggregation,
LEMMA SameFindTop ==
    ASSUME NEW items
    PROVE  P!A!FindTopFruits(items) = A!FindTopFruits(items)
<1>1. ASSUME NEW H, NEW S PROVE P!A!OfferAll(H, S) = A!OfferAll(H, S)
  BY DEF P!A!OfferAll, A!OfferAll, P!A!FoldSet, A!FoldSet, P!A!MapThenFoldSet, A!MapThenFoldSet,
         P!A!Offer, A!Offer, P!A!Less, A!Less, P!A!Least, A!Least,
         P!A!Cardinality, A!Cardinality, P!A!IsFiniteSet, A!IsFiniteSet
<1>2. {P!A!Item(f, items[f], 0) : f \in DOMAIN items} = {A!Item(f, items[f], 0) : f \in DOMAIN items}
  BY DEF P!A!Item, A!Item
<1> QED BY <1>1, <1>2 DEF P!A!FindTopFruits, A!FindTopFruits

\* and one of Join.
LEMMA SameUpdate ==
    ASSUME NEW m
    PROVE  P!J!UpdateClientTop(m) = J!UpdateClientTop(m)
<1>1. ASSUME NEW H, NEW S PROVE P!J!OfferAll(H, S) = J!OfferAll(H, S)
  BY DEF P!J!OfferAll, J!OfferAll, P!J!FoldSet, J!FoldSet, P!J!MapThenFoldSet, J!MapThenFoldSet,
         P!J!Offer, J!Offer, P!J!Less, J!Less, P!J!Least, J!Least,
         P!J!Cardinality, J!Cardinality, P!J!IsFiniteSet, J!IsFiniteSet
<1> QED BY <1>1 DEF P!J!UpdateClientTop, J!UpdateClientTop

\* Its ranking.
LEMMA SameRanking ==
    ASSUME NEW S
    PROVE  P!J!Ranked(S) = J!Ranked(S)
BY DEF P!J!Ranked, J!Ranked, P!J!Rank, J!Rank, P!J!Beats, J!Beats, P!J!Less, J!Less,
       P!J!Cardinality, J!Cardinality, P!J!IsFiniteSet, J!IsFiniteSet

LEMMA SameCounts ==
    ASSUME NEW S
    PROVE  P!A!Cardinality(S) = A!Cardinality(S) /\ P!J!Cardinality(S) = J!Cardinality(S)
BY DEF P!A!Cardinality, A!Cardinality, P!J!Cardinality, J!Cardinality,
       P!A!IsFiniteSet, A!IsFiniteSet, P!J!IsFiniteSet, J!IsFiniteSet

\* Without a flush, the pipeline's inputs stay.
LEMMA NoFlush ==
    ASSUME shipped' = shipped
    PROVE  /\ Shares' = Shares /\ Flushes' = Flushes /\ Repeated' = Repeated
           /\ NoTries' = NoTries
<1>1. ASSUME NEW s \in Sums, NEW c PROVE Batched(s, c)' = Batched(s, c)
  BY DEF Batched, Elements
<1>2. ASSUME NEW s \in Sums, NEW c \in Clients
      PROVE  DataPerFruit(Batched(s, c))' = DataPerFruit(Batched(s, c))
  BY <1>1
<1>3. Shares' = Shares
  BY <1>2 DEF Shares
<1>4. Flushes' = Flushes /\ Repeated' = Repeated /\ NoTries' = NoTries
  BY DEF Flushes, HasFlushed, Repeated, FlushedTwice, NoTries
<1> QED BY <1>3, <1>4

LEMMA AggregationRefines ==
    ASSUME NEW a \in Aggregators, AggregationWorker(a)
    PROVE  \E s \in Sums : P!AggregationWorker(a, s)
<1>1. PICK s \in Sums : A!AggregationStep(a, s)
  BY DEF AggregationWorker
<1>2. /\ shipped' = shipped
      /\ topHeap' = topHeap /\ received' = received /\ results' = results
  BY DEF AggregationWorker, vars, joinVars
<1>3. Shares' = Shares /\ Flushes' = Flushes /\ Repeated' = Repeated /\ NoTries' = NoTries
  BY <1>2, NoFlush
<1>4. UNCHANGED P!A!connectionVars
  BY <1>3 DEF P!A!connectionVars
<1>5. ASSUME A!ProcessData(a, s) PROVE P!A!AggregationStep(a, s)
  <2>1. ASSUME NEW items, NEW f, NEW n PROVE P!A!AddTo(items, f, n) = A!AddTo(items, f, n)
    BY DEF P!A!AddTo, A!AddTo, P!A!AmountIn, A!AmountIn
  <2>2. P!A!Take(a, s)
    BY <1>5 DEF A!ProcessData, A!Take, P!A!Take
  <2>3. PICK m : m = Head(toAggregators[a][s])
    OBVIOUS
  <2>4. /\ m.type = "data"
        /\ fruitItems' = [fruitItems EXCEPT ![a][m.client] = P!A!AddTo(@, m.fruit, m.amount)]
        /\ eofCount' = eofCount /\ partialTops' = partialTops
    BY <1>5, <2>1, <2>3 DEF A!ProcessData
  <2> QED BY <1>4, <2>2, <2>3, <2>4 DEF P!A!AggregationStep, P!A!ProcessData
<1>6. ASSUME A!CountEof(a, s) PROVE P!A!AggregationStep(a, s)
  <2>1. PICK m : m = Head(toAggregators[a][s])
    OBVIOUS
  <2>2. P!A!Take(a, s) /\ ~P!A!ShouldCalculateTop(a, m.client)
    BY <1>6, <2>1, SameCounts DEF A!CountEof, A!Take, A!ShouldCalculateTop,
         P!A!Take, P!A!ShouldCalculateTop
  <2>3. /\ m.type = "eof"
        /\ eofCount' = [eofCount EXCEPT ![a][m.client] = @ + 1]
        /\ fruitItems' = fruitItems /\ partialTops' = partialTops
    BY <1>6, <2>1 DEF A!CountEof
  <2> QED BY <1>4, <2>1, <2>2, <2>3 DEF P!A!AggregationStep, P!A!CountEof
<1>7. ASSUME A!SendPartialTop(a, s) PROVE P!A!AggregationStep(a, s)
  <2>1. P!A!NoItems = A!NoItems
    BY DEF P!A!NoItems, A!NoItems
  <2>2. ASSUME NEW c, NEW top PROVE P!A!PartialTop(c, top) = A!PartialTop(c, top)
    BY DEF P!A!PartialTop, A!PartialTop
  <2>3. ASSUME NEW c, A!Publish(a, c) PROVE P!A!Publish(a, c)
    BY <2>2, <2>3, SameFindTop DEF P!A!Publish, A!Publish
  <2>4. P!A!LastEof(a, s) /\ P!A!Take(a, s) /\ P!A!Works(P!A!OutputOf(a))
    BY <1>4, <1>7, SameCounts DEF A!SendPartialTop, A!LastEof, A!ShouldCalculateTop, A!Take,
         P!A!LastEof, P!A!ShouldCalculateTop, P!A!Take, P!A!Works
  <2>5. PICK c : c = Head(toAggregators[a][s]).client
    OBVIOUS
  <2>6. /\ P!A!Publish(a, c)
        /\ fruitItems' = [fruitItems EXCEPT ![a][c] = P!A!NoItems]
        /\ eofCount' = [eofCount EXCEPT ![a][c] = 0]
    BY <1>7, <2>1, <2>3, <2>5 DEF A!SendPartialTop
  <2> QED BY <2>4, <2>5, <2>6 DEF P!A!AggregationStep, P!A!SendPartialTop
<1>8. ASSUME A!SendPartialTopFails(a, s) PROVE P!A!AggregationStep(a, s)
  BY <1>8 DEF A!SendPartialTopFails, A!Raises
<1>9. P!A!AggregationStep(a, s)
  BY <1>1, <1>5, <1>6, <1>7, <1>8 DEF A!AggregationStep
<1>10. P!AggregationWorker(a, s)
  BY <1>2, <1>3, <1>9 DEF P!AggregationWorker, P!flushVars
<1> QED BY <1>10

LEMMA JoinRefines ==
    ASSUME JoinWorker
    PROVE  \E a \in Aggregators : P!JoinWorker(a)
<1>1. PICK a \in Aggregators : J!JoinStep(a)
  BY DEF JoinWorker
<1>2. /\ shipped' = shipped
      /\ toAggregators' = toAggregators /\ fruitItems' = fruitItems /\ eofCount' = eofCount
  BY DEF JoinWorker, vars
<1>3. Shares' = Shares /\ Flushes' = Flushes /\ Repeated' = Repeated /\ NoTries' = NoTries
  BY <1>2, NoFlush
<1>4. UNCHANGED P!J!connectionVars
  BY <1>3 DEF P!J!connectionVars
<1>5. PICK m : m = Head(partialTops[a])
  OBVIOUS
<1>6. ASSUME J!KeepPartialTop(a) PROVE P!J!JoinStep(a)
  <2>1. P!J!Receive(a) /\ ~P!J!LastPartialTop(m.client)
    BY <1>5, <1>6, SameCounts DEF J!KeepPartialTop, J!Receive, J!LastPartialTop,
         P!J!Receive, P!J!LastPartialTop
  <2>2. /\ topHeap' = [topHeap EXCEPT ![m.client] = P!J!UpdateClientTop(m)]
        /\ received' = [received EXCEPT ![m.client] = @ + 1]
        /\ results' = results
    BY <1>5, <1>6, SameUpdate DEF J!KeepPartialTop
  <2> QED BY <1>4, <1>5, <2>1, <2>2 DEF P!J!JoinStep, P!J!KeepPartialTop
<1>7. ASSUME J!SendFinalResults(a) PROVE P!J!JoinStep(a)
  <2>1. P!J!Receive(a) /\ P!J!LastPartialTop(m.client) /\ P!J!Works(P!J!Output)
    BY <1>4, <1>5, <1>7, SameCounts DEF J!SendFinalResults, J!Receive, J!LastPartialTop,
         P!J!Receive, P!J!LastPartialTop, P!J!Works
  <2>2. P!J!Publish(m)
    <3>1. ASSUME NEW c, NEW top PROVE P!J!Result(c, top) = J!Result(c, top)
      BY DEF P!J!Result, J!Result
    <3>2. J!Publish(m)
      BY <1>5, <1>7 DEF J!SendFinalResults
    <3> QED BY <3>1, <3>2, SameUpdate, SameRanking DEF P!J!Publish, J!Publish
  <2>3. /\ topHeap' = [topHeap EXCEPT ![m.client] = {}]
        /\ received' = [received EXCEPT ![m.client] = 0]
    BY <1>5, <1>7 DEF J!SendFinalResults
  <2> QED BY <1>5, <2>1, <2>2, <2>3 DEF P!J!JoinStep, P!J!SendFinalResults
<1>8. ASSUME J!SendFinalResultsFails(a) PROVE P!J!JoinStep(a)
  BY <1>8 DEF J!SendFinalResultsFails, J!Raises
<1>9. P!J!JoinStep(a)
  BY <1>1, <1>6, <1>7, <1>8 DEF J!JoinStep
<1>10. P!JoinWorker(a)
  BY <1>2, <1>3, <1>9 DEF P!JoinWorker, P!flushVars
<1> QED BY <1>10

-----------------------------------------------------------------------------
(* The invariant of the system.                                            *)

SystemInv == FlushInv /\ P!PipelineInv

LEMMA SystemIsAtomic == [SystemNext]_systemVars => [AtomicNext]_vars
BY DEF SystemNext, systemVars, Publisher, Data, Sender, Receiver, AggregationWorker, JoinWorker,
       AtomicNext

\* Nothing has been flushed.
LEMMA SystemInitInv == SystemInit => SystemInv
<1> SUFFICES ASSUME SystemInit PROVE SystemInv
  OBVIOUS
<1>1. FlushInv
  BY FlushInvInit DEF SystemInit
<1>2. P!InputsType
  BY <1>1, InputsFit DEF FlushInv
<1>3. PICK input \in Handovers : Shares = input.share /\ Route = input.route
  BY <1>2 DEF P!InputsType
<1>4. 0 = input.breaks
  BY DEF Handovers
<1>5. \A s \in Sums : \A c : ~HasFlushed(s, c)
  BY DEF SystemInit, Init, HasFlushed
<1>6. Flushes = NoTries
  BY <1>5 DEF Flushes, NoTries
<1>7. Repeated = {}
  BY <1>5 DEF Repeated, FlushedTwice, HasFlushed
<1>8. P!A!AggregationInit
  BY DEF SystemInit, A!AggregationInit, P!A!AggregationInit, A!NoItems, P!A!NoItems
<1>9. P!J!JoinInit
  BY DEF SystemInit, J!JoinInit, P!J!JoinInit
<1>10. P!Init
  BY <1>3, <1>4, <1>6, <1>7, <1>8, <1>9 DEF P!Init, NoTries
<1>11. P!PipelineInv
  BY <1>10, P!InitPipelineInv, PipelineFits, BoundFits, AggregatorsFit, TopFits
<1> QED BY <1>1, <1>11 DEF SystemInv

\* What a Sum worker does between two flushes is nothing to the pipeline.
LEMMA IdleKeeps ==
    ASSUME P!PipelineInv, shipped' = shipped, toAggregators' = toAggregators, UNCHANGED downstream
    PROVE  P!PipelineInv'
<1>1. Shares' = Shares /\ Flushes' = Flushes /\ Repeated' = Repeated /\ NoTries' = NoTries
  BY NoFlush
<1>2. UNCHANGED P!vars
  BY <1>1 DEF P!vars, P!flushVars, P!connectionVars, downstream, joinVars
<1> QED BY <1>2, P!StutterKeeps, PipelineFits, BoundFits, AggregatorsFit, TopFits

LEMMA SystemInvStep == SystemInv /\ [SystemNext]_systemVars => SystemInv'
<1> SUFFICES ASSUME SystemInv, [SystemNext]_systemVars PROVE SystemInv'
  OBVIOUS
<1>1. FlushInv /\ P!PipelineInv
  BY DEF SystemInv
<1>2. FlushInv' /\ OwnBatches'
  BY <1>1, SystemIsAtomic, FlushInvStep DEF FlushInv
<1>3. ASSUME NEW s \in Sums, NEW src \in Sums, ReceiveOk(s, src), Receiver(s)
      PROVE  P!PipelineInv'
  <2>1. PICK c \in Clients : P!FirstFlush(s, c) \/ P!FlushAgain(s, c)
    BY <1>1, <1>2, <1>3, FlushRefines DEF Receiver
  <2>2. CASE P!FirstFlush(s, c)
    BY <1>1, <2>2, P!FirstFlushKeeps, PipelineFits, BoundFits, AggregatorsFit, TopFits
  <2>3. CASE P!FlushAgain(s, c)
    BY <1>1, <2>3, P!FlushAgainKeeps, PipelineFits, BoundFits, AggregatorsFit, TopFits
  <2> QED BY <2>1, <2>2, <2>3
<1>4. ASSUME NEW s \in Sums, Receiver(s), \A src \in Sums : ~ReceiveOk(s, src)
      PROVE  P!PipelineInv'
  <2>1. shipped' = shipped
    BY <1>4 DEF Receiver, ReceiverThread, ReceiveCommit, ReceiveTryingReady, SnapshotDigest,
         AnswerCommit, CheckCompletion, DeleteClientDigest, DeleteTransaction, DeleteTransactionInfo
  <2>2. toAggregators' = toAggregators /\ UNCHANGED downstream
    BY <1>4, <2>1 DEF Receiver, Ship
  <2> QED BY <1>1, <2>1, <2>2, IdleKeeps
<1>5. ASSUME Publisher \/ \E s \in Sums : Data(s) \/ Sender(s) PROVE P!PipelineInv'
  <2>1. toAggregators' = toAggregators /\ UNCHANGED downstream
    BY <1>5 DEF Publisher, Data, Sender
  <2>2. CASE Publisher
    <3>1. shipped' = shipped
      BY <2>2 DEF Publisher, Gateway, PublishRecord, PublishEof
    <3> QED BY <1>1, <2>1, <3>1, IdleKeeps
  <2>3. ASSUME NEW s \in Sums, Data(s) PROVE P!PipelineInv'
    <3>1. shipped' = shipped
      BY <2>3 DEF Data, DataThread, DigestData, ReportProgress, BeginTransaction, FinishEof,
           controlVars
    <3> QED BY <1>1, <2>1, <3>1, IdleKeeps
  <2>4. ASSUME NEW s \in Sums, Sender(s) PROVE P!PipelineInv'
    <3>1. shipped' = shipped
      BY <2>4 DEF Sender, SenderThread, PublishBroadcast, PublishDirect, SendBroadcastFails,
           SendDirectFails, senderFrame
    <3> QED BY <1>1, <2>1, <3>1, IdleKeeps
  <2> QED BY <1>5, <2>2, <2>3, <2>4
<1>6. ASSUME NEW a \in Aggregators, AggregationWorker(a) PROVE P!PipelineInv'
  <2>1. PICK s \in Sums : P!AggregationWorker(a, s)
    BY <1>6, AggregationRefines
  <2> QED BY <1>1, <2>1, P!AggregationKeeps, PipelineFits, BoundFits, AggregatorsFit, TopFits
<1>7. ASSUME JoinWorker PROVE P!PipelineInv'
  <2>1. PICK a \in Aggregators : P!JoinWorker(a)
    BY <1>7, JoinRefines
  <2> QED BY <1>1, <2>1, P!JoinKeeps, PipelineFits, BoundFits, AggregatorsFit, TopFits
<1>8. ASSUME UNCHANGED systemVars PROVE P!PipelineInv'
  BY <1>1, <1>8, IdleKeeps DEF systemVars, vars, aggregatorVars, downstream
<1>9. P!PipelineInv'
  BY <1>3, <1>4, <1>5, <1>6, <1>7, <1>8 DEF SystemNext
<1> QED BY <1>2, <1>9 DEF SystemInv

-----------------------------------------------------------------------------
(* The totals of the pipeline are those of the upload.                     *)

TotalItem(c, f) == Item(f, SumOver(AmountOf, OfFruit(RecordsOf(c), f)), 0)
TotalItems(c) == {TotalItem(c, f) : f \in {FruitOf[r] : r \in RecordsOf(c)}}

LEMMA SameSumOver ==
    ASSUME NEW g, NEW S
    PROVE  P!SumOver(g, S) = SumOver(g, S)
BY DEF P!SumOver, SumOver, P!MapThenSumSet, MapThenSumSet, P!MapThenFoldSet, MapThenFoldSet

\* The workers' batches of a client have of each fruit what the client uploaded.
LEMMA TotalsAreExact ==
    ASSUME FlushInv, NEW c \in Clients, \A s \in Sums : HasFlushed(s, c)
    PROVE  P!Tot(c) = TotalItems(c)
<1>1. /\ UNION {Batched(s, c) : s \in Sums} = RecordsOf(c)
      /\ \A s, t \in Sums : s # t => Batched(s, c) \cap Batched(t, c) = {}
  BY AllHanded
<1>2. ASSUME NEW s \in Sums
      PROVE  /\ Batched(s, c) \in SUBSET Records
             /\ Shares[s][c] = TotalsOf(Batched(s, c))
  <2>1. Batched(s, c) \in SUBSET Records
    BY HandedRecords DEF FlushInv
  <2> QED BY <2>1, DataPerFruitIs DEF Shares
<1>3. ASSUME NEW s \in Sums, NEW f
      PROVE  f \in DOMAIN Shares[s][c] <=> OfFruit(Batched(s, c), f) # {}
  <2>1. PICK R : R = Batched(s, c)
    OBVIOUS
  <2>2. DOMAIN TotalsOf(R) = {FruitOf[r] : r \in R}
    BY DEF TotalsOf
  <2>3. f \in {FruitOf[r] : r \in R} <=> OfFruit(R, f) # {}
    BY DEF OfFruit
  <2> QED BY <1>2, <2>1, <2>2, <2>3
<1>4. ASSUME NEW f PROVE P!Bearers(c, f) = {s \in Sums : OfFruit(Batched(s, c), f) # {}}
  BY <1>3 DEF P!Bearers
<1>5. ASSUME NEW f PROVE UNION {OfFruit(Batched(s, c), f) : s \in P!Bearers(c, f)} = OfFruit(RecordsOf(c), f)
  BY <1>1, <1>4 DEF OfFruit
<1>6. ASSUME NEW f
      PROVE  P!SumOver(P!Amounted(c, f), P!Bearers(c, f)) = SumOver(AmountOf, OfFruit(RecordsOf(c), f))
  <2> DEFINE part == [s \in Sums |-> OfFruit(Batched(s, c), f)]
  <2>1. PICK S : S = P!Bearers(c, f)
    OBVIOUS
  <2>2. S \subseteq Sums /\ IsFiniteSet(S)
    BY <1>4, <2>1, SystemAssumption, FS_Subset
  <2>3. PICK h : h = P!Amounted(c, f)
    OBVIOUS
  <2>4. ASSUME NEW s \in S
        PROVE  /\ IsFiniteSet(part[s]) /\ \A x \in part[s] : AmountOf[x] \in Nat
               /\ h[s] = SumOver(AmountOf, part[s])
    <3>1. s \in Sums /\ part[s] \subseteq Records /\ part[s] = OfFruit(Batched(s, c), f)
      BY <1>2, <2>2 DEF OfFruit
    <3>2. IsFiniteSet(part[s]) /\ \A x \in part[s] : AmountOf[x] \in Nat
      BY <3>1, RecordsAssumption, SystemAssumption, FS_Subset
    <3>3. h[s] = Shares[s][c][f] /\ f \in DOMAIN Shares[s][c]
      BY <1>3, <1>4, <2>1, <2>3, <3>1 DEF P!Amounted
    <3>4. Shares[s][c][f] = SumOver(AmountOf, OfFruit(Batched(s, c), f))
      BY <1>2, <3>1, <3>3 DEF TotalsOf
    <3> QED BY <3>1, <3>2, <3>3, <3>4
  <2>5. \A s, t \in S : s # t => part[s] \cap part[t] = {}
    BY <1>1, <2>2 DEF OfFruit
  <2>6. UNION {part[s] : s \in S} = OfFruit(RecordsOf(c), f)
    <3>1. \A s \in S : part[s] = OfFruit(Batched(s, c), f)
      BY <2>2
    <3> QED BY <1>5, <2>1, <3>1
  <2> HIDE DEF part
  <2>7. SumOver(h, S) = SumOver(AmountOf, UNION {part[s] : s \in S})
    BY <2>2, <2>4, <2>5, SumOverParts
  <2> QED BY <2>1, <2>3, <2>6, <2>7, SameSumOver
<1>7. P!FruitsOf(c) = {FruitOf[r] : r \in RecordsOf(c)}
  <2>1. ASSUME NEW f \in P!FruitsOf(c) PROVE f \in {FruitOf[r] : r \in RecordsOf(c)}
    <3>1. PICK s \in Sums : OfFruit(Batched(s, c), f) # {}
      BY <1>4 DEF P!FruitsOf
    <3>2. PICK r \in Batched(s, c) : FruitOf[r] = f
      BY <3>1 DEF OfFruit
    <3> QED BY <1>1, <3>2
  <2>2. ASSUME NEW r \in RecordsOf(c) PROVE FruitOf[r] \in P!FruitsOf(c)
    <3>1. PICK s \in Sums : r \in Batched(s, c)
      BY <1>1
    <3>2. s \in P!Bearers(c, FruitOf[r])
      BY <1>4, <3>1 DEF OfFruit
    <3>3. FruitOf[r] \in Fruits
      BY SystemAssumption DEF RecordsOf
    <3> QED BY <3>2, <3>3 DEF P!FruitsOf
  <2> QED BY <2>1, <2>2
<1>8. ASSUME NEW f
      PROVE  P!Item(f, P!SumOver(P!Amounted(c, f), P!Bearers(c, f)), 0) = TotalItem(c, f)
  BY <1>6 DEF P!Item, Item, TotalItem
<1> QED BY <1>7, <1>8 DEF P!Tot, TotalItems

\* A ranking has a place for every item.
LEMMA LenOfRanked ==
    ASSUME NEW S, IsFiniteSet(S)
    PROVE  Len(Ranked(S)) = Cardinality(S)
<1>1. Cardinality(S) \in Nat
  BY FS_CardinalityType
<1> DEFINE item(i) == CHOOSE x \in S : Rank(x, S) = i - 1
           pair(i) == << item(i).fruit, item(i).amount >>
           V == {pair(i) : i \in 1 .. Cardinality(S)}
<1>2. Ranked(S) = [i \in 1 .. Cardinality(S) |-> pair(i)]
  BY DEF Ranked
<1> HIDE DEF pair
<1>3. Ranked(S) \in [1 .. Cardinality(S) -> V]
  BY <1>2
<1> HIDE DEF V
<1> QED BY <1>1, <1>3

\* ExactTop, its fold named.
LEMMA ExactTopIs ==
    ASSUME NEW c
    PROVE  ExactTop(c) = SubSeq(Ranked(TotalItems(c)), 1,
                                IF Len(Ranked(TotalItems(c))) < TopSize
                                THEN Len(Ranked(TotalItems(c))) ELSE TopSize)
BY DEF ExactTop, TotalItems, TotalItem, OfFruit, SumOver

LEMMA SamePRanked ==
    ASSUME NEW S
    PROVE  P!Ranked(S) = Ranked(S) /\ P!Cardinality(S) = Cardinality(S)
BY DEF P!Ranked, Ranked, P!Rank, Rank, P!Beats, Beats, P!Less, Less,
       P!Cardinality, Cardinality, P!IsFiniteSet, IsFiniteSet

LEMMA PipelineIsExact ==
    ASSUME FlushInv, NEW c \in Clients, \A s \in Sums : HasFlushed(s, c)
    PROVE  P!Exact(c) = ExactTop(c)
<1>1. PICK T : T = TotalItems(c)
  OBVIOUS
<1>2. P!Tot(c) = T
  BY <1>1, TotalsAreExact
<1>3. IsFiniteSet(T)
  <2>1. IsFiniteSet(RecordsOf(c))
    BY RecordsAssumption, FS_Subset DEF RecordsOf
  <2> DEFINE item == [r \in RecordsOf(c) |-> TotalItem(c, FruitOf[r])]
  <2>2. item \in Surjection(RecordsOf(c), T)
    BY <1>1 DEF Surjection, TotalItems
  <2> HIDE DEF item
  <2> QED BY <2>1, <2>2, FS_Surjection
<1>4. P!Exact(c) = SubSeq(Ranked(T), 1, IF Cardinality(T) < TopSize THEN Cardinality(T) ELSE TopSize)
  BY <1>2, SamePRanked DEF P!Exact
<1>5. Len(Ranked(T)) = Cardinality(T)
  BY <1>3, LenOfRanked
<1> QED BY <1>1, <1>4, <1>5, ExactTopIs

\* Every worker had flushed a client that was answered, if none flushed it twice.
LEMMA AnswersAreExact == SystemInv => ExactUnlessRepeated
<1> SUFFICES ASSUME SystemInv, NEW i \in DOMAIN results, ~FlushedTwice(results[i].client)
             PROVE  /\ results[i].top = ExactTop(results[i].client)
                    /\ \A j \in DOMAIN results : results[j].client = results[i].client => j = i
  BY DEF ExactUnlessRepeated
<1>1. PICK c : c = results[i].client
  OBVIOUS
<1>2. FlushInv /\ P!PipelineInv
  BY DEF SystemInv
<1>3. c \in Clients
  <2>1. PICK T : results \in Seq([client : Clients, top : T])
    BY <1>2 DEF P!PipelineInv, P!Types, P!ResultsType
  <2> DEFINE R == [client : Clients, top : T]
  <2>2. \A r \in R : r.client \in Clients
    OBVIOUS
  <2>3. results \in Seq(R)
    BY <2>1
  <2> HIDE DEF R
  <2>4. results[i] \in R
    BY <2>3, ElementOfSeq
  <2> QED BY <1>1, <2>2, <2>4
<1>4. P!ClientInv(c)
  <2>1. P!Undisturbed(c)
    BY <1>1 DEF P!Undisturbed, Repeated
  <2> QED BY <1>2, <1>3, <2>1 DEF P!PipelineInv
<1>5. results[i].top \in P!TopsIn(results, c)
  BY <1>1 DEF P!TopsIn
<1>6. P!Taken(c) = Aggregators /\ results[i].top = P!Exact(c) /\ P!AtMostOne(results, c)
  BY <1>4, <1>5 DEF P!ClientInv, P!JoinInv
<1>7. ASSUME NEW s \in Sums PROVE HasFlushed(s, c)
  <2>1. PICK a \in Aggregators : P!Ended(a, c) = Sums
    BY <1>6, AggregatorsAssumption DEF P!Taken
  <2>2. Flushes[s][c] = 1
    BY <2>1 DEF P!Ended
  <2> QED BY <1>3, <2>2 DEF Flushes
<1>8. P!Exact(c) = ExactTop(c)
  BY <1>2, <1>3, <1>7, PipelineIsExact
<1>9. \A j \in DOMAIN results : results[j].client = c => j = i
  BY <1>1, <1>6 DEF P!AtMostOne
<1> QED BY <1>1, <1>6, <1>8, <1>9

\* From upload to result, for every number of workers, clients and records, every
\* hash and every TopSize, and whichever worker digested a record, became master
\* or flushed first: a client is answered at most once and with the exact top of
\* what it uploaded, unless a repeated Ok made a worker flush it again.  Only in
\* the schedules of SystemSpec, where the handlers of the data thread and of the
\* receiver thread of one Sum do not overlap: no lock of sum/main.py gives that,
\* and without it a premature flush makes the top inexact (NoPrematureFlush).
THEOREM ExactUnlessRepeatedHolds == SystemSpec => []ExactUnlessRepeated
<1>1. SystemInit => SystemInv
  BY SystemInitInv
<1>2. SystemInv /\ [SystemNext]_systemVars => SystemInv'
  BY SystemInvStep
<1>3. SystemInv => ExactUnlessRepeated
  BY AnswersAreExact
<1> QED BY <1>1, <1>2, <1>3, PTL DEF SystemSpec

=============================================================================

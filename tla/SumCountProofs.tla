---------------------------- MODULE SumCountProofs ----------------------------
(***************************************************************************)
(* No digested record escapes the count of its client's transaction, for   *)
(* any number of workers, clients and records, as long as no control       *)
(* message is lost.                                                        *)
(*                                                                         *)
(* A number is on its way to the count in a data thread's hands, in an     *)
(* answer not queued yet, in a sender's queue, in a channel, or in the     *)
(* transaction itself.  Each of these is a claimant and its number the     *)
(* records it claims.  The invariant gives every record at most one        *)
(* claimant, and no claimant more records than it claims; a digested       *)
(* record whose worker has taken its snapshot has one.  So when nothing is *)
(* on its way any more the transaction has counted them all.               *)
(*                                                                         *)
(* Two threads can count one record twice (the reason why the count can    *)
(* exceed the total): the record then has one of the two claimants, and    *)
(* the other claims a record it does not have.  When the two handlers of a *)
(* worker do not overlap this cannot happen and the count is exact: no     *)
(* worker flushes a client before all its records are digested, and        *)
(* without losses the workers implement the barrier of FlushBarrier.       *)
(***************************************************************************)
EXTENDS SumClusterProofs

\* The claimants: who holds a number of records on its way to the count.
Nobody == [at |-> "nobody", src |-> NoSum, dst |-> NoSum, pos |-> 0]
Hand(s) == [at |-> "hand", src |-> s, dst |-> NoSum, pos |-> 0]
Answer(s) == [at |-> "answer", src |-> s, dst |-> NoSum, pos |-> 0]
Counted(s) == [at |-> "counted", src |-> s, dst |-> NoSum, pos |-> 0]
InQueue(s, i) == [at |-> "queue", src |-> s, dst |-> NoSum, pos |-> i]
InFlight(s, d, i) == [at |-> "flight", src |-> s, dst |-> d, pos |-> i]

Positive == Nat \ {0}

Claimants ==
    {Hand(s) : s \in Sums} \cup {Answer(s) : s \in Sums} \cup {Counted(s) : s \in Sums}
    \cup {InQueue(s, i) : s \in Sums, i \in Positive}
    \cup {InFlight(s, d, i) : s \in Sums, d \in Sums, i \in Positive}
Holders == Claimants \cup {Nobody}

\* How many records of c each of them claims.
HandClaim(c, turn) == IF turn.at = "look_master" /\ turn.txn = c THEN 1 ELSE 0
AnswerClaim(c, turn) == IF turn.at = "answer" /\ turn.txn = c THEN turn.processed ELSE 0
EnvelopeClaim(c, e) ==
    IF e.mode = "direct" /\ e.message.txn = c THEN e.message.processed ELSE 0
QueueClaim(c, q, i) == IF i \in DOMAIN q THEN EnvelopeClaim(c, q[i]) ELSE 0
ReportClaim(c, msg) == IF msg.txn = c THEN msg.processed ELSE 0
FlightClaim(c, q, i) == IF i \in DOMAIN q THEN ReportClaim(c, q[i]) ELSE 0

Claims(c) ==
    [h \in Claimants |->
        CASE h.at = "hand"    -> HandClaim(c, data[h.src])
          [] h.at = "answer"  -> AnswerClaim(c, recv[h.src])
          [] h.at = "counted" -> transactions[h.src][c].current
          [] h.at = "queue"   -> QueueClaim(c, senderQueue[h.src], h.pos)
          [] h.at = "flight"  -> FlightClaim(c, directs[h.src][h.dst], h.pos)]

\* own[r] is the claimant of record r.  No claimant has more records than it
\* claims; none has fewer, when the backing is exact.
Of(own, h) == {r \in Records : own[r] = h}

Fits(exact, n, R) == Cardinality(R) <= n /\ (exact => Cardinality(R) = n)

Backs(own, claims, exact) ==
    /\ own \in [Records -> Holders]
    /\ \A h \in Claimants : Fits(exact, claims[h], Of(own, h))

-----------------------------------------------------------------------------
(* Claimants and their claims, one kind at a time.                         *)

LEMMA HolderKinds ==
    ASSUME NEW h \in Claimants
    PROVE  \/ \E s \in Sums : h = Hand(s)
           \/ \E s \in Sums : h = Answer(s)
           \/ \E s \in Sums : h = Counted(s)
           \/ \E s \in Sums, i \in Positive : h = InQueue(s, i)
           \/ \E s, d \in Sums, i \in Positive : h = InFlight(s, d, i)
  BY DEF Claimants

LEMMA IsHolder ==
    /\ \A s \in Sums : {Hand(s), Answer(s), Counted(s)} \subseteq Claimants
    /\ \A s \in Sums, i \in Positive : InQueue(s, i) \in Claimants
    /\ \A s, d \in Sums, i \in Positive : InFlight(s, d, i) \in Claimants
    /\ Nobody \notin Claimants
    /\ Nobody \in Holders /\ Claimants \subseteq Holders
  <1>1. Nobody \notin Claimants
    <2> SUFFICES ASSUME Nobody \in Claimants PROVE FALSE
      OBVIOUS
    <2>1. Nobody.at = "nobody"
      BY DEF Nobody
    <2> QED BY <2>1, HolderKinds DEF Hand, Answer, Counted, InQueue, InFlight
  <1> QED BY <1>1 DEF Claimants, Holders

LEMMA ClaimOf ==
    ASSUME NEW c
    PROVE  /\ \A s \in Sums :
               /\ Claims(c)[Hand(s)] = HandClaim(c, data[s])
               /\ Claims(c)[Answer(s)] = AnswerClaim(c, recv[s])
               /\ Claims(c)[Counted(s)] = transactions[s][c].current
           /\ \A s \in Sums, i \in Positive :
               Claims(c)[InQueue(s, i)] = QueueClaim(c, senderQueue[s], i)
           /\ \A s, d \in Sums, i \in Positive :
               Claims(c)[InFlight(s, d, i)] = FlightClaim(c, directs[s][d], i)
  <1>1. ASSUME NEW s \in Sums PROVE Claims(c)[Hand(s)] = HandClaim(c, data[s])
    BY IsHolder DEF Claims, Hand
  <1>2. ASSUME NEW s \in Sums PROVE Claims(c)[Answer(s)] = AnswerClaim(c, recv[s])
    BY IsHolder DEF Claims, Answer
  <1>3. ASSUME NEW s \in Sums PROVE Claims(c)[Counted(s)] = transactions[s][c].current
    BY IsHolder DEF Claims, Counted
  <1>4. ASSUME NEW s \in Sums, NEW i \in Positive
        PROVE  Claims(c)[InQueue(s, i)] = QueueClaim(c, senderQueue[s], i)
    BY IsHolder DEF Claims, InQueue
  <1>5. ASSUME NEW s \in Sums, NEW d \in Sums, NEW i \in Positive
        PROVE  Claims(c)[InFlight(s, d, i)] = FlightClaim(c, directs[s][d], i)
    BY IsHolder DEF Claims, InFlight
  <1> QED BY <1>1, <1>2, <1>3, <1>4, <1>5

LEMMA ClaimOfNext ==
    ASSUME NEW c
    PROVE  /\ \A s \in Sums :
               /\ Claims(c)'[Hand(s)] = HandClaim(c, data'[s])
               /\ Claims(c)'[Answer(s)] = AnswerClaim(c, recv'[s])
               /\ Claims(c)'[Counted(s)] = transactions'[s][c].current
           /\ \A s \in Sums, i \in Positive :
               Claims(c)'[InQueue(s, i)] = QueueClaim(c, senderQueue'[s], i)
           /\ \A s, d \in Sums, i \in Positive :
               Claims(c)'[InFlight(s, d, i)] = FlightClaim(c, directs'[s][d], i)
  <1>1. ASSUME NEW s \in Sums PROVE Claims(c)'[Hand(s)] = HandClaim(c, data'[s])
    BY IsHolder DEF Claims, Hand
  <1>2. ASSUME NEW s \in Sums PROVE Claims(c)'[Answer(s)] = AnswerClaim(c, recv'[s])
    BY IsHolder DEF Claims, Answer
  <1>3. ASSUME NEW s \in Sums PROVE Claims(c)'[Counted(s)] = transactions'[s][c].current
    BY IsHolder DEF Claims, Counted
  <1>4. ASSUME NEW s \in Sums, NEW i \in Positive
        PROVE  Claims(c)'[InQueue(s, i)] = QueueClaim(c, senderQueue'[s], i)
    BY IsHolder DEF Claims, InQueue
  <1>5. ASSUME NEW s \in Sums, NEW d \in Sums, NEW i \in Positive
        PROVE  Claims(c)'[InFlight(s, d, i)] = FlightClaim(c, directs'[s][d], i)
    BY IsHolder DEF Claims, InFlight
  <1> QED BY <1>1, <1>2, <1>3, <1>4, <1>5

\* Holders of different kinds, or of one kind with different arguments, differ.
LEMMA HoldersDiffer ==
    ASSUME NEW s, NEW d, NEW i, NEW t, NEW e, NEW j
    PROVE  /\ Hand(s) = Hand(t) => s = t
           /\ Answer(s) = Answer(t) => s = t
           /\ Counted(s) = Counted(t) => s = t
           /\ InQueue(s, i) = InQueue(t, j) => s = t /\ i = j
           /\ InFlight(s, d, i) = InFlight(t, e, j) => s = t /\ d = e /\ i = j
           /\ Hand(s) \notin {Nobody, Answer(t), Counted(t), InQueue(t, j), InFlight(t, e, j)}
           /\ Answer(s) \notin {Nobody, Hand(t), Counted(t), InQueue(t, j), InFlight(t, e, j)}
           /\ Counted(s) \notin {Nobody, Hand(t), Answer(t), InQueue(t, j), InFlight(t, e, j)}
           /\ InQueue(s, i) \notin {Nobody, Hand(t), Answer(t), Counted(t), InFlight(t, e, j)}
           /\ InFlight(s, d, i) \notin {Nobody, Hand(t), Answer(t), Counted(t), InQueue(t, j)}
  BY DEF Nobody, Hand, Answer, Counted, InQueue, InFlight

LEMMA ClaimNat ==
    ASSUME TypeOK, NEW c \in Clients, NEW h \in Claimants
    PROVE  Claims(c)[h] \in Nat
  <1>1. ASSUME NEW s \in Sums PROVE HandClaim(c, data[s]) \in Nat
    BY DEF HandClaim
  <1>2. ASSUME NEW s \in Sums PROVE AnswerClaim(c, recv[s]) \in Nat
    BY RecvFields DEF AnswerClaim
  <1>3. ASSUME NEW s \in Sums PROVE transactions[s][c].current \in Nat
    BY DEF TypeOK, Statuses
  <1>4. ASSUME NEW e \in Envelopes PROVE EnvelopeClaim(c, e) \in Nat
    <2>1. e.mode = "direct" => e.message \in TryingReadies
      BY EnvelopeFields
    <2> QED BY <2>1 DEF EnvelopeClaim, TryingReadies
  <1>5. ASSUME NEW s \in Sums, NEW i \in Positive
        PROVE  QueueClaim(c, senderQueue[s], i) \in Nat
    <2>1. senderQueue[s] \in Seq(Envelopes)
      BY DEF TypeOK
    <2>2. i \in DOMAIN senderQueue[s] => senderQueue[s][i] \in Envelopes
      BY <2>1
    <2> QED BY <1>4, <2>2 DEF QueueClaim
  <1>6. ASSUME NEW s \in Sums, NEW d \in Sums, NEW i \in Positive
        PROVE  FlightClaim(c, directs[s][d], i) \in Nat
    <2>1. directs[s][d] \in Seq(TryingReadies)
      BY DEF TypeOK
    <2>2. i \in DOMAIN directs[s][d] => directs[s][d][i] \in TryingReadies
      BY <2>1
    <2> QED BY <2>2 DEF FlightClaim, ReportClaim, TryingReadies
  <1>7. CASE \E s \in Sums : h \in {Hand(s), Answer(s), Counted(s)}
    BY <1>1, <1>2, <1>3, <1>7, ClaimOf
  <1>8. CASE \E s \in Sums, i \in Positive : h = InQueue(s, i)
    BY <1>5, <1>8, ClaimOf
  <1>9. CASE \E s, d \in Sums, i \in Positive : h = InFlight(s, d, i)
    BY <1>6, <1>9, ClaimOf
  <1> QED BY <1>7, <1>8, <1>9, HolderKinds

-----------------------------------------------------------------------------
(* A step hands claims over: f[h] has what h had.                          *)

Carries(old, new, f) ==
    /\ f \in [Holders -> Holders]
    /\ \A h \in Claimants :
        \/ \E g \in Claimants : /\ new[h] = old[g]
                                /\ \A x \in Holders : f[x] = h <=> x = g
        \/ /\ new[h] = 0
           /\ \A x \in Holders : f[x] # h
        \/ \E g, k \in Claimants : /\ g # k
                                   /\ new[h] = old[g] + old[k]
                                   /\ \A x \in Holders : f[x] = h <=> x = g \/ x = k

Handed(own, f) == [r \in Records |-> f[own[r]]]

LEMMA OfFinite ==
    ASSUME NEW own, NEW h
    PROVE  IsFiniteSet(Of(own, h)) /\ Cardinality(Of(own, h)) \in Nat
  <1>1. Of(own, h) \subseteq Records /\ IsFiniteSet(Records)
    BY RecordsAssumption DEF Of
  <1>2. IsFiniteSet(Of(own, h))
    BY <1>1, FS_Subset
  <1> QED BY <1>2, FS_CardinalityType

LEMMA Carried ==
    ASSUME NEW old \in [Claimants -> Nat], NEW new, NEW exact \in BOOLEAN,
           NEW own, Backs(own, old, exact), NEW f, Carries(old, new, f)
    PROVE  Backs(Handed(own, f), new, exact)
  <1> DEFINE then == Handed(own, f)
  <1>1. own \in [Records -> Holders] /\ f \in [Holders -> Holders]
    BY DEF Backs, Carries
  <1>2. then \in [Records -> Holders]
    BY <1>1 DEF Handed
  <1>3. \A r \in Records : then[r] = f[own[r]] /\ own[r] \in Holders
    BY <1>1 DEF Handed
  <1> HIDE DEF then
  <1>4. ASSUME NEW h \in Claimants
        PROVE  Fits(exact, new[h], Of(then, h))
    <2>1. ASSUME NEW g \in Claimants, new[h] = old[g],
                 \A x \in Holders : f[x] = h <=> x = g
          PROVE  Fits(exact, new[h], Of(then, h))
      <3>1. Of(then, h) = Of(own, g)
        BY <1>3, <2>1 DEF Of
      <3> QED BY <2>1, <3>1 DEF Backs
    <2>2. CASE new[h] = 0 /\ \A x \in Holders : f[x] # h
      <3>1. Of(then, h) = {}
        BY <1>3, <2>2 DEF Of
      <3>2. Cardinality({}) = 0
        BY FS_EmptySet
      <3> QED BY <2>2, <3>1, <3>2 DEF Fits
    <2>3. ASSUME NEW g \in Claimants, NEW k \in Claimants, g # k,
                 new[h] = old[g] + old[k],
                 \A x \in Holders : f[x] = h <=> x = g \/ x = k
          PROVE  Fits(exact, new[h], Of(then, h))
      <3>1. Of(then, h) = Of(own, g) \cup Of(own, k)
        BY <1>3, <2>3 DEF Of
      <3>2. Of(own, g) \cap Of(own, k) = {}
        BY <2>3 DEF Of
      <3>3. /\ IsFiniteSet(Of(own, g)) /\ IsFiniteSet(Of(own, k))
            /\ Cardinality(Of(own, g)) \in Nat /\ Cardinality(Of(own, k)) \in Nat
        BY OfFinite
      <3>4. Cardinality({}) = 0
        BY FS_EmptySet
      <3>5. Cardinality(Of(then, h)) = Cardinality(Of(own, g)) + Cardinality(Of(own, k))
        <4>1. Cardinality(Of(own, g) \cup Of(own, k)) =
                  Cardinality(Of(own, g)) + Cardinality(Of(own, k))
                      - Cardinality(Of(own, g) \cap Of(own, k))
          BY <3>3, FS_Union
        <4>2. Cardinality(Of(own, g) \cap Of(own, k)) = 0
          BY <3>2, <3>4
        <4>3. Cardinality(Of(then, h)) = Cardinality(Of(own, g) \cup Of(own, k))
          BY <3>1
        <4> QED BY <3>3, <4>1, <4>2, <4>3
      <3>6. Fits(exact, old[g], Of(own, g)) /\ Fits(exact, old[k], Of(own, k))
        BY DEF Backs
      <3>7. old[g] \in Nat /\ old[k] \in Nat
        OBVIOUS
      <3> QED BY <2>3, <3>3, <3>5, <3>6, <3>7 DEF Fits
    <2> QED BY <2>1, <2>2, <2>3 DEF Carries
  <1> QED BY <1>2, <1>4 DEF Backs, then

\* What is not claimed belongs to nobody.
LEMMA Unclaimed ==
    ASSUME NEW claims, NEW own, NEW exact, Backs(own, claims, exact), NEW h \in Claimants,
           claims[h] = 0
    PROVE  \A r \in Records : own[r] # h
  <1>1. Fits(exact, 0, Of(own, h))
    BY DEF Backs
  <1>2. IsFiniteSet(Of(own, h)) /\ Cardinality(Of(own, h)) \in Nat
    BY OfFinite
  <1>3. Cardinality(Of(own, h)) = 0
    BY <1>1, <1>2 DEF Fits
  <1>4. Of(own, h) = {}
    BY <1>2, <1>3, FS_EmptySet
  <1> QED BY <1>4 DEF Of

-----------------------------------------------------------------------------
(* The two ways to hand over: one claimant's claim goes to another, and a  *)
(* line of claimants moves up, the claim of the first leaving the line.    *)

Merge(g, k) == [h \in Holders |-> IF h = g THEN k ELSE h]

Line == {L \in [Positive -> Claimants] : \A i, j \in Positive : L[i] = L[j] => i = j}

Shift(L, k) ==
    [h \in Holders |->
        IF h = L[1] THEN k
        ELSE IF \E i \in Positive : h = L[i + 1]
             THEN L[CHOOSE i \in Positive : h = L[i + 1]]
             ELSE h]

LEMMA MergeCarries ==
    ASSUME NEW old, NEW new, NEW g \in Claimants, NEW k \in Holders, g # k,
           new[g] = 0,
           k # Nobody => new[k] = old[g] + old[k],
           \A h \in Claimants \ {g, k} : new[h] = old[h]
    PROVE  Carries(old, new, Merge(g, k))
  <1> DEFINE f == Merge(g, k)
  <1>1. Claimants \subseteq Holders /\ Nobody \notin Claimants
        /\ (k # Nobody => k \in Claimants)
    BY IsHolder DEF Holders
  <1>2. f \in [Holders -> Holders]
    BY <1>1 DEF Merge
  <1>3. \A x \in Holders : f[x] = IF x = g THEN k ELSE x
    BY DEF Merge
  <1> HIDE DEF f
  <1>4. ASSUME NEW h \in Claimants
        PROVE  \/ \E a \in Claimants : /\ new[h] = old[a]
                                       /\ \A x \in Holders : f[x] = h <=> x = a
               \/ /\ new[h] = 0
                  /\ \A x \in Holders : f[x] # h
               \/ \E a, b \in Claimants : /\ a # b
                                          /\ new[h] = old[a] + old[b]
                                          /\ \A x \in Holders : f[x] = h <=> x = a \/ x = b
    <2>1. CASE h = g
      <3>1. \A x \in Holders : f[x] # h
        BY <1>3, <2>1
      <3> QED BY <2>1, <3>1
    <2>2. CASE h = k
      <3>1. \A x \in Holders : f[x] = h <=> x = g \/ x = k
        BY <1>3, <2>2
      <3>2. new[h] = old[g] + old[k]
        BY <1>1, <2>2
      <3>3. k \in Claimants
        BY <2>2
      <3> QED BY <3>1, <3>2, <3>3
    <2>3. CASE h # g /\ h # k
      <3>1. \A x \in Holders : f[x] = h <=> x = h
        BY <1>3, <2>3
      <3>2. new[h] = old[h]
        BY <2>3
      <3> QED BY <3>1, <3>2
    <2> QED BY <2>1, <2>2, <2>3
  <1> QED BY <1>2, <1>4 DEF Carries, f

LEMMA ShiftOf ==
    ASSUME NEW L \in Line, NEW k \in Holders
    PROVE  /\ Shift(L, k)[L[1]] = k
           /\ \A i \in Positive : Shift(L, k)[L[i + 1]] = L[i]
           /\ \A h \in Holders : (\A i \in Positive : h # L[i]) => Shift(L, k)[h] = h
           /\ Shift(L, k) \in [Holders -> Holders]
  <1>1. /\ \A i \in Positive : L[i] \in Holders /\ i + 1 \in Positive /\ i + 1 # 1
        /\ 1 \in Positive
        /\ \A i, j \in Positive : L[i] = L[j] => i = j
    BY IsHolder DEF Line, Positive
  <1>2. Shift(L, k)[L[1]] = k
    BY <1>1 DEF Shift
  <1>3. ASSUME NEW i \in Positive PROVE Shift(L, k)[L[i + 1]] = L[i]
    <2>1. L[i + 1] # L[1]
      BY <1>1
    <2>2. \A j \in Positive : L[i + 1] = L[j + 1] => j = i
      <3> SUFFICES ASSUME NEW j \in Positive, L[i + 1] = L[j + 1] PROVE j = i
        OBVIOUS
      <3>1. i + 1 = j + 1
        BY <1>1
      <3> QED BY <3>1 DEF Positive
    <2>3. (CHOOSE j \in Positive : L[i + 1] = L[j + 1]) = i
      BY <2>2
    <2> QED BY <1>1, <2>1, <2>3 DEF Shift
  <1>4. ASSUME NEW h \in Holders, \A i \in Positive : h # L[i]
        PROVE  Shift(L, k)[h] = h
    BY <1>1, <1>4 DEF Shift
  <1>5. \A h \in Holders : (\E i \in Positive : h = L[i + 1]) =>
            L[CHOOSE i \in Positive : h = L[i + 1]] \in Holders
    BY <1>1
  <1>6. Shift(L, k) \in [Holders -> Holders]
    BY <1>5 DEF Shift
  <1> QED BY <1>2, <1>3, <1>4, <1>6

LEMMA ShiftCarries ==
    ASSUME NEW old, NEW new, NEW L \in Line, NEW k \in Holders,
           \A i \in Positive : k # L[i] /\ new[L[i]] = old[L[i + 1]],
           k # Nobody => new[k] = old[L[1]] + old[k],
           \A h \in Claimants \ {k} : (\A i \in Positive : h # L[i]) =>
               new[h] = old[h]
    PROVE  Carries(old, new, Shift(L, k))
  <1> DEFINE f == Shift(L, k)
  <1>1. Claimants \subseteq Holders /\ Nobody \notin Claimants
        /\ (k # Nobody => k \in Claimants)
    BY IsHolder DEF Holders
  <1>2. /\ f[L[1]] = k
        /\ \A i \in Positive : f[L[i + 1]] = L[i]
        /\ \A h \in Holders : (\A i \in Positive : h # L[i]) => f[h] = h
        /\ f \in [Holders -> Holders]
    BY ShiftOf
  <1>3. /\ \A i \in Positive : L[i] \in Claimants /\ i + 1 \in Positive
        /\ 1 \in Positive
        /\ \A i, j \in Positive : L[i] = L[j] => i = j
        /\ \A i \in Positive : i # 1 => \E j \in Positive : i = j + 1
    <2>1. \A i \in Positive : i # 1 => i - 1 \in Positive /\ i = (i - 1) + 1
      BY DEF Positive
    <2> QED BY <2>1 DEF Line, Positive
  <1> HIDE DEF f
  <1>4. ASSUME NEW x \in Holders
        PROVE  \/ x = L[1] /\ f[x] = k
               \/ \E i \in Positive : x = L[i + 1] /\ f[x] = L[i]
               \/ (\A i \in Positive : x # L[i]) /\ f[x] = x
    BY <1>2, <1>3
  <1>5. ASSUME NEW h \in Claimants
        PROVE  \/ \E a \in Claimants : /\ new[h] = old[a]
                                       /\ \A x \in Holders : f[x] = h <=> x = a
               \/ /\ new[h] = 0
                  /\ \A x \in Holders : f[x] # h
               \/ \E a, b \in Claimants : /\ a # b
                                          /\ new[h] = old[a] + old[b]
                                          /\ \A x \in Holders : f[x] = h <=> x = a \/ x = b
    <2>1. ASSUME NEW i \in Positive, h = L[i]
          PROVE  \E a \in Claimants : /\ new[h] = old[a]
                                     /\ \A x \in Holders : f[x] = h <=> x = a
      <3>1. L[i + 1] \in Claimants /\ new[h] = old[L[i + 1]]
        BY <1>3, <2>1
      <3>2. ASSUME NEW x \in Holders, f[x] = h PROVE x = L[i + 1]
        <4>1. x # L[1]
          BY <1>2, <2>1, <3>2
        <4>2. \E j \in Positive : x = L[j + 1] /\ f[x] = L[j]
          BY <1>4, <2>1, <3>2, <4>1
        <4> QED BY <1>3, <2>1, <3>2, <4>2
      <3>3. f[L[i + 1]] = h
        BY <1>2, <2>1
      <3> QED BY <3>1, <3>2, <3>3
    <2>2. CASE h = k
      <3>1. k \in Claimants /\ L[1] \in Claimants /\ k # L[1]
        BY <1>3, <2>2
      <3>2. new[h] = old[L[1]] + old[k]
        BY <1>1, <2>2
      <3>3. f[k] = k
        BY <1>2
      <3>4. ASSUME NEW x \in Holders, f[x] = h PROVE x = L[1] \/ x = k
        BY <1>4, <2>2, <3>4
      <3> QED BY <1>2, <2>2, <3>1, <3>2, <3>3, <3>4
    <2>3. CASE h # k /\ \A i \in Positive : h # L[i]
      <3>1. new[h] = old[h]
        BY <2>3
      <3>2. f[h] = h
        BY <1>1, <1>2, <2>3
      <3>3. ASSUME NEW x \in Holders, f[x] = h PROVE x = h
        BY <1>4, <2>3, <3>3
      <3> QED BY <3>1, <3>2, <3>3
    <2> QED BY <2>1, <2>2, <2>3
  <1> QED BY <1>2, <1>5 DEF Carries, f

\* What one claimant loses goes to nobody; who is at a digest's hand stays.
Drops(own, new, g) ==
    \A r \in Records :
        /\ new[r] = Nobody <=> own[r] \in {Nobody, g}
        /\ \A x \in Sums : new[r] = Hand(x) <=> own[r] = Hand(x)

LEMMA MergeDrops ==
    ASSUME NEW own \in [Records -> Holders], NEW g \in Claimants, NEW k \in Holders,
           \A x \in Sums : g # Hand(x) /\ k # Hand(x)
    PROVE  /\ k # Nobody => Drops(own, Handed(own, Merge(g, k)), Nobody)
           /\ k = Nobody => Drops(own, Handed(own, Merge(g, k)), g)
  <1>1. \A r \in Records : Handed(own, Merge(g, k))[r] = IF own[r] = g THEN k ELSE own[r]
    BY DEF Handed, Merge
  <1>2. g # Nobody
    BY IsHolder
  <1> QED BY <1>1, <1>2 DEF Drops

LEMMA ShiftDrops ==
    ASSUME NEW own \in [Records -> Holders], NEW L \in Line, NEW k \in Holders,
           \A x \in Sums : k # Hand(x) /\ \A i \in Positive : L[i] # Hand(x)
    PROVE  /\ k # Nobody => Drops(own, Handed(own, Shift(L, k)), Nobody)
           /\ k = Nobody => Drops(own, Handed(own, Shift(L, k)), L[1])
  <1> DEFINE f == Shift(L, k)
  <1>1. \A i \in Positive : L[i] # Nobody
    BY IsHolder DEF Line
  <1>2. /\ f[L[1]] = k
        /\ \A i \in Positive : f[L[i + 1]] = L[i]
        /\ \A h \in Holders : (\A i \in Positive : h # L[i]) => f[h] = h
    BY ShiftOf
  <1>3. \A i \in Positive : i # 1 => \E j \in Positive : i = j + 1
    <2>1. \A i \in Positive : i # 1 => i - 1 \in Positive /\ i = (i - 1) + 1
      BY DEF Positive
    <2> QED BY <2>1
  <1>4. \A r \in Records : Handed(own, f)[r] = f[own[r]]
    BY DEF Handed
  <1> HIDE DEF f
  <1>5. ASSUME NEW h \in Holders
        PROVE  \/ h = L[1] /\ f[h] = k
               \/ \E i \in Positive : h = L[i + 1] /\ i + 1 \in Positive /\ f[h] = L[i]
               \/ (\A i \in Positive : h # L[i]) /\ f[h] = h
    <2>1. \A i \in Positive : i + 1 \in Positive
      BY DEF Positive
    <2> QED BY <1>2, <1>3, <2>1
  <1>6. 1 \in Positive
    BY DEF Positive
  <1>7. ASSUME NEW r \in Records
        PROVE  /\ k # Nobody => (f[own[r]] = Nobody <=> own[r] = Nobody)
               /\ k = Nobody => (f[own[r]] = Nobody <=> own[r] \in {Nobody, L[1]})
               /\ \A x \in Sums : f[own[r]] = Hand(x) <=> own[r] = Hand(x)
    <2>1. own[r] \in Holders
      OBVIOUS
    <2>2. \A x \in Sums : Nobody # Hand(x)
      BY IsHolder
    <2>3. CASE own[r] = L[1] /\ f[own[r]] = k
      BY <1>1, <1>6, <2>2, <2>3
    <2>4. ASSUME NEW i \in Positive, own[r] = L[i + 1], i + 1 \in Positive, f[own[r]] = L[i]
          PROVE  /\ f[own[r]] # Nobody /\ own[r] \notin {Nobody, L[1]}
                 /\ \A x \in Sums : f[own[r]] # Hand(x) /\ own[r] # Hand(x)
      <3>1. i + 1 # 1
        BY DEF Positive
      <3>2. L[i + 1] # L[1]
        BY <1>6, <2>4, <3>1 DEF Line
      <3> QED BY <1>1, <2>4, <3>2
    <2>5. CASE (\A i \in Positive : own[r] # L[i]) /\ f[own[r]] = own[r]
      BY <1>6, <2>5
    <2> QED BY <1>5, <2>1, <2>3, <2>4, <2>5
  <1> QED BY <1>4, <1>7 DEF Drops, f

-----------------------------------------------------------------------------
(* What the queues claim after a message more or a message less.           *)

LEMMA ClaimAppended ==
    ASSUME NEW c, NEW q \in Seq(Envelopes), NEW e \in Envelopes
    PROVE  /\ Len(q) + 1 \in Positive
           /\ QueueClaim(c, q, Len(q) + 1) = 0
           /\ QueueClaim(c, Append(q, e), Len(q) + 1) = EnvelopeClaim(c, e)
           /\ \A i \in Positive : i # Len(q) + 1 =>
                  QueueClaim(c, Append(q, e), i) = QueueClaim(c, q, i)
  <1>1. /\ DOMAIN Append(q, e) = 1 .. Len(q) + 1
        /\ DOMAIN q = 1 .. Len(q)
        /\ Append(q, e)[Len(q) + 1] = e
        /\ \A i \in 1 .. Len(q) : Append(q, e)[i] = q[i]
        /\ Len(q) \in Nat
    OBVIOUS
  <1>2. /\ Len(q) + 1 \in Positive
        /\ Len(q) + 1 \notin DOMAIN q
        /\ Len(q) + 1 \in DOMAIN Append(q, e)
        /\ \A i \in Positive : i # Len(q) + 1 =>
               (i \in DOMAIN Append(q, e) <=> i \in DOMAIN q)
    BY <1>1 DEF Positive
  <1> QED BY <1>1, <1>2 DEF QueueClaim

LEMMA ReportAppended ==
    ASSUME NEW c, NEW q \in Seq(TryingReadies), NEW msg \in TryingReadies
    PROVE  /\ Len(q) + 1 \in Positive
           /\ FlightClaim(c, q, Len(q) + 1) = 0
           /\ FlightClaim(c, Append(q, msg), Len(q) + 1) = ReportClaim(c, msg)
           /\ \A i \in Positive : i # Len(q) + 1 =>
                  FlightClaim(c, Append(q, msg), i) = FlightClaim(c, q, i)
  <1>1. /\ DOMAIN Append(q, msg) = 1 .. Len(q) + 1
        /\ DOMAIN q = 1 .. Len(q)
        /\ Append(q, msg)[Len(q) + 1] = msg
        /\ \A i \in 1 .. Len(q) : Append(q, msg)[i] = q[i]
        /\ Len(q) \in Nat
    OBVIOUS
  <1>2. /\ Len(q) + 1 \in Positive
        /\ Len(q) + 1 \notin DOMAIN q
        /\ Len(q) + 1 \in DOMAIN Append(q, msg)
        /\ \A i \in Positive : i # Len(q) + 1 =>
               (i \in DOMAIN Append(q, msg) <=> i \in DOMAIN q)
    BY <1>1 DEF Positive
  <1> QED BY <1>1, <1>2 DEF FlightClaim

LEMMA ClaimTail ==
    ASSUME NEW c, NEW S, NEW q \in Seq(S), q # <<>>
    PROVE  /\ \A i \in Positive : QueueClaim(c, Tail(q), i) = QueueClaim(c, q, i + 1)
           /\ QueueClaim(c, q, 1) = EnvelopeClaim(c, Head(q))
           /\ \A i \in Positive : FlightClaim(c, Tail(q), i) = FlightClaim(c, q, i + 1)
           /\ FlightClaim(c, q, 1) = ReportClaim(c, Head(q))
  <1>1. /\ DOMAIN q = 1 .. Len(q)
        /\ Len(q) \in Nat \ {0}
        /\ DOMAIN Tail(q) = 1 .. Len(q) - 1
        /\ \A i \in 1 .. Len(q) - 1 : Tail(q)[i] = q[i + 1]
        /\ Head(q) = q[1]
    BY HeadTailProperties, LenProperties, EmptySeq
  <1>2. 1 \in DOMAIN q
    BY <1>1
  <1>3. ASSUME NEW i \in Positive
        PROVE  /\ i \in DOMAIN Tail(q) <=> i + 1 \in DOMAIN q
               /\ i \in DOMAIN Tail(q) => Tail(q)[i] = q[i + 1]
    BY <1>1 DEF Positive
  <1> QED BY <1>1, <1>2, <1>3 DEF QueueClaim, FlightClaim

-----------------------------------------------------------------------------
(* What each step does to the claims.                                      *)

HandsKept(c) == \A s \in Sums : Claims(c)'[Hand(s)] = Claims(c)[Hand(s)]
AnswersKept(c) == \A s \in Sums : Claims(c)'[Answer(s)] = Claims(c)[Answer(s)]
CountsKept(c) == \A s \in Sums : Claims(c)'[Counted(s)] = Claims(c)[Counted(s)]
QueueClaimsKept(c) ==
    \A s \in Sums, i \in Positive : Claims(c)'[InQueue(s, i)] = Claims(c)[InQueue(s, i)]
FlightsKept(c) ==
    \A s, d \in Sums, i \in Positive :
        Claims(c)'[InFlight(s, d, i)] = Claims(c)[InFlight(s, d, i)]

LEMMA SameClaims ==
    ASSUME NEW c
    PROVE  /\ data' = data => HandsKept(c)
           /\ recv' = recv => AnswersKept(c)
           /\ transactions' = transactions => CountsKept(c)
           /\ senderQueue' = senderQueue => QueueClaimsKept(c)
           /\ directs' = directs => FlightsKept(c)
  BY ClaimOf, ClaimOfNext
  DEF HandsKept, AnswersKept, CountsKept, QueueClaimsKept, FlightsKept

LEMMA BackedKept ==
    ASSUME NEW c, NEW own, NEW exact, Backs(own, Claims(c), exact),
           HandsKept(c), AnswersKept(c), CountsKept(c), QueueClaimsKept(c), FlightsKept(c)
    PROVE  Backs(own, Claims(c)', exact)
  <1>1. ASSUME NEW h \in Claimants PROVE Claims(c)'[h] = Claims(c)[h]
    BY HolderKinds
    DEF HandsKept, AnswersKept, CountsKept, QueueClaimsKept, FlightsKept
  <1> QED BY <1>1 DEF Backs

\* The thread of the data is in nobody else's line.
LEMMA HandsApart ==
    /\ \A x, s \in Sums : Hand(x) \notin {Nobody, Answer(s), Counted(s)}
    /\ \A x, s \in Sums, i \in Positive : Hand(x) # InQueue(s, i)
    /\ \A x, s, d \in Sums, i \in Positive : Hand(x) # InFlight(s, d, i)
  BY HoldersDiffer

\* The steps that change no claim.
LEMMA QuietClaims ==
    ASSUME TypeOK, NEW c \in Clients, NEW own, NEW exact, Backs(own, Claims(c), exact),
           NEW s \in Sums,
           \/ \E r \in Records : PublishRecord(r, s)
           \/ \E t \in Clients : PublishEof(t, s) \/ BeginTransaction(s, t)
           \/ FinishEof(s)
           \/ \E src \in Sums : ReceiveCommit(s, src) \/ ReceiveOk(s, src)
           \/ CheckCompletion(s)
           \/ DeleteClientDigest(s)
           \/ DeleteTransactionInfo(s)
           \/ Listen(s)
    PROVE  Backs(own, Claims(c)', exact)
  <1>1. directs' = directs
    BY DEF PublishRecord, PublishEof, BeginTransaction, FinishEof, ReceiveCommit,
           ReceiveOk, CheckCompletion, DeleteClientDigest, DeleteTransactionInfo, Listen,
           controlVars
  <1>2. HandsKept(c)
    <2>1. CASE data' = data
      BY <2>1, SameClaims
    <2>2. CASE \E t \in Clients : BeginTransaction(s, t)
      <3>1. \A x \in Sums : HandClaim(c, data'[x]) = HandClaim(c, data[x])
        BY <2>2 DEF TypeOK, BeginTransaction, HandClaim
      <3> QED BY <3>1, ClaimOf, ClaimOfNext DEF HandsKept
    <2>3. CASE FinishEof(s)
      <3>1. \A x \in Sums : HandClaim(c, data'[x]) = HandClaim(c, data[x])
        BY <2>3 DEF TypeOK, FinishEof, HandClaim, DataIdle
      <3> QED BY <3>1, ClaimOf, ClaimOfNext DEF HandsKept
    <2> QED BY <2>1, <2>2, <2>3
        DEF PublishRecord, PublishEof, ReceiveCommit, ReceiveOk, CheckCompletion,
            DeleteClientDigest, DeleteTransactionInfo, Listen, dataPlane, senderFrame
  <1>3. AnswersKept(c)
    <2>1. CASE recv' = recv
      BY <2>1, SameClaims
    <2>2. CASE recv' # recv
      <3>1. /\ recv[s].at # "answer" /\ recv'[s].at # "answer"
            /\ \A x \in Sums : x # s => recv'[x] = recv[x]
        <4>1. CASE \E src \in Sums : ReceiveCommit(s, src)
          <5>1. recv \in [Sums -> RecvStates]
            BY DEF TypeOK
          <5>2. PICK turn : turn.at = "snapshot" /\ recv' = [recv EXCEPT ![s] = turn]
            BY <4>1 DEF ReceiveCommit
          <5>3. recv[s].at = "idle"
            BY <4>1 DEF ReceiveCommit
          <5> QED BY <5>1, <5>2, <5>3
        <4>2. CASE \E src \in Sums : ReceiveOk(s, src)
          <5>1. \A t : [RecvIdle EXCEPT !.at = "delete_digest", !.txn = t].at = "delete_digest"
            BY DEF RecvIdle
          <5>2. PICK turn : turn.at = "delete_digest" /\ recv' = [recv EXCEPT ![s] = turn]
            BY <4>2, <5>1 DEF ReceiveOk
          <5>3. recv[s].at = "idle"
            BY <4>2 DEF ReceiveOk
          <5> QED BY <5>2, <5>3 DEF TypeOK
        <4>3. CASE CheckCompletion(s) \/ DeleteTransactionInfo(s)
          BY <4>3 DEF TypeOK, CheckCompletion, DeleteTransactionInfo, RecvIdle
        <4>4. CASE DeleteClientDigest(s)
          <5>1. recv[s].at = "delete_digest"
                /\ recv' = [recv EXCEPT ![s] = [@ EXCEPT !.at = "delete_transaction"]]
            BY <4>4 DEF DeleteClientDigest
          <5>2. [recv[s] EXCEPT !.at = "delete_transaction"].at = "delete_transaction"
            BY <5>1 DEF TypeOK, RecvStates, RecvIdle
          <5> QED BY <5>1, <5>2 DEF TypeOK
        <4> QED BY <2>2, <4>1, <4>2, <4>3, <4>4
            DEF PublishRecord, PublishEof, BeginTransaction, FinishEof, Listen, senderFrame
      <3>2. \A x \in Sums : AnswerClaim(c, recv'[x]) = AnswerClaim(c, recv[x])
        BY <3>1 DEF AnswerClaim
      <3> QED BY <3>2, ClaimOf, ClaimOfNext DEF AnswersKept
    <2> QED BY <2>1, <2>2
  <1>4. CountsKept(c)
    <2>1. CASE transactions' = transactions
      BY <2>1, SameClaims
    <2>2. ASSUME NEW t \in Clients, BeginTransaction(s, t) PROVE CountsKept(c)
      <3>1. \A x \in Sums : transactions'[x][c].current = transactions[x][c].current
        BY <2>2 DEF TypeOK, BeginTransaction
      <3> QED BY <3>1, ClaimOf, ClaimOfNext DEF CountsKept
    <2> QED BY <2>1, <2>2
        DEF PublishRecord, PublishEof, FinishEof, ReceiveCommit, ReceiveOk, CheckCompletion,
            DeleteClientDigest, DeleteTransactionInfo, Listen, senderFrame, controlVars
  <1>5. QueueClaimsKept(c)
    <2>1. CASE senderQueue' = senderQueue
      BY <2>1, SameClaims
    <2>2. ASSUME NEW e \in Envelopes, e.mode = "broadcast",
                 senderQueue' = [senderQueue EXCEPT ![s] = Append(@, e)]
          PROVE  QueueClaimsKept(c)
      <3>1. senderQueue \in [Sums -> Seq(Envelopes)]
        BY DEF TypeOK
      <3>2. EnvelopeClaim(c, e) = 0
        BY <2>2 DEF EnvelopeClaim
      <3>3. ASSUME NEW x \in Sums, NEW i \in Positive
            PROVE  QueueClaim(c, senderQueue'[x], i) = QueueClaim(c, senderQueue[x], i)
        <4>1. CASE x = s
          <5>1. senderQueue'[x] = Append(senderQueue[x], e) /\ senderQueue[x] \in Seq(Envelopes)
            BY <2>2, <3>1, <4>1
          <5>2. CASE i = Len(senderQueue[x]) + 1
            <6>1. QueueClaim(c, Append(senderQueue[x], e), Len(senderQueue[x]) + 1) = 0
              BY <3>2, <5>1, ClaimAppended
            <6>2. QueueClaim(c, senderQueue[x], Len(senderQueue[x]) + 1) = 0
              BY <5>1, ClaimAppended
            <6> QED BY <5>1, <5>2, <6>1, <6>2
          <5>3. CASE i # Len(senderQueue[x]) + 1
            <6>1. QueueClaim(c, Append(senderQueue[x], e), i) = QueueClaim(c, senderQueue[x], i)
              BY <5>1, <5>3, ClaimAppended
            <6> QED BY <5>1, <6>1
          <5> QED BY <5>2, <5>3
        <4>2. CASE x # s
          BY <2>2, <3>1, <4>2
        <4> QED BY <4>1, <4>2
      <3> QED BY <3>3, ClaimOf, ClaimOfNext DEF QueueClaimsKept
    <2>3. ASSUME NEW t \in Clients, BeginTransaction(s, t) PROVE QueueClaimsKept(c)
      <3>1. Broadcast(Commit(t, s)) \in Envelopes /\ Broadcast(Commit(t, s)).mode = "broadcast"
        BY MessageTypes DEF Broadcast
      <3> QED BY <2>2, <2>3, <3>1 DEF BeginTransaction
    <2>4. ASSUME NEW t \in Clients, MaybeBroadcastOk(s, t) PROVE QueueClaimsKept(c)
      <3>1. Broadcast(Ok(t)) \in Envelopes /\ Broadcast(Ok(t)).mode = "broadcast"
        BY MessageTypes DEF Broadcast
      <3> QED BY <2>1, <2>2, <2>4, <3>1 DEF MaybeBroadcastOk
    <2>5. CASE FinishEof(s)
      <3>1. data[s].txn \in Clients /\ MaybeBroadcastOk(s, data[s].txn)
        BY <2>5 DEF TypeOK, FinishEof, DataStates, DataIdle
      <3>2. PICK t \in Clients : t = data[s].txn
        BY <3>1
      <3> QED BY <2>4, <3>1, <3>2
    <2>6. CASE CheckCompletion(s)
      <3>1. recv[s].txn \in Clients /\ MaybeBroadcastOk(s, recv[s].txn)
        BY <2>6, RecvFields DEF CheckCompletion
      <3>2. PICK t \in Clients : t = recv[s].txn
        BY <3>1
      <3> QED BY <2>4, <3>1, <3>2
    <2> QED BY <2>1, <2>3, <2>5, <2>6
        DEF PublishRecord, PublishEof, ReceiveCommit, ReceiveOk,
            DeleteClientDigest, DeleteTransactionInfo, Listen, controlVars
  <1> QED BY <1>1, <1>2, <1>3, <1>4, <1>5, SameClaims, BackedKept

\* A report or an answer leaves the thread that holds it for the queue.
LEMMA ClaimQueued ==
    ASSUME TypeOK, NEW c \in Clients, NEW exact \in BOOLEAN,
           NEW own, Backs(own, Claims(c), exact),
           NEW s \in Sums, NEW e \in Envelopes,
           senderQueue' = [senderQueue EXCEPT ![s] = Append(@, e)],
           NEW g \in {Hand(s), Answer(s)},
           EnvelopeClaim(c, e) = Claims(c)[g], Claims(c)'[g] = 0,
           g = Hand(s) \/ HandsKept(c), g = Answer(s) \/ AnswersKept(c),
           \A x \in Sums : x # s =>
               /\ Claims(c)'[Hand(x)] = Claims(c)[Hand(x)]
               /\ Claims(c)'[Answer(x)] = Claims(c)[Answer(x)],
           CountsKept(c), FlightsKept(c)
    PROVE  \E k \in Claimants : /\ \E i \in Positive : k = InQueue(s, i)
                               /\ Backs(Handed(own, Merge(g, k)), Claims(c)', exact)
  <1>1. senderQueue[s] \in Seq(Envelopes) /\ senderQueue'[s] = Append(senderQueue[s], e)
        /\ \A x \in Sums : x # s => senderQueue'[x] = senderQueue[x]
    BY DEF TypeOK
  <1>2. PICK n \in Positive : n = Len(senderQueue[s]) + 1
    BY <1>1, ClaimAppended
  <1>3. PICK k : k = InQueue(s, n)
    OBVIOUS
  <1>4. k \in Claimants /\ g \in Claimants /\ g # k /\ k \in Holders /\ k # Nobody
    BY <1>3, IsHolder, HoldersDiffer
  <1>5. Claims(c)[k] = 0 /\ Claims(c)'[k] = Claims(c)[g]
    BY <1>1, <1>2, <1>3, ClaimAppended, ClaimOf, ClaimOfNext
  <1>6. \A x \in Sums, i \in Positive : InQueue(x, i) # k =>
            Claims(c)'[InQueue(x, i)] = Claims(c)[InQueue(x, i)]
    <2> SUFFICES ASSUME NEW x \in Sums, NEW i \in Positive, InQueue(x, i) # k
                 PROVE  QueueClaim(c, senderQueue'[x], i) = QueueClaim(c, senderQueue[x], i)
      BY ClaimOf, ClaimOfNext
    <2>1. CASE x # s
      BY <1>1, <2>1
    <2>2. CASE x = s /\ i # n
      <3>1. i # Len(senderQueue[s]) + 1
        BY <1>2, <2>2
      <3>2. QueueClaim(c, Append(senderQueue[s], e), i) = QueueClaim(c, senderQueue[s], i)
        BY <1>1, <3>1, ClaimAppended
      <3> QED BY <1>1, <2>2, <3>2
    <2> QED BY <1>3, <2>1, <2>2
  <1>7. ASSUME NEW h \in Claimants \ {g, k} PROVE Claims(c)'[h] = Claims(c)[h]
    <2>1. CASE \E x \in Sums : h = Hand(x)
      BY <1>7, <2>1 DEF HandsKept
    <2>2. CASE \E x \in Sums : h = Answer(x)
      BY <1>7, <2>2 DEF AnswersKept
    <2>3. CASE \E x \in Sums : h = Counted(x)
      BY <2>3 DEF CountsKept
    <2>4. CASE \E x \in Sums, i \in Positive : h = InQueue(x, i)
      BY <1>6, <1>7, <2>4
    <2>5. CASE \E x, d \in Sums, i \in Positive : h = InFlight(x, d, i)
      BY <2>5 DEF FlightsKept
    <2> QED BY <2>1, <2>2, <2>3, <2>4, <2>5, HolderKinds
  <1>8. Claims(c) \in [Claimants -> Nat]
    <2>1. \A h \in Claimants : Claims(c)[h] \in Nat
      BY ClaimNat
    <2> QED BY <2>1 DEF Claims
  <1>9. Claims(c)'[k] = Claims(c)[g] + Claims(c)[k]
    BY <1>4, <1>5, <1>8
  <1>10. Carries(Claims(c), Claims(c)', Merge(g, k))
    BY <1>4, <1>7, <1>9, MergeCarries
  <1> QED BY <1>2, <1>3, <1>4, <1>8, <1>10, Carried

\* A claim that is given up.
LEMMA ClaimDropped ==
    ASSUME TypeOK, NEW c \in Clients, NEW exact \in BOOLEAN,
           NEW own, Backs(own, Claims(c), exact),
           NEW g \in Claimants, Claims(c)'[g] = 0,
           \A h \in Claimants : h # g => Claims(c)'[h] = Claims(c)[h]
    PROVE  Backs(Handed(own, Merge(g, Nobody)), Claims(c)', exact)
  <1>1. Claims(c) \in [Claimants -> Nat]
    <2>1. \A h \in Claimants : Claims(c)[h] \in Nat
      BY ClaimNat
    <2> QED BY <2>1 DEF Claims
  <1>2. Nobody \in Holders /\ g # Nobody
    BY IsHolder
  <1>3. \A h \in Claimants \ {g, Nobody} : Claims(c)'[h] = Claims(c)[h]
    OBVIOUS
  <1>4. Carries(Claims(c), Claims(c)', Merge(g, Nobody))
    BY <1>2, <1>3, MergeCarries
  <1> QED BY <1>1, <1>4, Carried

\* A record enters the digest: the data thread has to report it.
LEMMA ClaimDigested ==
    ASSUME TypeOK, NEW c \in Clients, NEW exact \in BOOLEAN,
           NEW own, Backs(own, Claims(c), exact),
           NEW s \in Sums, NEW r \in Records, DigestData(s, r)
    PROVE  /\ ClientOf[r] # c => Backs(own, Claims(c)', exact)
           /\ ClientOf[r] = c /\ (exact => own[r] = Nobody) =>
                  Backs([own EXCEPT ![r] = Hand(s)], Claims(c)', exact)
  <1>1. UNCHANGED << recv, transactions, senderQueue, directs >>
    BY DEF DigestData, controlVars
  <1>2. /\ data[s].at = "idle"
        /\ data'[s].at = "look_master" /\ data'[s].txn = ClientOf[r]
        /\ \A x \in Sums : x # s => data'[x] = data[x]
    BY DEF TypeOK, DigestData
  <1>3. /\ \A x \in Sums : x # s => Claims(c)'[Hand(x)] = Claims(c)[Hand(x)]
        /\ Claims(c)[Hand(s)] = 0
        /\ Claims(c)'[Hand(s)] = IF ClientOf[r] = c THEN 1 ELSE 0
    BY <1>2, ClaimOf, ClaimOfNext DEF HandClaim
  <1>4. ASSUME ClientOf[r] # c PROVE Backs(own, Claims(c)', exact)
    <2>1. HandsKept(c)
      BY <1>3, <1>4 DEF HandsKept
    <2> QED BY <1>1, <2>1, SameClaims, BackedKept
  <1>5. ASSUME ClientOf[r] = c, exact => own[r] = Nobody
        PROVE  Backs([own EXCEPT ![r] = Hand(s)], Claims(c)', exact)
    <2> DEFINE new == [own EXCEPT ![r] = Hand(s)]
    <2>1. own \in [Records -> Holders] /\ Hand(s) \in Holders
      BY IsHolder DEF Backs
    <2>2. new \in [Records -> Holders] /\ new[r] = Hand(s)
          /\ \A q \in Records : q # r => new[q] = own[q]
      BY <2>1
    <2> HIDE DEF new
    <2>3. ASSUME NEW h \in Claimants, h # Hand(s)
          PROVE  Fits(exact, Claims(c)'[h], Of(new, h))
      <3>1. Claims(c)'[h] = Claims(c)[h]
        BY <1>1, <1>3, <2>3, SameClaims, HolderKinds
        DEF AnswersKept, CountsKept, QueueClaimsKept, FlightsKept
      <3>2. Of(new, h) = Of(own, h) \ {r}
        BY <2>2, <2>3 DEF Of
      <3>3. Fits(exact, Claims(c)[h], Of(own, h))
        BY DEF Backs
      <3>4. CASE r \notin Of(own, h)
        <4>1. Of(new, h) = Of(own, h)
          BY <3>2, <3>4
        <4> QED BY <3>1, <3>3, <4>1
      <3>5. CASE r \in Of(own, h)
        <4>1. ~exact
          BY <1>5, <3>5, IsHolder DEF Of
        <4>2. IsFiniteSet(Of(own, h)) /\ Cardinality(Of(own, h)) \in Nat
          BY OfFinite
        <4>3. Cardinality(Of(own, h) \ {r}) = Cardinality(Of(own, h)) - 1
          BY <3>5, <4>2, FS_RemoveElement
        <4>4. Claims(c)[h] \in Nat
          BY ClaimNat
        <4>5. Cardinality(Of(new, h)) <= Claims(c)[h]
          BY <3>2, <3>3, <4>2, <4>3, <4>4 DEF Fits
        <4> QED BY <3>1, <4>1, <4>5 DEF Fits
      <3> QED BY <3>4, <3>5
    <2>4. Fits(exact, Claims(c)'[Hand(s)], Of(new, Hand(s)))
      <3>1. \A q \in Records : own[q] # Hand(s)
        BY <1>3, Unclaimed, IsHolder
      <3>2. Of(new, Hand(s)) = {r}
        BY <2>2, <3>1 DEF Of
      <3>3. Cardinality({r}) = 1
        BY FS_Singleton
      <3>4. Cardinality(Of(new, Hand(s))) = 1 /\ Claims(c)'[Hand(s)] = 1
        BY <1>3, <1>5, <3>2, <3>3
      <3> QED BY <3>4 DEF Fits
    <2>5. \A h \in Claimants : Fits(exact, Claims(c)'[h], Of(new, h))
      BY <2>3, <2>4
    <2> QED BY <2>2, <2>5 DEF Backs, new
  <1> QED BY <1>4, <1>5

\* The snapshot: the answer counts the whole digest of the client.
LEMMA ClaimSnapshot ==
    ASSUME TypeOK, NEW c \in Clients, NEW exact \in BOOLEAN,
           NEW own, Backs(own, Claims(c), exact),
           NEW s \in Sums, SnapshotDigest(s)
    PROVE  /\ recv[s].txn # c => Backs(own, Claims(c)', exact)
           /\ recv[s].txn = c /\ (exact => \A r \in DigestOf(s, c) : own[r] = Nobody) =>
                  Backs([r \in Records |-> IF r \in DigestOf(s, c) THEN Answer(s) ELSE own[r]],
                        Claims(c)', exact)
  <1>1. UNCHANGED << data, transactions, senderQueue, directs >>
    BY DEF SnapshotDigest, dataPlane
  <1>2. PICK D : D = DigestOf(s, c)
    OBVIOUS
  <1>3. PICK n \in Nat : n = Cardinality(DigestOf(s, recv[s].txn))
    BY DigestCount DEF DigestOf, RecordsOf
  <1>4. D \in SUBSET Records /\ IsFiniteSet(D) /\ Cardinality(D) \in Nat
    <2>1. D \in SUBSET Records
      BY <1>2 DEF DigestOf, RecordsOf
    <2>2. IsFiniteSet(D)
      BY <2>1, FS_Subset, RecordsAssumption
    <2>3. Cardinality(D) \in Nat
      BY <2>1, DigestCount
    <2> QED BY <2>1, <2>2, <2>3
  <1>5. /\ recv[s].at = "snapshot"
        /\ recv'[s] = [recv[s] EXCEPT !.at = "answer", !.processed = n]
        /\ \A x \in Sums : x # s => recv'[x] = recv[x]
    BY <1>3 DEF TypeOK, SnapshotDigest
  <1>6. recv'[s].at = "answer" /\ recv'[s].txn = recv[s].txn /\ recv'[s].processed = n
    <2>1. recv[s] \in RecvStates /\ recv[s].at = "snapshot"
      BY <1>5 DEF TypeOK
    <2>2. recv[s] \in [at : {"snapshot", "answer"}, txn : Clients, master : Sums,
                       processed : Nat]
      BY <2>1 DEF RecvStates, RecvIdle
    <2> QED BY <1>5, <2>2
  <1>7. /\ \A x \in Sums : x # s => Claims(c)'[Answer(x)] = Claims(c)[Answer(x)]
        /\ Claims(c)[Answer(s)] = 0
        /\ Claims(c)'[Answer(s)] = IF recv[s].txn = c THEN n ELSE 0
    <2>1. \A x \in Sums : x # s => AnswerClaim(c, recv'[x]) = AnswerClaim(c, recv[x])
      BY <1>5
    <2>2. AnswerClaim(c, recv[s]) = 0
      BY <1>5 DEF AnswerClaim
    <2>3. AnswerClaim(c, recv'[s]) = IF recv[s].txn = c THEN n ELSE 0
      BY <1>6 DEF AnswerClaim
    <2> QED BY <2>1, <2>2, <2>3, ClaimOf, ClaimOfNext
  <1>8. ASSUME recv[s].txn # c PROVE Backs(own, Claims(c)', exact)
    <2>1. AnswersKept(c)
      BY <1>7, <1>8 DEF AnswersKept
    <2> QED BY <1>1, <2>1, SameClaims, BackedKept
  <1>9. ASSUME recv[s].txn = c, exact => \A r \in D : own[r] = Nobody
        PROVE  Backs([r \in Records |-> IF r \in D THEN Answer(s) ELSE own[r]],
                     Claims(c)', exact)
    <2> DEFINE new == [r \in Records |-> IF r \in D THEN Answer(s) ELSE own[r]]
    <2>1. own \in [Records -> Holders] /\ Answer(s) \in Holders
      BY IsHolder DEF Backs
    <2>2. new \in [Records -> Holders]
          /\ \A q \in Records : new[q] = IF q \in D THEN Answer(s) ELSE own[q]
      BY <2>1
    <2> HIDE DEF new
    <2>3. ASSUME NEW h \in Claimants, h # Answer(s)
          PROVE  Fits(exact, Claims(c)'[h], Of(new, h))
      <3>1. Claims(c)'[h] = Claims(c)[h]
        BY <1>1, <1>7, <2>3, SameClaims, HolderKinds
        DEF HandsKept, CountsKept, QueueClaimsKept, FlightsKept
      <3>2. Of(new, h) \subseteq Of(own, h) /\ (exact => Of(new, h) = Of(own, h))
        BY <1>9, <2>2, <2>3, IsHolder DEF Of
      <3>3. Fits(exact, Claims(c)[h], Of(own, h))
        BY DEF Backs
      <3>4. CASE exact
        BY <3>1, <3>2, <3>3, <3>4
      <3>5. CASE ~exact
        <4>1. IsFiniteSet(Of(own, h)) /\ Cardinality(Of(own, h)) \in Nat
              /\ Cardinality(Of(new, h)) \in Nat
          BY OfFinite
        <4>2. Cardinality(Of(new, h)) <= Cardinality(Of(own, h))
          BY <3>2, <4>1, FS_Subset
        <4>3. Claims(c)[h] \in Nat
          BY ClaimNat
        <4>4. Cardinality(Of(new, h)) <= Claims(c)[h]
          BY <3>3, <4>1, <4>2, <4>3 DEF Fits
        <4> QED BY <3>1, <3>5, <4>4 DEF Fits
      <3> QED BY <3>4, <3>5
    <2>4. Fits(exact, Claims(c)'[Answer(s)], Of(new, Answer(s)))
      <3>1. \A q \in Records : own[q] # Answer(s)
        BY <1>7, Unclaimed, IsHolder
      <3>2. Of(new, Answer(s)) = D
        BY <1>4, <2>2, <3>1 DEF Of
      <3>3. Cardinality(Of(new, Answer(s))) = n /\ Claims(c)'[Answer(s)] = n
        BY <1>2, <1>3, <1>7, <1>9, <3>2
      <3> QED BY <3>3 DEF Fits
    <2>5. \A h \in Claimants : Fits(exact, Claims(c)'[h], Of(new, h))
      BY <2>3, <2>4
    <2> QED BY <2>2, <2>5 DEF Backs, new
  <1> QED BY <1>2, <1>8, <1>9

\* The data thread reports its record, or finds no master to report to.
LEMMA ClaimReported ==
    ASSUME TypeOK, NEW c \in Clients, NEW exact \in BOOLEAN,
           NEW own, Backs(own, Claims(c), exact),
           NEW s \in Sums, ReportProgress(s)
    PROVE  \E k \in Holders :
               /\ Backs(Handed(own, Merge(Hand(s), k)), Claims(c)', exact)
               /\ IF masterOf[s][data[s].txn] = NoSum THEN k = Nobody
                  ELSE \E i \in Positive : k = InQueue(s, i)
  <1>1. UNCHANGED << recv, transactions, directs >>
    BY DEF ReportProgress
  <1>2. /\ data[s].at = "look_master" /\ data[s].txn \in Clients
        /\ data'[s].at = "idle"
        /\ \A x \in Sums : x # s => data'[x] = data[x]
    BY DEF TypeOK, ReportProgress, DataStates, DataIdle
  <1>3. /\ \A x \in Sums : x # s => Claims(c)'[Hand(x)] = Claims(c)[Hand(x)]
        /\ Claims(c)[Hand(s)] = IF data[s].txn = c THEN 1 ELSE 0
        /\ Claims(c)'[Hand(s)] = 0
    BY <1>2, ClaimOf, ClaimOfNext DEF HandClaim
  <1>4. AnswersKept(c) /\ CountsKept(c) /\ FlightsKept(c)
    BY <1>1, SameClaims
  <1>5. CASE masterOf[s][data[s].txn] = NoSum
    <2>1. senderQueue' = senderQueue
      BY <1>5 DEF ReportProgress
    <2>2. QueueClaimsKept(c)
      BY <2>1, SameClaims
    <2>3. ASSUME NEW h \in Claimants, h # Hand(s) PROVE Claims(c)'[h] = Claims(c)[h]
      BY <1>3, <1>4, <2>2, <2>3, HolderKinds
      DEF AnswersKept, CountsKept, QueueClaimsKept, FlightsKept
    <2>4. Backs(Handed(own, Merge(Hand(s), Nobody)), Claims(c)', exact)
      BY <1>3, <2>3, ClaimDropped, IsHolder
    <2> QED BY <1>5, <2>4, IsHolder
  <1>6. CASE masterOf[s][data[s].txn] # NoSum
    <2>1. PICK e : e = Direct(masterOf[s][data[s].txn], TryingReady(data[s].txn, 1))
      OBVIOUS
    <2>2. e \in Envelopes
      BY <1>2, <1>6, <2>1, MessageTypes DEF TypeOK
    <2>3. senderQueue' = [senderQueue EXCEPT ![s] = Append(@, e)]
      BY <1>6, <2>1 DEF ReportProgress
    <2>4. EnvelopeClaim(c, e) = IF data[s].txn = c THEN 1 ELSE 0
      BY <2>1 DEF EnvelopeClaim, Direct, TryingReady
    <2>5. \A x \in Sums : x # s =>
              /\ Claims(c)'[Hand(x)] = Claims(c)[Hand(x)]
              /\ Claims(c)'[Answer(x)] = Claims(c)[Answer(x)]
      BY <1>3, <1>4 DEF AnswersKept
    <2>6. EnvelopeClaim(c, e) = Claims(c)[Hand(s)]
      BY <1>3, <2>4
    <2>7. PICK k \in Claimants : /\ \E i \in Positive : k = InQueue(s, i)
                                 /\ Backs(Handed(own, Merge(Hand(s), k)), Claims(c)', exact)
      BY <1>3, <1>4, <2>2, <2>3, <2>5, <2>6, ClaimQueued
    <2> QED BY <1>6, <2>7, IsHolder
  <1> QED BY <1>5, <1>6

\* The answer to a Commit goes to the sender's queue.
LEMMA ClaimAnswered ==
    ASSUME TypeOK, NEW c \in Clients, NEW exact \in BOOLEAN,
           NEW own, Backs(own, Claims(c), exact),
           NEW s \in Sums, AnswerCommit(s)
    PROVE  \E new : Backs(new, Claims(c)', exact) /\ Drops(own, new, Nobody)
  <1>1. UNCHANGED << data, transactions, directs >>
    BY DEF AnswerCommit, dataPlane
  <1>2. /\ recv[s].at = "answer" /\ recv[s].txn \in Clients
        /\ recv[s].master \in Sums /\ recv[s].processed \in Nat
        /\ recv'[s].at = "idle"
        /\ \A x \in Sums : x # s => recv'[x] = recv[x]
    <2>1. recv[s].at = "answer"
      BY DEF AnswerCommit
    <2>2. /\ recv'[s].at = "idle"
          /\ \A x \in Sums : x # s => recv'[x] = recv[x]
      BY DEF TypeOK, AnswerCommit, RecvIdle
    <2> QED BY <2>1, <2>2, RecvFields
  <1>3. /\ \A x \in Sums : x # s => Claims(c)'[Answer(x)] = Claims(c)[Answer(x)]
        /\ Claims(c)[Answer(s)] = IF recv[s].txn = c THEN recv[s].processed ELSE 0
        /\ Claims(c)'[Answer(s)] = 0
    BY <1>2, ClaimOf, ClaimOfNext DEF AnswerClaim
  <1>4. HandsKept(c) /\ CountsKept(c) /\ FlightsKept(c)
    BY <1>1, SameClaims
  <1>5. PICK e : e = Direct(recv[s].master, TryingReady(recv[s].txn, recv[s].processed))
    OBVIOUS
  <1>6. e \in Envelopes
    BY <1>2, <1>5, MessageTypes
  <1>7. senderQueue' = [senderQueue EXCEPT ![s] = Append(@, e)]
    BY <1>5 DEF AnswerCommit
  <1>8. EnvelopeClaim(c, e) = IF recv[s].txn = c THEN recv[s].processed ELSE 0
    BY <1>5 DEF EnvelopeClaim, Direct, TryingReady
  <1>9. /\ \A x \in Sums : x # s =>
               /\ Claims(c)'[Hand(x)] = Claims(c)[Hand(x)]
               /\ Claims(c)'[Answer(x)] = Claims(c)[Answer(x)]
        /\ EnvelopeClaim(c, e) = Claims(c)[Answer(s)]
    BY <1>3, <1>4, <1>8 DEF HandsKept
  <1>10. PICK k \in Claimants : /\ \E i \in Positive : k = InQueue(s, i)
                                /\ Backs(Handed(own, Merge(Answer(s), k)), Claims(c)', exact)
    BY <1>3, <1>4, <1>6, <1>7, <1>9, ClaimQueued
  <1>11. k \in Holders /\ k # Nobody /\ Answer(s) \in Claimants
         /\ \A x \in Sums : Answer(s) # Hand(x) /\ k # Hand(x)
    BY <1>10, IsHolder, HandsApart
  <1>12. own \in [Records -> Holders]
    BY DEF Backs
  <1>13. Drops(own, Handed(own, Merge(Answer(s), k)), Nobody)
    BY <1>11, <1>12, MergeDrops
  <1> QED BY <1>10, <1>13

\* Forgetting a transaction forgets its count.
LEMMA ClaimForgotten ==
    ASSUME TypeOK, NEW c \in Clients, NEW exact \in BOOLEAN,
           NEW own, Backs(own, Claims(c), exact),
           NEW s \in Sums, DeleteTransaction(s)
    PROVE  \E new : /\ Backs(new, Claims(c)', exact)
                    /\ IF recv[s].txn = c THEN Drops(own, new, Counted(s)) ELSE new = own
  <1>1. UNCHANGED << data, senderQueue, directs >>
    BY DEF DeleteTransaction, dataPlane
  <1>2. HandsKept(c) /\ QueueClaimsKept(c) /\ FlightsKept(c)
    BY <1>1, SameClaims
  <1>3. AnswersKept(c)
    <2>1. recv[s].at = "delete_transaction" /\ recv[s] \in RecvStates
          /\ recv'[s] = [recv[s] EXCEPT !.at = "delete_master"]
          /\ \A x \in Sums : x # s => recv'[x] = recv[x]
      BY DEF TypeOK, DeleteTransaction
    <2>2. recv'[s].at = "delete_master"
      BY <2>1, RecvKept
    <2>3. \A x \in Sums : AnswerClaim(c, recv'[x]) = AnswerClaim(c, recv[x])
      BY <2>1, <2>2 DEF AnswerClaim
    <2> QED BY <2>3, ClaimOf, ClaimOfNext DEF AnswersKept
  <1>4. CASE recv[s].txn # c
    <2>1. \A x \in Sums : transactions'[x][c].current = transactions[x][c].current
      BY <1>4 DEF TypeOK, DeleteTransaction
    <2>2. CountsKept(c)
      BY <2>1, ClaimOf, ClaimOfNext DEF CountsKept
    <2> QED BY <1>2, <1>3, <1>4, <2>2, BackedKept
  <1>5. CASE recv[s].txn = c
    <2>1. /\ transactions'[s][c].current = 0
          /\ \A x \in Sums : x # s => transactions'[x] = transactions[x]
      BY <1>5 DEF TypeOK, DeleteTransaction, NoStatus
    <2>2. /\ Claims(c)'[Counted(s)] = 0
          /\ \A x \in Sums : x # s => Claims(c)'[Counted(x)] = Claims(c)[Counted(x)]
      BY <2>1, ClaimOf, ClaimOfNext
    <2>3. ASSUME NEW h \in Claimants, h # Counted(s) PROVE Claims(c)'[h] = Claims(c)[h]
      BY <1>2, <1>3, <2>2, <2>3, HolderKinds
      DEF HandsKept, AnswersKept, QueueClaimsKept, FlightsKept
    <2>4. Counted(s) \in Claimants /\ Nobody \in Holders
          /\ \A x \in Sums : Counted(s) # Hand(x) /\ Nobody # Hand(x)
      BY IsHolder, HandsApart
    <2>5. Backs(Handed(own, Merge(Counted(s), Nobody)), Claims(c)', exact)
      BY <2>2, <2>3, <2>4, ClaimDropped
    <2>6. own \in [Records -> Holders]
      BY DEF Backs
    <2>7. Drops(own, Handed(own, Merge(Counted(s), Nobody)), Counted(s))
      BY <2>4, <2>6, MergeDrops
    <2> QED BY <1>5, <2>5, <2>7
  <1> QED BY <1>4, <1>5

\* A line that moves up: what leaves it goes to k, or to nobody.
LEMMA ClaimsShifted ==
    ASSUME TypeOK, NEW c \in Clients, NEW exact \in BOOLEAN,
           NEW own, Backs(own, Claims(c), exact),
           NEW L \in Line, NEW k \in Holders,
           \A x \in Sums : k # Hand(x) /\ \A i \in Positive : L[i] # Hand(x),
           \A i \in Positive : k # L[i] /\ Claims(c)'[L[i]] = Claims(c)[L[i + 1]],
           k # Nobody => Claims(c)'[k] = Claims(c)[L[1]] + Claims(c)[k],
           \A h \in Claimants : h # k /\ (\A i \in Positive : h # L[i]) =>
               Claims(c)'[h] = Claims(c)[h]
    PROVE  \E new : /\ Backs(new, Claims(c)', exact)
                    /\ IF k = Nobody /\ Claims(c)[L[1]] # 0 THEN Drops(own, new, L[1])
                       ELSE Drops(own, new, Nobody)
  <1>1. Claims(c) \in [Claimants -> Nat]
    <2>1. \A h \in Claimants : Claims(c)[h] \in Nat
      BY ClaimNat
    <2> QED BY <2>1 DEF Claims
  <1>2. Carries(Claims(c), Claims(c)', Shift(L, k))
    BY ShiftCarries
  <1>3. PICK new : new = Handed(own, Shift(L, k))
    OBVIOUS
  <1>4. Backs(new, Claims(c)', exact)
    BY <1>1, <1>2, <1>3, Carried
  <1>5. own \in [Records -> Holders]
    BY DEF Backs
  <1>6. /\ k # Nobody => Drops(own, new, Nobody)
        /\ k = Nobody => Drops(own, new, L[1])
    BY <1>3, <1>5, ShiftDrops
  <1>7. L[1] \in Claimants
    BY DEF Line, Positive
  <1>8. CASE k = Nobody /\ Claims(c)[L[1]] = 0
    <2>1. \A r \in Records : own[r] # L[1]
      BY <1>7, <1>8, Unclaimed
    <2>2. Drops(own, new, L[1])
      BY <1>6, <1>8
    <2>3. Drops(own, new, Nobody)
      BY <2>1, <2>2 DEF Drops
    <2> QED BY <1>4, <1>8, <2>3
  <1>9. CASE k # Nobody
    BY <1>4, <1>6, <1>9
  <1>10. CASE k = Nobody /\ Claims(c)[L[1]] # 0
    BY <1>4, <1>6, <1>10
  <1> QED BY <1>8, <1>9, <1>10

\* A report is added to an open transaction, or lost.
LEMMA ClaimReceived ==
    ASSUME TypeOK, NEW c \in Clients, NEW exact \in BOOLEAN,
           NEW own, Backs(own, Claims(c), exact),
           NEW s \in Sums, NEW src \in Sums, ReceiveTryingReady(s, src)
    PROVE  \E new :
               /\ Backs(new, Claims(c)', exact)
               /\ \/ Drops(own, new, Nobody)
                  \/ /\ ~transactions[s][c].open
                     /\ Head(directs[src][s]).txn = c
                     /\ \E g \in Claimants : Drops(own, new, g)
  <1>1. PICK q : q = directs[src][s]
    OBVIOUS
  <1>2. q \in Seq(TryingReadies) /\ q # <<>>
        /\ directs'[src][s] = Tail(q)
        /\ \A x, d \in Sums : x # src \/ d # s => directs'[x][d] = directs[x][d]
    <2>1. directs \in [Sums -> [Sums -> Seq(TryingReadies)]]
      BY DEF TypeOK
    <2>2. directs[src][s] # <<>> /\ directs' = [directs EXCEPT ![src][s] = Tail(@)]
      BY DEF ReceiveTryingReady
    <2> QED BY <1>1, <2>1, <2>2
  <1>3. PICK msg \in TryingReadies : msg = Head(q)
    BY <1>2, Pop
  <1>4. msg.txn \in Clients /\ msg.processed \in Nat
    BY <1>3 DEF TryingReadies
  <1>5. UNCHANGED << data, senderQueue >>
    BY DEF ReceiveTryingReady, dataPlane
  <1>6. \/ /\ transactions[s][msg.txn].open
           /\ transactions' = [transactions EXCEPT ![s][msg.txn].current = @ + msg.processed]
           /\ recv' = [recv EXCEPT ![s] = [RecvIdle EXCEPT !.at = "check", !.txn = msg.txn]]
        \/ /\ ~transactions[s][msg.txn].open
           /\ UNCHANGED << transactions, recv >>
    BY <1>1, <1>3 DEF ReceiveTryingReady
  <1>7. HandsKept(c) /\ QueueClaimsKept(c)
    BY <1>5, SameClaims
  <1>8. AnswersKept(c)
    <2>1. CASE recv' = recv
      BY <2>1, SameClaims
    <2>2. CASE recv' = [recv EXCEPT ![s] = [RecvIdle EXCEPT !.at = "check", !.txn = msg.txn]]
      <3>1. PICK turn : turn = [RecvIdle EXCEPT !.at = "check", !.txn = msg.txn]
        OBVIOUS
      <3>2. turn.at = "check"
        BY <3>1 DEF RecvIdle
      <3>3. recv[s].at = "idle"
        BY DEF ReceiveTryingReady
      <3>4. recv'[s] = turn /\ \A x \in Sums : x # s => recv'[x] = recv[x]
        BY <2>2, <3>1 DEF TypeOK
      <3>5. \A x \in Sums : AnswerClaim(c, recv'[x]) = AnswerClaim(c, recv[x])
        BY <3>2, <3>3, <3>4 DEF AnswerClaim
      <3> QED BY <3>5, ClaimOf, ClaimOfNext DEF AnswersKept
    <2> QED BY <1>6, <2>1, <2>2
  <1>9. PICK L : L = [i \in Positive |-> InFlight(src, s, i)]
    OBVIOUS
  <1>10. L \in Line /\ \A i \in Positive : L[i] = InFlight(src, s, i)
    <2>1. \A i \in Positive : L[i] = InFlight(src, s, i) /\ L[i] \in Claimants
      BY <1>9, IsHolder
    <2>2. \A i, j \in Positive : InFlight(src, s, i) = InFlight(src, s, j) => i = j
      BY HoldersDiffer
    <2> QED BY <1>9, <2>1, <2>2 DEF Line
  <1>11. 1 \in Positive /\ \A i \in Positive : i + 1 \in Positive
    BY DEF Positive
  <1>12. ASSUME NEW i \in Positive PROVE Claims(c)'[L[i]] = Claims(c)[L[i + 1]]
    <2>1. FlightClaim(c, Tail(q), i) = FlightClaim(c, q, i + 1)
      BY <1>2, ClaimTail
    <2> QED BY <1>1, <1>2, <1>10, <1>11, <2>1, ClaimOf, ClaimOfNext
  <1>13. Claims(c)[L[1]] = IF msg.txn = c THEN msg.processed ELSE 0
    <2>1. FlightClaim(c, q, 1) = ReportClaim(c, Head(q))
      BY <1>2, ClaimTail
    <2> QED BY <1>1, <1>3, <1>10, <1>11, <2>1, ClaimOf DEF ReportClaim
  <1>14. \A x, d \in Sums, i \in Positive : (\A j \in Positive : InFlight(x, d, i) # L[j]) =>
             Claims(c)'[InFlight(x, d, i)] = Claims(c)[InFlight(x, d, i)]
    BY <1>2, <1>10, ClaimOf, ClaimOfNext
  <1>15. \A x \in Sums, i \in Positive :
             L[i] # Hand(x) /\ Counted(x) # L[i] /\ Nobody # L[i] /\ Counted(x) # Nobody
    BY <1>10, HoldersDiffer
  <1>16. \A x, t \in Sums : Counted(x) # Hand(t) /\ Nobody # Hand(x)
    BY HandsApart
  <1>17. Nobody \in Holders /\ Counted(s) \in Holders
    BY IsHolder
  <1>18. \A i \in Positive : Claims(c)'[L[i]] = Claims(c)[L[i + 1]]
    BY <1>12
  <1>19. CASE transactions[s][msg.txn].open /\ msg.txn = c
    <2>1. transactions'[s][c].current = transactions[s][c].current + msg.processed
          /\ \A x \in Sums : x # s => transactions'[x] = transactions[x]
      <3>1. transactions \in [Sums -> [Clients -> Statuses]]
        BY DEF TypeOK
      <3>2. transactions' = [transactions EXCEPT ![s][c].current = @ + msg.processed]
        BY <1>4, <1>6, <1>19
      <3> QED BY <3>1, <3>2 DEF Statuses
    <2>2. /\ Claims(c)'[Counted(s)] = Claims(c)[Counted(s)] + msg.processed
          /\ \A x \in Sums : x # s => Claims(c)'[Counted(x)] = Claims(c)[Counted(x)]
      BY <2>1, ClaimOf, ClaimOfNext
    <2>3. Claims(c)'[Counted(s)] = Claims(c)[L[1]] + Claims(c)[Counted(s)]
      <3>1. Claims(c)[Counted(s)] \in Nat
        BY ClaimNat, IsHolder
      <3> QED BY <1>4, <1>13, <1>19, <2>2, <3>1
    <2>4. ASSUME NEW h \in Claimants, h # Counted(s), \A i \in Positive : h # L[i]
          PROVE  Claims(c)'[h] = Claims(c)[h]
      BY <1>7, <1>8, <1>14, <2>2, <2>4, HolderKinds
      DEF HandsKept, AnswersKept, QueueClaimsKept
    <2>5. \A x \in Sums : Counted(s) # Hand(x) /\ \A i \in Positive : L[i] # Hand(x)
      BY <1>15, <1>16
    <2>6. \A i \in Positive : Counted(s) # L[i] /\ Claims(c)'[L[i]] = Claims(c)[L[i + 1]]
      BY <1>15, <1>18
    <2>7. \E new : /\ Backs(new, Claims(c)', exact)
                   /\ IF Counted(s) = Nobody /\ Claims(c)[L[1]] # 0 THEN Drops(own, new, L[1])
                      ELSE Drops(own, new, Nobody)
      BY <1>10, <1>17, <2>3, <2>4, <2>5, <2>6, ClaimsShifted
    <2> QED BY <1>15, <1>11, <2>7
  <1>20. CASE ~(transactions[s][msg.txn].open /\ msg.txn = c)
    <2>1. \A x \in Sums : transactions'[x][c].current = transactions[x][c].current
      <3>1. transactions \in [Sums -> [Clients -> Statuses]]
        BY DEF TypeOK
      <3>2. CASE transactions' = transactions
        BY <3>2
      <3>3. CASE transactions[s][msg.txn].open
        <4>1. msg.txn # c
          BY <1>20, <3>3
        <4>2. transactions' = [transactions EXCEPT ![s][msg.txn].current = @ + msg.processed]
          BY <1>6, <3>3
        <4>3. \A x \in Sums : transactions'[x][c] = transactions[x][c]
          BY <1>4, <3>1, <4>1, <4>2
        <4> QED BY <4>3
      <3> QED BY <1>6, <3>2, <3>3
    <2>2. CountsKept(c)
      BY <2>1, ClaimOf, ClaimOfNext DEF CountsKept
    <2>3. ASSUME NEW h \in Claimants, \A i \in Positive : h # L[i]
          PROVE  Claims(c)'[h] = Claims(c)[h]
      BY <1>7, <1>8, <1>14, <2>2, <2>3, HolderKinds
      DEF HandsKept, AnswersKept, QueueClaimsKept, CountsKept
    <2>4. \A x \in Sums : Nobody # Hand(x) /\ \A i \in Positive : L[i] # Hand(x)
      BY <1>15, <1>16
    <2>5. \A i \in Positive : Nobody # L[i] /\ Claims(c)'[L[i]] = Claims(c)[L[i + 1]]
      BY <1>15, <1>18
    <2>6. \E new : /\ Backs(new, Claims(c)', exact)
                   /\ IF Nobody = Nobody /\ Claims(c)[L[1]] # 0 THEN Drops(own, new, L[1])
                      ELSE Drops(own, new, Nobody)
      BY <1>10, <1>17, <2>3, <2>4, <2>5, ClaimsShifted
    <2>7. L[1] \in Claimants
      BY <1>10, <1>11 DEF Line
    <2>8. Claims(c)[L[1]] # 0 => msg.txn = c /\ ~transactions[s][c].open
      BY <1>13, <1>20
    <2> QED BY <1>1, <1>3, <2>6, <2>7, <2>8
  <1> QED BY <1>19, <1>20

\* An envelope leaves the queue: a report reaches the channel of its master
\* or is lost, with its connection or because nobody listens yet.
LEMMA ClaimSent ==
    ASSUME TypeOK, NEW c \in Clients, NEW exact \in BOOLEAN,
           NEW own, Backs(own, Claims(c), exact),
           NEW s \in Sums, SenderThread(s)
    PROVE  \E new :
               /\ Backs(new, Claims(c)', exact)
               /\ \/ Drops(own, new, Nobody)
                  \/ lost' /\ \E g \in Claimants : Drops(own, new, g)
  <1>1. senderQueue[s] # <<>> /\ Taken(s)
        /\ UNCHANGED << data, recv, transactions >>
    BY DEF SenderThread, PublishBroadcast, PublishDirect, SendBroadcastFails,
           SendDirectFails, senderFrame, network, connections
  <1>2. PICK q : q = senderQueue[s]
    OBVIOUS
  <1>3. q \in Seq(Envelopes) /\ q # <<>>
        /\ senderQueue'[s] = Tail(q)
        /\ \A x \in Sums : x # s => senderQueue'[x] = senderQueue[x]
    BY <1>1, <1>2 DEF TypeOK, Taken
  <1>4. PICK e \in Envelopes : e = Head(q)
    BY <1>3, Pop
  <1>5. HandsKept(c) /\ AnswersKept(c) /\ CountsKept(c)
    BY <1>1, SameClaims
  <1>6. PICK L : L = [i \in Positive |-> InQueue(s, i)]
    OBVIOUS
  <1>7. L \in Line /\ \A i \in Positive : L[i] = InQueue(s, i)
    <2>1. \A i \in Positive : L[i] = InQueue(s, i) /\ L[i] \in Claimants
      BY <1>6, IsHolder
    <2>2. \A i, j \in Positive : InQueue(s, i) = InQueue(s, j) => i = j
      BY HoldersDiffer
    <2> QED BY <1>6, <2>1, <2>2 DEF Line
  <1>8. 1 \in Positive /\ \A i \in Positive : i + 1 \in Positive
    BY DEF Positive
  <1>9. ASSUME NEW i \in Positive PROVE Claims(c)'[L[i]] = Claims(c)[L[i + 1]]
    <2>1. QueueClaim(c, Tail(q), i) = QueueClaim(c, q, i + 1)
      BY <1>3, ClaimTail
    <2> QED BY <1>2, <1>3, <1>7, <1>8, <2>1, ClaimOf, ClaimOfNext
  <1>10. Claims(c)[L[1]] = EnvelopeClaim(c, e)
    <2>1. QueueClaim(c, q, 1) = EnvelopeClaim(c, Head(q))
      BY <1>3, ClaimTail
    <2> QED BY <1>2, <1>4, <1>7, <1>8, <2>1, ClaimOf
  <1>11. \A x \in Sums, i \in Positive : (\A j \in Positive : InQueue(x, i) # L[j]) =>
             Claims(c)'[InQueue(x, i)] = Claims(c)[InQueue(x, i)]
    BY <1>3, <1>7, ClaimOf, ClaimOfNext
  <1>12. /\ \A x \in Sums, i \in Positive : L[i] # Hand(x) /\ Nobody # L[i]
         /\ \A x, d \in Sums, i, j \in Positive : InFlight(x, d, j) # L[i]
    <2>1. \A x \in Sums, i \in Positive : InQueue(s, i) # Hand(x) /\ Nobody # InQueue(s, i)
      BY HoldersDiffer
    <2>2. \A x, d \in Sums, i, j \in Positive : InFlight(x, d, j) # InQueue(s, i)
      BY HoldersDiffer
    <2> QED BY <1>7, <2>1, <2>2
  <1>13. /\ \A x \in Sums : Nobody # Hand(x)
         /\ \A x, t, d \in Sums, i \in Positive : InFlight(t, d, i) # Hand(x)
         /\ \A t, d \in Sums, i \in Positive : InFlight(t, d, i) # Nobody
    BY HandsApart, HoldersDiffer
  <1>14. \A i \in Positive : Claims(c)'[L[i]] = Claims(c)[L[i + 1]]
    BY <1>9
  <1>15. ASSUME FlightsKept(c)
         PROVE  \E new : /\ Backs(new, Claims(c)', exact)
                         /\ IF EnvelopeClaim(c, e) # 0 THEN Drops(own, new, L[1])
                            ELSE Drops(own, new, Nobody)
    <2>1. ASSUME NEW h \in Claimants, \A i \in Positive : h # L[i]
          PROVE  Claims(c)'[h] = Claims(c)[h]
      BY <1>5, <1>11, <1>15, <2>1, HolderKinds
      DEF HandsKept, AnswersKept, FlightsKept, CountsKept
    <2>2. \A x \in Sums : Nobody # Hand(x) /\ \A i \in Positive : L[i] # Hand(x)
      BY <1>12, <1>13
    <2>3. \A i \in Positive : Nobody # L[i] /\ Claims(c)'[L[i]] = Claims(c)[L[i + 1]]
      BY <1>12, <1>14
    <2>4. \E new : /\ Backs(new, Claims(c)', exact)
                   /\ IF Nobody = Nobody /\ Claims(c)[L[1]] # 0 THEN Drops(own, new, L[1])
                      ELSE Drops(own, new, Nobody)
      BY <1>7, <2>1, <2>2, <2>3, ClaimsShifted, IsHolder
    <2> QED BY <1>10, <2>4
  <1>16. L[1] \in Claimants
    BY <1>7, <1>8 DEF Line
  <1>17. CASE directs' = directs /\ (e.mode = "broadcast" \/ lost')
    <2>1. FlightsKept(c)
      BY <1>17, SameClaims
    <2>2. e.mode = "broadcast" => EnvelopeClaim(c, e) = 0
      BY DEF EnvelopeClaim
    <2> QED BY <1>15, <1>16, <1>17, <2>1, <2>2
  <1>18. CASE /\ e.mode = "direct"
              /\ directs' = [directs EXCEPT ![s][e.to] = Append(@, e.message)]
    <2>1. PICK d \in Sums : d = e.to
      BY <1>18, EnvelopeFields
    <2>2. PICK msg \in TryingReadies : msg = e.message
      BY <1>18, EnvelopeFields
    <2>3. PICK p : p = directs[s][d]
      OBVIOUS
    <2>4. p \in Seq(TryingReadies) /\ directs'[s][d] = Append(p, msg)
          /\ \A x, y \in Sums : x # s \/ y # d => directs'[x][y] = directs[x][y]
      <3>1. directs \in [Sums -> [Sums -> Seq(TryingReadies)]]
        BY DEF TypeOK
      <3>2. directs' = [directs EXCEPT ![s][d] = Append(@, msg)]
        BY <1>18, <2>1, <2>2
      <3> QED BY <2>3, <3>1, <3>2
    <2>5. PICK n \in Positive : n = Len(p) + 1
      BY <2>4, ReportAppended
    <2>6. PICK k : k = InFlight(s, d, n)
      OBVIOUS
    <2>7. k \in Claimants /\ k \in Holders /\ k # Nobody
      BY <2>6, <1>13, IsHolder
    <2>8. Claims(c)[k] = 0 /\ Claims(c)'[k] = ReportClaim(c, msg)
      <3>1. FlightClaim(c, p, n) = 0 /\ FlightClaim(c, Append(p, msg), n) = ReportClaim(c, msg)
        BY <2>4, <2>5, ReportAppended
      <3>2. Claims(c)[k] = FlightClaim(c, directs[s][d], n)
        BY <2>6, ClaimOf
      <3>3. Claims(c)'[k] = FlightClaim(c, directs'[s][d], n)
        BY <2>6, ClaimOfNext
      <3> QED BY <2>3, <2>4, <3>1, <3>2, <3>3
    <2>9. Claims(c)[L[1]] = ReportClaim(c, msg)
      BY <1>10, <1>18, <2>2 DEF EnvelopeClaim, ReportClaim
    <2>10. Claims(c)'[k] = Claims(c)[L[1]] + Claims(c)[k]
      <3>1. Claims(c)[L[1]] \in Nat
        BY <1>16, ClaimNat
      <3> QED BY <2>8, <2>9, <3>1
    <2>11. ASSUME NEW x \in Sums, NEW y \in Sums, NEW i \in Positive, InFlight(x, y, i) # k
           PROVE  Claims(c)'[InFlight(x, y, i)] = Claims(c)[InFlight(x, y, i)]
      <3>1. FlightClaim(c, directs'[x][y], i) = FlightClaim(c, directs[x][y], i)
        <4>1. CASE x # s \/ y # d
          BY <2>4, <4>1
        <4>2. CASE x = s /\ y = d
          <5>1. i # Len(p) + 1
            BY <2>5, <2>6, <2>11, <4>2
          <5>2. FlightClaim(c, Append(p, msg), i) = FlightClaim(c, p, i)
            BY <2>4, <5>1, ReportAppended
          <5> QED BY <2>3, <2>4, <4>2, <5>2
        <4> QED BY <4>1, <4>2
      <3> QED BY <3>1, ClaimOf, ClaimOfNext
    <2>12. ASSUME NEW h \in Claimants, h # k, \A i \in Positive : h # L[i]
           PROVE  Claims(c)'[h] = Claims(c)[h]
      BY <1>5, <1>11, <2>11, <2>12, HolderKinds
      DEF HandsKept, AnswersKept, CountsKept
    <2>13. \A x \in Sums : k # Hand(x) /\ \A i \in Positive : L[i] # Hand(x)
      BY <1>12, <1>13, <2>6
    <2>14. \A i \in Positive : k # L[i] /\ Claims(c)'[L[i]] = Claims(c)[L[i + 1]]
      BY <1>12, <1>14, <2>6
    <2>15. \E new : /\ Backs(new, Claims(c)', exact)
                    /\ IF k = Nobody /\ Claims(c)[L[1]] # 0 THEN Drops(own, new, L[1])
                       ELSE Drops(own, new, Nobody)
      BY <1>7, <2>7, <2>10, <2>12, <2>13, <2>14, ClaimsShifted
    <2> QED BY <2>7, <2>15
  <1>19. CASE PublishBroadcast(s) \/ SendBroadcastFails(s)
    BY <1>2, <1>4, <1>17, <1>19 DEF PublishBroadcast, SendBroadcastFails
  <1>20. CASE PublishDirect(s)
    <2>1. CASE e.to \in listening
      BY <1>2, <1>4, <1>18, <1>20, <2>1 DEF PublishDirect
    <2>2. CASE e.to \notin listening
      <3>1. lost' /\ directs' = directs
        BY <1>2, <1>4, <1>20, <2>2 DEF PublishDirect
      <3> QED BY <1>17, <3>1
    <2> QED BY <2>1, <2>2
  <1>21. CASE SendDirectFails(s)
    <2>1. directs' = directs /\ lost'
      BY <1>21 DEF SendDirectFails
    <2> QED BY <1>17, <2>1
  <1> QED BY <1>19, <1>20, <1>21 DEF SenderThread

-----------------------------------------------------------------------------
(* Which actions change a variable.                                        *)

LEMMA WhoWrites ==
    ASSUME [Next]_vars
    PROVE  /\ shipped' = shipped \/ \E s, src \in Sums : ReceiveOk(s, src)
           /\ \/ masterOf' = masterOf
              \/ \E s \in Sums : \/ \E c \in Clients : BeginTransaction(s, c)
                                 \/ \E src \in Sums : ReceiveCommit(s, src)
                                 \/ DeleteTransactionInfo(s)
           /\ \/ transactions' = transactions
              \/ \E s \in Sums : \/ \E c \in Clients : BeginTransaction(s, c)
                                 \/ \E src \in Sums : ReceiveTryingReady(s, src)
                                 \/ DeleteTransaction(s)
           /\ recv' = recv \/ \E s \in Sums : ReceiverThread(s)
           /\ data' = data \/ \E s \in Sums : DataThread(s)
           /\ \/ casts' = casts
              \/ \E s \in Sums : \/ \E src \in Sums : ReceiveCommit(s, src) \/ ReceiveOk(s, src)
                                 \/ PublishBroadcast(s) \/ SendBroadcastFails(s)
           /\ \/ senderQueue' = senderQueue
              \/ \E s \in Sums : \/ \E c \in Clients : BeginTransaction(s, c)
                                 \/ FinishEof(s) \/ CheckCompletion(s)
                                 \/ ReportProgress(s) \/ AnswerCommit(s)
                                 \/ SenderThread(s)
           /\ \/ digestPool' = digestPool
              \/ \E s \in Sums : (\E r \in Records : DigestData(s, r)) \/ DeleteClientDigest(s)
           /\ \/ UNCHANGED << unsent, inbox >>
              \/ \E s \in Sums, r \in Records : PublishRecord(r, s) \/ DigestData(s, r)
           /\ \/ UNCHANGED << ended, eofInbox >>
              \/ \E s \in Sums, c \in Clients : PublishEof(c, s) \/ BeginTransaction(s, c)
           /\ \/ UNCHANGED << listening, brokenCast, brokenDirect, lost >>
              \/ \E s \in Sums : SenderThread(s) \/ Listen(s)
  <1>1. CASE Gateway
    BY <1>1 DEF Gateway, PublishRecord, PublishEof, controlVars
  <1>2. ASSUME NEW s \in Sums, DataThread(s)
        PROVE  /\ UNCHANGED << recv, shipped, casts, listening, brokenCast,
                               brokenDirect, lost >>
               /\ \/ \E r \in Records : /\ DigestData(s, r)
                                         /\ UNCHANGED << ended, eofInbox, masterOf,
                                                         transactions, senderQueue >>
                  \/ \E c \in Clients : /\ BeginTransaction(s, c)
                                        /\ UNCHANGED << unsent, inbox, digestPool >>
                  \/ /\ ReportProgress(s) \/ FinishEof(s)
                     /\ UNCHANGED << unsent, inbox, ended, eofInbox, digestPool,
                                     masterOf, transactions >>
    BY <1>2 DEF DataThread, DigestData, ReportProgress, BeginTransaction, FinishEof, controlVars
  <1>3. ASSUME NEW s \in Sums, ReceiverThread(s)
        PROVE  /\ UNCHANGED << data, unsent, inbox, ended, eofInbox,
                               listening, brokenCast, brokenDirect, lost >>
               /\ \/ /\ AnswerCommit(s) \/ CheckCompletion(s)
                     /\ UNCHANGED << shipped, masterOf, transactions, casts, digestPool >>
                  \/ /\ SnapshotDigest(s)
                     /\ UNCHANGED << shipped, masterOf, transactions, casts, digestPool, senderQueue >>
                  \/ /\ DeleteClientDigest(s)
                     /\ UNCHANGED << shipped, masterOf, transactions, casts, senderQueue >>
                  \/ /\ DeleteTransaction(s)
                     /\ UNCHANGED << shipped, masterOf, digestPool, casts, senderQueue >>
                  \/ /\ DeleteTransactionInfo(s)
                     /\ UNCHANGED << shipped, transactions, digestPool, casts, senderQueue >>
                  \/ \E src \in Sums :
                     \/ /\ ReceiveOk(s, src)
                        /\ UNCHANGED << masterOf, transactions, digestPool, senderQueue >>
                     \/ /\ ReceiveCommit(s, src)
                        /\ UNCHANGED << shipped, transactions, digestPool, senderQueue >>
                     \/ /\ ReceiveTryingReady(s, src)
                        /\ UNCHANGED << shipped, masterOf, digestPool, senderQueue, casts >>
    BY <1>3 DEF ReceiverThread, ReceiveCommit, ReceiveTryingReady, ReceiveOk, SnapshotDigest,
                AnswerCommit, CheckCompletion, DeleteClientDigest, DeleteTransaction,
                DeleteTransactionInfo, dataPlane, network, connections
  <1>4. ASSUME NEW s \in Sums, SenderThread(s)
        PROVE  /\ UNCHANGED << unsent, ended, inbox, eofInbox, digestPool, masterOf,
                               transactions, data, recv, shipped >>
               /\ casts' = casts \/ PublishBroadcast(s) \/ SendBroadcastFails(s)
    BY <1>4 DEF SenderThread, PublishBroadcast, PublishDirect, SendBroadcastFails,
                SendDirectFails, senderFrame
  <1>5. ASSUME NEW s \in Sums, Listen(s)
        PROVE  UNCHANGED << unsent, ended, inbox, eofInbox, digestPool, masterOf,
                            transactions, data, recv, shipped, senderQueue, casts >>
    BY <1>5 DEF Listen, senderFrame
  <1>6. CASE UNCHANGED vars
    BY <1>6 DEF vars
  <1>7. CASE \E s \in Sums : DataThread(s)
    BY <1>2, <1>7
  <1>8. CASE \E s \in Sums : ReceiverThread(s)
    BY <1>3, <1>8
  <1>9. CASE \E s \in Sums : SenderThread(s)
    BY <1>4, <1>9
  <1>10. CASE \E s \in Sums : Listen(s)
    BY <1>5, <1>10
  <1> QED BY <1>1, <1>6, <1>7, <1>8, <1>9, <1>10 DEF Next

-----------------------------------------------------------------------------
(* What becomes of a Commit or an Ok when nothing is lost.                 *)

NoLoss == ~lost

\* Who listens once, listens on.
Listening == InitiallyListening \subseteq listening

LEMMA ListeningStep == TypeOK /\ Listening /\ [Next]_vars => Listening'
  <1> SUFFICES ASSUME TypeOK, Listening, [Next]_vars PROVE Listening'
    OBVIOUS
  <1>1. listening \subseteq listening'
    <2>1. CASE \E s \in Sums : SenderThread(s)
      BY <2>1 DEF SenderThread, PublishBroadcast, PublishDirect, SendBroadcastFails,
                  SendDirectFails, network, connections
    <2>2. CASE \E s \in Sums : Listen(s)
      BY <2>2 DEF Listen
    <2> QED BY <2>1, <2>2, WhoWrites
  <1> QED BY <1>1 DEF Listening

\* What was not lost until now: no send has raised, and every message finds its
\* readers' queues.
LEMMA LossStays ==
    ASSUME [Next]_vars, NoLoss'
    PROVE  /\ NoLoss
           /\ \A s \in Sums : ~SendBroadcastFails(s) /\ ~SendDirectFails(s)
           /\ \A s \in Sums : PublishBroadcast(s) => listening = Sums
  <1>1. \A s \in Sums : ~SendBroadcastFails(s) /\ ~SendDirectFails(s)
    BY DEF NoLoss, SendBroadcastFails, SendDirectFails
  <1>2. lost => lost'
    <2>1. ASSUME NEW s \in Sums, SenderThread(s) PROVE lost => lost'
      BY <2>1 DEF SenderThread, PublishBroadcast, PublishDirect, SendBroadcastFails,
                  SendDirectFails
    <2>2. ASSUME NEW s \in Sums, Listen(s) PROVE lost => lost'
      BY <2>2 DEF Listen
    <2> QED BY <2>1, <2>2, WhoWrites
  <1>3. \A s \in Sums : PublishBroadcast(s) => listening = Sums
    BY DEF NoLoss, PublishBroadcast
  <1> QED BY <1>1, <1>2, <1>3 DEF NoLoss

LEMMA HeadOrTail ==
    ASSUME NEW S, NEW q \in Seq(S), q # <<>>, NEW e \in Elements(q)
    PROVE  e = Head(q) \/ e \in Elements(Tail(q))
  <1>1. /\ DOMAIN q = 1 .. Len(q)
        /\ Len(q) \in Nat \ {0}
        /\ DOMAIN Tail(q) = 1 .. Len(q) - 1
        /\ \A i \in 1 .. Len(q) - 1 : Tail(q)[i] = q[i + 1]
        /\ Head(q) = q[1]
    BY HeadTailProperties, LenProperties, EmptySeq
  <1>2. PICK i \in 1 .. Len(q) : q[i] = e
    BY <1>1 DEF Elements
  <1>3. CASE i = 1
    BY <1>1, <1>2, <1>3
  <1>4. CASE i # 1
    <2>1. i - 1 \in 1 .. Len(q) - 1 /\ Tail(q)[i - 1] = q[(i - 1) + 1]
      BY <1>1, <1>2, <1>4
    <2>2. (i - 1) + 1 = i
      BY <1>2
    <2> QED BY <1>1, <1>2, <2>1, <2>2 DEF Elements
  <1> QED BY <1>3, <1>4

LEMMA StaysQueued ==
    ASSUME TypeOK, Listening, [Next]_vars, NoLoss', NEW s \in Sums, NEW msg, Queued(s, msg)
    PROVE  Queued(s, msg)' \/ \A d \in Sums : InCast(s, d, msg)'
  <1>1. senderQueue \in [Sums -> Seq(Envelopes)]
    BY DEF TypeOK
  <1>2. \A x \in Sums : ~SendBroadcastFails(x) /\ ~SendDirectFails(x)
    BY LossStays
  <1>3. ASSUME NEW x \in Sums, NEW e \in Envelopes,
               senderQueue' = [senderQueue EXCEPT ![x] = Append(@, e)]
        PROVE  Queued(s, msg)'
    <2>1. \A d \in Sums : Elements(senderQueue'[d]) =
              IF d = x THEN Elements(senderQueue[d]) \cup {e} ELSE Elements(senderQueue[d])
      BY <1>3, Enqueue
    <2>2. Elements(senderQueue[s]) \subseteq Elements(senderQueue'[s])
      BY <2>1, Zenon
    <2> QED BY <2>2 DEF Queued
  <1>4. ASSUME senderQueue' = senderQueue PROVE Queued(s, msg)'
    BY <1>4 DEF Queued
  <1>5. ASSUME NEW x \in Sums, NEW t \in Clients, MaybeBroadcastOk(x, t) PROVE Queued(s, msg)'
    <2>1. Broadcast(Ok(t)) \in Envelopes
      BY MessageTypes
    <2>2. CASE DigestionComplete(x, t)
      <3>1. PICK e \in Envelopes : senderQueue' = [senderQueue EXCEPT ![x] = Append(@, e)]
        BY <1>5, <2>1, <2>2 DEF MaybeBroadcastOk
      <3> QED BY <1>3, <3>1
    <2> QED BY <1>4, <1>5, <2>2 DEF MaybeBroadcastOk
  <1>6. ASSUME NEW x \in Sums, FinishEof(x) \/ CheckCompletion(x) PROVE Queued(s, msg)'
    <2>1. PICK t \in Clients : MaybeBroadcastOk(x, t)
      <3>1. CASE FinishEof(x)
        BY <3>1 DEF TypeOK, FinishEof, DataStates, DataIdle
      <3>2. CASE CheckCompletion(x)
        BY <3>2, RecvFields DEF CheckCompletion
      <3> QED BY <1>6, <3>1, <3>2
    <2> QED BY <1>5, <2>1
  <1>7. ASSUME NEW x \in Sums, NEW t \in Clients, BeginTransaction(x, t) PROVE Queued(s, msg)'
    <2>1. Broadcast(Commit(t, x)) \in Envelopes
      BY MessageTypes
    <2> QED BY <1>3, <1>7, <2>1 DEF BeginTransaction
  <1>8. ASSUME NEW x \in Sums, ReportProgress(x) PROVE Queued(s, msg)'
    <2>1. data[x].txn \in Clients
      BY <1>8 DEF TypeOK, ReportProgress, DataStates, DataIdle
    <2>2. masterOf[x][data[x].txn] # NoSum =>
              Direct(masterOf[x][data[x].txn], TryingReady(data[x].txn, 1)) \in Envelopes
      BY <2>1, MessageTypes DEF TypeOK
    <2>3. CASE masterOf[x][data[x].txn] # NoSum
      <3>1. PICK e \in Envelopes : senderQueue' = [senderQueue EXCEPT ![x] = Append(@, e)]
        BY <1>8, <2>2, <2>3 DEF ReportProgress
      <3> QED BY <1>3, <3>1
    <2> QED BY <1>4, <1>8, <2>3 DEF ReportProgress
  <1>9. ASSUME NEW x \in Sums, AnswerCommit(x) PROVE Queued(s, msg)'
    <2>1. Direct(recv[x].master, TryingReady(recv[x].txn, recv[x].processed)) \in Envelopes
      BY <1>9, RecvFields, MessageTypes DEF AnswerCommit
    <2> QED BY <1>3, <1>9, <2>1 DEF AnswerCommit
  <1>10. ASSUME NEW x \in Sums, SenderThread(x)
         PROVE  Queued(s, msg)' \/ \A d \in Sums : InCast(s, d, msg)'
    <2>1. senderQueue[x] # <<>> /\ Taken(x) /\ (PublishBroadcast(x) \/ PublishDirect(x))
      BY <1>2, <1>10 DEF SenderThread, PublishBroadcast, PublishDirect
    <2>2. CASE x # s
      BY <1>1, <2>1, <2>2 DEF Taken, Queued
    <2>3. CASE x = s
      <3>1. PICK q \in Seq(Envelopes) : q = senderQueue[s]
        BY <1>1
      <3>2. q # <<>> /\ senderQueue'[s] = Tail(q) /\ Broadcast(msg) \in Elements(q)
        BY <1>1, <2>1, <2>3, <3>1 DEF Taken, Queued
      <3>3. Broadcast(msg) = Head(q) \/ Broadcast(msg) \in Elements(Tail(q))
        BY <3>2, HeadOrTail
      <3>4. CASE Broadcast(msg) \in Elements(Tail(q))
        BY <3>2, <3>4 DEF Queued
      <3>5. CASE Broadcast(msg) = Head(q)
        <4>1. Head(q).mode = "broadcast" /\ Head(q).message = msg
          BY <3>5 DEF Broadcast
        <4>2. PublishBroadcast(s)
          BY <2>1, <2>3, <3>1, <4>1 DEF PublishDirect
        <4>3. msg \in Commits \cup Oks
          <5>1. Head(q) \in Envelopes
            BY <3>2, Pop
          <5> QED BY <4>1, <5>1, EnvelopeFields
        <4>4. DeliverCast(s, listening, msg)
          BY <3>1, <4>1, <4>2 DEF PublishBroadcast
        <4>5. \A a, d \in Sums : Elements(casts'[a][d]) =
                  IF a = s /\ d \in listening THEN Elements(casts[a][d]) \cup {msg}
                  ELSE Elements(casts[a][d])
          BY <4>3, <4>4, Cast
        <4>6. listening = Sums
          BY <4>2, LossStays
        <4>7. \A d \in Sums : msg \in Elements(casts'[s][d])
          BY <4>5, <4>6
        <4> QED BY <4>7 DEF InCast
      <3> QED BY <3>3, <3>4, <3>5
    <2> QED BY <2>2, <2>3
  <1> QED BY <1>4, <1>6, <1>7, <1>8, <1>9, <1>10, WhoWrites

LEMMA StaysSent ==
    ASSUME TypeOK, [Next]_vars, NEW s \in Sums, NEW d \in Sums, NEW msg, InCast(s, d, msg)
    PROVE  \/ InCast(s, d, msg)'
           \/ casts[s][d] # <<>> /\ Head(casts[s][d]) = msg
              /\ (ReceiveCommit(d, s) \/ ReceiveOk(d, s))
  <1>1. casts \in [Sums -> [Sums -> Seq(Commits \cup Oks)]]
    BY DEF TypeOK
  <1>2. ASSUME casts' = casts PROVE InCast(s, d, msg)'
    BY <1>2 DEF InCast
  <1>3. ASSUME NEW x \in Sums, NEW src \in Sums, ReceiveCommit(x, src) \/ ReceiveOk(x, src)
        PROVE  \/ InCast(s, d, msg)'
               \/ casts[s][d] # <<>> /\ Head(casts[s][d]) = msg
                  /\ (ReceiveCommit(d, s) \/ ReceiveOk(d, s))
    <2>1. casts[src][x] # <<>> /\ casts' = [casts EXCEPT ![src][x] = Tail(@)]
      BY <1>3 DEF ReceiveCommit, ReceiveOk
    <2>2. CASE src = s /\ x = d
      <3>1. PICK q \in Seq(Commits \cup Oks) : q = casts[s][d]
        BY <1>1
      <3>2. q # <<>> /\ casts'[s][d] = Tail(q) /\ msg \in Elements(q)
        BY <1>1, <2>1, <2>2, <3>1 DEF InCast
      <3>3. msg = Head(q) \/ msg \in Elements(Tail(q))
        BY <3>2, HeadOrTail
      <3> QED BY <1>3, <2>2, <3>1, <3>2, <3>3 DEF InCast
    <2>3. CASE ~(src = s /\ x = d)
      <3>1. casts'[s][d] = casts[s][d]
        BY <1>1, <2>1, <2>3
      <3> QED BY <3>1 DEF InCast
    <2> QED BY <2>2, <2>3
  <1>4. ASSUME NEW x \in Sums, PublishBroadcast(x) \/ SendBroadcastFails(x)
        PROVE  InCast(s, d, msg)'
    <2>1. PICK m \in Commits \cup Oks : m = Head(senderQueue[x]).message
      BY <1>4, SenderHead, EnvelopeFields DEF PublishBroadcast, SendBroadcastFails
    <2>2. casts' = casts \/ \E reached : DeliverCast(x, reached, m)
      BY <1>4, <2>1 DEF PublishBroadcast, SendBroadcastFails
    <2>3. CASE casts' # casts
      <3>1. PICK reached : DeliverCast(x, reached, m)
        BY <2>2, <2>3
      <3>2. \A a, b \in Sums : Elements(casts'[a][b]) =
                IF a = x /\ b \in reached THEN Elements(casts[a][b]) \cup {m}
                ELSE Elements(casts[a][b])
        BY <3>1, Cast
      <3>3. Elements(casts[s][d]) \subseteq Elements(casts'[s][d])
        BY <3>2, Zenon
      <3> QED BY <3>3 DEF InCast
    <2> QED BY <1>2, <2>3
  <1> QED BY <1>2, <1>3, <1>4, WhoWrites

-----------------------------------------------------------------------------
(* What has been said stays said until it is heard.                        *)

LEMMA IssuedMeans ==
    ASSUME NEW c
    PROVE  OkIssued(c) <=> \E s \in Sums : \/ Queued(s, Ok(c))
                                           \/ \E d \in Sums : InCast(s, d, Ok(c))
                                           \/ HasFlushed(s, c)
  <1>1. \A s : (\E b \in Elements(shipped[s]) : b.txn = c) <=> HasFlushed(s, c)
    BY DEF Elements, HasFlushed
  <1> QED BY <1>1 DEF OkIssued, Queued, InCast

LEMMA IssuedMeansNext ==
    ASSUME NEW c
    PROVE  OkIssued(c)' <=> \E s \in Sums : \/ Queued(s, Ok(c))'
                                            \/ \E d \in Sums : InCast(s, d, Ok(c))'
                                            \/ HasFlushed(s, c)'
  <1>1. \A s : (\E b \in Elements(shipped'[s]) : b.txn = c) <=> HasFlushed(s, c)'
    BY DEF Elements, HasFlushed
  <1> QED BY <1>1 DEF OkIssued, Queued, InCast

\* A batch in the list of what a worker shipped never leaves it.
LEMMA FlushStays ==
    ASSUME TypeOK, [Next]_vars, NEW s \in Sums, NEW c, HasFlushed(s, c)
    PROVE  HasFlushed(s, c)'
  <1>1. CASE shipped' = shipped
    BY <1>1 DEF HasFlushed
  <1>2. ASSUME NEW x \in Sums, NEW src \in Sums, ReceiveOk(x, src) PROVE HasFlushed(s, c)'
    <2>1. PICK b : shipped' = [shipped EXCEPT ![x] = Append(@, b)]
                   /\ b \in Batches
      <3>1. casts[src][x] \in Seq(Commits \cup Oks) /\ casts[src][x] # <<>>
        <4>1. casts \in [Sums -> [Sums -> Seq(Commits \cup Oks)]]
          BY DEF TypeOK
        <4>2. casts[src][x] # <<>>
          BY <1>2 DEF ReceiveOk
        <4> QED BY <4>1, <4>2
      <3>2. Head(casts[src][x]) \in Commits \cup Oks
        BY <3>1, Pop
      <3>3. Head(casts[src][x]).txn \in Clients
        BY <3>2, CastFields
      <3>4. DigestOf(x, Head(casts[src][x]).txn) \in SUBSET Records
        BY DEF DigestOf, RecordsOf
      <3>5. PICK b : b = [txn |-> Head(casts[src][x]).txn,
                          records |-> DigestOf(x, Head(casts[src][x]).txn)]
        OBVIOUS
      <3>6. b \in Batches
        BY <3>3, <3>4, <3>5 DEF Batches
      <3>7. shipped' = [shipped EXCEPT ![x] = Append(@, b)]
        BY <1>2, <3>5 DEF ReceiveOk
      <3> QED BY <3>6, <3>7
    <2>2. shipped \in [Sums -> Seq(Batches)]
      BY DEF TypeOK
    <2>3. PICK i \in DOMAIN shipped[s] : shipped[s][i].txn = c
      BY DEF HasFlushed
    <2>4. CASE s # x
      BY <2>1, <2>2, <2>3, <2>4 DEF HasFlushed
    <2>5. CASE s = x
      <3>1. shipped'[s] = Append(shipped[s], b) /\ shipped[s] \in Seq(Batches)
        BY <2>1, <2>2, <2>5
      <3>2. i \in 1 .. Len(shipped[s])
        BY <2>3, <3>1
      <3>3. i \in DOMAIN Append(shipped[s], b) /\ Append(shipped[s], b)[i] = shipped[s][i]
        BY <3>1, <3>2
      <3> QED BY <2>3, <3>1, <3>3 DEF HasFlushed
    <2> QED BY <2>4, <2>5
  <1> QED BY <1>1, <1>2, WhoWrites

LEMMA OkHeard ==
    ASSUME TypeOK, NEW s \in Sums, NEW src \in Sums, ReceiveOk(s, src)
    PROVE  \E c \in Clients :
               /\ Head(casts[src][s]) = Ok(c)
               /\ InCast(src, s, Ok(c))
               /\ HasFlushed(s, c)'
               /\ recv'[s].at = "delete_digest" /\ recv'[s].txn = c
               /\ \A d \in Sums : \A t :
                      HasFlushed(d, t)' => HasFlushed(d, t) \/ (d = s /\ t = c)
  <1>1. PICK msg : msg = Head(casts[src][s])
    OBVIOUS
  <1>2. msg \in Commits \cup Oks /\ InCast(src, s, msg)
    <2>1. casts[src][s] # <<>> /\ casts' = [casts EXCEPT ![src][s] = Tail(@)]
      BY DEF ReceiveOk
    <2> QED BY <1>1, <2>1, TakeCast DEF InCast
  <1>3. msg.type = "ok"
    BY <1>1 DEF ReceiveOk
  <1>4. msg = Ok(msg.txn) /\ msg.txn \in Clients
    BY <1>2, <1>3, CastFields
  <1>5. recv'[s] = [RecvIdle EXCEPT !.at = "delete_digest", !.txn = msg.txn]
    BY <1>1 DEF ReceiveOk, TypeOK
  <1>6. recv'[s].at = "delete_digest" /\ recv'[s].txn = msg.txn
    BY <1>5 DEF RecvIdle
  <1>7. PICK b : b = [txn |-> msg.txn, records |-> DigestOf(s, msg.txn)]
    OBVIOUS
  <1>8. shipped' = [shipped EXCEPT ![s] = Append(@, b)]
    BY <1>1, <1>7 DEF ReceiveOk
  <1>9. shipped \in [Sums -> Seq(Batches)] /\ shipped[s] \in Seq(Batches)
    BY DEF TypeOK
  <1>10. shipped'[s] = Append(shipped[s], b) /\ \A d \in Sums : d # s => shipped'[d] = shipped[d]
    BY <1>8, <1>9
  <1>11. /\ DOMAIN shipped'[s] = 1 .. Len(shipped[s]) + 1
         /\ DOMAIN shipped[s] = 1 .. Len(shipped[s])
         /\ shipped'[s][Len(shipped[s]) + 1] = b
         /\ \A i \in 1 .. Len(shipped[s]) : shipped'[s][i] = shipped[s][i]
         /\ Len(shipped[s]) \in Nat
    BY <1>9, <1>10
  <1>12. PICK c \in Clients : c = msg.txn
    BY <1>4
  <1>13. HasFlushed(s, c)'
    <2>1. Len(shipped[s]) + 1 \in DOMAIN shipped'[s]
      BY <1>11
    <2> QED BY <1>7, <1>11, <1>12, <2>1 DEF HasFlushed
  <1>14. ASSUME NEW d \in Sums, NEW t, HasFlushed(d, t)'
         PROVE  HasFlushed(d, t) \/ (d = s /\ t = c)
    <2>1. CASE d # s
      BY <1>10, <1>14, <2>1 DEF HasFlushed
    <2>2. CASE d = s
      <3>1. PICK i \in DOMAIN shipped'[s] : shipped'[s][i].txn = t
        BY <1>14, <2>2 DEF HasFlushed
      <3>2. CASE i = Len(shipped[s]) + 1
        BY <1>7, <1>11, <1>12, <2>2, <3>1, <3>2
      <3>3. CASE i # Len(shipped[s]) + 1
        <4>1. i \in 1 .. Len(shipped[s])
          BY <1>11, <3>1, <3>3
        <4> QED BY <1>11, <2>2, <3>1, <4>1 DEF HasFlushed
      <3> QED BY <3>2, <3>3
    <2> QED BY <2>1, <2>2
  <1> QED BY <1>1, <1>2, <1>4, <1>6, <1>12, <1>13, <1>14

LEMMA CommitHeard ==
    ASSUME TypeOK, NEW s \in Sums, NEW src \in Sums, ReceiveCommit(s, src)
    PROVE  \E c \in Clients, m \in Sums :
               /\ Head(casts[src][s]) = Commit(c, m)
               /\ InCast(src, s, Commit(c, m))
               /\ recv'[s].at = "snapshot" /\ recv'[s].txn = c
               /\ masterOf' = [masterOf EXCEPT ![s][c] = m]
               /\ masterOf'[s][c] = m
  <1>1. PICK msg : msg = Head(casts[src][s])
    OBVIOUS
  <1>2. msg \in Commits \cup Oks /\ InCast(src, s, msg)
    <2>1. casts[src][s] # <<>> /\ casts' = [casts EXCEPT ![src][s] = Tail(@)]
      BY DEF ReceiveCommit
    <2> QED BY <1>1, <2>1, TakeCast DEF InCast
  <1>3. msg.type = "commit"
    BY <1>1 DEF ReceiveCommit
  <1>4. msg.txn \in Clients /\ msg.master \in Sums /\ msg = Commit(msg.txn, msg.master)
    BY <1>2, <1>3, CastFields
  <1>5. recv'[s].at = "snapshot" /\ recv'[s].txn = msg.txn
    BY <1>1 DEF ReceiveCommit, TypeOK
  <1>6. masterOf' = [masterOf EXCEPT ![s][msg.txn] = msg.master]
    BY <1>1 DEF ReceiveCommit
  <1>7. masterOf \in [Sums -> [Clients -> Sums \cup {NoSum}]]
    BY DEF TypeOK
  <1>8. masterOf'[s][msg.txn] = msg.master
    BY <1>4, <1>6, <1>7
  <1> QED BY <1>1, <1>2, <1>4, <1>5, <1>6, <1>8

\* An Ok, once on its way, is queued, sent or done by the worker it reached.
LEMMA OkStays ==
    ASSUME TypeOK, Listening, [Next]_vars, NoLoss', NEW c \in Clients, OkIssued(c)
    PROVE  OkIssued(c)'
  <1>1. SUFFICES \E s \in Sums : \/ Queued(s, Ok(c))'
                                 \/ \E d \in Sums : InCast(s, d, Ok(c))'
                                 \/ HasFlushed(s, c)'
    BY IssuedMeansNext
  <1>2. PICK s \in Sums : \/ Queued(s, Ok(c))
                          \/ \E d \in Sums : InCast(s, d, Ok(c))
                          \/ HasFlushed(s, c)
    BY IssuedMeans
  <1>3. CASE Queued(s, Ok(c))
    <2>1. Queued(s, Ok(c))' \/ \A d \in Sums : InCast(s, d, Ok(c))'
      BY <1>3, StaysQueued
    <2> QED BY <2>1
  <1>4. ASSUME NEW d \in Sums, InCast(s, d, Ok(c))
        PROVE  InCast(s, d, Ok(c))' \/ HasFlushed(d, c)'
    <2>1. \/ InCast(s, d, Ok(c))'
          \/ casts[s][d] # <<>> /\ Head(casts[s][d]) = Ok(c)
             /\ (ReceiveCommit(d, s) \/ ReceiveOk(d, s))
      BY <1>4, StaysSent
    <2>2. ASSUME Head(casts[s][d]) = Ok(c), ReceiveCommit(d, s) PROVE FALSE
      BY <2>2 DEF ReceiveCommit, Ok
    <2>3. ASSUME Head(casts[s][d]) = Ok(c), ReceiveOk(d, s) PROVE HasFlushed(d, c)'
      <3>1. PICK t \in Clients : Head(casts[s][d]) = Ok(t) /\ HasFlushed(d, t)'
        BY <2>3, OkHeard
      <3>2. t = c
        BY <2>3, <3>1, NamesDiffer
      <3> QED BY <3>1, <3>2 DEF HasFlushed
    <2> QED BY <2>1, <2>2, <2>3
  <1>5. CASE HasFlushed(s, c)
    BY <1>5, FlushStays
  <1> QED BY <1>2, <1>3, <1>4, <1>5

\* The transaction of a client begins in one step, that queues its Commit.
LEMMA StartStays ==
    ASSUME TypeOK, [Next]_vars, NEW c \in Clients, Unstarted(c)
    PROVE  \/ Unstarted(c)'
           \/ \E s \in Sums : BeginTransaction(s, c) /\ Queued(s, Commit(c, s))'
  <1>1. CASE UNCHANGED << ended, eofInbox >>
    BY <1>1 DEF Unstarted
  <1>2. ASSUME NEW s \in Sums, NEW t \in Clients, PublishEof(t, s) PROVE Unstarted(c)'
    BY <1>2 DEF Unstarted, PublishEof, TypeOK
  <1>3. ASSUME NEW s \in Sums, NEW t \in Clients, BeginTransaction(s, t), t # c
        PROVE  Unstarted(c)'
    BY <1>3 DEF Unstarted, BeginTransaction, TypeOK
  <1>4. ASSUME NEW s \in Sums, BeginTransaction(s, c)
        PROVE  Queued(s, Commit(c, s))'
    <2>1. Broadcast(Commit(c, s)) \in Envelopes
      BY MessageTypes
    <2>2. \A d \in Sums : Elements(senderQueue'[d]) =
              IF d = s THEN Elements(senderQueue[d]) \cup {Broadcast(Commit(c, s))}
              ELSE Elements(senderQueue[d])
      BY <1>4, <2>1, Enqueue DEF BeginTransaction
    <2>3. Broadcast(Commit(c, s)) \in Elements(senderQueue'[s])
      BY <2>2
    <2> QED BY <2>3 DEF Queued
  <1> QED BY <1>1, <1>2, <1>3, <1>4, WhoWrites

\* The Commit of c has not reached s.
CommitComing(s, c) ==
    \/ Unstarted(c)
    \/ \E src, m \in Sums : Queued(src, Commit(c, m)) \/ InCast(src, s, Commit(c, m))

\* The snapshot of the records of c in worker s is still to be taken.
CommitDue(s, c) == CommitComing(s, c) \/ (recv[s].at = "snapshot" /\ recv[s].txn = c)

LEMMA ComingStays ==
    ASSUME TypeOK, Listening, [Next]_vars, NoLoss', NEW s \in Sums, NEW c \in Clients,
           CommitComing(s, c)
    PROVE  \/ CommitComing(s, c)'
           \/ recv'[s].at = "snapshot" /\ recv'[s].txn = c /\ masterOf'[s][c] \in Sums
  <1>1. CASE Unstarted(c)
    BY <1>1, StartStays DEF CommitComing
  <1>2. ASSUME NEW src \in Sums, NEW m \in Sums, Queued(src, Commit(c, m))
        PROVE  CommitComing(s, c)'
    <2>1. Queued(src, Commit(c, m))' \/ \A d \in Sums : InCast(src, d, Commit(c, m))'
      BY <1>2, StaysQueued
    <2> QED BY <2>1 DEF CommitComing
  <1>3. ASSUME NEW src \in Sums, NEW m \in Sums, InCast(src, s, Commit(c, m))
        PROVE  \/ CommitComing(s, c)'
               \/ recv'[s].at = "snapshot" /\ recv'[s].txn = c /\ masterOf'[s][c] \in Sums
    <2>1. \/ InCast(src, s, Commit(c, m))'
          \/ Head(casts[src][s]) = Commit(c, m) /\ (ReceiveCommit(s, src) \/ ReceiveOk(s, src))
      BY <1>3, StaysSent
    <2>2. CASE InCast(src, s, Commit(c, m))'
      BY <2>2 DEF CommitComing
    <2>3. ASSUME Head(casts[src][s]) = Commit(c, m), ReceiveOk(s, src) PROVE FALSE
      BY <2>3 DEF ReceiveOk, Commit
    <2>4. ASSUME Head(casts[src][s]) = Commit(c, m), ReceiveCommit(s, src)
          PROVE  recv'[s].at = "snapshot" /\ recv'[s].txn = c /\ masterOf'[s][c] \in Sums
      <3>1. PICK t \in Clients, n \in Sums :
                /\ Head(casts[src][s]) = Commit(t, n)
                /\ recv'[s].at = "snapshot" /\ recv'[s].txn = t
                /\ masterOf'[s][t] = n
        BY <2>4, CommitHeard
      <3>2. t = c
        BY <2>4, <3>1, NamesDiffer
      <3> QED BY <3>1, <3>2
    <2> QED BY <2>1, <2>2, <2>3, <2>4
  <1> QED BY <1>1, <1>2, <1>3 DEF CommitComing

\* A receiver thread moves nobody else.
LEMMA RecvElsewhere ==
    ASSUME TypeOK, NEW x \in Sums, ReceiverThread(x), NEW s \in Sums, s # x
    PROVE  recv'[s] = recv[s]
  <1>1. recv \in [Sums -> RecvStates]
    BY DEF TypeOK
  <1>2. CASE \E src \in Sums : ReceiveTryingReady(x, src)
    BY <1>1, <1>2 DEF ReceiveTryingReady
  <1>3. CASE \E src \in Sums : ReceiveCommit(x, src) \/ ReceiveOk(x, src)
    BY <1>1, <1>3 DEF ReceiveCommit, ReceiveOk
  <1>4. CASE SnapshotDigest(x) \/ AnswerCommit(x) \/ CheckCompletion(x)
    BY <1>1, <1>4 DEF SnapshotDigest, AnswerCommit, CheckCompletion
  <1>5. CASE DeleteClientDigest(x) \/ DeleteTransaction(x) \/ DeleteTransactionInfo(x)
    BY <1>1, <1>5 DEF DeleteClientDigest, DeleteTransaction, DeleteTransactionInfo
  <1> QED BY <1>2, <1>3, <1>4, <1>5 DEF ReceiverThread

LEMMA DueStays ==
    ASSUME TypeOK, Listening, [Next]_vars, NoLoss', NEW s \in Sums, NEW c \in Clients,
           CommitDue(s, c), ~(SnapshotDigest(s) /\ recv[s].txn = c)
    PROVE  CommitDue(s, c)'
  <1>1. CASE CommitComing(s, c)
    BY <1>1, ComingStays DEF CommitDue
  <1>2. CASE recv[s].at = "snapshot" /\ recv[s].txn = c
    <2>1. recv'[s] = recv[s]
      <3>1. ASSUME NEW x \in Sums, ReceiverThread(x) PROVE recv'[s] = recv[s]
        <4>1. CASE x = s
          BY <1>2, <3>1, <4>1 DEF ReceiverThread, ReceiveCommit, ReceiveTryingReady,
             ReceiveOk, AnswerCommit, CheckCompletion, DeleteClientDigest,
             DeleteTransaction, DeleteTransactionInfo
        <4>2. CASE x # s
          BY <3>1, <4>2, RecvElsewhere
        <4> QED BY <4>1, <4>2
      <3> QED BY <3>1, WhoWrites
    <2> QED BY <1>2, <2>1 DEF CommitDue
  <1> QED BY <1>1, <1>2 DEF CommitDue

LEMMA DataClient ==
    ASSUME TypeOK, NEW s \in Sums, data[s].at \in {"look_master", "maybe_ok"}
    PROVE  data[s].txn \in Clients
  <1>1. data[s] \in DataStates
    BY DEF TypeOK
  <1> QED BY <1>1 DEF DataStates, DataIdle

\* Only a completion check that succeeds and the beginning of a transaction
\* queue a Commit or an Ok.
LEMMA QueueStep ==
    ASSUME TypeOK, [Next]_vars
    PROVE  \/ QueuesKept
           \/ \E s \in Sums, c \in Clients :
                  /\ BeginTransaction(s, c)
                  /\ \A d \in Sums : \A n :
                        Queued(d, n)' => Queued(d, n) \/ (d = s /\ n = Commit(c, s))
           \/ \E s \in Sums, c \in Clients :
                  /\ DigestionComplete(s, c)
                  /\ \/ FinishEof(s) /\ data[s].txn = c
                     \/ CheckCompletion(s) /\ recv[s].txn = c
                  /\ \A d \in Sums : \A n :
                        Queued(d, n)' => Queued(d, n) \/ (d = s /\ n = Ok(c))
  <1>1. ASSUME NEW s \in Sums, NEW c \in Clients, BeginTransaction(s, c)
        PROVE  \A d \in Sums : \A n :
                  Queued(d, n)' => Queued(d, n) \/ (d = s /\ n = Commit(c, s))
    <2>1. Broadcast(Commit(c, s)) \in Envelopes
      BY MessageTypes
    <2> QED BY <1>1, <2>1, BroadcastQueued DEF BeginTransaction
  <1>2. ASSUME NEW s \in Sums, NEW c \in Clients, MaybeBroadcastOk(s, c)
        PROVE  \/ QueuesKept
               \/ /\ DigestionComplete(s, c)
                  /\ \A d \in Sums : \A n :
                        Queued(d, n)' => Queued(d, n) \/ (d = s /\ n = Ok(c))
    <2>1. CASE ~DigestionComplete(s, c)
      BY <1>2, <2>1, UnchangedQueues DEF MaybeBroadcastOk
    <2>2. CASE DigestionComplete(s, c)
      <3>1. senderQueue' = [senderQueue EXCEPT ![s] = Append(@, Broadcast(Ok(c)))]
        BY <1>2, <2>2 DEF MaybeBroadcastOk
      <3>2. Broadcast(Ok(c)) \in Envelopes
        BY MessageTypes
      <3> QED BY <2>2, <3>1, <3>2, BroadcastQueued
    <2> QED BY <2>1, <2>2
  <1>3. ASSUME NEW s \in Sums, FinishEof(s)
        PROVE  data[s].txn \in Clients /\ MaybeBroadcastOk(s, data[s].txn)
    BY <1>3, DataClient DEF FinishEof
  <1>4. ASSUME NEW s \in Sums, CheckCompletion(s)
        PROVE  recv[s].txn \in Clients /\ MaybeBroadcastOk(s, recv[s].txn)
    BY <1>4, RecvFields DEF CheckCompletion
  <1>5. ASSUME NEW s \in Sums, ReportProgress(s) PROVE QueuesKept
    <2>1. PICK c \in Clients : c = data[s].txn
      BY <1>5, DataClient DEF ReportProgress
    <2>2. CASE masterOf[s][c] = NoSum
      BY <1>5, <2>1, <2>2, UnchangedQueues DEF ReportProgress
    <2>3. CASE masterOf[s][c] # NoSum
      <3>1. masterOf[s][c] \in Sums
        BY <2>3 DEF TypeOK
      <3>2. PICK e : e = Direct(masterOf[s][c], TryingReady(c, 1))
        OBVIOUS
      <3>3. e \in Envelopes /\ e.mode = "direct"
        BY <3>1, <3>2, MessageTypes DEF Direct
      <3>4. senderQueue' = [senderQueue EXCEPT ![s] = Append(@, e)]
        BY <1>5, <2>1, <2>3, <3>2 DEF ReportProgress
      <3> QED BY <3>3, <3>4, DirectQueued
    <2> QED BY <2>2, <2>3
  <1>6. ASSUME NEW s \in Sums, AnswerCommit(s) PROVE QueuesKept
    <2>1. PICK e : e = Direct(recv[s].master, TryingReady(recv[s].txn, recv[s].processed))
      OBVIOUS
    <2>2. e \in Envelopes /\ e.mode = "direct"
      BY <1>6, <2>1, RecvFields, MessageTypes DEF AnswerCommit, Direct
    <2>3. senderQueue' = [senderQueue EXCEPT ![s] = Append(@, e)]
      BY <1>6, <2>1 DEF AnswerCommit
    <2> QED BY <2>2, <2>3, DirectQueued
  <1>7. ASSUME NEW s \in Sums, SenderThread(s) PROVE QueuesKept
    <2>1. senderQueue[s] # <<>> /\ Taken(s)
      BY <1>7 DEF SenderThread, PublishBroadcast, PublishDirect, SendBroadcastFails,
                  SendDirectFails
    <2> QED BY <2>1, HeadTaken
  <1>8. ASSUME NEW s \in Sums, FinishEof(s) PROVE
           \/ QueuesKept
           \/ \E x \in Sums, c \in Clients :
                  /\ DigestionComplete(x, c)
                  /\ \/ FinishEof(x) /\ data[x].txn = c
                     \/ CheckCompletion(x) /\ recv[x].txn = c
                  /\ \A d \in Sums : \A n :
                        Queued(d, n)' => Queued(d, n) \/ (d = x /\ n = Ok(c))
    BY <1>2, <1>3, <1>8
  <1>9. ASSUME NEW s \in Sums, CheckCompletion(s) PROVE
           \/ QueuesKept
           \/ \E x \in Sums, c \in Clients :
                  /\ DigestionComplete(x, c)
                  /\ \/ FinishEof(x) /\ data[x].txn = c
                     \/ CheckCompletion(x) /\ recv[x].txn = c
                  /\ \A d \in Sums : \A n :
                        Queued(d, n)' => Queued(d, n) \/ (d = x /\ n = Ok(c))
    BY <1>2, <1>4, <1>9
  <1>10. senderQueue' = senderQueue => QueuesKept
    BY UnchangedQueues
  <1> QED BY <1>1, <1>5, <1>6, <1>7, <1>8, <1>9, <1>10, WhoWrites

\* The only step that issues an Ok is a completion check that succeeds.
LEMMA NewOk ==
    ASSUME TypeOK, [Next]_vars, NEW c \in Clients, ~OkIssued(c), OkIssued(c)'
    PROVE  \E x \in Sums : /\ DigestionComplete(x, c)
                           /\ Queued(x, Ok(c))'
                           /\ transactions' = transactions
                           /\ \/ FinishEof(x) /\ data[x].txn = c
                              \/ CheckCompletion(x) /\ recv[x].txn = c
  <1>1. PICK s \in Sums : \/ Queued(s, Ok(c))'
                          \/ \E d \in Sums : InCast(s, d, Ok(c))'
                          \/ HasFlushed(s, c)'
    BY IssuedMeansNext
  <1>2. \A a \in Sums : /\ ~Queued(a, Ok(c)) /\ ~HasFlushed(a, c)
                        /\ \A d \in Sums : ~InCast(a, d, Ok(c))
    BY IssuedMeans
  <1>3. ~HasFlushed(s, c)'
    <2>1. CASE shipped' = shipped
      BY <1>2, <2>1 DEF HasFlushed
    <2>2. ASSUME NEW x \in Sums, NEW src \in Sums, ReceiveOk(x, src), HasFlushed(s, c)'
          PROVE  FALSE
      <3>1. PICK t \in Clients :
                /\ InCast(src, x, Ok(t))
                /\ \A d \in Sums : \A u :
                      HasFlushed(d, u)' => HasFlushed(d, u) \/ (d = x /\ u = t)
        BY <2>2, OkHeard
      <3> QED BY <1>2, <2>2, <3>1
    <2> QED BY <2>1, <2>2, WhoWrites
  <1>4. ASSUME NEW d \in Sums PROVE ~InCast(s, d, Ok(c))'
    <2>1. CASE casts' = casts
      BY <1>2, <2>1 DEF InCast
    <2>2. ASSUME NEW x \in Sums, NEW src \in Sums, ReceiveCommit(x, src) \/ ReceiveOk(x, src)
          PROVE  ~InCast(s, d, Ok(c))'
      <3>1. casts[src][x] # <<>> /\ casts' = [casts EXCEPT ![src][x] = Tail(@)]
        BY <2>2 DEF ReceiveCommit, ReceiveOk
      <3>2. ChannelsKept
        BY <3>1, CastTaken
      <3> QED BY <1>2, <3>2 DEF ChannelsKept
    <2>3. ASSUME NEW x \in Sums, PublishBroadcast(x) \/ SendBroadcastFails(x)
          PROVE  ~InCast(s, d, Ok(c))'
      <3>1. PICK m \in Commits \cup Oks : m = Head(senderQueue[x]).message
        BY <2>3, SenderHead, EnvelopeFields DEF PublishBroadcast, SendBroadcastFails
      <3>2. casts' = casts \/ \E reached : DeliverCast(x, reached, m)
        BY <2>3, <3>1 DEF PublishBroadcast, SendBroadcastFails
      <3>3. ASSUME NEW reached, DeliverCast(x, reached, m), InCast(s, d, Ok(c))' PROVE FALSE
        <4>1. \A a, b \in Sums : Elements(casts'[a][b]) =
                  IF a = x /\ b \in reached THEN Elements(casts[a][b]) \cup {m}
                  ELSE Elements(casts[a][b])
          BY <3>3, Cast
        <4>2. Ok(c) \in Elements(casts'[s][d])
          BY <3>3 DEF InCast
        <4>3. Ok(c) \notin Elements(casts[s][d])
          BY <1>2 DEF InCast
        <4>4. s = x /\ Ok(c) = m
          BY <4>1, <4>2, <4>3, Zenon
        <4>5. senderQueue[x] # <<>> /\ Head(senderQueue[x]).mode = "broadcast" /\ Taken(x)
          BY <2>3 DEF PublishBroadcast, SendBroadcastFails
        <4>6. Head(senderQueue[x]) \in Elements(senderQueue[x])
              /\ Head(senderQueue[x]) \in Envelopes
          BY <4>5, Dequeue, SenderHead
        <4>7. Head(senderQueue[x]) = Broadcast(m)
          BY <3>1, <4>5, <4>6 DEF Envelopes, Broadcast
        <4> QED BY <1>2, <4>4, <4>6, <4>7 DEF Queued
      <3> QED BY <2>1, <3>2, <3>3
    <2> QED BY <2>1, <2>2, <2>3, WhoWrites
  <1>5. Queued(s, Ok(c))'
    BY <1>1, <1>3, <1>4
  <1>6. ~QueuesKept
    BY <1>2, <1>5 DEF QueuesKept
  <1>7. ASSUME NEW x \in Sums, NEW t \in Clients,
               \A d \in Sums : \A n :
                  Queued(d, n)' => Queued(d, n) \/ (d = x /\ n = Commit(t, x))
        PROVE  FALSE
    BY <1>2, <1>5, <1>7, KindsDiffer
  <1>8. ASSUME NEW x \in Sums, NEW t \in Clients, DigestionComplete(x, t),
               \/ FinishEof(x) /\ data[x].txn = t
               \/ CheckCompletion(x) /\ recv[x].txn = t,
               \A d \in Sums : \A n : Queued(d, n)' => Queued(d, n) \/ (d = x /\ n = Ok(t))
        PROVE  \E y \in Sums : /\ DigestionComplete(y, c)
                               /\ Queued(y, Ok(c))'
                               /\ transactions' = transactions
                               /\ \/ FinishEof(y) /\ data[y].txn = c
                                  \/ CheckCompletion(y) /\ recv[y].txn = c
    <2>1. s = x /\ Ok(c) = Ok(t)
      BY <1>2, <1>5, <1>8
    <2>2. t = c
      BY <2>1, NamesDiffer
    <2>3. transactions' = transactions
      BY <1>8 DEF FinishEof, CheckCompletion
    <2> QED BY <1>5, <1>8, <2>1, <2>2, <2>3
  <1> QED BY <1>6, <1>7, <1>8, QueueStep

-----------------------------------------------------------------------------
(* The invariant that follows a transaction as long as nothing is lost.    *)

FlushingHasFlushed == \A s \in Sums, c \in Clients : Flushing(s, c) => HasFlushed(s, c)

Somewhere ==
    \A r \in Records :
        r \in unsent \/ \E s \in Sums : \/ r \in inbox[s]
                                        \/ r \in digestPool[s]
                                        \/ HasFlushed(s, ClientOf[r])

Expects ==
    \A s \in Sums, c \in Clients :
        IF transactions[s][c].open
        THEN transactions[s][c].expected = Cardinality(RecordsOf(c))
        ELSE transactions[s][c].current = 0

\* A worker that is not waiting for the Commit knows the master.
Known ==
    \A c \in Clients : NoLoss /\ ~OkIssued(c) =>
        \A s \in Sums : CommitComing(s, c) \/ masterOf[s][c] \in Sums

OpenUntilOk ==
    \A c \in Clients : NoLoss /\ ~OkIssued(c) /\ ~Unstarted(c) =>
        \E s \in Sums : transactions[s][c].open

\* A complete count is about to be noticed.
CheckPending ==
    \A c \in Clients, s \in Sums :
        NoLoss /\ ~OkIssued(c) /\ DigestionComplete(s, c) =>
            \/ data[s].at = "maybe_ok" /\ data[s].txn = c
            \/ recv[s].at = "check" /\ recv[s].txn = c

\* The master's own Ok closes its transaction.
OkPending ==
    \A c \in Clients, s \in Sums :
        NoLoss /\ OkIssued(c) /\ transactions[s][c].open =>
            \/ Queued(s, Ok(c))
            \/ InCast(s, s, Ok(c))
            \/ recv[s].at \in {"delete_digest", "delete_transaction"} /\ recv[s].txn = c

\* The three deletions that follow a flush.
LEMMA Deletions ==
    ASSUME TypeOK, NEW s \in Sums
    PROVE  /\ DeleteClientDigest(s) =>
                  recv'[s].at = "delete_transaction" /\ recv'[s].txn = recv[s].txn
           /\ DeleteTransaction(s) =>
                  recv'[s].at = "delete_master" /\ recv'[s].txn = recv[s].txn
           /\ DeleteClientDigest(s) \/ DeleteTransaction(s) \/ DeleteTransactionInfo(s) =>
                  recv[s].txn \in Clients /\ Flushing(s, recv[s].txn)
  <1>1. recv \in [Sums -> RecvStates]
    BY DEF TypeOK
  <1>2. ASSUME NEW at, recv' = [recv EXCEPT ![s].at = at]
        PROVE  recv'[s].at = at /\ recv'[s].txn = recv[s].txn
    <2>1. recv'[s] = [recv[s] EXCEPT !.at = at] /\ recv[s] \in RecvStates
      BY <1>1, <1>2
    <2> QED BY <2>1, RecvKept
  <1>3. DeleteClientDigest(s) =>
            recv'[s].at = "delete_transaction" /\ recv'[s].txn = recv[s].txn
    BY <1>2 DEF DeleteClientDigest
  <1>4. DeleteTransaction(s) =>
            recv'[s].at = "delete_master" /\ recv'[s].txn = recv[s].txn
    BY <1>2 DEF DeleteTransaction
  <1>5. DeleteClientDigest(s) \/ DeleteTransaction(s) \/ DeleteTransactionInfo(s) =>
            recv[s].txn \in Clients /\ Flushing(s, recv[s].txn)
    BY RecvFields DEF DeleteClientDigest, DeleteTransaction, DeleteTransactionInfo, Flushing
  <1> QED BY <1>3, <1>4, <1>5

LEMMA FlushingStep ==
    ASSUME TypeOK, [Next]_vars, FlushingHasFlushed
    PROVE  FlushingHasFlushed'
  <1> SUFFICES ASSUME NEW s \in Sums, NEW c \in Clients, Flushing(s, c)'
               PROVE  HasFlushed(s, c)'
    BY DEF FlushingHasFlushed
  <1>1. recv'[s].at \in {"delete_digest", "delete_transaction", "delete_master"}
        /\ recv'[s].txn = c
    BY DEF Flushing
  <1>2. CASE Flushing(s, c)
    BY <1>2, FlushStays DEF FlushingHasFlushed
  <1>3. CASE recv'[s] = recv[s]
    BY <1>1, <1>2, <1>3 DEF Flushing
  <1>4. CASE DeleteClientDigest(s) \/ DeleteTransaction(s) \/ DeleteTransactionInfo(s)
    <2>1. CASE DeleteTransactionInfo(s)
      BY <1>1, <2>1 DEF DeleteTransactionInfo, RecvIdle, TypeOK
    <2>2. CASE ~DeleteTransactionInfo(s)
      BY <1>1, <1>2, <1>4, <2>2, Deletions DEF Flushing
    <2> QED BY <2>1, <2>2
  <1>5. ASSUME NEW src \in Sums, ReceiveOk(s, src) PROVE HasFlushed(s, c)'
    <2>1. PICK t \in Clients : HasFlushed(s, t)' /\ recv'[s].txn = t
      BY <1>5, OkHeard
    <2> QED BY <1>1, <2>1 DEF HasFlushed
  <1>6. ASSUME NEW src \in Sums, ReceiveTryingReady(s, src), recv'[s] # recv[s] PROVE FALSE
    <2>1. PICK t : recv' = [recv EXCEPT ![s] = [RecvIdle EXCEPT !.at = "check", !.txn = t]]
      BY <1>6 DEF ReceiveTryingReady
    <2>2. recv'[s].at = "check"
      BY <2>1 DEF RecvIdle, TypeOK
    <2> QED BY <1>1, <2>2
  <1>7. ASSUME NEW src \in Sums, ReceiveCommit(s, src) PROVE FALSE
    BY <1>1, <1>7, CommitHeard
  <1>8. CASE SnapshotDigest(s) \/ AnswerCommit(s) \/ CheckCompletion(s)
    <2>1. CASE SnapshotDigest(s)
      <3>1. PICK n : recv' = [recv EXCEPT ![s].at = "answer", ![s].processed = n]
        BY <2>1 DEF SnapshotDigest
      <3>2. recv'[s].at = "answer"
        BY <3>1, RecvKept DEF TypeOK
      <3> QED BY <1>1, <3>2
    <2>2. CASE AnswerCommit(s) \/ CheckCompletion(s)
      BY <1>1, <2>2 DEF AnswerCommit, CheckCompletion, RecvIdle, TypeOK
    <2> QED BY <1>8, <2>1, <2>2
  <1>9. ASSUME NEW x \in Sums, ReceiverThread(x), x # s PROVE recv'[s] = recv[s]
    BY <1>9, RecvElsewhere
  <1> QED BY <1>3, <1>4, <1>5, <1>6, <1>7, <1>8, <1>9, WhoWrites DEF ReceiverThread

LEMMA SomewhereStep ==
    ASSUME TypeOK, [Next]_vars, FlushingHasFlushed, Somewhere
    PROVE  Somewhere'
  <1> SUFFICES ASSUME NEW r \in Records
               PROVE  r \in unsent' \/ \E s \in Sums : \/ r \in inbox'[s]
                                                       \/ r \in digestPool'[s]
                                                       \/ HasFlushed(s, ClientOf[r])'
    BY DEF Somewhere
  <1>1. inbox \in [Sums -> SUBSET Records] /\ digestPool \in [Sums -> SUBSET Records]
    BY DEF TypeOK
  <1>2. ASSUME NEW s \in Sums, HasFlushed(s, ClientOf[r])
        PROVE  HasFlushed(s, ClientOf[r])'
    BY <1>2, FlushStays
  <1>3. CASE r \in unsent
    <2>1. ASSUME NEW s \in Sums, NEW x \in Records, PublishRecord(x, s)
          PROVE  r \in unsent' \/ r \in inbox'[s]
      BY <1>1, <1>3, <2>1 DEF PublishRecord
    <2>2. ASSUME NEW s \in Sums, NEW x \in Records, DigestData(s, x)
          PROVE  r \in unsent'
      BY <1>3, <2>2 DEF DigestData
    <2> QED BY <1>3, <2>1, <2>2, WhoWrites
  <1>4. ASSUME NEW s \in Sums, r \in inbox[s]
        PROVE  r \in inbox'[s] \/ r \in digestPool'[s]
    <2>1. ASSUME NEW y \in Sums, NEW x \in Records, PublishRecord(x, y)
          PROVE  r \in inbox'[s]
      BY <1>1, <1>4, <2>1 DEF PublishRecord
    <2>2. ASSUME NEW y \in Sums, NEW x \in Records, DigestData(y, x)
          PROVE  r \in inbox'[s] \/ r \in digestPool'[s]
      BY <1>1, <1>4, <2>2 DEF DigestData
    <2> QED BY <1>4, <2>1, <2>2, WhoWrites
  <1>5. ASSUME NEW s \in Sums, r \in digestPool[s]
        PROVE  r \in digestPool'[s] \/ HasFlushed(s, ClientOf[r])'
    <2>1. ASSUME NEW y \in Sums, NEW x \in Records, DigestData(y, x)
          PROVE  r \in digestPool'[s]
      BY <1>1, <1>5, <2>1 DEF DigestData
    <2>2. ASSUME NEW y \in Sums, DeleteClientDigest(y), r \notin digestPool'[s]
          PROVE  HasFlushed(s, ClientOf[r])'
      <3>1. y = s /\ r \in RecordsOf(recv[s].txn)
        BY <1>1, <1>5, <2>2 DEF DeleteClientDigest
      <3>2. recv[s].txn = ClientOf[r]
        BY <3>1 DEF RecordsOf
      <3>3. HasFlushed(s, ClientOf[r])
        BY <2>2, <3>1, <3>2, Deletions DEF FlushingHasFlushed
      <3> QED BY <1>2, <3>3
    <2> QED BY <1>5, <2>1, <2>2, WhoWrites
  <1> QED BY <1>2, <1>3, <1>4, <1>5 DEF Somewhere

\* What a step does to the transaction of c in worker s.
LEMMA TransactionStep ==
    ASSUME TypeOK, [Next]_vars, NEW s \in Sums, NEW c \in Clients
    PROVE  \/ transactions'[s][c] = transactions[s][c]
           \/ /\ BeginTransaction(s, c)
              /\ transactions'[s][c] = [expected |-> Cardinality(RecordsOf(c)),
                                        current  |-> transactions[s][c].current,
                                        open     |-> TRUE]
           \/ /\ \E src \in Sums : ReceiveTryingReady(s, src)
              /\ transactions[s][c].open /\ transactions'[s][c].open
              /\ transactions'[s][c].expected = transactions[s][c].expected
              /\ recv'[s].at = "check" /\ recv'[s].txn = c
           \/ /\ DeleteTransaction(s) /\ recv[s].txn = c
              /\ transactions'[s][c] = NoStatus
  <1>1. transactions \in [Sums -> [Clients -> Statuses]]
    BY DEF TypeOK
  <1>2. ASSUME NEW x \in Sums, NEW t \in Clients, BeginTransaction(x, t)
        PROVE  \/ transactions'[s][c] = transactions[s][c]
               \/ /\ BeginTransaction(s, c)
                  /\ transactions'[s][c] = [expected |-> Cardinality(RecordsOf(c)),
                                            current  |-> transactions[s][c].current,
                                            open     |-> TRUE]
    <2>1. transactions' = [transactions EXCEPT ![x][t] =
                              [expected |-> Cardinality(RecordsOf(t)),
                               current  |-> transactions[x][t].current,
                               open     |-> TRUE]]
      BY <1>2 DEF BeginTransaction
    <2>2. CASE x = s /\ t = c
      BY <1>1, <1>2, <2>1, <2>2
    <2>3. CASE ~(x = s /\ t = c)
      BY <1>1, <2>1, <2>3
    <2> QED BY <2>2, <2>3
  <1>3. ASSUME NEW x \in Sums, NEW src \in Sums, ReceiveTryingReady(x, src),
               transactions'[s][c] # transactions[s][c]
        PROVE  /\ ReceiveTryingReady(s, src)
               /\ transactions[s][c].open /\ transactions'[s][c].open
               /\ transactions'[s][c].expected = transactions[s][c].expected
               /\ recv'[s].at = "check" /\ recv'[s].txn = c
    <2>1. PICK msg : msg = Head(directs[src][x])
      OBVIOUS
    <2>2. /\ transactions[x][msg.txn].open
          /\ transactions' = [transactions EXCEPT ![x][msg.txn].current = @ + msg.processed]
          /\ recv' = [recv EXCEPT ![x] = [RecvIdle EXCEPT !.at = "check", !.txn = msg.txn]]
      BY <1>3, <2>1 DEF ReceiveTryingReady
    <2>3. x = s /\ msg.txn = c
      BY <1>1, <1>3, <2>2
    <2>4. /\ transactions'[s][c].open = transactions[s][c].open
          /\ transactions'[s][c].expected = transactions[s][c].expected
      BY <1>1, <2>2, <2>3 DEF Statuses
    <2>5. recv'[s].at = "check" /\ recv'[s].txn = c
      BY <2>2, <2>3 DEF TypeOK, RecvIdle
    <2> QED BY <1>3, <2>2, <2>3, <2>4, <2>5
  <1>4. ASSUME NEW x \in Sums, DeleteTransaction(x), transactions'[s][c] # transactions[s][c]
        PROVE  /\ DeleteTransaction(s) /\ recv[s].txn = c
               /\ transactions'[s][c] = NoStatus
    <2>1. transactions' = [transactions EXCEPT ![x][recv[x].txn] = NoStatus]
      BY <1>4 DEF DeleteTransaction
    <2>2. x = s /\ recv[x].txn = c
      BY <1>1, <1>4, <2>1
    <2> QED BY <1>1, <1>4, <2>1, <2>2
  <1> QED BY <1>2, <1>3, <1>4, WhoWrites

LEMMA ExpectsStep ==
    ASSUME TypeOK, [Next]_vars, Expects
    PROVE  Expects'
  <1> SUFFICES ASSUME NEW s \in Sums, NEW c \in Clients
               PROVE  IF transactions'[s][c].open
                      THEN transactions'[s][c].expected = Cardinality(RecordsOf(c))
                      ELSE transactions'[s][c].current = 0
    BY DEF Expects, RecordsOf
  <1>1. IF transactions[s][c].open
        THEN transactions[s][c].expected = Cardinality(RecordsOf(c))
        ELSE transactions[s][c].current = 0
    BY DEF Expects
  <1>2. CASE transactions'[s][c] = transactions[s][c]
    BY <1>1, <1>2
  <1>3. CASE transactions'[s][c] = [expected |-> Cardinality(RecordsOf(c)),
                                    current  |-> transactions[s][c].current,
                                    open     |-> TRUE]
    BY <1>3
  <1>4. CASE /\ transactions[s][c].open /\ transactions'[s][c].open
             /\ transactions'[s][c].expected = transactions[s][c].expected
    BY <1>1, <1>4
  <1>5. CASE transactions'[s][c] = NoStatus
    BY <1>5 DEF NoStatus
  <1> QED BY <1>2, <1>3, <1>4, <1>5, TransactionStep

LEMMA KnownStep ==
    ASSUME TypeOK, Listening, [Next]_vars, FlushingHasFlushed, Known
    PROVE  Known'
  <1> SUFFICES ASSUME NEW c \in Clients, NoLoss', ~OkIssued(c)', NEW s \in Sums
               PROVE  CommitComing(s, c)' \/ masterOf'[s][c] \in Sums
    BY DEF Known
  <1>1. NoLoss /\ ~OkIssued(c)
    BY LossStays, OkStays
  <1>2. CASE CommitComing(s, c)
    BY <1>2, ComingStays
  <1>3. CASE masterOf[s][c] \in Sums
    <2>1. masterOf \in [Sums -> [Clients -> Sums \cup {NoSum}]]
      BY DEF TypeOK
    <2>2. ASSUME NEW x \in Sums, NEW t \in Clients, BeginTransaction(x, t)
          PROVE  masterOf'[s][c] \in Sums
      BY <1>3, <2>1, <2>2 DEF BeginTransaction
    <2>3. ASSUME NEW x \in Sums, NEW src \in Sums, ReceiveCommit(x, src)
          PROVE  masterOf'[s][c] \in Sums
      <3>1. PICK t \in Clients, m \in Sums : masterOf' = [masterOf EXCEPT ![x][t] = m]
        BY <2>3, CommitHeard
      <3> QED BY <1>3, <2>1, <3>1
    <2>4. ASSUME NEW x \in Sums, DeleteTransactionInfo(x)
          PROVE  masterOf'[s][c] \in Sums
      <3>1. masterOf' = [masterOf EXCEPT ![x][recv[x].txn] = NoSum]
        BY <2>4 DEF DeleteTransactionInfo
      <3>2. HasFlushed(x, recv[x].txn)
        BY <2>4, Deletions DEF FlushingHasFlushed
      <3>3. recv[x].txn # c
        BY <1>1, <3>2, IssuedMeans
      <3> QED BY <1>3, <2>1, <3>1, <3>3
    <2> QED BY <1>3, <2>2, <2>3, <2>4, WhoWrites
  <1> QED BY <1>1, <1>2, <1>3 DEF Known

LEMMA OpenStep ==
    ASSUME TypeOK, Listening, [Next]_vars, FlushingHasFlushed, OpenUntilOk
    PROVE  OpenUntilOk'
  <1> SUFFICES ASSUME NEW c \in Clients, NoLoss', ~OkIssued(c)', ~Unstarted(c)'
               PROVE  \E s \in Sums : transactions'[s][c].open
    BY DEF OpenUntilOk
  <1>1. NoLoss /\ ~OkIssued(c)
    BY LossStays, OkStays
  <1>2. CASE Unstarted(c)
    <2>1. PICK s \in Sums : BeginTransaction(s, c)
      BY <1>2, StartStays
    <2>2. transactions' = [transactions EXCEPT ![s][c] =
                              [expected |-> Cardinality(RecordsOf(c)),
                               current  |-> transactions[s][c].current,
                               open     |-> TRUE]]
      BY <2>1 DEF BeginTransaction
    <2>3. transactions'[s][c].open
      BY <2>2 DEF TypeOK
    <2> QED BY <2>3
  <1>3. CASE ~Unstarted(c)
    <2>1. PICK s \in Sums : transactions[s][c].open
      BY <1>1, <1>3 DEF OpenUntilOk
    <2>2. ASSUME DeleteTransaction(s), recv[s].txn = c PROVE FALSE
      <3>1. HasFlushed(s, c)
        BY <2>2, Deletions DEF FlushingHasFlushed
      <3> QED BY <1>1, <3>1, IssuedMeans
    <2>3. CASE transactions'[s][c] = transactions[s][c]
      BY <2>1, <2>3
    <2>4. CASE transactions'[s][c] = [expected |-> Cardinality(RecordsOf(c)),
                                      current  |-> transactions[s][c].current,
                                      open     |-> TRUE]
      BY <2>4
    <2> QED BY <2>2, <2>3, <2>4, TransactionStep
  <1> QED BY <1>2, <1>3

LEMMA CheckStep ==
    ASSUME TypeOK, Listening, [Next]_vars, FlushingHasFlushed, CheckPending
    PROVE  CheckPending'
  <1> SUFFICES ASSUME NEW c \in Clients, NEW s \in Sums, NoLoss', ~OkIssued(c)',
                      DigestionComplete(s, c)'
               PROVE  \/ data'[s].at = "maybe_ok" /\ data'[s].txn = c
                      \/ recv'[s].at = "check" /\ recv'[s].txn = c
    BY DEF CheckPending
  <1>1. NoLoss /\ ~OkIssued(c)
    BY LossStays, OkStays
  <1>2. ASSUME MaybeBroadcastOk(s, c), DigestionComplete(s, c) PROVE FALSE
    <2>1. senderQueue' = [senderQueue EXCEPT ![s] = Append(@, Broadcast(Ok(c)))]
      BY <1>2 DEF MaybeBroadcastOk
    <2>2. Broadcast(Ok(c)) \in Envelopes
      BY MessageTypes
    <2>3. \A d \in Sums : Elements(senderQueue'[d]) =
              IF d = s THEN Elements(senderQueue[d]) \cup {Broadcast(Ok(c))}
              ELSE Elements(senderQueue[d])
      BY <2>1, <2>2, Enqueue
    <2>4. Broadcast(Ok(c)) \in Elements(senderQueue'[s])
      BY <2>3
    <2>5. Queued(s, Ok(c))'
      BY <2>4 DEF Queued
    <2> QED BY <2>5, IssuedMeansNext
  <1>3. CASE transactions'[s][c] = transactions[s][c]
    <2>1. DigestionComplete(s, c)
      BY <1>3 DEF DigestionComplete
    <2>2. CASE data[s].at = "maybe_ok" /\ data[s].txn = c
      <3>1. ASSUME NEW x \in Sums, DataThread(x) PROVE data'[s] = data[s]
        <4>1. CASE x = s
          BY <1>2, <2>1, <2>2, <3>1, <4>1
             DEF DataThread, DigestData, ReportProgress, BeginTransaction, FinishEof
        <4>2. CASE x # s
          BY <3>1, <4>2
             DEF DataThread, DigestData, ReportProgress, BeginTransaction, FinishEof, TypeOK
        <4> QED BY <4>1, <4>2
      <3> QED BY <2>2, <3>1, WhoWrites
    <2>3. CASE recv[s].at = "check" /\ recv[s].txn = c
      <3>1. ASSUME NEW x \in Sums, ReceiverThread(x) PROVE recv'[s] = recv[s]
        <4>1. CASE x = s
          <5>1. CheckCompletion(s) => MaybeBroadcastOk(s, c)
            BY <2>3 DEF CheckCompletion
          <5>2. ~CheckCompletion(s)
            BY <1>2, <2>1, <5>1
          <5> QED BY <2>3, <3>1, <4>1, <5>2 DEF ReceiverThread, ReceiveCommit,
             ReceiveTryingReady, ReceiveOk, SnapshotDigest, AnswerCommit,
             DeleteClientDigest, DeleteTransaction, DeleteTransactionInfo
        <4>2. CASE x # s
          BY <3>1, <4>2, RecvElsewhere
        <4> QED BY <4>1, <4>2
      <3> QED BY <2>3, <3>1, WhoWrites
    <2> QED BY <1>1, <2>1, <2>2, <2>3 DEF CheckPending
  <1>4. CASE BeginTransaction(s, c)
    BY <1>4 DEF BeginTransaction, TypeOK
  <1>5. CASE transactions'[s][c] = NoStatus
    BY <1>5 DEF NoStatus, DigestionComplete
  <1> QED BY <1>3, <1>4, <1>5, TransactionStep

LEMMA OkStep ==
    ASSUME OrderInv, Listening, [Next]_vars, OkPending
    PROVE  OkPending'
  <1>1. TypeOK /\ SingleMaster
    BY DEF OrderInv, MasterInv
  <1> SUFFICES ASSUME NEW c \in Clients, NEW s \in Sums, NoLoss', OkIssued(c)',
                      transactions'[s][c].open
               PROVE  \/ Queued(s, Ok(c))'
                      \/ InCast(s, s, Ok(c))'
                      \/ recv'[s].at \in {"delete_digest", "delete_transaction"}
                         /\ recv'[s].txn = c
    BY DEF OkPending
  <1>2. NoLoss
    BY LossStays
  <1>3. CASE ~OkIssued(c)
    <2>1. PICK x \in Sums : /\ DigestionComplete(x, c)
                            /\ Queued(x, Ok(c))'
                            /\ transactions' = transactions
      BY <1>1, <1>3, NewOk
    <2>2. transactions[x][c].open /\ transactions[s][c].open
      BY <2>1 DEF DigestionComplete
    <2>3. x = s
      BY <1>1, <2>2 DEF SingleMaster, IsTakenForMaster
    <2> QED BY <2>1, <2>3
  <1>4. CASE OkIssued(c)
    <2>1. transactions[s][c].open
      <3>1. ASSUME BeginTransaction(s, c) PROVE FALSE
        <4>1. Unstarted(c)
          BY <3>1 DEF BeginTransaction, Unstarted
        <4> QED BY <1>4, <4>1, IssuedMeans DEF OrderInv, NothingSaid
      <3>2. transactions'[s][c] # NoStatus
        BY DEF NoStatus
      <3>3. transactions'[s][c] = transactions[s][c] => transactions[s][c].open
        OBVIOUS
      <3> QED BY <1>1, <3>1, <3>2, <3>3, TransactionStep
    <2>2. CASE Queued(s, Ok(c))
      BY <1>1, <2>2, StaysQueued
    <2>3. CASE InCast(s, s, Ok(c))
      <3>1. \/ InCast(s, s, Ok(c))'
            \/ Head(casts[s][s]) = Ok(c) /\ (ReceiveCommit(s, s) \/ ReceiveOk(s, s))
        BY <1>1, <2>3, StaysSent
      <3>2. ASSUME Head(casts[s][s]) = Ok(c), ReceiveCommit(s, s) PROVE FALSE
        BY <3>2 DEF ReceiveCommit, Ok
      <3>3. ASSUME Head(casts[s][s]) = Ok(c), ReceiveOk(s, s)
            PROVE  recv'[s].at = "delete_digest" /\ recv'[s].txn = c
        <4>1. PICK t \in Clients : /\ Head(casts[s][s]) = Ok(t)
                                   /\ recv'[s].at = "delete_digest" /\ recv'[s].txn = t
          BY <1>1, <3>3, OkHeard
        <4>2. t = c
          BY <3>3, <4>1, NamesDiffer
        <4> QED BY <4>1, <4>2
      <3> QED BY <3>1, <3>2, <3>3
    <2>4. CASE recv[s].at \in {"delete_digest", "delete_transaction"} /\ recv[s].txn = c
      <3>1. ASSUME NEW x \in Sums, ReceiverThread(x)
            PROVE  recv'[s].at \in {"delete_digest", "delete_transaction"} /\ recv'[s].txn = c
        <4>1. CASE x # s
          BY <1>1, <2>4, <3>1, <4>1, RecvElsewhere
        <4>2. CASE x = s /\ DeleteClientDigest(s)
          BY <1>1, <2>4, <4>2, Deletions
        <4>3. CASE x = s /\ DeleteTransaction(s)
          <5>1. transactions' = [transactions EXCEPT ![s][c] = NoStatus]
            BY <2>4, <4>3 DEF DeleteTransaction
          <5>2. transactions'[s][c] = NoStatus
            BY <1>1, <5>1 DEF TypeOK
          <5> QED BY <5>2 DEF NoStatus
        <4>4. x = s => DeleteClientDigest(s) \/ DeleteTransaction(s)
          BY <2>4, <3>1 DEF ReceiverThread, ReceiveCommit, ReceiveTryingReady, ReceiveOk,
             SnapshotDigest, AnswerCommit, CheckCompletion, DeleteTransactionInfo
        <4> QED BY <4>1, <4>2, <4>3, <4>4
      <3> QED BY <2>4, <3>1, WhoWrites
    <2> QED BY <1>2, <1>4, <2>1, <2>2, <2>3, <2>4 DEF OkPending
  <1> QED BY <1>3, <1>4

-----------------------------------------------------------------------------
(* The count covers what is digested.                                      *)

\* A digested record whose worker is past its snapshot is counted, or on its
\* way to the count, and in no other worker's hands.
Placed(own, c) ==
    \A s \in Sums : \A r \in DigestOf(s, c) :
        CommitDue(s, c) \/ (own[r] # Nobody /\ \A x \in Sums : own[r] = Hand(x) => x = s)

Covered ==
    \A c \in Clients : NoLoss /\ ~OkIssued(c) =>
        \E own : Backs(own, Claims(c), FALSE) /\ Placed(own, c)

CountInv ==
    /\ OrderInv /\ ShipInv /\ Listening
    /\ FlushingHasFlushed /\ Somewhere /\ Expects
    /\ Known /\ OpenUntilOk /\ CheckPending /\ OkPending
    /\ Covered

\* No snapshot of the records of c is taken.
NoSnapshot(c) == \A s \in Sums : ~(SnapshotDigest(s) /\ recv[s].txn = c)

\* The digests lose records at most.
LEMMA PlacedKept ==
    ASSUME TypeOK, Listening, [Next]_vars, NoLoss', NEW c \in Clients,
           NoSnapshot(c),
           NEW own, NEW new, Placed(own, c), own = new \/ Drops(own, new, Nobody),
           \A s \in Sums : digestPool'[s] \subseteq digestPool[s]
    PROVE  Placed(new, c)'
  <1> SUFFICES ASSUME NEW s \in Sums, NEW r \in DigestOf(s, c)', ~CommitDue(s, c)'
               PROVE  new[r] # Nobody /\ \A x \in Sums : new[r] = Hand(x) => x = s
    BY DEF Placed
  <1>1. r \in DigestOf(s, c) /\ r \in Records
    BY DEF DigestOf, RecordsOf
  <1>2. ~CommitDue(s, c)
    BY DueStays DEF NoSnapshot
  <1>3. own[r] # Nobody /\ \A x \in Sums : own[r] = Hand(x) => x = s
    BY <1>1, <1>2 DEF Placed
  <1> QED BY <1>1, <1>3 DEF Drops

LEMMA CoveredQuiet ==
    ASSUME TypeOK, Listening, [Next]_vars, NoLoss', NEW c \in Clients, NoSnapshot(c),
           NEW own, Backs(own, Claims(c), FALSE), Placed(own, c),
           NEW s \in Sums,
           \/ \E r \in Records : PublishRecord(r, s)
           \/ \E t \in Clients : PublishEof(t, s) \/ BeginTransaction(s, t)
           \/ FinishEof(s)
           \/ \E src \in Sums : ReceiveCommit(s, src) \/ ReceiveOk(s, src)
           \/ CheckCompletion(s)
           \/ DeleteClientDigest(s)
           \/ DeleteTransactionInfo(s)
           \/ Listen(s)
    PROVE  \E new : Backs(new, Claims(c)', FALSE) /\ Placed(new, c)'
  <1>1. Backs(own, Claims(c)', FALSE)
    BY QuietClaims
  <1>2. \A x \in Sums : digestPool'[x] \subseteq digestPool[x]
    <2>1. ASSUME DeleteClientDigest(s), NEW x \in Sums
          PROVE  digestPool'[x] \subseteq digestPool[x]
      BY <2>1 DEF DeleteClientDigest, TypeOK
    <2> QED BY <2>1 DEF PublishRecord, PublishEof, BeginTransaction, FinishEof, ReceiveCommit,
              ReceiveOk, CheckCompletion, DeleteTransactionInfo, Listen, senderFrame
  <1> QED BY <1>1, <1>2, PlacedKept

LEMMA CoveredDigest ==
    ASSUME TypeOK, Listening, [Next]_vars, NoLoss', NEW c \in Clients, NoSnapshot(c), Places,
           NEW own, Backs(own, Claims(c), FALSE), Placed(own, c),
           NEW s \in Sums, NEW r \in Records, DigestData(s, r)
    PROVE  \E new : Backs(new, Claims(c)', FALSE) /\ Placed(new, c)'
  <1>1. /\ ClientOf[r] # c => Backs(own, Claims(c)', FALSE)
        /\ ClientOf[r] = c => Backs([own EXCEPT ![r] = Hand(s)], Claims(c)', FALSE)
    BY ClaimDigested
  <1>2. \A x \in Sums : CommitDue(x, c) => CommitDue(x, c)'
    BY DueStays DEF NoSnapshot
  <1>3. \A x \in Sums : digestPool'[x] = IF x = s THEN digestPool[x] \cup {r} ELSE digestPool[x]
    BY DEF DigestData, TypeOK
  <1>4. own \in [Records -> Holders]
    BY DEF Backs
  <1>5. CASE ClientOf[r] # c
    <2>1. \A x \in Sums : DigestOf(x, c)' = DigestOf(x, c)
      BY <1>3, <1>5 DEF DigestOf, RecordsOf
    <2>2. Placed(own, c)'
      BY <1>2, <2>1 DEF Placed
    <2> QED BY <1>1, <1>5, <2>2
  <1>6. CASE ClientOf[r] = c
    <2>1. PICK new : new = [own EXCEPT ![r] = Hand(s)]
      OBVIOUS
    <2>2. r \in inbox[s]
      BY DEF DigestData
    <2>3. \A x \in Sums : r \notin digestPool[x]
      BY <2>2 DEF Places
    <2>4. new[r] = Hand(s) /\ \A q \in Records : q # r => new[q] = own[q]
      BY <1>4, <2>1
    <2>5. ASSUME NEW x \in Sums, NEW q \in DigestOf(x, c)', ~CommitDue(x, c)'
          PROVE  new[q] # Nobody /\ \A y \in Sums : new[q] = Hand(y) => y = x
      <3>1. q \in Records /\ q \in digestPool'[x] /\ q \in RecordsOf(c)
        BY <2>5 DEF DigestOf, RecordsOf
      <3>2. CASE q = r
        <4>1. x = s
          BY <1>3, <2>3, <3>1, <3>2
        <4> QED BY <2>4, <3>2, <4>1, HandsApart, HoldersDiffer
      <3>3. CASE q # r
        <4>1. q \in DigestOf(x, c)
          <5>1. digestPool'[x] \subseteq digestPool[x] \cup {r}
            BY <1>3, Zenon
          <5>2. q \in digestPool[x]
            BY <3>1, <3>3, <5>1
          <5> QED BY <3>1, <5>2 DEF DigestOf
        <4>2. ~CommitDue(x, c)
          BY <1>2, <2>5
        <4>3. own[q] # Nobody /\ \A y \in Sums : own[q] = Hand(y) => y = x
          BY <4>1, <4>2 DEF Placed
        <4> QED BY <2>4, <3>1, <3>3, <4>3
      <3> QED BY <3>2, <3>3
    <2>6. Placed(new, c)'
      BY <2>5 DEF Placed
    <2> QED BY <1>1, <1>6, <2>1, <2>6
  <1> QED BY <1>5, <1>6

LEMMA CoveredReport ==
    ASSUME TypeOK, Listening, [Next]_vars, NoLoss', NEW c \in Clients, NoSnapshot(c),
           Known, ~OkIssued(c),
           NEW own, Backs(own, Claims(c), FALSE), Placed(own, c),
           NEW s \in Sums, ReportProgress(s)
    PROVE  \E new : Backs(new, Claims(c)', FALSE) /\ Placed(new, c)'
  <1>1. PICK k \in Holders :
            /\ Backs(Handed(own, Merge(Hand(s), k)), Claims(c)', FALSE)
            /\ IF masterOf[s][data[s].txn] = NoSum THEN k = Nobody
               ELSE \E i \in Positive : k = InQueue(s, i)
    BY ClaimReported
  <1>2. PICK new : new = Handed(own, Merge(Hand(s), k))
    OBVIOUS
  <1>3. own \in [Records -> Holders]
    BY DEF Backs
  <1>4. \A r \in Records : new[r] = IF own[r] = Hand(s) THEN k ELSE own[r]
    BY <1>2, <1>3 DEF Handed, Merge
  <1>5. ASSUME NEW x \in Sums, NEW r \in DigestOf(x, c)', ~CommitDue(x, c)'
        PROVE  new[r] # Nobody /\ \A y \in Sums : new[r] = Hand(y) => y = x
    <2>1. r \in DigestOf(x, c) /\ r \in Records
      BY <1>5 DEF DigestOf, RecordsOf, ReportProgress
    <2>2. ~CommitDue(x, c)
      BY <1>5, DueStays DEF NoSnapshot
    <2>3. own[r] # Nobody /\ \A y \in Sums : own[r] = Hand(y) => y = x
      BY <2>1, <2>2 DEF Placed
    <2>4. CASE own[r] # Hand(s)
      BY <1>4, <2>1, <2>3, <2>4
    <2>5. CASE own[r] = Hand(s)
      <3>1. x = s /\ new[r] = k
        BY <1>4, <2>1, <2>3, <2>5
      <3>2. Claims(c)[Hand(s)] # 0
        <4>1. Hand(s) \in Claimants
          BY IsHolder
        <4> QED BY <2>1, <2>5, <4>1, Unclaimed
      <3>3. data[s].txn = c
        BY <3>2, ClaimOf DEF HandClaim
      <3>4. NoLoss
        BY LossStays
      <3>5. masterOf[s][c] \in Sums
        BY <2>2, <3>1, <3>4 DEF Known, CommitDue
      <3>6. masterOf[s][c] # NoSum
        BY <3>5, SumsAssumption
      <3>7. PICK i \in Positive : k = InQueue(s, i)
        BY <1>1, <3>3, <3>6
      <3> QED BY <3>1, <3>7, HandsApart, HoldersDiffer
    <2> QED BY <2>4, <2>5
  <1>6. Placed(new, c)'
    BY <1>5 DEF Placed
  <1> QED BY <1>1, <1>2, <1>6

LEMMA CoveredSnapshot ==
    ASSUME TypeOK, Listening, [Next]_vars, NoLoss', NEW c \in Clients,
           NEW own, Backs(own, Claims(c), FALSE), Placed(own, c),
           NEW s \in Sums, SnapshotDigest(s), recv[s].txn = c
    PROVE  \E new : Backs(new, Claims(c)', FALSE) /\ Placed(new, c)'
  <1>1. PICK new : new = [r \in Records |-> IF r \in DigestOf(s, c) THEN Answer(s) ELSE own[r]]
    OBVIOUS
  <1>2. Backs(new, Claims(c)', FALSE)
    BY <1>1, ClaimSnapshot
  <1>3. ASSUME NEW x \in Sums, NEW r \in DigestOf(x, c)', ~CommitDue(x, c)'
        PROVE  new[r] # Nobody /\ \A y \in Sums : new[r] = Hand(y) => y = x
    <2>1. r \in DigestOf(x, c) /\ r \in Records
      BY <1>3 DEF DigestOf, RecordsOf, SnapshotDigest
    <2>2. CASE r \in DigestOf(s, c)
      BY <1>1, <2>1, <2>2, HandsApart, HoldersDiffer
    <2>3. CASE r \notin DigestOf(s, c)
      <3>1. x # s
        BY <2>1, <2>3
      <3>2. ~SnapshotDigest(x)
        <4>1. ASSUME SnapshotDigest(x) PROVE FALSE
          <5>1. recv[x].at = "snapshot" /\ recv' = [recv EXCEPT ![x].at = "answer",
                    ![x].processed = Cardinality(DigestOf(x, recv[x].txn))]
            BY <4>1 DEF SnapshotDigest
          <5>2. recv'[x].at = "answer"
            BY <5>1, RecvKept DEF TypeOK
          <5>3. recv'[x] = recv[x]
            BY <3>1, RecvElsewhere DEF ReceiverThread
          <5> QED BY <5>1, <5>2, <5>3
        <4> QED BY <4>1
      <3>3. ~CommitDue(x, c)
        BY <1>3, <3>2, DueStays
      <3>4. own[r] # Nobody /\ \A y \in Sums : own[r] = Hand(y) => y = x
        BY <2>1, <3>3 DEF Placed
      <3> QED BY <1>1, <2>1, <2>3, <3>4
    <2> QED BY <2>2, <2>3
  <1>4. Placed(new, c)'
    BY <1>3 DEF Placed
  <1> QED BY <1>2, <1>4

LEMMA CoveredMoved ==
    ASSUME OrderInv, Listening, [Next]_vars, NoLoss', NEW c \in Clients, NoSnapshot(c),
           FlushingHasFlushed, OpenUntilOk, ~OkIssued(c),
           NEW own, Backs(own, Claims(c), FALSE), Placed(own, c),
           NEW s \in Sums,
           \/ \E src \in Sums : ReceiveTryingReady(s, src)
           \/ AnswerCommit(s)
           \/ DeleteTransaction(s)
           \/ SenderThread(s)
    PROVE  \E new : Backs(new, Claims(c)', FALSE) /\ Placed(new, c)'
  <1>1. TypeOK /\ SingleMaster /\ NoLoss
    BY LossStays DEF OrderInv, MasterInv
  <1>2. \A x \in Sums : digestPool'[x] \subseteq digestPool[x]
    BY DEF ReceiveTryingReady, AnswerCommit, DeleteTransaction, SenderThread,
           PublishBroadcast, PublishDirect, SendBroadcastFails, SendDirectFails, senderFrame
  <1>3. ASSUME NEW new, own = new \/ Drops(own, new, Nobody) PROVE Placed(new, c)'
    BY <1>1, <1>2, <1>3, PlacedKept
  <1>4. CASE AnswerCommit(s)
    <2>1. PICK new : Backs(new, Claims(c)', FALSE) /\ Drops(own, new, Nobody)
      BY <1>1, <1>4, ClaimAnswered
    <2> QED BY <1>3, <2>1
  <1>5. CASE DeleteTransaction(s)
    <2>1. HasFlushed(s, recv[s].txn)
      BY <1>1, <1>5, Deletions DEF FlushingHasFlushed
    <2>2. recv[s].txn # c
      BY <2>1, IssuedMeans
    <2>3. PICK new : /\ Backs(new, Claims(c)', FALSE)
                     /\ IF recv[s].txn = c THEN Drops(own, new, Counted(s)) ELSE new = own
      BY <1>1, <1>5, ClaimForgotten
    <2> QED BY <1>3, <2>2, <2>3
  <1>6. CASE SenderThread(s)
    <2>1. PICK new :
              /\ Backs(new, Claims(c)', FALSE)
              /\ \/ Drops(own, new, Nobody)
                 \/ lost'
      BY <1>1, <1>6, ClaimSent
    <2> QED BY <1>3, <2>1 DEF NoLoss
  <1>7. ASSUME NEW src \in Sums, ReceiveTryingReady(s, src)
        PROVE  \E new : Backs(new, Claims(c)', FALSE) /\ Placed(new, c)'
    <2>1. PICK new :
              /\ Backs(new, Claims(c)', FALSE)
              /\ \/ Drops(own, new, Nobody)
                 \/ /\ ~transactions[s][c].open
                    /\ Head(directs[src][s]).txn = c
                    /\ \E g \in Claimants : Drops(own, new, g)
      BY <1>1, <1>7, ClaimReceived
    <2>2. CASE Drops(own, new, Nobody)
      BY <1>3, <2>1, <2>2
    <2>3. CASE ~transactions[s][c].open /\ Head(directs[src][s]).txn = c
      <3>1. Head(directs[src][s]) \in Elements(directs[src][s])
        BY <1>1, <1>7, TakeDirect DEF ReceiveTryingReady
      <3>2. IsTakenForMaster(s, c)
        BY <2>3, <3>1 DEF IsTakenForMaster, InFlightFor
      <3>3. Unstarted(c)
        <4>1. ASSUME NEW x \in Sums, transactions[x][c].open PROVE FALSE
          <5>1. IsTakenForMaster(x, c)
            BY <4>1 DEF IsTakenForMaster
          <5>2. x = s
            BY <1>1, <3>2, <5>1 DEF SingleMaster
          <5> QED BY <2>3, <4>1, <5>2
        <4> QED BY <1>1, <4>1 DEF OpenUntilOk
      <3>4. Unstarted(c)'
        BY <1>7, <3>3 DEF ReceiveTryingReady, dataPlane, Unstarted
      <3>5. \A x \in Sums : CommitDue(x, c)'
        BY <3>4 DEF CommitDue, CommitComing
      <3>6. Placed(new, c)'
        BY <3>5 DEF Placed
      <3> QED BY <2>1, <3>6
    <2> QED BY <2>1, <2>2, <2>3
  <1> QED BY <1>4, <1>5, <1>6, <1>7

LEMMA CoveredStep ==
    ASSUME CountInv, [Next]_vars
    PROVE  Covered'
  <1>1. /\ OrderInv /\ Places /\ Listening /\ TypeOK
        /\ FlushingHasFlushed /\ Known /\ OpenUntilOk
    BY DEF CountInv, ShipInv
  <1> SUFFICES ASSUME NEW c \in Clients, NoLoss', ~OkIssued(c)'
               PROVE  \E new : Backs(new, Claims(c)', FALSE) /\ Placed(new, c)'
    BY DEF Covered
  <1>2. NoLoss /\ ~OkIssued(c)
    BY <1>1, LossStays, OkStays
  <1>3. PICK own : Backs(own, Claims(c), FALSE) /\ Placed(own, c)
    BY <1>2 DEF CountInv, Covered
  <1>4. ASSUME NEW s \in Sums, SnapshotDigest(s), recv[s].txn = c
        PROVE  \E new : Backs(new, Claims(c)', FALSE) /\ Placed(new, c)'
    BY <1>1, <1>3, <1>4, CoveredSnapshot
  <1>5. CASE NoSnapshot(c)
    <2>1. ASSUME NEW s \in Sums,
                 \/ \E r \in Records : PublishRecord(r, s)
                 \/ \E t \in Clients : PublishEof(t, s) \/ BeginTransaction(s, t)
                 \/ FinishEof(s)
                 \/ \E src \in Sums : ReceiveCommit(s, src) \/ ReceiveOk(s, src)
                 \/ CheckCompletion(s)
                 \/ DeleteClientDigest(s)
                 \/ DeleteTransactionInfo(s)
                 \/ Listen(s)
          PROVE  \E new : Backs(new, Claims(c)', FALSE) /\ Placed(new, c)'
      BY <1>1, <1>3, <1>5, <2>1, CoveredQuiet
    <2>2. ASSUME NEW s \in Sums, NEW r \in Records, DigestData(s, r)
          PROVE  \E new : Backs(new, Claims(c)', FALSE) /\ Placed(new, c)'
      BY <1>1, <1>3, <1>5, <2>2, CoveredDigest
    <2>3. ASSUME NEW s \in Sums, ReportProgress(s)
          PROVE  \E new : Backs(new, Claims(c)', FALSE) /\ Placed(new, c)'
      BY <1>1, <1>2, <1>3, <1>5, <2>3, CoveredReport
    <2>4. ASSUME NEW s \in Sums,
                 \/ \E src \in Sums : ReceiveTryingReady(s, src)
                 \/ AnswerCommit(s)
                 \/ DeleteTransaction(s)
                 \/ SenderThread(s)
          PROVE  \E new : Backs(new, Claims(c)', FALSE) /\ Placed(new, c)'
      BY <1>1, <1>2, <1>3, <1>5, <2>4, CoveredMoved
    <2>5. ASSUME NEW s \in Sums, SnapshotDigest(s)
          PROVE  \E new : Backs(new, Claims(c)', FALSE) /\ Placed(new, c)'
      <3>1. Backs(own, Claims(c)', FALSE)
        BY <1>1, <1>3, <1>5, <2>5, ClaimSnapshot DEF NoSnapshot
      <3>2. \A x \in Sums : digestPool'[x] \subseteq digestPool[x]
        BY <2>5 DEF SnapshotDigest
      <3>3. Placed(own, c)'
        BY <1>1, <1>3, <1>5, <3>2, PlacedKept
      <3> QED BY <3>1, <3>3
    <2>6. CASE UNCHANGED vars
      <3>1. Backs(own, Claims(c)', FALSE)
        BY <1>3, <2>6, SameClaims, BackedKept DEF vars
      <3>2. \A x \in Sums : digestPool'[x] \subseteq digestPool[x]
        BY <2>6 DEF vars
      <3>3. Placed(own, c)'
        BY <1>1, <1>3, <1>5, <3>2, PlacedKept
      <3> QED BY <3>1, <3>3
    <2> QED BY <2>1, <2>2, <2>3, <2>4, <2>5, <2>6
        DEF Next, Gateway, DataThread, ReceiverThread
  <1> QED BY <1>4, <1>5 DEF NoSnapshot

LEMMA CountStep == CountInv /\ [Next]_vars => CountInv'
  <1> SUFFICES ASSUME CountInv, [Next]_vars PROVE CountInv'
    OBVIOUS
  <1>1. /\ OrderInv /\ ShipInv /\ TypeOK /\ Listening
        /\ FlushingHasFlushed /\ Somewhere /\ Expects
        /\ Known /\ OpenUntilOk /\ CheckPending /\ OkPending
    BY DEF CountInv, ShipInv
  <1>2. OrderInv' /\ ShipInv' /\ Listening'
    BY <1>1, OrderStep, ShipStep, ListeningStep
  <1>3. FlushingHasFlushed' /\ Somewhere' /\ Expects'
    BY <1>1, FlushingStep, SomewhereStep, ExpectsStep
  <1>4. Known' /\ OpenUntilOk' /\ CheckPending' /\ OkPending'
    BY <1>1, KnownStep, OpenStep, CheckStep, OkStep
  <1>5. Covered'
    BY CoveredStep
  <1> QED BY <1>2, <1>3, <1>4, <1>5 DEF CountInv

LEMMA CountInit == Init => CountInv
  <1> SUFFICES ASSUME Init PROVE CountInv
    OBVIOUS
  <1>1. OrderInv /\ ShipInv /\ Listening /\ TypeOK
    BY OrderInit, ShipInit, TypeInit DEF Init, Listening
  <1>2. \A c \in Clients : Unstarted(c)
    BY DEF Init, Unstarted
  <1>3. \A s \in Sums, c \in Clients : CommitComing(s, c) /\ CommitDue(s, c)
    BY <1>2 DEF CommitComing, CommitDue
  <1>4. \A s \in Sums, c \in Clients : ~transactions[s][c].open /\ transactions[s][c].current = 0
    BY DEF Init, NoStatus
  <1>5. \A s \in Sums : recv[s].at = "idle"
    BY DEF Init, RecvIdle
  <1>6. FlushingHasFlushed /\ Somewhere /\ Expects
    BY <1>4, <1>5 DEF Init, FlushingHasFlushed, Flushing, Somewhere, Expects
  <1>7. Known /\ OpenUntilOk /\ CheckPending /\ OkPending
    BY <1>2, <1>3, <1>4 DEF Known, OpenUntilOk, CheckPending, OkPending, DigestionComplete
  <1>8. ASSUME NEW c \in Clients
        PROVE  \E own : Backs(own, Claims(c), FALSE) /\ Placed(own, c)
    <2>1. PICK own : own = [r \in Records |-> Nobody]
      OBVIOUS
    <2>2. own \in [Records -> Holders]
      BY <2>1, IsHolder
    <2>3. ASSUME NEW h \in Claimants PROVE Fits(FALSE, Claims(c)[h], Of(own, h))
      <3>1. Of(own, h) = {}
        BY <2>1, IsHolder DEF Of
      <3>2. Cardinality(Of(own, h)) = 0
        BY <3>1, FS_EmptySet
      <3>3. Claims(c)[h] \in Nat
        BY <1>1, ClaimNat
      <3> QED BY <3>2, <3>3 DEF Fits
    <2>4. Backs(own, Claims(c), FALSE)
      BY <2>2, <2>3 DEF Backs
    <2>5. Placed(own, c)
      BY <1>3 DEF Placed
    <2> QED BY <2>4, <2>5
  <1>9. Covered
    BY <1>8 DEF Covered
  <1> QED BY <1>1, <1>6, <1>7, <1>9 DEF CountInv

\* When the closing of a client is settled and nothing was lost, its records
\* are all in the count of the one transaction that is open.
LEMMA CountSettled ==
    ASSUME CountInv, NEW c \in Clients, Settled(c), NoLoss,
           NEW s \in Sums, transactions[s][c].open
    PROVE  transactions[s][c].current > transactions[s][c].expected
  <1>1. /\ TypeOK /\ SingleMaster /\ Somewhere /\ Expects
        /\ CheckPending /\ OkPending /\ Covered
    BY DEF CountInv, OrderInv, MasterInv
  <1>2. /\ \A x \in Sums : c \notin eofInbox[x] /\ data[x].txn # c /\ recv[x].txn # c
        /\ \A x \in Sums : \A e \in Elements(senderQueue[x]) : e.message.txn # c
        /\ \A x, d \in Sums : /\ \A msg \in Elements(casts[x][d]) : msg.txn # c
                              /\ \A msg \in Elements(directs[x][d]) : msg.txn # c
    BY DEF Settled
  <1>3. /\ \A x \in Sums : ~Queued(x, Ok(c)) /\ \A d \in Sums : ~InCast(x, d, Ok(c))
        /\ \A x, m \in Sums : ~Queued(x, Commit(c, m)) /\ \A d \in Sums : ~InCast(x, d, Commit(c, m))
    <2>1. Ok(c).txn = c /\ Broadcast(Ok(c)).message = Ok(c)
      BY DEF Ok, Broadcast
    <2>2. \A m \in Sums : Commit(c, m).txn = c /\ Broadcast(Commit(c, m)).message = Commit(c, m)
      BY DEF Commit, Broadcast
    <2> QED BY <1>2, <2>1, <2>2 DEF Queued, InCast
  <1>4. ~OkIssued(c)
    BY <1>1, <1>2, <1>3 DEF OkPending
  <1>5. \A x \in Sums : ~CommitDue(x, c)
    <2>1. ~Unstarted(c)
      BY <1>2 DEF Settled, Unstarted
    <2> QED BY <1>2, <1>3, <2>1 DEF CommitDue, CommitComing
  <1>6. PICK own : Backs(own, Claims(c), FALSE) /\ Placed(own, c)
    BY <1>1, <1>4 DEF Covered
  <1>7. \A r \in RecordsOf(c) : own[r] # Nobody
    <2> SUFFICES ASSUME NEW r \in RecordsOf(c) PROVE own[r] # Nobody
      OBVIOUS
    <2>1. r \in Records /\ ClientOf[r] = c
      BY DEF RecordsOf
    <2>2. r \notin unsent /\ \A x \in Sums : r \notin inbox[x]
      BY DEF Settled
    <2>3. \A x \in Sums : ~HasFlushed(x, c)
      BY <1>4, IssuedMeans
    <2>4. PICK x \in Sums : r \in digestPool[x]
      BY <1>1, <2>1, <2>2, <2>3 DEF Somewhere
    <2>5. r \in DigestOf(x, c)
      BY <2>4 DEF DigestOf
    <2> QED BY <1>5, <1>6, <2>5 DEF Placed
  <1>8. ASSUME NEW h \in Claimants, Claims(c)[h] # 0
        PROVE  h = Counted(s)
    <2>1. ASSUME NEW x \in Sums, h = Hand(x) PROVE FALSE
      BY <1>2, <1>8, <2>1, ClaimOf DEF HandClaim
    <2>2. ASSUME NEW x \in Sums, h = Answer(x) PROVE FALSE
      BY <1>2, <1>8, <2>2, ClaimOf DEF AnswerClaim
    <2>3. ASSUME NEW x \in Sums, h = Counted(x) PROVE x = s
      <3>1. transactions[x][c].current # 0
        BY <1>8, <2>3, ClaimOf
      <3>2. transactions[x][c].open
        BY <1>1, <3>1 DEF Expects
      <3> QED BY <1>1, <3>2 DEF SingleMaster, IsTakenForMaster
    <2>4. ASSUME NEW x \in Sums, NEW i \in Positive, h = InQueue(x, i) PROVE FALSE
      <3>1. QueueClaim(c, senderQueue[x], i) # 0
        BY <1>8, <2>4, ClaimOf
      <3>2. i \in DOMAIN senderQueue[x] /\ senderQueue[x][i].message.txn = c
        BY <3>1 DEF QueueClaim, EnvelopeClaim
      <3> QED BY <1>2, <3>2 DEF Elements
    <2>5. ASSUME NEW x \in Sums, NEW d \in Sums, NEW i \in Positive, h = InFlight(x, d, i)
          PROVE  FALSE
      <3>1. FlightClaim(c, directs[x][d], i) # 0
        BY <1>8, <2>5, ClaimOf
      <3>2. i \in DOMAIN directs[x][d] /\ directs[x][d][i].txn = c
        BY <3>1 DEF FlightClaim, ReportClaim
      <3> QED BY <1>2, <3>2 DEF Elements
    <2> QED BY <2>1, <2>2, <2>3, <2>4, <2>5, HolderKinds
  <1>9. RecordsOf(c) \subseteq Of(own, Counted(s))
    <2> SUFFICES ASSUME NEW r \in RecordsOf(c) PROVE r \in Of(own, Counted(s))
      OBVIOUS
    <2>1. r \in Records
      BY DEF RecordsOf
    <2>2. own[r] \in Claimants
      BY <1>6, <1>7, <2>1 DEF Backs, Holders
    <2>3. Claims(c)[own[r]] # 0
      BY <1>6, <2>1, <2>2, Unclaimed
    <2> QED BY <1>8, <2>1, <2>2, <2>3 DEF Of
  <1>10. Cardinality(RecordsOf(c)) <= transactions[s][c].current
    <2>1. IsFiniteSet(Of(own, Counted(s))) /\ Cardinality(Of(own, Counted(s))) \in Nat
      BY OfFinite
    <2>2. Cardinality(RecordsOf(c)) <= Cardinality(Of(own, Counted(s)))
      BY <1>9, <2>1, FS_Subset
    <2>3. Counted(s) \in Claimants
      BY IsHolder
    <2>4. Cardinality(Of(own, Counted(s))) <= Claims(c)[Counted(s)]
      BY <1>6, <2>3 DEF Backs, Fits
    <2>5. Claims(c)[Counted(s)] = transactions[s][c].current
      BY ClaimOf
    <2>6. Cardinality(RecordsOf(c)) \in Nat /\ transactions[s][c].current \in Nat
      <3>1. RecordsOf(c) \in SUBSET Records
        BY DEF RecordsOf
      <3>2. transactions[s][c] \in Statuses
        BY <1>1 DEF TypeOK
      <3> QED BY <3>1, <3>2, DigestCount DEF Statuses
    <2> QED BY <2>1, <2>2, <2>4, <2>5, <2>6
  <1>11. transactions[s][c].expected = Cardinality(RecordsOf(c))
    BY <1>1 DEF Expects
  <1>12. transactions[s][c].current # transactions[s][c].expected
    BY <1>1, <1>2, <1>4 DEF CheckPending, DigestionComplete
  <1>13. transactions[s][c].current \in Nat /\ transactions[s][c].expected \in Nat
    <2>1. transactions[s][c] \in Statuses
      BY <1>1 DEF TypeOK
    <2> QED BY <2>1 DEF Statuses
  <1> QED BY <1>10, <1>11, <1>12, <1>13

\* As long as no control message is lost no record escapes the count, for any
\* number of workers, clients and records: a transaction that never completes
\* has counted too much.
THEOREM NoUndercountHolds == Spec => []NoUndercount
  <1>1. CountInv => NoUndercount
    BY CountSettled DEF NoUndercount, NoLoss
  <1> QED BY <1>1, CountInit, CountStep, PTL DEF Spec
-----------------------------------------------------------------------------
(* The schedules in which the two handlers of a worker do not overlap      *)
(* (AtomicSpec): now none of the claimants claims a record it does not     *)
(* have.  A record cannot be counted twice because its worker reports it   *)
(* alone only after its snapshot is taken: the Commit of a client exists   *)
(* once, so a worker that knows the master has no Commit left to hear, and *)
(* its receiver is idle while its data thread is not.  A complete count    *)
(* then counts every record of the client, all digested.                   *)


-----------------------------------------------------------------------------
(* Nothing old comes back: what is not there before a step and is there    *)
(* after it.                                                               *)

LEMMA StartOld ==
    ASSUME TypeOK, [Next]_vars, NEW c \in Clients, Unstarted(c)'
    PROVE  Unstarted(c)
  <1>1. CASE UNCHANGED << ended, eofInbox >>
    BY <1>1 DEF Unstarted
  <1>2. ASSUME NEW s \in Sums, NEW t \in Clients, PublishEof(t, s) PROVE Unstarted(c)
    BY <1>2 DEF Unstarted, PublishEof, TypeOK
  <1>3. ASSUME NEW s \in Sums, NEW t \in Clients, BeginTransaction(s, t) PROVE Unstarted(c)
    BY <1>3 DEF Unstarted, BeginTransaction, TypeOK
  <1> QED BY <1>1, <1>2, <1>3, WhoWrites

\* A Commit is queued by the master, when the transaction begins.
LEMMA QueuedOld ==
    ASSUME TypeOK, [Next]_vars, NEW s \in Sums, NEW c \in Clients, NEW m \in Sums,
           Queued(s, Commit(c, m))', ~Queued(s, Commit(c, m))
    PROVE  BeginTransaction(s, c)
  <1>1. ~QueuesKept
    BY DEF QueuesKept
  <1>2. ASSUME NEW x \in Sums, NEW t \in Clients, BeginTransaction(x, t),
               \A d \in Sums : \A n :
                  Queued(d, n)' => Queued(d, n) \/ (d = x /\ n = Commit(t, x))
        PROVE  BeginTransaction(s, c)
    <2>1. s = x /\ Commit(c, m) = Commit(t, x)
      BY <1>2
    <2>2. c = t
      BY <2>1, NamesDiffer
    <2> QED BY <1>2, <2>1, <2>2
  <1>3. ASSUME NEW x \in Sums, NEW t \in Clients,
               \A d \in Sums : \A n : Queued(d, n)' => Queued(d, n) \/ (d = x /\ n = Ok(t))
        PROVE  FALSE
    BY <1>3, KindsDiffer
  <1> QED BY <1>1, <1>2, <1>3, QueueStep

\* A message enters a channel when its sender takes it from its queue.
LEMMA SentOld ==
    ASSUME TypeOK, [Next]_vars, NEW s \in Sums, NEW d \in Sums, NEW msg,
           InCast(s, d, msg)', ~InCast(s, d, msg)
    PROVE  /\ senderQueue[s] # <<>> /\ Head(senderQueue[s]) = Broadcast(msg) /\ Taken(s)
           /\ Queued(s, msg)
           /\ UNCHANGED << recv, masterOf >>
           /\ \E reached : DeliverCast(s, reached, msg)
  <1>1. casts' # casts
    BY DEF InCast
  <1>2. ASSUME NEW x \in Sums, NEW src \in Sums, ReceiveCommit(x, src) \/ ReceiveOk(x, src)
        PROVE  FALSE
    <2>1. casts[src][x] # <<>> /\ casts' = [casts EXCEPT ![src][x] = Tail(@)]
      BY <1>2 DEF ReceiveCommit, ReceiveOk
    <2>2. Elements(casts'[s][d]) \subseteq Elements(casts[s][d])
      BY <2>1, TakeCast
    <2> QED BY <2>2 DEF InCast
  <1>3. PICK x \in Sums : PublishBroadcast(x) \/ SendBroadcastFails(x)
    BY <1>1, <1>2, WhoWrites
  <1>4. /\ senderQueue[x] # <<>> /\ Head(senderQueue[x]).mode = "broadcast" /\ Taken(x)
        /\ UNCHANGED << recv, masterOf >>
    BY <1>3 DEF PublishBroadcast, SendBroadcastFails, senderFrame
  <1>5. PICK m \in Commits \cup Oks : m = Head(senderQueue[x]).message
    BY <1>4, SenderHead, EnvelopeFields
  <1>6. PICK reached : DeliverCast(x, reached, m)
    BY <1>1, <1>3, <1>5 DEF PublishBroadcast, SendBroadcastFails
  <1>7. \A a, b \in Sums : Elements(casts'[a][b]) =
            IF a = x /\ b \in reached THEN Elements(casts[a][b]) \cup {m}
            ELSE Elements(casts[a][b])
    BY <1>6, Cast
  <1>8. msg \in Elements(casts'[s][d]) /\ msg \notin Elements(casts[s][d])
    BY DEF InCast
  <1>9. s = x /\ msg = m
    BY <1>7, <1>8, Zenon
  <1>10. Head(senderQueue[x]) \in Elements(senderQueue[x]) /\ Head(senderQueue[x]) \in Envelopes
    BY <1>4, Dequeue, SenderHead
  <1>11. Head(senderQueue[x]) = Broadcast(m)
    BY <1>4, <1>5, <1>10 DEF Envelopes, Broadcast
  <1>12. Queued(s, msg)
    BY <1>9, <1>10, <1>11 DEF Queued
  <1> QED BY <1>4, <1>6, <1>9, <1>11, <1>12

LEMMA ComingOld ==
    ASSUME TypeOK, [Next]_vars, NEW s \in Sums, NEW c \in Clients, CommitComing(s, c)'
    PROVE  CommitComing(s, c)
  <1>1. CASE Unstarted(c)'
    BY <1>1, StartOld DEF CommitComing
  <1>2. ASSUME NEW src \in Sums, NEW m \in Sums, Queued(src, Commit(c, m))'
        PROVE  CommitComing(s, c)
    <2>1. CASE Queued(src, Commit(c, m))
      BY <2>1 DEF CommitComing
    <2>2. CASE BeginTransaction(src, c)
      BY <2>2 DEF CommitComing, Unstarted, BeginTransaction
    <2> QED BY <1>2, <2>1, <2>2, QueuedOld
  <1>3. ASSUME NEW src \in Sums, NEW m \in Sums, InCast(src, s, Commit(c, m))'
        PROVE  CommitComing(s, c)
    BY <1>3, SentOld DEF CommitComing
  <1> QED BY <1>1, <1>2, <1>3 DEF CommitComing

\* The one step that brings a thread to a snapshot.
LEMMA SnapshotOld ==
    ASSUME TypeOK, [Next]_vars, NEW s \in Sums, NEW c,
           recv'[s].at = "snapshot", recv'[s].txn = c
    PROVE  recv'[s] = recv[s] \/ \E src \in Sums : ReceiveCommit(s, src)
  <1> SUFFICES ASSUME ReceiverThread(s), recv'[s] # recv[s]
               PROVE  \E src \in Sums : ReceiveCommit(s, src)
    BY RecvElsewhere, WhoWrites
  <1>1. ASSUME NEW src \in Sums, ReceiveTryingReady(s, src) PROVE FALSE
    <2>1. PICK t : recv' = [recv EXCEPT ![s] = [RecvIdle EXCEPT !.at = "check", !.txn = t]]
      BY <1>1 DEF ReceiveTryingReady
    <2>2. recv'[s].at = "check"
      BY <2>1 DEF RecvIdle, TypeOK
    <2> QED BY <2>2
  <1>2. ASSUME NEW src \in Sums, ReceiveOk(s, src) PROVE FALSE
    BY <1>2, OkHeard
  <1>3. ASSUME SnapshotDigest(s) PROVE FALSE
    <2>1. PICK n : recv' = [recv EXCEPT ![s].at = "answer", ![s].processed = n]
      BY <1>3 DEF SnapshotDigest
    <2>2. recv'[s].at = "answer"
      BY <2>1, RecvKept DEF TypeOK
    <2> QED BY <2>2
  <1>4. ASSUME AnswerCommit(s) \/ CheckCompletion(s) \/ DeleteTransactionInfo(s) PROVE FALSE
    BY <1>4 DEF AnswerCommit, CheckCompletion, DeleteTransactionInfo, RecvIdle, TypeOK
  <1>5. ASSUME DeleteClientDigest(s) \/ DeleteTransaction(s) PROVE FALSE
    BY <1>5, Deletions
  <1> QED BY <1>1, <1>2, <1>3, <1>4, <1>5 DEF ReceiverThread

LEMMA DueOld ==
    ASSUME TypeOK, [Next]_vars, NEW s \in Sums, NEW c \in Clients, CommitDue(s, c)'
    PROVE  CommitDue(s, c)
  <1>1. CASE CommitComing(s, c)'
    BY <1>1, ComingOld DEF CommitDue
  <1>2. CASE recv'[s].at = "snapshot" /\ recv'[s].txn = c
    <2>1. CASE recv'[s] = recv[s]
      BY <1>2, <2>1 DEF CommitDue
    <2>2. ASSUME NEW src \in Sums, ReceiveCommit(s, src) PROVE CommitDue(s, c)
      <3>1. PICK t \in Clients, m \in Sums : InCast(src, s, Commit(t, m)) /\ recv'[s].txn = t
        BY <2>2, CommitHeard
      <3> QED BY <1>2, <3>1 DEF CommitDue, CommitComing
    <2> QED BY <1>2, <2>1, <2>2, SnapshotOld
  <1> QED BY <1>1, <1>2 DEF CommitDue

-----------------------------------------------------------------------------
(* Every worker hears the Commit of a client once.                         *)

Once(q, a) == \A i, j \in DOMAIN q : q[i] = a /\ q[j] = a => i = j

LEMMA OnceAppend ==
    ASSUME NEW S, NEW q \in Seq(S), NEW e \in S, NEW a, Once(q, a),
           e = a => a \notin Elements(q)
    PROVE  Once(Append(q, e), a)
  <1>1. /\ DOMAIN Append(q, e) = 1 .. Len(q) + 1
        /\ DOMAIN q = 1 .. Len(q)
        /\ Append(q, e)[Len(q) + 1] = e
        /\ \A i \in 1 .. Len(q) : Append(q, e)[i] = q[i]
        /\ Len(q) \in Nat
    OBVIOUS
  <1>2. \A i \in 1 .. Len(q) + 1 : i # Len(q) + 1 => i \in 1 .. Len(q)
    BY <1>1
  <1>3. CASE e = a
    <2>1. \A i \in 1 .. Len(q) : q[i] # a
      BY <1>1, <1>3 DEF Elements
    <2>2. \A i \in 1 .. Len(q) + 1 : Append(q, e)[i] = a => i = Len(q) + 1
      BY <1>1, <1>2, <2>1
    <2> QED BY <1>1, <2>2 DEF Once
  <1>4. CASE e # a
    <2>1. \A i \in 1 .. Len(q) + 1 : Append(q, e)[i] = a => i \in 1 .. Len(q) /\ q[i] = a
      BY <1>1, <1>2, <1>4
    <2> QED BY <1>1, <2>1 DEF Once
  <1> QED BY <1>3, <1>4

LEMMA OnceTail ==
    ASSUME NEW S, NEW q \in Seq(S), q # <<>>, NEW a, Once(q, a)
    PROVE  /\ Once(Tail(q), a)
           /\ Head(q) = a => a \notin Elements(Tail(q))
  <1>1. /\ DOMAIN q = 1 .. Len(q) /\ Len(q) \in Nat /\ Len(q) >= 1
        /\ DOMAIN Tail(q) = 1 .. Len(q) - 1
        /\ \A i \in 1 .. Len(q) - 1 : Tail(q)[i] = q[i + 1]
        /\ Head(q) = q[1]
    OBVIOUS
  <1>2. \A i \in 1 .. Len(q) - 1 : i + 1 \in 1 .. Len(q) /\ i + 1 # 1 /\ i \in Int
    BY <1>1
  <1>3. Once(Tail(q), a)
    <2> SUFFICES ASSUME NEW i \in 1 .. Len(q) - 1, NEW j \in 1 .. Len(q) - 1,
                        Tail(q)[i] = a, Tail(q)[j] = a
                 PROVE  i = j
      BY <1>1 DEF Once
    <2>1. q[i + 1] = a /\ q[j + 1] = a
      BY <1>1
    <2>2. i + 1 = j + 1
      BY <1>1, <1>2, <2>1 DEF Once
    <2> QED BY <1>2, <2>2
  <1>4. ASSUME Head(q) = a, a \in Elements(Tail(q)) PROVE FALSE
    <2>1. PICK i \in 1 .. Len(q) - 1 : Tail(q)[i] = a
      BY <1>1, <1>4 DEF Elements
    <2>2. q[i + 1] = a /\ q[1] = a /\ 1 \in 1 .. Len(q)
      BY <1>1, <1>4, <2>1
    <2>3. i + 1 = 1
      BY <1>1, <1>2, <2>2 DEF Once
    <2> QED BY <1>2, <2>3
  <1> QED BY <1>3, <1>4

\* Before its transaction begins nobody speaks of the client's master.
Unsaid ==
    \A c \in Clients : Unstarted(c) => \A s \in Sums :
        /\ masterOf[s][c] = NoSum
        /\ recv[s].txn = c => recv[s].at # "snapshot"
        /\ \A m \in Sums : /\ ~Queued(s, Commit(c, m))
                           /\ \A d \in Sums : ~InCast(s, d, Commit(c, m))

SingleCommit ==
    \A c \in Clients, s \in Sums :
        /\ Once(senderQueue[s], Broadcast(Commit(c, s)))
        /\ \A d \in Sums : /\ Once(casts[s][d], Commit(c, s))
                           /\ InCast(s, d, Commit(c, s)) => ~Queued(s, Commit(c, s))

\* Who has heard the Commit has not still to hear it.
HeardOnce ==
    \A c \in Clients, d \in Sums :
        /\ \A s \in Sums : masterOf[d][c] = s /\ d # s =>
               ~Queued(s, Commit(c, s)) /\ ~InCast(s, d, Commit(c, s))
        /\ recv[d].at = "snapshot" /\ recv[d].txn = c => ~CommitComing(d, c)

LEMMA CommitNames ==
    ASSUME NEW c \in Clients, NEW m \in Sums, NEW s \in Sums, NEW d \in Sums,
           Queued(s, Commit(c, m)) \/ InCast(s, d, Commit(c, m))
    PROVE  IsTakenForMaster(m, c)
  <1>1. CASE Queued(s, Commit(c, m))
    <2>1. QueuedFor(s, m, c)
      BY <1>1 DEF Queued, QueuedFor, Broadcast
    <2> QED BY <2>1, Believed
  <1>2. CASE InCast(s, d, Commit(c, m))
    <2>1. InFlightFor(d, m, c)
      BY <1>2 DEF InCast, InFlightFor
    <2> QED BY <2>1, Believed
  <1> QED BY <1>1, <1>2

LEMMA BeginsOnce ==
    ASSUME MasterInv, NEW s \in Sums, NEW c \in Clients, BeginTransaction(s, c)
    PROVE  Unstarted(c) /\ ~Unstarted(c)'
  <1>1. \A x \in Sums : c \in eofInbox[x] => IsTakenForMaster(x, c)
    BY DEF IsTakenForMaster
  <1>2. c \in eofInbox[s] /\ ended' = ended /\ eofInbox' = [eofInbox EXCEPT ![s] = @ \ {c}]
    BY DEF BeginTransaction
  <1>3. c \in ended
    BY <1>1, <1>2 DEF MasterInv, NoMasterBeforeEof
  <1>4. \A x \in Sums : c \notin eofInbox'[x]
    <2> SUFFICES ASSUME NEW x \in Sums, c \in eofInbox'[x] PROVE FALSE
      OBVIOUS
    <2>1. eofInbox \in [Sums -> SUBSET Clients]
      BY DEF MasterInv, TypeOK
    <2>2. x # s /\ c \in eofInbox[x]
      BY <1>2, <2>1
    <2> QED BY <1>1, <1>2, <2>2 DEF MasterInv, SingleMaster
  <1> QED BY <1>2, <1>3, <1>4 DEF Unstarted

LEMMA UnsaidStep ==
    ASSUME MasterInv, [Next]_vars, Unsaid
    PROVE  Unsaid'
  <1> SUFFICES ASSUME NEW c \in Clients, Unstarted(c)', NEW s \in Sums
               PROVE  /\ masterOf'[s][c] = NoSum
                      /\ recv'[s].txn = c => recv'[s].at # "snapshot"
                      /\ \A m \in Sums : /\ ~Queued(s, Commit(c, m))'
                                         /\ \A d \in Sums : ~InCast(s, d, Commit(c, m))'
    BY DEF Unsaid
  <1>1. TypeOK /\ Unstarted(c)
    BY StartOld DEF MasterInv
  <1>2. \A x \in Sums : ~BeginTransaction(x, c)
    BY BeginsOnce
  <1>3. \A x, m, d \in Sums : ~Queued(x, Commit(c, m)) /\ ~InCast(x, d, Commit(c, m))
    BY <1>1 DEF Unsaid
  <1>4. ASSUME NEW x \in Sums, NEW src \in Sums, ReceiveCommit(x, src)
        PROVE  \E t \in Clients, m \in Sums :
                   t # c /\ recv'[x].txn = t /\ masterOf' = [masterOf EXCEPT ![x][t] = m]
    <2>1. PICK t \in Clients, m \in Sums :
              InCast(src, x, Commit(t, m)) /\ recv'[x].txn = t
              /\ masterOf' = [masterOf EXCEPT ![x][t] = m]
      BY <1>1, <1>4, CommitHeard
    <2> QED BY <1>3, <2>1
  <1>5. masterOf'[s][c] = NoSum
    <2>1. masterOf \in [Sums -> [Clients -> Sums \cup {NoSum}]] /\ masterOf[s][c] = NoSum
      BY <1>1 DEF TypeOK, Unsaid
    <2>2. ASSUME NEW x \in Sums, NEW t \in Clients, BeginTransaction(x, t)
          PROVE  masterOf'[s][c] = NoSum
      <3>1. t # c
        BY <1>2, <2>2
      <3> QED BY <2>1, <2>2, <3>1 DEF BeginTransaction
    <2>3. ASSUME NEW x \in Sums, NEW src \in Sums, ReceiveCommit(x, src)
          PROVE  masterOf'[s][c] = NoSum
      BY <1>4, <2>1, <2>3
    <2>4. ASSUME NEW x \in Sums, DeleteTransactionInfo(x)
          PROVE  masterOf'[s][c] = NoSum
      BY <2>1, <2>4 DEF DeleteTransactionInfo
    <2> QED BY <2>1, <2>2, <2>3, <2>4, WhoWrites
  <1>6. ASSUME recv'[s].txn = c, recv'[s].at = "snapshot" PROVE FALSE
    <2>1. CASE recv'[s] = recv[s]
      BY <1>1, <1>6, <2>1 DEF Unsaid
    <2>2. ASSUME NEW src \in Sums, ReceiveCommit(s, src) PROVE FALSE
      BY <1>4, <1>6, <2>2
    <2> QED BY <1>1, <1>6, <2>1, <2>2, SnapshotOld
  <1>7. \A m \in Sums : ~Queued(s, Commit(c, m))'
    BY <1>1, <1>2, <1>3, QueuedOld
  <1>8. \A m, d \in Sums : ~InCast(s, d, Commit(c, m))'
    BY <1>1, <1>3, SentOld
  <1> QED BY <1>5, <1>6, <1>7, <1>8

\* What worker s may queue: a Commit only when its transaction begins.
Queueable(s, e) ==
    \A c \in Clients, m \in Sums : e = Broadcast(Commit(c, m)) => BeginTransaction(s, c)

\* What a step does to the queue of one worker.
LEMMA QueueForms ==
    ASSUME TypeOK, [Next]_vars, NEW s \in Sums
    PROVE  \/ senderQueue'[s] = senderQueue[s]
           \/ \E e \in Envelopes :
                  /\ senderQueue'[s] = Append(senderQueue[s], e)
                  /\ Queueable(s, e)
           \/ senderQueue[s] # <<>> /\ senderQueue'[s] = Tail(senderQueue[s])
  <1>1. senderQueue \in [Sums -> Seq(Envelopes)]
    BY DEF TypeOK
  <1>2. ASSUME NEW x \in Sums, NEW e \in Envelopes,
               senderQueue' = [senderQueue EXCEPT ![x] = Append(@, e)],
               Queueable(x, e)
        PROVE  \/ senderQueue'[s] = senderQueue[s]
               \/ \E f \in Envelopes : /\ senderQueue'[s] = Append(senderQueue[s], f)
                                       /\ Queueable(s, f)
    <2>1. CASE x = s
      <3>1. senderQueue'[s] = Append(senderQueue[s], e)
        BY <1>1, <1>2, <2>1
      <3> QED BY <1>2, <2>1, <3>1
    <2>2. CASE x # s
      BY <1>1, <1>2, <2>2
    <2> QED BY <2>1, <2>2
  <1> DEFINE Form == \/ senderQueue'[s] = senderQueue[s]
                     \/ \E e \in Envelopes :
                            /\ senderQueue'[s] = Append(senderQueue[s], e)
                            /\ Queueable(s, e)
                     \/ senderQueue[s] # <<>> /\ senderQueue'[s] = Tail(senderQueue[s])
  <1>3. ASSUME NEW x \in Sums, NEW c \in Clients, BeginTransaction(x, c)
        PROVE  Form
    <2>1. PICK e : e = Broadcast(Commit(c, x))
      OBVIOUS
    <2>2. e \in Envelopes
      BY <2>1, MessageTypes
    <2>3. senderQueue' = [senderQueue EXCEPT ![x] = Append(@, e)]
      BY <1>3, <2>1 DEF BeginTransaction
    <2>4. Queueable(x, e)
      <3> SUFFICES ASSUME NEW t \in Clients, NEW m \in Sums, e = Broadcast(Commit(t, m))
                   PROVE  BeginTransaction(x, t)
        BY DEF Queueable
      <3>1. Broadcast(Commit(c, x)) = Broadcast(Commit(t, m))
        BY <2>1
      <3>2. t = c
        BY <3>1, NamesDiffer
      <3> QED BY <1>3, <3>2
    <2> QED BY <1>2, <2>2, <2>3, <2>4
  <1>4. ASSUME NEW x \in Sums, NEW c \in Clients, MaybeBroadcastOk(x, c)
        PROVE  Form
    <2>1. CASE ~DigestionComplete(x, c)
      BY <1>4, <2>1 DEF MaybeBroadcastOk
    <2>2. CASE DigestionComplete(x, c)
      <3>1. PICK e : e = Broadcast(Ok(c))
        OBVIOUS
      <3>2. e \in Envelopes
        BY <3>1, MessageTypes
      <3>3. senderQueue' = [senderQueue EXCEPT ![x] = Append(@, e)]
        BY <1>4, <2>2, <3>1 DEF MaybeBroadcastOk
      <3>4. Queueable(x, e)
        BY <3>1, KindsDiffer DEF Queueable
      <3> QED BY <1>2, <3>2, <3>3, <3>4
    <2> QED BY <2>1, <2>2
  <1>5. ASSUME NEW x \in Sums, NEW e \in Envelopes, e.mode = "direct",
               senderQueue' = [senderQueue EXCEPT ![x] = Append(@, e)]
        PROVE  Form
    <2>1. Queueable(x, e)
      BY <1>5 DEF Queueable, Broadcast
    <2> QED BY <1>2, <1>5, <2>1
  <1>6. ASSUME NEW x \in Sums, ReportProgress(x) PROVE Form
    <2>1. PICK c \in Clients : c = data[x].txn
      BY <1>6, DataClient DEF ReportProgress
    <2>2. CASE masterOf[x][c] = NoSum
      BY <1>6, <2>1, <2>2 DEF ReportProgress
    <2>3. CASE masterOf[x][c] # NoSum
      <3>1. masterOf[x][c] \in Sums
        BY <2>3 DEF TypeOK
      <3>2. PICK e : e = Direct(masterOf[x][c], TryingReady(c, 1))
        OBVIOUS
      <3>3. e \in Envelopes /\ e.mode = "direct"
        BY <3>1, <3>2, MessageTypes DEF Direct
      <3>4. senderQueue' = [senderQueue EXCEPT ![x] = Append(@, e)]
        BY <1>6, <2>1, <2>3, <3>2 DEF ReportProgress
      <3> QED BY <1>5, <3>3, <3>4
    <2> QED BY <2>2, <2>3
  <1>7. ASSUME NEW x \in Sums, AnswerCommit(x) PROVE Form
    <2>1. PICK e : e = Direct(recv[x].master, TryingReady(recv[x].txn, recv[x].processed))
      OBVIOUS
    <2>2. e \in Envelopes /\ e.mode = "direct"
      BY <1>7, <2>1, RecvFields, MessageTypes DEF AnswerCommit, Direct
    <2>3. senderQueue' = [senderQueue EXCEPT ![x] = Append(@, e)]
      BY <1>7, <2>1 DEF AnswerCommit
    <2> QED BY <1>5, <2>2, <2>3
  <1>8. ASSUME NEW x \in Sums, SenderThread(x) PROVE Form
    <2>1. senderQueue[x] # <<>> /\ Taken(x)
      BY <1>8 DEF SenderThread, PublishBroadcast, PublishDirect, SendBroadcastFails,
                  SendDirectFails
    <2> QED BY <1>1, <2>1 DEF Taken
  <1>9. ASSUME NEW x \in Sums, FinishEof(x)
        PROVE  data[x].txn \in Clients /\ MaybeBroadcastOk(x, data[x].txn)
    BY <1>9, DataClient DEF FinishEof
  <1>10. ASSUME NEW x \in Sums, CheckCompletion(x)
         PROVE  recv[x].txn \in Clients /\ MaybeBroadcastOk(x, recv[x].txn)
    BY <1>10, RecvFields DEF CheckCompletion
  <1>11. ASSUME NEW x \in Sums, FinishEof(x) PROVE Form
    BY <1>4, <1>9, <1>11
  <1>12. ASSUME NEW x \in Sums, CheckCompletion(x) PROVE Form
    BY <1>4, <1>10, <1>12
  <1>13. senderQueue' = senderQueue => Form
    OBVIOUS
  <1> HIDE DEF Form
  <1>14. Form
    BY <1>3, <1>6, <1>7, <1>8, <1>11, <1>12, <1>13, WhoWrites
  <1> QED BY <1>14 DEF Form

\* What a step does to one broadcast channel.
LEMMA CastForms ==
    ASSUME TypeOK, [Next]_vars, NEW s \in Sums, NEW d \in Sums
    PROVE  \/ casts'[s][d] = casts[s][d]
           \/ /\ casts[s][d] # <<>> /\ casts'[s][d] = Tail(casts[s][d])
              /\ ReceiveCommit(d, s) \/ ReceiveOk(d, s)
           \/ \E m \in Commits \cup Oks :
                  /\ casts'[s][d] = Append(casts[s][d], m)
                  /\ senderQueue[s] # <<>> /\ Head(senderQueue[s]) = Broadcast(m) /\ Taken(s)
  <1>1. casts \in [Sums -> [Sums -> Seq(Commits \cup Oks)]]
    BY DEF TypeOK
  <1>2. ASSUME NEW x \in Sums, NEW src \in Sums, ReceiveCommit(x, src) \/ ReceiveOk(x, src)
        PROVE  \/ casts'[s][d] = casts[s][d]
               \/ /\ casts[s][d] # <<>> /\ casts'[s][d] = Tail(casts[s][d])
                  /\ ReceiveCommit(d, s) \/ ReceiveOk(d, s)
    <2>1. casts[src][x] # <<>> /\ casts' = [casts EXCEPT ![src][x] = Tail(@)]
      BY <1>2 DEF ReceiveCommit, ReceiveOk
    <2>2. CASE src = s /\ x = d
      BY <1>1, <1>2, <2>1, <2>2
    <2>3. CASE ~(src = s /\ x = d)
      BY <1>1, <2>1, <2>3
    <2> QED BY <2>2, <2>3
  <1>3. ASSUME NEW x \in Sums, PublishBroadcast(x) \/ SendBroadcastFails(x)
        PROVE  \/ casts'[s][d] = casts[s][d]
               \/ \E m \in Commits \cup Oks :
                      /\ casts'[s][d] = Append(casts[s][d], m)
                      /\ senderQueue[s] # <<>> /\ Head(senderQueue[s]) = Broadcast(m) /\ Taken(s)
    <2>1. PICK m \in Commits \cup Oks : m = Head(senderQueue[x]).message
      BY <1>3, SenderHead, EnvelopeFields DEF PublishBroadcast, SendBroadcastFails
    <2>2. casts' = casts \/ \E reached : DeliverCast(x, reached, m)
      BY <1>3, <2>1 DEF PublishBroadcast, SendBroadcastFails
    <2>3. senderQueue[x] # <<>> /\ Head(senderQueue[x]).mode = "broadcast" /\ Taken(x)
      BY <1>3 DEF PublishBroadcast, SendBroadcastFails
    <2>4. Head(senderQueue[x]) \in Envelopes
      BY <2>3, SenderHead
    <2>5. Head(senderQueue[x]) = Broadcast(m)
      BY <2>1, <2>3, <2>4 DEF Envelopes, Broadcast
    <2>6. ASSUME NEW reached, DeliverCast(x, reached, m)
          PROVE  \/ casts'[s][d] = casts[s][d]
                 \/ x = s /\ casts'[s][d] = Append(casts[s][d], m)
      <3>1. CASE x = s /\ d \in reached
        BY <1>1, <2>6, <3>1 DEF DeliverCast
      <3>2. CASE ~(x = s /\ d \in reached)
        BY <1>1, <2>6, <3>2 DEF DeliverCast
      <3> QED BY <3>1, <3>2
    <2> QED BY <2>2, <2>3, <2>5, <2>6
  <1>4. casts' = casts => casts'[s][d] = casts[s][d]
    OBVIOUS
  <1> QED BY <1>2, <1>3, <1>4, WhoWrites

LEMMA SingleCommitStep ==
    ASSUME MasterInv, [Next]_vars, Unsaid, SingleCommit
    PROVE  SingleCommit'
  <1> SUFFICES ASSUME NEW c \in Clients, NEW s \in Sums
               PROVE  /\ Once(senderQueue'[s], Broadcast(Commit(c, s)))
                      /\ \A d \in Sums :
                          /\ Once(casts'[s][d], Commit(c, s))
                          /\ InCast(s, d, Commit(c, s))' => ~Queued(s, Commit(c, s))'
    BY DEF SingleCommit, Once
  <1>1. /\ TypeOK
        /\ senderQueue[s] \in Seq(Envelopes)
        /\ \A d \in Sums : casts[s][d] \in Seq(Commits \cup Oks)
    <2>1. TypeOK
      BY DEF MasterInv
    <2>2. /\ senderQueue \in [Sums -> Seq(Envelopes)]
          /\ casts \in [Sums -> [Sums -> Seq(Commits \cup Oks)]]
      BY <2>1 DEF TypeOK
    <2> QED BY <2>1, <2>2
  <1>2. PICK msg : msg = Commit(c, s)
    OBVIOUS
  <1>3. PICK env : env = Broadcast(msg)
    OBVIOUS
  <1>4. /\ Once(senderQueue[s], env)
        /\ \A d \in Sums : /\ Once(casts[s][d], msg)
                           /\ InCast(s, d, msg) => ~Queued(s, msg)
    BY <1>2, <1>3 DEF SingleCommit
  <1>5. BeginTransaction(s, c) => ~Queued(s, msg) /\ \A d \in Sums : ~InCast(s, d, msg)
    BY <1>2, BeginsOnce DEF Unsaid
  <1>6. Once(senderQueue'[s], env)
    <2>1. CASE senderQueue'[s] = senderQueue[s]
      BY <1>4, <2>1
    <2>2. ASSUME NEW e \in Envelopes, senderQueue'[s] = Append(senderQueue[s], e),
                 Queueable(s, e)
          PROVE  Once(senderQueue'[s], env)
      <3>1. e = env => env \notin Elements(senderQueue[s])
        BY <1>2, <1>3, <1>5, <2>2 DEF Queued, Queueable
      <3>2. Once(Append(senderQueue[s], e), env)
        BY <1>1, <1>4, <3>1, OnceAppend
      <3> QED BY <2>2, <3>2
    <2>3. CASE senderQueue[s] # <<>> /\ senderQueue'[s] = Tail(senderQueue[s])
      BY <1>1, <1>4, <2>3, OnceTail
    <2> QED BY <1>1, <2>1, <2>2, <2>3, QueueForms
  <1>7. ASSUME NEW d \in Sums PROVE Once(casts'[s][d], msg)
    <2>1. CASE casts'[s][d] = casts[s][d]
      BY <1>4, <2>1
    <2>2. CASE casts[s][d] # <<>> /\ casts'[s][d] = Tail(casts[s][d])
      BY <1>1, <1>4, <2>2, OnceTail
    <2>3. ASSUME NEW m \in Commits \cup Oks, casts'[s][d] = Append(casts[s][d], m),
                 senderQueue[s] # <<>>, Head(senderQueue[s]) = Broadcast(m), Taken(s)
          PROVE  Once(casts'[s][d], msg)
      <3>1. Queued(s, m)
        BY <1>1, <2>3, Dequeue DEF Queued
      <3>2. m = msg => msg \notin Elements(casts[s][d])
        BY <1>4, <3>1 DEF InCast
      <3>3. PICK S : S = Commits \cup Oks
        OBVIOUS
      <3>4. casts[s][d] \in Seq(S) /\ m \in S
        BY <1>1, <3>3
      <3>5. Once(Append(casts[s][d], m), msg)
        BY <1>4, <3>2, <3>4, OnceAppend
      <3> QED BY <2>3, <3>5
    <2> QED BY <1>1, <2>1, <2>2, <2>3, CastForms
  <1>8. ASSUME NEW d \in Sums, InCast(s, d, Commit(c, s))', Queued(s, Commit(c, s))'
        PROVE  FALSE
    <2>1. CASE InCast(s, d, msg)
      <3>1. ~Queued(s, Commit(c, s))
        BY <1>2, <1>4, <2>1
      <3>2. BeginTransaction(s, c)
        BY <1>1, <1>8, <3>1, QueuedOld
      <3> QED BY <1>5, <2>1, <3>2
    <2>2. CASE ~InCast(s, d, msg)
      <3>1. senderQueue[s] # <<>> /\ Head(senderQueue[s]) = Broadcast(Commit(c, s)) /\ Taken(s)
        BY <1>1, <1>2, <1>8, <2>2, SentOld
      <3>2. senderQueue'[s] = Tail(senderQueue[s])
        BY <1>1, <3>1 DEF Taken, TypeOK
      <3>3. env \notin Elements(Tail(senderQueue[s]))
        BY <1>1, <1>2, <1>3, <1>4, <3>1, OnceTail
      <3> QED BY <1>2, <1>3, <1>8, <3>2, <3>3 DEF Queued
    <2> QED BY <2>1, <2>2
  <1> QED BY <1>2, <1>3, <1>6, <1>7, <1>8

\* Who hears the Commit has heard the only one.
LEMMA CommitTaken ==
    ASSUME OrderInv, SingleCommit, NEW d \in Sums, NEW src \in Sums, ReceiveCommit(d, src)
    PROVE  \E c \in Clients :
               /\ recv'[d].txn = c
               /\ masterOf' = [masterOf EXCEPT ![d][c] = src]
               /\ InCast(src, d, Commit(c, src))
               /\ \A a, m \in Sums : ~Queued(a, Commit(c, m))' /\ ~InCast(a, d, Commit(c, m))'
  <1>1. TypeOK /\ MasterInv
    BY DEF OrderInv, MasterInv
  <1>2. PICK c \in Clients, m \in Sums :
            /\ Head(casts[src][d]) = Commit(c, m)
            /\ InCast(src, d, Commit(c, m))
            /\ recv'[d].txn = c
            /\ masterOf' = [masterOf EXCEPT ![d][c] = m]
    BY <1>1, CommitHeard
  <1>3. m = src
    BY <1>2 DEF OrderInv, OwnCommits
  <1>4. /\ casts[src][d] # <<>> /\ casts' = [casts EXCEPT ![src][d] = Tail(@)]
        /\ senderQueue' = senderQueue
    BY DEF ReceiveCommit
  <1>5. casts \in [Sums -> [Sums -> Seq(Commits \cup Oks)]]
    BY <1>1 DEF TypeOK
  <1>6. casts'[src][d] = Tail(casts[src][d])
    BY <1>4, <1>5
  <1>7. /\ Once(casts[src][d], Commit(c, src))
        /\ ~Queued(src, Commit(c, src))
    BY <1>2, <1>3 DEF SingleCommit
  <1>8. Commit(c, src) \notin Elements(Tail(casts[src][d]))
    <2>1. PICK S : S = Commits \cup Oks
      OBVIOUS
    <2>2. casts[src][d] \in Seq(S)
      BY <1>5, <2>1
    <2>3. PICK msg : msg = Commit(c, src)
      OBVIOUS
    <2>4. Once(casts[src][d], msg) /\ Head(casts[src][d]) = msg
      BY <1>2, <1>3, <1>7, <2>3
    <2>5. msg \notin Elements(Tail(casts[src][d]))
      BY <1>4, <2>2, <2>4, OnceTail
    <2> QED BY <2>3, <2>5
  <1>9. ASSUME NEW a \in Sums, NEW n \in Sums,
               Queued(a, Commit(c, n)) \/ InCast(a, d, Commit(c, n))
        PROVE  a = src /\ n = src
    <2>1. n = a
      BY <1>9 DEF OrderInv, OwnCommits
    <2>2. IsTakenForMaster(n, c)
      BY <1>9, CommitNames
    <2>3. IsTakenForMaster(src, c)
      BY <1>2, <1>3, CommitNames
    <2> QED BY <1>1, <2>1, <2>2, <2>3 DEF MasterInv, SingleMaster
  <1>10. ASSUME NEW a \in Sums, NEW n \in Sums, Queued(a, Commit(c, n))'
         PROVE  FALSE
    <2>1. Queued(a, Commit(c, n))
      BY <1>4, <1>10 DEF Queued
    <2> QED BY <1>7, <1>9, <2>1
  <1>11. ASSUME NEW a \in Sums, NEW n \in Sums, InCast(a, d, Commit(c, n))'
         PROVE  FALSE
    <2>1. Elements(casts'[a][d]) \subseteq Elements(casts[a][d])
      BY <1>1, <1>4, TakeCast
    <2>2. InCast(a, d, Commit(c, n))
      BY <1>11, <2>1 DEF InCast
    <2>3. a = src /\ n = src
      BY <1>9, <2>2
    <2> QED BY <1>6, <1>8, <1>11, <2>3 DEF InCast
  <1> QED BY <1>2, <1>3, <1>10, <1>11

LEMMA HeardOnceStep ==
    ASSUME OrderInv, [Next]_vars, Unsaid, SingleCommit, HeardOnce
    PROVE  HeardOnce'
  <1>1. TypeOK /\ MasterInv
    BY DEF OrderInv, MasterInv
  <1>2. ASSUME NEW c \in Clients, NEW s \in Sums, BeginTransaction(s, c)
        PROVE  \A d \in Sums : masterOf[d][c] \notin Sums
    BY <1>1, <1>2, BeginsOnce, SumsAssumption DEF Unsaid
  <1>3. ASSUME NEW c \in Clients, NEW d \in Sums, NEW s \in Sums,
               masterOf'[d][c] = s, d # s
        PROVE  ~Queued(s, Commit(c, s))' /\ ~InCast(s, d, Commit(c, s))'
    <2>1. CASE masterOf[d][c] = s
      <3>1. ~Queued(s, Commit(c, s)) /\ ~InCast(s, d, Commit(c, s))
        BY <1>3, <2>1 DEF HeardOnce
      <3>2. ~BeginTransaction(s, c)
        BY <1>2, <2>1
      <3> QED BY <1>1, <3>1, <3>2, QueuedOld, SentOld
    <2>2. CASE masterOf[d][c] # s
      <3>1. masterOf \in [Sums -> [Clients -> Sums \cup {NoSum}]]
        BY <1>1 DEF TypeOK
      <3>2. ASSUME NEW x \in Sums, NEW t \in Clients, BeginTransaction(x, t) PROVE FALSE
        BY <1>3, <2>2, <3>1, <3>2 DEF BeginTransaction
      <3>3. ASSUME NEW x \in Sums, DeleteTransactionInfo(x) PROVE FALSE
        BY <1>3, <2>2, <3>1, <3>3, SumsAssumption DEF DeleteTransactionInfo
      <3>4. PICK x \in Sums, src \in Sums : ReceiveCommit(x, src)
        BY <1>3, <2>2, <3>2, <3>3, WhoWrites
      <3>5. PICK t \in Clients :
                /\ masterOf' = [masterOf EXCEPT ![x][t] = src]
                /\ \A a, m \in Sums :
                       ~Queued(a, Commit(t, m))' /\ ~InCast(a, x, Commit(t, m))'
        BY <3>4, CommitTaken
      <3>6. x = d /\ t = c
        BY <1>3, <2>2, <3>1, <3>5
      <3> QED BY <3>5, <3>6
    <2> QED BY <2>1, <2>2
  <1>4. ASSUME NEW c \in Clients, NEW d \in Sums,
               recv'[d].at = "snapshot", recv'[d].txn = c, CommitComing(d, c)'
        PROVE  FALSE
    <2>1. CommitComing(d, c)
      BY <1>1, <1>4, ComingOld
    <2>2. CASE recv'[d] = recv[d]
      BY <1>4, <2>1, <2>2 DEF HeardOnce
    <2>3. ASSUME NEW src \in Sums, ReceiveCommit(d, src) PROVE FALSE
      <3>1. InCast(src, d, Commit(c, src))
            /\ \A a, m \in Sums : ~Queued(a, Commit(c, m))' /\ ~InCast(a, d, Commit(c, m))'
        BY <1>4, <2>3, CommitTaken
      <3>2. ~Unstarted(c)'
        BY <1>1, <3>1, StartOld DEF Unsaid
      <3> QED BY <1>4, <3>1, <3>2 DEF CommitComing
    <2> QED BY <1>1, <1>4, <2>2, <2>3, SnapshotOld
  <1> QED BY <1>3, <1>4 DEF HeardOnce

-----------------------------------------------------------------------------
(* The EOF comes last: for the gateway, and for the worker that takes it.  *)

EofLast == \A r \in Records : ClientOf[r] \in ended => r \notin unsent

\* The master has digested all it will, and reported it to nobody.
MasterDone ==
    \A c \in Clients, s \in Sums : ~Unstarted(c) /\ IsTakenForMaster(s, c) =>
        /\ \A r \in RecordsOf(c) : r \notin inbox[s]
        /\ data[s].txn = c => data[s].at # "look_master"

\* A record that has left the gateway and is not in an inbox stays out of it.
LEMMA GoneStays ==
    ASSUME TypeOK, [Next]_vars, NEW r \in Records, r \notin unsent
    PROVE  /\ r \notin unsent'
           /\ \A s \in Sums : r \notin inbox[s] => r \notin inbox'[s]
  <1>1. CASE UNCHANGED << unsent, inbox >>
    BY <1>1
  <1>2. ASSUME NEW x \in Sums, NEW q \in Records, PublishRecord(q, x)
        PROVE  /\ r \notin unsent'
               /\ \A s \in Sums : r \notin inbox[s] => r \notin inbox'[s]
    <2>1. q \in unsent /\ unsent' = unsent \ {q}
          /\ inbox' = [inbox EXCEPT ![x] = @ \cup {q}]
      BY <1>2 DEF PublishRecord
    <2>2. inbox \in [Sums -> SUBSET Records] /\ q # r
      BY <2>1 DEF TypeOK
    <2> QED BY <2>1, <2>2
  <1>3. ASSUME NEW x \in Sums, NEW q \in Records, DigestData(x, q)
        PROVE  /\ r \notin unsent'
               /\ \A s \in Sums : r \notin inbox[s] => r \notin inbox'[s]
    <2>1. unsent' = unsent /\ inbox' = [inbox EXCEPT ![x] = @ \ {q}]
      BY <1>3 DEF DigestData
    <2>2. inbox \in [Sums -> SUBSET Records]
      BY DEF TypeOK
    <2> QED BY <2>1, <2>2
  <1> QED BY <1>1, <1>2, <1>3, WhoWrites

LEMMA UnsentOld ==
    ASSUME [Next]_vars, NEW r \in unsent'
    PROVE  r \in unsent
  BY WhoWrites DEF PublishRecord, DigestData

LEMMA EofLastStep ==
    ASSUME [Next]_vars, EofLast
    PROVE  EofLast'
  <1> SUFFICES ASSUME NEW r \in Records, ClientOf[r] \in ended', r \in unsent'
               PROVE  FALSE
    BY DEF EofLast
  <1>1. r \in unsent
    BY UnsentOld
  <1>2. ClientOf[r] \notin ended
    BY <1>1 DEF EofLast
  <1>3. ASSUME NEW x \in Sums, NEW t \in Clients, PublishEof(t, x) PROVE FALSE
    <2>1. ClientOf[r] = t
      BY <1>2, <1>3 DEF PublishEof
    <2> QED BY <1>1, <1>3, <2>1 DEF PublishEof, RecordsOf
  <1>4. ASSUME NEW x \in Sums, NEW t \in Clients, BeginTransaction(x, t) PROVE FALSE
    BY <1>2, <1>4 DEF BeginTransaction
  <1> QED BY <1>2, <1>3, <1>4, WhoWrites

\* A data thread turns to the look-up when it digests a record.
LEMMA LookOld ==
    ASSUME TypeOK, [Next]_vars, NEW s \in Sums, data'[s].at = "look_master"
    PROVE  \/ data'[s] = data[s]
           \/ \E r \in inbox[s] : DigestData(s, r) /\ data'[s].txn = ClientOf[r]
  <1>1. data \in [Sums -> DataStates] /\ inbox \in [Sums -> SUBSET Records]
    BY DEF TypeOK
  <1>2. ASSUME NEW x \in Sums, NEW r \in Records, DigestData(x, r)
        PROVE  \/ data'[s] = data[s]
               \/ \E q \in inbox[s] : DigestData(s, q) /\ data'[s].txn = ClientOf[q]
    <2>1. r \in inbox[x]
          /\ data' = [data EXCEPT ![x] = [at |-> "look_master", txn |-> ClientOf[r]]]
      BY <1>2 DEF DigestData
    <2>2. CASE x = s
      BY <1>1, <1>2, <2>1, <2>2
    <2>3. CASE x # s
      BY <1>1, <2>1, <2>3
    <2> QED BY <2>2, <2>3
  <1>3. ASSUME NEW x \in Sums, ReportProgress(x) \/ FinishEof(x)
        PROVE  data'[s] = data[s]
    <2>1. data' = [data EXCEPT ![x] = DataIdle]
      BY <1>3 DEF ReportProgress, FinishEof
    <2> QED BY <1>1, <2>1 DEF DataIdle
  <1>4. ASSUME NEW x \in Sums, NEW c \in Clients, BeginTransaction(x, c)
        PROVE  data'[s] = data[s]
    <2>1. data' = [data EXCEPT ![x] = [at |-> "maybe_ok", txn |-> c]]
      BY <1>4 DEF BeginTransaction
    <2> QED BY <1>1, <2>1
  <1> QED BY <1>2, <1>3, <1>4, WhoWrites DEF DataThread

LEMMA MasterDoneStep ==
    ASSUME MasterInv, [Next]_vars, EofLast, MasterDone
    PROVE  MasterDone'
  <1> SUFFICES ASSUME NEW c \in Clients, NEW s \in Sums,
                      ~Unstarted(c)', IsTakenForMaster(s, c)'
               PROVE  /\ \A r \in RecordsOf(c) : r \notin inbox'[s]
                      /\ data'[s].txn = c => data'[s].at # "look_master"
    BY DEF MasterDone, RecordsOf
  <1>1. TypeOK /\ TypeOK' /\ MasterInv'
    BY MasterStep DEF MasterInv
  <1>2. ASSUME Unstarted(c)
        PROVE  /\ \A r \in RecordsOf(c) : r \notin inbox'[s]
               /\ data'[s].txn = c => data'[s].at # "look_master"
    <2>1. PICK x \in Sums : BeginTransaction(x, c)
      BY <1>1, <1>2, StartStays
    <2>2. /\ masterOf' = [masterOf EXCEPT ![x][c] = x]
          /\ data' = [data EXCEPT ![x] = [at |-> "maybe_ok", txn |-> c]]
          /\ inbox[x] \cap RecordsOf(c) = {} /\ inbox' = inbox
      BY <2>1 DEF BeginTransaction
    <2>3. masterOf'[x][c] = x /\ data'[x].at = "maybe_ok"
      BY <1>1, <2>2 DEF TypeOK
    <2>4. IsTakenForMaster(x, c)'
      BY <2>3 DEF IsTakenForMaster
    <2>5. x = s
      BY <1>1, <2>4 DEF MasterInv, SingleMaster
    <2> QED BY <2>2, <2>3, <2>5
  <1>3. ASSUME ~Unstarted(c)
        PROVE  /\ \A r \in RecordsOf(c) : r \notin inbox'[s]
               /\ data'[s].txn = c => data'[s].at # "look_master"
    <2>1. IsTakenForMaster(s, c)
      <3>1. CASE ~\E x \in Sums, t \in Clients : PublishEof(t, x)
        BY <1>1, <3>1, BeliefStep DEF NoNewMaster
      <3>2. ASSUME NEW x \in Sums, NEW t \in Clients, PublishEof(t, x)
            PROVE  IsTakenForMaster(s, c)
        <4>1. t # c
          BY <1>3, <3>2 DEF PublishEof, Unstarted
        <4> QED BY <1>1, <3>2, <4>1 DEF PublishEof, controlVars, IsTakenForMaster,
                                        QueuedFor, InFlightFor, TypeOK
      <3> QED BY <3>1, <3>2
    <2>2. /\ \A r \in RecordsOf(c) : r \notin inbox[s] /\ r \notin unsent
          /\ data[s].txn = c => data[s].at # "look_master"
      BY <1>3, <2>1 DEF MasterDone, EofLast, Unstarted, RecordsOf
    <2>3. \A r \in RecordsOf(c) : r \notin inbox'[s]
      BY <1>1, <2>2, GoneStays DEF RecordsOf
    <2>4. ASSUME data'[s].txn = c, data'[s].at = "look_master" PROVE FALSE
      <3>1. ~(data'[s] = data[s])
        BY <2>2, <2>4
      <3>2. PICK r \in inbox[s] : data'[s].txn = ClientOf[r]
        BY <1>1, <2>4, <3>1, LookOld
      <3>3. r \in RecordsOf(c)
        BY <1>1, <2>4, <3>2 DEF TypeOK, RecordsOf
      <3> QED BY <2>2, <3>2, <3>3
    <2> QED BY <2>3, <2>4
  <1> QED BY <1>2, <1>3

-----------------------------------------------------------------------------
(* The schedules in which the handlers of a worker do not overlap.         *)

LEMMA AtomicIsNext == [AtomicNext]_vars => [Next]_vars
  BY DEF AtomicNext, Next

LEMMA DisjointStep == HandlersDisjoint /\ [AtomicNext]_vars => HandlersDisjoint'
  <1> SUFFICES ASSUME HandlersDisjoint, [AtomicNext]_vars, ~HandlersDisjoint' PROVE FALSE
    OBVIOUS
  <1>1. CASE Gateway
    BY <1>1 DEF Gateway, PublishRecord, PublishEof, HandlersDisjoint
  <1>2. CASE \E s \in Sums : SenderThread(s)
    BY <1>2 DEF SenderThread, PublishBroadcast, PublishDirect, SendBroadcastFails,
                SendDirectFails, senderFrame, HandlersDisjoint
  <1>3. CASE \E s \in Sums : Listen(s)
    BY <1>3 DEF Listen, senderFrame, HandlersDisjoint
  <1>4. CASE UNCHANGED vars
    BY <1>4 DEF vars, HandlersDisjoint
  <1> QED BY <1>1, <1>2, <1>3, <1>4 DEF AtomicNext

-----------------------------------------------------------------------------
(* The count is exact in these schedules: every claimant has as many       *)
(* records as it claims, all of them digested.                             *)

Digested(r) == r \notin unsent /\ \A s \in Sums : r \notin inbox[s]

\* A record is claimed once it is digested; if its worker has still to take
\* its snapshot, only a data thread that has not looked up the master claims it.
Truthful(own, c) ==
    \A r \in Records : own[r] # Nobody =>
        /\ ClientOf[r] = c /\ Digested(r)
        /\ \A s \in Sums : r \in digestPool[s] /\ CommitDue(s, c) => own[r] = Hand(s)

Exact == \A c \in Clients : \E own : Backs(own, Claims(c), TRUE) /\ Truthful(own, c)

AtomicInv ==
    /\ OrderInv /\ ShipInv /\ HandlersDisjoint
    /\ Unsaid /\ SingleCommit /\ HeardOnce
    /\ EofLast /\ MasterDone /\ Expects
    /\ Exact

LEMMA DigestedStays ==
    ASSUME TypeOK, [Next]_vars, NEW r \in Records, Digested(r)
    PROVE  Digested(r)'
  BY GoneStays DEF Digested

LEMMA TruthKept ==
    ASSUME TypeOK, [Next]_vars, NEW c \in Clients, NEW own, Truthful(own, c), NEW new,
           \A r \in Records : new[r] # Nobody =>
               own[r] # Nobody /\ \A x \in Sums : own[r] = Hand(x) => new[r] = Hand(x),
           \A s \in Sums : digestPool'[s] \subseteq digestPool[s]
    PROVE  Truthful(new, c)'
  <1> SUFFICES ASSUME NEW r \in Records, new[r] # Nobody
               PROVE  /\ ClientOf[r] = c /\ Digested(r)'
                      /\ \A s \in Sums : r \in digestPool'[s] /\ CommitDue(s, c)' =>
                             new[r] = Hand(s)
    BY DEF Truthful
  <1>1. own[r] # Nobody /\ \A x \in Sums : own[r] = Hand(x) => new[r] = Hand(x)
    OBVIOUS
  <1>2. /\ ClientOf[r] = c /\ Digested(r)
        /\ \A s \in Sums : r \in digestPool[s] /\ CommitDue(s, c) => own[r] = Hand(s)
    BY <1>1 DEF Truthful
  <1>3. ASSUME NEW s \in Sums, r \in digestPool'[s], CommitDue(s, c)'
        PROVE  new[r] = Hand(s)
    BY <1>1, <1>2, <1>3, DueOld
  <1> QED BY <1>2, <1>3, DigestedStays

LEMMA DropsKeep ==
    ASSUME TypeOK, [Next]_vars, NEW c \in Clients, NEW own, Truthful(own, c),
           NEW new, NEW g, Drops(own, new, g),
           \A s \in Sums : digestPool'[s] \subseteq digestPool[s]
    PROVE  Truthful(new, c)'
  <1>1. \A r \in Records : new[r] # Nobody =>
            own[r] # Nobody /\ \A x \in Sums : own[r] = Hand(x) => new[r] = Hand(x)
    BY DEF Drops
  <1> QED BY <1>1, TruthKept

\* In these schedules a data thread reports only what the snapshot of its
\* worker cannot hold: the Commit has been heard, and the snapshot taken.
LEMMA ReportNotDue ==
    ASSUME AtomicInv, NEW c \in Clients, NEW s \in Sums,
           data[s].at = "look_master", data[s].txn = c, masterOf[s][c] # NoSum
    PROVE  ~CommitDue(s, c)
  <1>1. OrderInv /\ MasterInv /\ TypeOK /\ SingleMaster
    BY DEF AtomicInv, OrderInv, MasterInv
  <1>2. PICK m \in Sums : m = masterOf[s][c]
    BY <1>1 DEF TypeOK
  <1>3. recv[s].at # "snapshot"
    BY DEF AtomicInv, HandlersDisjoint
  <1>4. ~Unstarted(c)
    BY DEF AtomicInv, Unsaid
  <1>5. IsTakenForMaster(m, c)
    BY <1>2 DEF IsTakenForMaster
  <1>6. m # s
    BY <1>4, <1>5 DEF AtomicInv, MasterDone
  <1>7. ~Queued(m, Commit(c, m)) /\ ~InCast(m, s, Commit(c, m))
    BY <1>2, <1>6 DEF AtomicInv, HeardOnce
  <1>8. ASSUME NEW a \in Sums, NEW n \in Sums,
               Queued(a, Commit(c, n)) \/ InCast(a, s, Commit(c, n))
        PROVE  FALSE
    <2>1. n = a
      BY <1>1, <1>8 DEF OrderInv, OwnCommits
    <2>2. IsTakenForMaster(n, c)
      BY <1>8, CommitNames
    <2>3. n = m
      BY <1>1, <1>5, <2>2 DEF SingleMaster
    <2> QED BY <1>7, <1>8, <2>1, <2>3
  <1> QED BY <1>3, <1>4, <1>8 DEF CommitDue, CommitComing

LEMMA ExactDigest ==
    ASSUME AtomicInv, [Next]_vars, NEW c \in Clients,
           NEW own, Backs(own, Claims(c), TRUE), Truthful(own, c),
           NEW s \in Sums, NEW r \in Records, DigestData(s, r)
    PROVE  \E new : Backs(new, Claims(c)', TRUE) /\ Truthful(new, c)'
  <1>1. TypeOK /\ Places
    BY DEF AtomicInv, ShipInv
  <1>2. /\ r \in inbox[s] /\ unsent' = unsent
        /\ \A d \in Sums : inbox'[d] = IF d = s THEN inbox[d] \ {r} ELSE inbox[d]
        /\ \A d \in Sums :
               digestPool'[d] = IF d = s THEN digestPool[d] \cup {r} ELSE digestPool[d]
    BY <1>1 DEF DigestData, TypeOK
  <1>3. own[r] = Nobody
    BY <1>2 DEF Truthful, Digested
  <1>4. own \in [Records -> Holders]
    BY DEF Backs
  <1>5. \A d \in Sums : r \notin digestPool[d] /\ (d # s => r \notin inbox[d])
    BY <1>1, <1>2 DEF Places
  <1>6. r \notin unsent
    BY <1>1, <1>2 DEF Places
  <1>7. Digested(r)'
    BY <1>2, <1>5, <1>6 DEF Digested
  <1>8. ASSUME NEW q \in Records, q # r, own[q] # Nobody
        PROVE  /\ ClientOf[q] = c /\ Digested(q)'
               /\ \A d \in Sums : q \in digestPool'[d] /\ CommitDue(d, c)' => own[q] = Hand(d)
    <2>1. /\ ClientOf[q] = c /\ Digested(q)
          /\ \A d \in Sums : q \in digestPool[d] /\ CommitDue(d, c) => own[q] = Hand(d)
      BY <1>8 DEF Truthful
    <2>2. ASSUME NEW d \in Sums, q \in digestPool'[d], CommitDue(d, c)'
          PROVE  own[q] = Hand(d)
      <3>1. q \in digestPool[d]
        BY <1>2, <1>8, <2>2
      <3> QED BY <1>1, <2>1, <2>2, <3>1, DueOld
    <2> QED BY <1>1, <2>1, <2>2, DigestedStays
  <1>9. CASE ClientOf[r] # c
    <2>1. Backs(own, Claims(c)', TRUE)
      BY <1>1, <1>9, ClaimDigested
    <2>2. Truthful(own, c)'
      BY <1>3, <1>8 DEF Truthful
    <2> QED BY <2>1, <2>2
  <1>10. CASE ClientOf[r] = c
    <2>1. PICK new : new = [own EXCEPT ![r] = Hand(s)]
      OBVIOUS
    <2>2. Backs(new, Claims(c)', TRUE)
      BY <1>1, <1>3, <1>10, <2>1, ClaimDigested
    <2>3. \A q \in Records : new[q] = IF q = r THEN Hand(s) ELSE own[q]
      BY <1>4, <2>1
    <2>4. \A d \in Sums : r \in digestPool'[d] => d = s
      BY <1>2, <1>5
    <2>5. ASSUME NEW q \in Records, new[q] # Nobody
          PROVE  /\ ClientOf[q] = c /\ Digested(q)'
                 /\ \A d \in Sums : q \in digestPool'[d] /\ CommitDue(d, c)' => new[q] = Hand(d)
      <3>1. CASE q = r
        BY <1>7, <1>10, <2>3, <2>4, <3>1
      <3>2. CASE q # r
        <4>1. new[q] = own[q]
          BY <2>3, <3>2
        <4> QED BY <1>8, <2>5, <3>2, <4>1
      <3> QED BY <3>1, <3>2
    <2>6. Truthful(new, c)'
      BY <2>5 DEF Truthful
    <2> QED BY <2>2, <2>6
  <1> QED BY <1>9, <1>10

LEMMA ExactReport ==
    ASSUME AtomicInv, [Next]_vars, NEW c \in Clients,
           NEW own, Backs(own, Claims(c), TRUE), Truthful(own, c),
           NEW s \in Sums, ReportProgress(s)
    PROVE  \E new : Backs(new, Claims(c)', TRUE) /\ Truthful(new, c)'
  <1>1. TypeOK
    BY DEF AtomicInv, ShipInv
  <1>2. PICK k \in Holders :
            /\ Backs(Handed(own, Merge(Hand(s), k)), Claims(c)', TRUE)
            /\ IF masterOf[s][data[s].txn] = NoSum THEN k = Nobody
               ELSE \E i \in Positive : k = InQueue(s, i)
    BY <1>1, ClaimReported
  <1>3. PICK new : new = Handed(own, Merge(Hand(s), k))
    OBVIOUS
  <1>4. own \in [Records -> Holders]
    BY DEF Backs
  <1>5. \A r \in Records : new[r] = IF own[r] = Hand(s) THEN k ELSE own[r]
    BY <1>3, <1>4 DEF Handed, Merge
  <1>6. digestPool' = digestPool /\ data[s].at = "look_master"
    BY DEF ReportProgress
  <1>7. ASSUME NEW r \in Records, new[r] # Nobody
        PROVE  /\ ClientOf[r] = c /\ Digested(r)'
               /\ \A d \in Sums : r \in digestPool'[d] /\ CommitDue(d, c)' => new[r] = Hand(d)
    <2>1. own[r] # Nobody
      BY <1>5, <1>7, HandsApart
    <2>2. /\ ClientOf[r] = c /\ Digested(r)
          /\ \A d \in Sums : r \in digestPool[d] /\ CommitDue(d, c) => own[r] = Hand(d)
      BY <2>1 DEF Truthful
    <2>3. ASSUME NEW d \in Sums, r \in digestPool'[d], CommitDue(d, c)'
          PROVE  new[r] = Hand(d)
      <3>1. CommitDue(d, c) /\ own[r] = Hand(d)
        BY <1>1, <1>6, <2>2, <2>3, DueOld
      <3>2. CASE d # s
        <4>1. own[r] # Hand(s)
          BY <3>1, <3>2, HoldersDiffer
        <4> QED BY <1>5, <3>1, <4>1
      <3>3. CASE d = s
        <4>1. Hand(s) \in Claimants
          BY IsHolder
        <4>2. Claims(c)[Hand(s)] # 0
          BY <3>1, <3>3, <4>1, Unclaimed
        <4>3. data[s].txn = c
          BY <4>2, ClaimOf DEF HandClaim
        <4>4. new[r] = k
          BY <1>5, <3>1, <3>3
        <4>5. masterOf[s][c] # NoSum
          BY <1>2, <1>7, <4>3, <4>4
        <4>6. ~CommitDue(s, c)
          BY <1>6, <4>3, <4>5, ReportNotDue
        <4> QED BY <3>1, <3>3, <4>6
      <3> QED BY <3>2, <3>3
    <2> QED BY <1>1, <2>2, <2>3, DigestedStays
  <1>8. Truthful(new, c)'
    BY <1>7 DEF Truthful
  <1> QED BY <1>2, <1>3, <1>8

LEMMA ExactSnapshot ==
    ASSUME AtomicInv, [Next]_vars, NEW c \in Clients,
           NEW own, Backs(own, Claims(c), TRUE), Truthful(own, c),
           NEW s \in Sums, SnapshotDigest(s)
    PROVE  \E new : Backs(new, Claims(c)', TRUE) /\ Truthful(new, c)'
  <1>1. TypeOK /\ Places
    BY DEF AtomicInv, ShipInv
  <1>2. digestPool' = digestPool /\ recv[s].at = "snapshot"
    BY DEF SnapshotDigest
  <1>3. CASE recv[s].txn # c
    <2>1. Backs(own, Claims(c)', TRUE)
      BY <1>1, <1>3, ClaimSnapshot
    <2>2. Truthful(own, c)'
      BY <1>1, <1>2, TruthKept
    <2> QED BY <2>1, <2>2
  <1>4. CASE recv[s].txn = c
    <2>1. CommitDue(s, c) /\ ~CommitComing(s, c)
      BY <1>2, <1>4 DEF CommitDue, AtomicInv, HeardOnce
    <2>2. \A r \in Records : own[r] # Hand(s)
      <3>1. data[s].at = "idle"
        BY <1>2 DEF AtomicInv, HandlersDisjoint
      <3>2. Claims(c)[Hand(s)] = 0
        BY <3>1, ClaimOf DEF HandClaim
      <3>3. Hand(s) \in Claimants
        BY IsHolder
      <3> QED BY <3>2, <3>3, Unclaimed
    <2>3. \A r \in DigestOf(s, c) : own[r] = Nobody
      BY <2>1, <2>2 DEF Truthful, DigestOf, RecordsOf
    <2>4. PICK new :
              new = [r \in Records |-> IF r \in DigestOf(s, c) THEN Answer(s) ELSE own[r]]
      OBVIOUS
    <2>5. Backs(new, Claims(c)', TRUE)
      BY <1>1, <1>4, <2>3, <2>4, ClaimSnapshot
    <2>6. ~CommitDue(s, c)'
      <3>1. recv' = [recv EXCEPT ![s].at = "answer",
                                 ![s].processed = Cardinality(DigestOf(s, recv[s].txn))]
        BY DEF SnapshotDigest
      <3>2. recv'[s].at = "answer"
        BY <1>1, <3>1, RecvKept DEF TypeOK
      <3>3. ~CommitComing(s, c)'
        BY <1>1, <2>1, ComingOld
      <3> QED BY <3>2, <3>3 DEF CommitDue
    <2>7. ASSUME NEW r \in Records, new[r] # Nobody
          PROVE  /\ ClientOf[r] = c /\ Digested(r)'
                 /\ \A d \in Sums : r \in digestPool'[d] /\ CommitDue(d, c)' => new[r] = Hand(d)
      <3>1. CASE r \in DigestOf(s, c)
        <4>1. r \in digestPool[s] /\ ClientOf[r] = c
          BY <3>1 DEF DigestOf, RecordsOf
        <4>2. Digested(r)
          BY <1>1, <4>1 DEF Places, Digested
        <4>3. \A d \in Sums : r \in digestPool[d] => d = s
          BY <1>1, <4>1 DEF Places
        <4> QED BY <1>1, <1>2, <2>6, <4>1, <4>2, <4>3, DigestedStays
      <3>2. CASE r \notin DigestOf(s, c)
        <4>1. new[r] = own[r]
          BY <2>4, <3>2
        <4>2. /\ ClientOf[r] = c /\ Digested(r)
              /\ \A d \in Sums : r \in digestPool[d] /\ CommitDue(d, c) => own[r] = Hand(d)
          BY <2>7, <4>1 DEF Truthful
        <4>3. ASSUME NEW d \in Sums, r \in digestPool'[d], CommitDue(d, c)'
              PROVE  new[r] = Hand(d)
          BY <1>1, <1>2, <4>1, <4>2, <4>3, DueOld
        <4> QED BY <1>1, <4>2, <4>3, DigestedStays
      <3> QED BY <3>1, <3>2
    <2>8. Truthful(new, c)'
      BY <2>7 DEF Truthful
    <2> QED BY <2>5, <2>8
  <1> QED BY <1>3, <1>4

LEMMA ExactStep ==
    ASSUME AtomicInv, [Next]_vars
    PROVE  Exact'
  <1>1. TypeOK
    BY DEF AtomicInv, ShipInv
  <1> SUFFICES ASSUME NEW c \in Clients
               PROVE  \E new : Backs(new, Claims(c)', TRUE) /\ Truthful(new, c)'
    BY DEF Exact
  <1>2. PICK own : Backs(own, Claims(c), TRUE) /\ Truthful(own, c)
    BY DEF AtomicInv, Exact
  <1>3. ASSUME \A x \in Sums : digestPool'[x] \subseteq digestPool[x]
        PROVE  /\ Truthful(own, c)'
               /\ \A new, g : Drops(own, new, g) => Truthful(new, c)'
    <2>1. Truthful(own, c)'
      BY <1>1, <1>2, <1>3, TruthKept
    <2>2. ASSUME NEW new, NEW g, Drops(own, new, g) PROVE Truthful(new, c)'
      BY <1>1, <1>2, <1>3, <2>2, DropsKeep
    <2> QED BY <2>1, <2>2
  <1>4. ASSUME NEW s \in Sums,
               \/ \E r \in Records : PublishRecord(r, s)
               \/ \E t \in Clients : PublishEof(t, s) \/ BeginTransaction(s, t)
               \/ FinishEof(s)
               \/ \E src \in Sums : ReceiveCommit(s, src) \/ ReceiveOk(s, src)
               \/ CheckCompletion(s)
               \/ DeleteClientDigest(s)
               \/ DeleteTransactionInfo(s)
               \/ Listen(s)
        PROVE  \E new : Backs(new, Claims(c)', TRUE) /\ Truthful(new, c)'
    <2>1. Backs(own, Claims(c)', TRUE)
      BY <1>1, <1>2, <1>4, QuietClaims
    <2>2. \A x \in Sums : digestPool'[x] \subseteq digestPool[x]
      <3>1. ASSUME DeleteClientDigest(s), NEW x \in Sums
            PROVE  digestPool'[x] \subseteq digestPool[x]
        BY <1>1, <3>1 DEF DeleteClientDigest, TypeOK
      <3> QED BY <1>4, <3>1 DEF PublishRecord, PublishEof, BeginTransaction, FinishEof,
                ReceiveCommit, ReceiveOk, CheckCompletion, DeleteTransactionInfo, Listen,
                senderFrame
    <2> QED BY <1>3, <2>1, <2>2
  <1>5. ASSUME NEW s \in Sums, NEW r \in Records, DigestData(s, r)
        PROVE  \E new : Backs(new, Claims(c)', TRUE) /\ Truthful(new, c)'
    BY <1>2, <1>5, ExactDigest
  <1>6. ASSUME NEW s \in Sums, ReportProgress(s)
        PROVE  \E new : Backs(new, Claims(c)', TRUE) /\ Truthful(new, c)'
    BY <1>2, <1>6, ExactReport
  <1>7. ASSUME NEW s \in Sums, SnapshotDigest(s)
        PROVE  \E new : Backs(new, Claims(c)', TRUE) /\ Truthful(new, c)'
    BY <1>2, <1>7, ExactSnapshot
  <1>8. ASSUME NEW s \in Sums,
               \/ \E src \in Sums : ReceiveTryingReady(s, src)
               \/ AnswerCommit(s)
               \/ DeleteTransaction(s)
               \/ SenderThread(s)
        PROVE  \E new : Backs(new, Claims(c)', TRUE) /\ Truthful(new, c)'
    <2>1. \A x \in Sums : digestPool'[x] \subseteq digestPool[x]
      BY <1>8 DEF ReceiveTryingReady, AnswerCommit, DeleteTransaction, SenderThread,
             PublishBroadcast, PublishDirect, SendBroadcastFails, SendDirectFails, senderFrame
    <2>2. ASSUME AnswerCommit(s)
          PROVE  \E new : Backs(new, Claims(c)', TRUE) /\ Drops(own, new, Nobody)
      BY <1>1, <1>2, <2>2, ClaimAnswered
    <2>3. ASSUME DeleteTransaction(s)
          PROVE  \E new : Backs(new, Claims(c)', TRUE)
                          /\ (new = own \/ Drops(own, new, Counted(s)))
      <3> DEFINE exact == TRUE
      <3>1. exact \in BOOLEAN /\ Backs(own, Claims(c), exact)
        BY <1>2
      <3> HIDE DEF exact
      <3>2. PICK new : /\ Backs(new, Claims(c)', exact)
                       /\ IF recv[s].txn = c THEN Drops(own, new, Counted(s)) ELSE new = own
        BY <1>1, <2>3, <3>1, ClaimForgotten
      <3>3. new = own \/ Drops(own, new, Counted(s))
        BY <3>2, Zenon
      <3> QED BY <3>2, <3>3, Zenon DEF exact
    <2>4. ASSUME SenderThread(s)
          PROVE  \E new : Backs(new, Claims(c)', TRUE) /\ \E g : Drops(own, new, g)
      <3>1. PICK new :
                /\ Backs(new, Claims(c)', TRUE)
                /\ \/ Drops(own, new, Nobody)
                   \/ lost' /\ \E g \in Claimants : Drops(own, new, g)
        BY <1>1, <1>2, <2>4, ClaimSent
      <3> QED BY <3>1
    <2>5. ASSUME NEW src \in Sums, ReceiveTryingReady(s, src)
          PROVE  \E new : Backs(new, Claims(c)', TRUE) /\ \E g : Drops(own, new, g)
      <3>1. PICK new :
                /\ Backs(new, Claims(c)', TRUE)
                /\ \/ Drops(own, new, Nobody)
                   \/ /\ ~transactions[s][c].open
                      /\ Head(directs[src][s]).txn = c
                      /\ \E g \in Claimants : Drops(own, new, g)
        BY <1>1, <1>2, <2>5, ClaimReceived
      <3> QED BY <3>1
    <2>6. PICK new : Backs(new, Claims(c)', TRUE) /\ (new = own \/ \E g : Drops(own, new, g))
      BY <1>8, <2>2, <2>3, <2>4, <2>5
    <2> QED BY <1>3, <2>1, <2>6
  <1>9. CASE UNCHANGED vars
    <2>1. Backs(own, Claims(c)', TRUE)
      BY <1>2, <1>9, SameClaims, BackedKept DEF vars
    <2>2. \A x \in Sums : digestPool'[x] \subseteq digestPool[x]
      BY <1>9 DEF vars
    <2> QED BY <1>3, <2>1, <2>2
  <1> QED BY <1>4, <1>5, <1>6, <1>7, <1>8, <1>9
      DEF Next, Gateway, DataThread, ReceiverThread

LEMMA AtomicStep == AtomicInv /\ [AtomicNext]_vars => AtomicInv'
  <1> SUFFICES ASSUME AtomicInv, [AtomicNext]_vars PROVE AtomicInv'
    OBVIOUS
  <1>1. [Next]_vars
    BY AtomicIsNext
  <1>2. TypeOK /\ MasterInv /\ OrderInv /\ ShipInv
    BY DEF AtomicInv, OrderInv, ShipInv
  <1>3. OrderInv' /\ ShipInv'
    BY <1>1, <1>2, OrderStep, ShipStep
  <1>4. HandlersDisjoint'
    BY DisjointStep DEF AtomicInv
  <1>5. Unsaid' /\ SingleCommit' /\ HeardOnce'
    BY <1>1, <1>2, UnsaidStep, SingleCommitStep, HeardOnceStep DEF AtomicInv
  <1>6. EofLast' /\ MasterDone' /\ Expects'
    BY <1>1, <1>2, EofLastStep, MasterDoneStep, ExpectsStep DEF AtomicInv
  <1>7. Exact'
    BY <1>1, ExactStep
  <1> QED BY <1>3, <1>4, <1>5, <1>6, <1>7 DEF AtomicInv

LEMMA AtomicInit == Init => AtomicInv
  <1> SUFFICES ASSUME Init PROVE AtomicInv
    OBVIOUS
  <1>1. /\ \A s \in Sums : DOMAIN senderQueue[s] = {}
        /\ \A s, d \in Sums : DOMAIN casts[s][d] = {}
    BY DEF Init
  <1>2. /\ \A s \in Sums : \A msg : ~Queued(s, msg)
        /\ \A s, d \in Sums : \A msg : ~InCast(s, d, msg)
    BY <1>1 DEF Queued, InCast, Elements
  <1>3. \A s \in Sums : data[s].at = "idle" /\ recv[s].at = "idle"
    BY DEF Init, DataIdle, RecvIdle
  <1>4. Unsaid /\ SingleCommit /\ HeardOnce
    <2>1. Unsaid
      BY <1>2, <1>3 DEF Unsaid, Init
    <2>2. SingleCommit
      BY <1>1, <1>2 DEF SingleCommit, Once
    <2>3. \A s \in Sums, c \in Clients : masterOf[s][c] = NoSum
      BY DEF Init
    <2>4. HeardOnce
      BY <1>2, <1>3, <2>3, SumsAssumption DEF HeardOnce
    <2> QED BY <2>1, <2>2, <2>4
  <1>5. EofLast /\ MasterDone /\ HandlersDisjoint
    BY <1>3 DEF EofLast, MasterDone, HandlersDisjoint, Unstarted, Init
  <1>6. CountInv
    BY CountInit
  <1>7. OrderInv /\ ShipInv /\ Expects
    BY <1>6 DEF CountInv
  <1>8. Exact
    <2> SUFFICES ASSUME NEW c \in Clients
                 PROVE  \E own : Backs(own, Claims(c), TRUE) /\ Truthful(own, c)
      BY DEF Exact
    <2>1. PICK own : own = [r \in Records |-> Nobody]
      OBVIOUS
    <2>2. Truthful(own, c)
      BY <2>1 DEF Truthful
    <2>3. \A h \in Claimants : Of(own, h) = {}
      BY <2>1, IsHolder DEF Of
    <2>4. ASSUME NEW h \in Claimants PROVE Claims(c)[h] = 0
      <3>1. ASSUME NEW s \in Sums PROVE HandClaim(c, data[s]) = 0
        BY <1>3 DEF HandClaim
      <3>2. ASSUME NEW s \in Sums PROVE AnswerClaim(c, recv[s]) = 0
        BY <1>3 DEF AnswerClaim
      <3>3. ASSUME NEW s \in Sums PROVE transactions[s][c].current = 0
        BY DEF Init, NoStatus
      <3>4. ASSUME NEW s \in Sums, NEW i \in Positive
            PROVE  QueueClaim(c, senderQueue[s], i) = 0
        BY <1>1 DEF QueueClaim
      <3>5. ASSUME NEW s \in Sums, NEW d \in Sums, NEW i \in Positive
            PROVE  FlightClaim(c, directs[s][d], i) = 0
        <4>1. DOMAIN directs[s][d] = {}
          BY DEF Init
        <4> QED BY <4>1 DEF FlightClaim
      <3>6. CASE \E s \in Sums : h \in {Hand(s), Answer(s), Counted(s)}
        BY <3>1, <3>2, <3>3, <3>6, ClaimOf
      <3>7. CASE \E s \in Sums, i \in Positive : h = InQueue(s, i)
        BY <3>4, <3>7, ClaimOf
      <3>8. CASE \E s, d \in Sums, i \in Positive : h = InFlight(s, d, i)
        BY <3>5, <3>8, ClaimOf
      <3> QED BY <3>6, <3>7, <3>8, HolderKinds
    <2>5. Cardinality({}) = 0
      BY FS_EmptySet
    <2>6. \A h \in Claimants : Fits(TRUE, Claims(c)[h], Of(own, h))
      BY <2>3, <2>4, <2>5 DEF Fits
    <2>7. own \in [Records -> Holders]
      BY <2>1, IsHolder
    <2>8. Backs(own, Claims(c), TRUE)
      BY <2>6, <2>7 DEF Backs
    <2> QED BY <2>2, <2>8
  <1> QED BY <1>4, <1>5, <1>7, <1>8 DEF AtomicInv

-----------------------------------------------------------------------------
(* The Ok of a client means that all its records are digested.             *)

LEMMA CompleteDigested ==
    ASSUME AtomicInv, NEW c \in Clients, NEW x \in Sums, DigestionComplete(x, c)
    PROVE  \A r \in RecordsOf(c) : Digested(r)
  <1>1. PICK own : Backs(own, Claims(c), TRUE) /\ Truthful(own, c)
    BY DEF AtomicInv, Exact
  <1>2. Counted(x) \in Claimants /\ Claims(c)[Counted(x)] = transactions[x][c].current
    BY IsHolder, ClaimOf
  <1>3. Cardinality(Of(own, Counted(x))) = transactions[x][c].current
    BY <1>1, <1>2 DEF Backs, Fits
  <1>4. transactions[x][c].current = Cardinality(RecordsOf(c))
    BY DEF DigestionComplete, AtomicInv, Expects
  <1>5. \A r \in Of(own, Counted(x)) : r \in RecordsOf(c) /\ Digested(r)
    BY <1>1, HoldersDiffer DEF Of, Truthful, RecordsOf
  <1>6. IsFiniteSet(RecordsOf(c))
    <2>1. RecordsOf(c) \subseteq Records /\ IsFiniteSet(Records)
      BY RecordsAssumption DEF RecordsOf
    <2> QED BY <2>1, FS_Subset
  <1>7. Of(own, Counted(x)) \subseteq RecordsOf(c)
    BY <1>5
  <1>8. Of(own, Counted(x)) = RecordsOf(c)
    BY <1>3, <1>4, <1>6, <1>7, FS_Subset
  <1> QED BY <1>5, <1>8

AllDigested == \A c \in Clients : OkIssued(c) => \A r \in RecordsOf(c) : Digested(r)

LEMMA AllDigestedStep ==
    ASSUME AtomicInv, [Next]_vars, AllDigested
    PROVE  AllDigested'
  <1>1. TypeOK
    BY DEF AtomicInv, ShipInv
  <1> SUFFICES ASSUME NEW c \in Clients, OkIssued(c)', NEW r \in RecordsOf(c)
               PROVE  Digested(r)'
    BY DEF AllDigested, RecordsOf
  <1>2. Digested(r)
    <2>1. CASE OkIssued(c)
      BY <2>1 DEF AllDigested
    <2>2. CASE ~OkIssued(c)
      BY <1>1, <2>2, NewOk, CompleteDigested
    <2> QED BY <2>1, <2>2
  <1> QED BY <1>1, <1>2, DigestedStays DEF RecordsOf

LEMMA AllDigestedInit == Init => AllDigested
  <1> SUFFICES ASSUME Init, NEW c \in Clients, OkIssued(c) PROVE FALSE
    BY DEF AllDigested
  <1>1. /\ \A s \in Sums : DOMAIN shipped[s] = {} /\ DOMAIN senderQueue[s] = {}
        /\ \A s, d \in Sums : DOMAIN casts[s][d] = {}
    BY DEF Init
  <1> QED BY <1>1 DEF OkIssued, Elements

\* In the schedules in which the two handlers of a worker do not overlap no
\* worker flushes a client before all its records are digested, for any number
\* of workers, clients and records and whatever control messages are lost.
THEOREM NoPrematureFlushHolds == AtomicSpec => []NoPrematureFlush
  <1>1. Init => AtomicInv /\ AllDigested
    BY AtomicInit, AllDigestedInit
  <1>2. AtomicInv /\ AllDigested /\ [AtomicNext]_vars => AtomicInv' /\ AllDigested'
    BY AtomicStep, AtomicIsNext, AllDigestedStep
  <1>3. AtomicInv /\ AllDigested => NoPrematureFlush
    <2> SUFFICES ASSUME AtomicInv, AllDigested, NEW s \in Sums, NEW i \in DOMAIN shipped[s]
                 PROVE  \A r \in RecordsOf(shipped[s][i].txn) : Digested(r)
      BY DEF NoPrematureFlush, Digested
    <2>1. PICK c : c = shipped[s][i].txn
      OBVIOUS
    <2>2. c \in Clients
      <3>1. shipped[s] \in Seq(Batches)
        BY DEF AtomicInv, ShipInv, TypeOK
      <3>2. shipped[s][i] \in Batches
        BY <3>1
      <3> QED BY <2>1, <3>2 DEF Batches
    <2>3. OkIssued(c)
      BY <2>1, IssuedMeans DEF HasFlushed
    <2> QED BY <2>1, <2>2, <2>3 DEF AllDigested
  <1> QED BY <1>1, <1>2, <1>3, PTL DEF AtomicSpec

-----------------------------------------------------------------------------
(* What the barrier sees of the workers.                                   *)

Waiting == unsent \cup UNION {inbox[s] : s \in Sums}
Held == [s \in Sums |-> digestPool[s] \ Shipped(s)]
Released == {c \in Clients : OkIssued(c)}
Out == UNION {Shipped(s) : s \in Sums}

\* What a worker is about to delete is in its batches.
DeletesShipped ==
    \A s \in Sums : recv[s].at = "delete_digest" =>
        DigestOf(s, recv[s].txn) \subseteq Shipped(s)

NothingBroken == brokenCast = {} /\ brokenDirect = {}

BarrierInv ==
    /\ AtomicInv /\ AllDigested
    /\ NoLoss /\ NothingBroken /\ Listening /\ DeletesShipped

\* Where all listen and no connection breaks, nothing is lost.
LEMMA NoLossStep ==
    ASSUME MaxBroken = 0, InitiallyListening = Sums, TypeOK, Listening,
           [Next]_vars, NoLoss, NothingBroken
    PROVE  NoLoss' /\ NothingBroken'
  <1>1. Cardinality({}) = 0
    BY FS_EmptySet
  <1>2. brokenCast = {} /\ brokenDirect = {}
    BY DEF NothingBroken
  <1>3. ASSUME NEW s \in Sums
        PROVE  ~SendBroadcastFails(s) /\ ~SendDirectFails(s)
    <2>1. ~(Cardinality(brokenCast) + Cardinality(brokenDirect) < MaxBroken)
      BY <1>1, <1>2
    <2> QED BY <1>2, <2>1 DEF SendBroadcastFails, SendDirectFails
  <1>4. listening = Sums
    BY DEF Listening, TypeOK
  <1>5. ASSUME NEW s \in Sums, PublishDirect(s)
        PROVE  Head(senderQueue[s]).to \in Sums
    <2>1. senderQueue[s] \in Seq(Envelopes) /\ senderQueue[s] # <<>>
      BY <1>5 DEF TypeOK, PublishDirect
    <2>2. Head(senderQueue[s]) \in Envelopes
      BY <2>1, Pop
    <2> QED BY <1>5, <2>2, EnvelopeFields DEF PublishDirect
  <1>6. ASSUME NEW s \in Sums, SenderThread(s)
        PROVE  NoLoss' /\ UNCHANGED << brokenCast, brokenDirect >>
    <2>1. PublishBroadcast(s) \/ PublishDirect(s)
      BY <1>3, <1>6 DEF SenderThread
    <2>2. CASE PublishBroadcast(s)
      BY <1>4, <2>2 DEF PublishBroadcast, connections, NoLoss
    <2>3. CASE PublishDirect(s)
      BY <1>4, <1>5, <2>3 DEF PublishDirect, connections, NoLoss
    <2> QED BY <2>1, <2>2, <2>3
  <1>7. ASSUME NEW s \in Sums, Listen(s)
        PROVE  lost' = lost /\ UNCHANGED << brokenCast, brokenDirect >>
    BY <1>7 DEF Listen
  <1>8. NoLoss' /\ UNCHANGED << brokenCast, brokenDirect >>
    BY <1>6, <1>7, WhoWrites DEF NoLoss
  <1> QED BY <1>8 DEF NothingBroken

\* A flush adds the client's digest to what its worker has shipped.
LEMMA ShippedMore ==
    ASSUME TypeOK, NEW s \in Sums, NEW src \in Sums, ReceiveOk(s, src)
    PROVE  \E c \in Clients :
               /\ InCast(src, s, Ok(c))
               /\ recv'[s].txn = c
               /\ Shipped(s)' = Shipped(s) \cup DigestOf(s, c)
               /\ \A d \in Sums : d # s => Shipped(d)' = Shipped(d)
  <1>1. PICK c \in Clients : /\ Head(casts[src][s]) = Ok(c)
                             /\ InCast(src, s, Ok(c))
                             /\ recv'[s].txn = c
    BY OkHeard
  <1>2. Head(casts[src][s]).txn = c
    BY <1>1 DEF Ok
  <1>3. PICK b : b = [txn |-> c, records |-> DigestOf(s, c)]
    OBVIOUS
  <1>4. shipped' = [shipped EXCEPT ![s] = Append(@, b)]
    BY <1>2, <1>3 DEF ReceiveOk
  <1>5. shipped \in [Sums -> Seq(Batches)]
    BY DEF TypeOK
  <1>6. b \in Batches
    BY <1>3 DEF Batches, DigestOf, RecordsOf
  <1>7. Elements(Append(shipped[s], b)) = Elements(shipped[s]) \cup {b}
    BY <1>5, <1>6, ElementsAppend
  <1>8. Elements(shipped'[s]) = Elements(shipped[s]) \cup {b}
    BY <1>4, <1>5, <1>7
  <1>9. Shipped(s)' = Shipped(s) \cup DigestOf(s, c)
    BY <1>3, <1>8 DEF Shipped
  <1>10. ASSUME NEW d \in Sums, d # s PROVE Shipped(d)' = Shipped(d)
    <2>1. shipped'[d] = shipped[d]
      BY <1>4, <1>5, <1>10
    <2> QED BY <2>1 DEF Shipped
  <1> QED BY <1>1, <1>9, <1>10

LEMMA ShippedIs ==
    ASSUME NEW s, NEW r
    PROVE  r \in Shipped(s) <=> InBatch(r, s)
  BY DEF Shipped, InBatch, Elements

LEMMA ShippedStays ==
    ASSUME TypeOK, [Next]_vars, NEW s \in Sums
    PROVE  Shipped(s) \subseteq Shipped(s)'
  <1>1. CASE shipped' = shipped
    BY <1>1 DEF Shipped
  <1>2. ASSUME NEW x \in Sums, NEW src \in Sums, ReceiveOk(x, src)
        PROVE  Shipped(s) \subseteq Shipped(s)'
    <2>1. PICK c \in Clients : /\ Shipped(x)' = Shipped(x) \cup DigestOf(x, c)
                               /\ \A d \in Sums : d # x => Shipped(d)' = Shipped(d)
      BY <1>2, ShippedMore
    <2>2. CASE s = x
      BY <2>1, <2>2
    <2>3. CASE s # x
      BY <2>1, <2>3
    <2> QED BY <2>2, <2>3
  <1> QED BY <1>1, <1>2, WhoWrites

\* The one step that brings a thread to the deletion of a digest.
LEMMA DeletionOld ==
    ASSUME TypeOK, [Next]_vars, NEW s \in Sums, recv'[s].at = "delete_digest"
    PROVE  recv'[s] = recv[s] \/ \E src \in Sums : ReceiveOk(s, src)
  <1> SUFFICES ASSUME ReceiverThread(s), recv'[s] # recv[s]
               PROVE  \E src \in Sums : ReceiveOk(s, src)
    BY RecvElsewhere, WhoWrites
  <1>1. ASSUME NEW src \in Sums, ReceiveTryingReady(s, src) PROVE FALSE
    <2>1. PICK t : recv' = [recv EXCEPT ![s] = [RecvIdle EXCEPT !.at = "check", !.txn = t]]
      BY <1>1 DEF ReceiveTryingReady
    <2>2. recv'[s].at = "check"
      BY <2>1 DEF RecvIdle, TypeOK
    <2> QED BY <2>2
  <1>2. ASSUME NEW src \in Sums, ReceiveCommit(s, src) PROVE FALSE
    BY <1>2, CommitHeard
  <1>3. ASSUME SnapshotDigest(s) PROVE FALSE
    <2>1. PICK n : recv' = [recv EXCEPT ![s].at = "answer", ![s].processed = n]
      BY <1>3 DEF SnapshotDigest
    <2>2. recv'[s].at = "answer"
      BY <2>1, RecvKept DEF TypeOK
    <2> QED BY <2>2
  <1>4. ASSUME AnswerCommit(s) \/ CheckCompletion(s) \/ DeleteTransactionInfo(s) PROVE FALSE
    BY <1>4 DEF AnswerCommit, CheckCompletion, DeleteTransactionInfo, RecvIdle, TypeOK
  <1>5. ASSUME DeleteClientDigest(s) \/ DeleteTransaction(s) PROVE FALSE
    BY <1>5, Deletions
  <1> QED BY <1>1, <1>2, <1>3, <1>4, <1>5 DEF ReceiverThread

LEMMA DeletesShippedStep ==
    ASSUME TypeOK, [Next]_vars, HandlersDisjoint', DeletesShipped
    PROVE  DeletesShipped'
  <1> SUFFICES ASSUME NEW s \in Sums, recv'[s].at = "delete_digest",
                      NEW r \in DigestOf(s, recv[s].txn)'
               PROVE  r \in Shipped(s)'
    BY DEF DeletesShipped
  <1>1. r \in digestPool'[s] /\ r \in RecordsOf(recv'[s].txn)
    BY DEF DigestOf
  <1>2. ASSUME NEW src \in Sums, ReceiveOk(s, src) PROVE r \in Shipped(s)'
    <2>1. PICK c \in Clients : /\ recv'[s].txn = c
                               /\ Shipped(s)' = Shipped(s) \cup DigestOf(s, c)
      BY <1>2, ShippedMore
    <2>2. digestPool' = digestPool
      BY <1>2 DEF ReceiveOk
    <2> QED BY <1>1, <2>1, <2>2 DEF DigestOf
  <1>3. CASE recv'[s] = recv[s]
    <2>1. r \in digestPool[s]
      <3>1. CASE digestPool' = digestPool
        BY <1>1, <3>1
      <3>2. ASSUME NEW x \in Sums, NEW q \in Records, DigestData(x, q)
            PROVE  r \in digestPool[s]
        <4>1. data'[x].at = "look_master"
          BY <3>2 DEF DigestData, TypeOK
        <4>2. x # s
          BY <4>1 DEF HandlersDisjoint
        <4> QED BY <1>1, <3>2, <4>2 DEF DigestData, TypeOK
      <3>3. ASSUME NEW x \in Sums, DeleteClientDigest(x)
            PROVE  r \in digestPool[s]
        BY <1>1, <3>3 DEF DeleteClientDigest, TypeOK
      <3> QED BY <3>1, <3>2, <3>3, WhoWrites
    <2>2. r \in Shipped(s)
      BY <1>1, <1>3, <2>1 DEF DeletesShipped, DigestOf
    <2> QED BY <2>2, ShippedStays
  <1> QED BY <1>2, <1>3, DeletionOld

LEMMA BarrierInvStep ==
    ASSUME MaxBroken = 0, InitiallyListening = Sums, BarrierInv, [AtomicNext]_vars
    PROVE  BarrierInv'
  <1>1. [Next]_vars /\ AtomicInv' /\ TypeOK
    BY AtomicIsNext, AtomicStep DEF BarrierInv, AtomicInv, ShipInv
  <1>2. AllDigested'
    BY <1>1, AllDigestedStep DEF BarrierInv
  <1>3. NoLoss' /\ NothingBroken' /\ Listening'
    BY <1>1, NoLossStep, ListeningStep DEF BarrierInv
  <1>4. DeletesShipped'
    BY <1>1, DeletesShippedStep DEF BarrierInv, AtomicInv
  <1> QED BY <1>1, <1>2, <1>3, <1>4 DEF BarrierInv

LEMMA BarrierInvInit ==
    ASSUME InitiallyListening = Sums, Init
    PROVE  BarrierInv
  <1>1. \A s \in Sums : recv[s].at = "idle"
    BY DEF Init, RecvIdle
  <1>2. NoLoss /\ NothingBroken /\ Listening /\ DeletesShipped
    BY <1>1 DEF Init, NoLoss, NothingBroken, Listening, DeletesShipped
  <1> QED BY <1>2, AtomicInit, AllDigestedInit DEF BarrierInv

\* The steps that move no record release one client, or none.
LEMMA StillStep ==
    ASSUME BarrierInv, BarrierInv', [Next]_vars,
           Waiting' = Waiting, Held' = Held, Out' = Out
    PROVE  [Barrier!Next]_(Barrier!vars)
  <1>1. TypeOK /\ AtomicInv /\ Listening /\ NoLoss'
    BY DEF BarrierInv, AtomicInv, ShipInv
  <1>2. \A c \in Clients : OkIssued(c) => OkIssued(c)'
    BY <1>1, OkStays
  <1>3. CASE \A c \in Clients : OkIssued(c)' => OkIssued(c)
    <2>1. Released' = Released
      BY <1>2, <1>3 DEF Released
    <2> QED BY <2>1 DEF Barrier!vars, Waiting, Held, Released, Out
  <1>4. ASSUME NEW c \in Clients, ~OkIssued(c), OkIssued(c)'
        PROVE  [Barrier!Next]_(Barrier!vars)
    <2>1. PICK x \in Sums : DigestionComplete(x, c) /\ Queued(x, Ok(c))'
                            /\ (FinishEof(x) \/ CheckCompletion(x))
      BY <1>1, <1>4, NewOk
    <2>2. RecordsOf(c) \cap Waiting = {}
      BY <1>1, <2>1, CompleteDigested DEF Digested, Waiting
    <2>3. ASSUME NEW t \in Clients, OkIssued(t)', ~OkIssued(t) PROVE t = c
      <3>1. PICK y \in Sums : Queued(y, Ok(t))'
        BY <1>1, <2>3, NewOk
      <3>2. ~Queued(x, Ok(c)) /\ ~Queued(y, Ok(t))
        BY <1>4, <2>3, IssuedMeans
      <3>3. ~QueuesKept
        BY <2>1, <3>2 DEF QueuesKept
      <3>4. ASSUME NEW s \in Sums, NEW u \in Clients,
                   \A d \in Sums : \A n :
                      Queued(d, n)' => Queued(d, n) \/ (d = s /\ n = Commit(u, s))
            PROVE  FALSE
        BY <2>1, <3>2, <3>4, KindsDiffer
      <3>5. PICK s \in Sums, u \in Clients :
                \A d \in Sums : \A n :
                   Queued(d, n)' => Queued(d, n) \/ (d = s /\ n = Ok(u))
        BY <1>1, <3>3, <3>4, QueueStep
      <3>6. Ok(c) = Ok(u) /\ Ok(t) = Ok(u)
        BY <2>1, <3>1, <3>2, <3>5
      <3> QED BY <3>6, NamesDiffer
    <2>4. Released' = Released \cup {c} /\ c \notin Released
      BY <1>2, <1>4, <2>3 DEF Released
    <2>5. Barrier!Release(c)
      BY <2>2, <2>4
      DEF Barrier!Release, Barrier!RecordsOf, RecordsOf, Waiting, Held, Released, Out
    <2> QED BY <2>1, <2>5 DEF Barrier!Next
  <1> QED BY <1>3, <1>4

\* The steps that issue no Ok.
LEMMA ReleasedSame ==
    ASSUME BarrierInv, BarrierInv', [Next]_vars, senderQueue' = senderQueue
    PROVE  Released' = Released
  <1>1. TypeOK /\ Listening /\ NoLoss'
    BY DEF BarrierInv, AtomicInv, ShipInv
  <1>2. \A c \in Clients : OkIssued(c) => OkIssued(c)'
    BY <1>1, OkStays
  <1>3. ASSUME NEW c \in Clients, ~OkIssued(c), OkIssued(c)' PROVE FALSE
    <2>1. PICK x \in Sums : Queued(x, Ok(c))'
      BY <1>1, <1>3, NewOk
    <2>2. Queued(x, Ok(c))
      BY <2>1 DEF Queued
    <2> QED BY <1>3, <2>2, IssuedMeans
  <1> QED BY <1>2, <1>3 DEF Released

LEMMA TakeStep ==
    ASSUME BarrierInv, BarrierInv', [Next]_vars,
           NEW s \in Sums, NEW r \in Records, DigestData(s, r)
    PROVE  Barrier!Take(s, r)
  <1>1. TypeOK /\ Places
    BY DEF BarrierInv, AtomicInv, ShipInv
  <1>2. /\ r \in inbox[s] /\ unsent' = unsent /\ shipped' = shipped
        /\ \A d \in Sums : inbox'[d] = IF d = s THEN inbox[d] \ {r} ELSE inbox[d]
        /\ \A d \in Sums :
               digestPool'[d] = IF d = s THEN digestPool[d] \cup {r} ELSE digestPool[d]
    BY <1>1 DEF DigestData, TypeOK
  <1>3. r \notin unsent /\ \A d \in Sums : d # s => r \notin inbox[d]
    BY <1>1, <1>2 DEF Places
  <1>4. r \notin Shipped(s)
    BY <1>1, <1>2, ShippedIs DEF Places
  <1>5. r \in Waiting /\ Waiting' = Waiting \ {r}
    <2>1. r \in Waiting
      BY <1>2 DEF Waiting
    <2>2. \A q : (\E d \in Sums : q \in inbox'[d]) <=> (\E d \in Sums : q \in inbox[d]) /\ q # r
      BY <1>2, <1>3
    <2>3. \A q : q \in Waiting <=> q \in unsent \/ \E d \in Sums : q \in inbox[d]
      BY DEF Waiting
    <2>4. \A q : q \in Waiting' <=> q \in unsent' \/ \E d \in Sums : q \in inbox'[d]
      BY DEF Waiting
    <2>5. \A q : q \in Waiting' <=> q \in Waiting \ {r}
      BY <1>2, <1>3, <2>2, <2>3, <2>4
    <2> QED BY <2>1, <2>5
  <1>6. \A d \in Sums : Shipped(d)' = Shipped(d)
    BY <1>2 DEF Shipped
  <1>7. Held' = [Held EXCEPT ![s] = @ \cup {r}]
    <2>1. ASSUME NEW d \in Sums
          PROVE  digestPool'[d] \ Shipped(d)' =
                 IF d = s THEN (digestPool[d] \ Shipped(d)) \cup {r}
                 ELSE digestPool[d] \ Shipped(d)
      BY <1>2, <1>4, <1>6
    <2>2. Held' = [d \in Sums |-> digestPool'[d] \ Shipped(d)']
      BY DEF Held
    <2> QED BY <2>1, <2>2 DEF Held
  <1>8. Out' = Out
    BY <1>6 DEF Out
  <1>9. Released' = Released
    BY ReleasedSame DEF DigestData, controlVars
  <1> QED BY <1>5, <1>7, <1>8, <1>9 DEF Barrier!Take, Waiting, Held, Released, Out

LEMMA HandOverStep ==
    ASSUME BarrierInv, BarrierInv', [Next]_vars,
           NEW s \in Sums, NEW src \in Sums, ReceiveOk(s, src)
    PROVE  [Barrier!Next]_(Barrier!vars)
  <1>1. TypeOK
    BY DEF BarrierInv, AtomicInv, ShipInv
  <1>2. PICK c \in Clients : /\ InCast(src, s, Ok(c))
                             /\ Shipped(s)' = Shipped(s) \cup DigestOf(s, c)
                             /\ \A d \in Sums : d # s => Shipped(d)' = Shipped(d)
    BY <1>1, ShippedMore
  <1>3. UNCHANGED << unsent, inbox, digestPool, senderQueue >>
    BY DEF ReceiveOk, dataPlane
  <1>4. Waiting' = Waiting /\ Released' = Released
    BY <1>3, ReleasedSame DEF Waiting
  <1>5. c \in Released
    BY <1>2, IssuedMeans DEF Released
  <1>6. Held[s] = digestPool[s] \ Shipped(s)
    BY DEF Held
  <1>7. Held[s] \cap RecordsOf(c) = DigestOf(s, c) \ Shipped(s)
    BY <1>6 DEF DigestOf
  <1>8. Held' = [Held EXCEPT ![s] = @ \ RecordsOf(c)]
    <2>1. ASSUME NEW d \in Sums
          PROVE  digestPool'[d] \ Shipped(d)' =
                 IF d = s THEN (digestPool[d] \ Shipped(d)) \ RecordsOf(c)
                 ELSE digestPool[d] \ Shipped(d)
      <3>1. CASE d = s
        BY <1>2, <1>3, <3>1 DEF DigestOf
      <3>2. CASE d # s
        BY <1>2, <1>3, <3>2
      <3> QED BY <3>1, <3>2
    <2>2. Held' = [d \in Sums |-> digestPool'[d] \ Shipped(d)']
      BY DEF Held
    <2> QED BY <2>1, <2>2 DEF Held
  <1>9. Out' = Out \cup (Held[s] \cap RecordsOf(c))
    <2>1. \A q : q \in Out <=> \E d \in Sums : q \in Shipped(d)
      BY DEF Out
    <2>2. \A q : q \in Out' <=> \E d \in Sums : q \in Shipped(d)'
      BY DEF Out
    <2>3. \A q : (\E d \in Sums : q \in Shipped(d)') <=>
                     (\E d \in Sums : q \in Shipped(d)) \/ q \in DigestOf(s, c)
      BY <1>2
    <2>4. \A q : q \in Out' <=> q \in Out \/ q \in DigestOf(s, c) \ Shipped(s)
      BY <2>1, <2>2, <2>3
    <2>5. \A q : q \in Out' <=> q \in Out \cup (Held[s] \cap RecordsOf(c))
      BY <1>7, <2>4
    <2> QED BY <2>5
  <1>10. CASE Held[s] \cap RecordsOf(c) = {}
    <2>1. Held[s] \ RecordsOf(c) = Held[s]
      BY <1>10
    <2>2. Held' = Held
      BY <1>8, <2>1 DEF Held
    <2>3. Out' = Out
      BY <1>9, <1>10
    <2> QED BY <1>4, <2>2, <2>3 DEF Barrier!vars, Waiting, Held, Released, Out
  <1>11. CASE Held[s] \cap RecordsOf(c) # {}
    <2>1. Barrier!HandOver(s, c)
      BY <1>4, <1>5, <1>8, <1>9, <1>11
      DEF Barrier!HandOver, Barrier!RecordsOf, RecordsOf, Waiting, Held, Released, Out
    <2> QED BY <2>1 DEF Barrier!Next
  <1> QED BY <1>10, <1>11

\* Every step of the workers is a step of the barrier, or none.
LEMMA BarrierStep ==
    ASSUME BarrierInv, BarrierInv', [Next]_vars
    PROVE  [Barrier!Next]_(Barrier!vars)
  <1>1. TypeOK
    BY DEF BarrierInv, AtomicInv, ShipInv
  <1>2. ASSUME NEW s \in Sums, NEW r \in Records, DigestData(s, r)
        PROVE  [Barrier!Next]_(Barrier!vars)
    BY <1>2, TakeStep DEF Barrier!Next
  <1>3. ASSUME NEW s \in Sums, NEW src \in Sums, ReceiveOk(s, src)
        PROVE  [Barrier!Next]_(Barrier!vars)
    BY <1>3, HandOverStep
  <1>4. ASSUME NEW s \in Sums, DeleteClientDigest(s)
        PROVE  [Barrier!Next]_(Barrier!vars)
    <2>1. UNCHANGED << unsent, inbox, shipped >>
          /\ digestPool' = [digestPool EXCEPT ![s] = @ \ RecordsOf(recv[s].txn)]
      BY <1>4 DEF DeleteClientDigest, dataPlane
    <2>2. \A d \in Sums : Shipped(d)' = Shipped(d)
      BY <2>1 DEF Shipped
    <2>3. DigestOf(s, recv[s].txn) \subseteq Shipped(s)
      BY <1>4 DEF BarrierInv, DeletesShipped, DeleteClientDigest
    <2>4. ASSUME NEW d \in Sums
          PROVE  digestPool'[d] \ Shipped(d)' = digestPool[d] \ Shipped(d)
      <3>1. CASE d = s
        <4>1. digestPool'[s] = digestPool[s] \ RecordsOf(recv[s].txn)
          BY <1>1, <2>1 DEF TypeOK
        <4> QED BY <2>2, <2>3, <3>1, <4>1 DEF DigestOf
      <3>2. CASE d # s
        <4>1. digestPool'[d] = digestPool[d]
          BY <1>1, <2>1, <3>2 DEF TypeOK
        <4> QED BY <2>2, <4>1
      <3> QED BY <3>1, <3>2
    <2>5. Held' = [d \in Sums |-> digestPool'[d] \ Shipped(d)']
      BY DEF Held
    <2>6. Held' = Held
      BY <2>4, <2>5 DEF Held
    <2>7. Waiting' = Waiting /\ Out' = Out
      BY <2>1, <2>2 DEF Waiting, Out
    <2> QED BY <2>6, <2>7, StillStep
  <1>5. ASSUME NEW s \in Sums, NEW r \in Records, PublishRecord(r, s)
        PROVE  [Barrier!Next]_(Barrier!vars)
    <2>1. /\ r \in unsent /\ unsent' = unsent \ {r} /\ UNCHANGED << digestPool, shipped >>
          /\ \A d \in Sums : inbox'[d] = IF d = s THEN inbox[d] \cup {r} ELSE inbox[d]
      BY <1>1, <1>5 DEF PublishRecord, TypeOK
    <2>2. \A q : q \in Waiting <=> q \in unsent \/ \E d \in Sums : q \in inbox[d]
      BY DEF Waiting
    <2>3. \A q : q \in Waiting' <=> q \in unsent' \/ \E d \in Sums : q \in inbox'[d]
      BY DEF Waiting
    <2>4. \A q : (\E d \in Sums : q \in inbox'[d]) <=> (\E d \in Sums : q \in inbox[d]) \/ q = r
      BY <2>1
    <2>5. \A q : q \in Waiting' <=> q \in Waiting
      BY <2>1, <2>2, <2>3, <2>4
    <2>6. Waiting' = Waiting
      BY <2>5
    <2>7. \A d \in Sums : Shipped(d)' = Shipped(d)
      BY <2>1 DEF Shipped
    <2>8. Held' = Held /\ Out' = Out
      BY <2>1, <2>7 DEF Held, Out
    <2> QED BY <2>6, <2>8, StillStep
  <1>6. CASE UNCHANGED << unsent, inbox, digestPool, shipped >>
    <2>1. \A d \in Sums : Shipped(d)' = Shipped(d)
      BY <1>6 DEF Shipped
    <2>2. Waiting' = Waiting /\ Held' = Held /\ Out' = Out
      BY <1>6, <2>1 DEF Waiting, Held, Out
    <2> QED BY <2>2, StillStep
  <1> QED BY <1>2, <1>3, <1>4, <1>5, <1>6, WhoWrites

LEMMA BarrierStart ==
    ASSUME Init
    PROVE  Barrier!Init
  <1>1. \A s \in Sums : inbox[s] = {} /\ digestPool[s] = {} /\ DOMAIN shipped[s] = {}
    BY DEF Init
  <1>2. \A s \in Sums : Shipped(s) = {}
    BY <1>1 DEF Shipped, Elements
  <1>3. Waiting = Records /\ Out = {}
    BY <1>1, <1>2 DEF Init, Waiting, Out
  <1>4. Held = [s \in Sums |-> {}]
    BY <1>1, <1>2 DEF Held
  <1>5. Released = {}
    <2>1. /\ \A s \in Sums : DOMAIN senderQueue[s] = {}
          /\ \A s, d \in Sums : DOMAIN casts[s][d] = {}
      BY DEF Init
    <2> QED BY <1>1, <2>1 DEF Released, OkIssued, Elements
  <1> QED BY <1>3, <1>4, <1>5 DEF Barrier!Init, Waiting, Held, Released, Out

\* When all workers listen from the start and no connection breaks, the workers
\* whose handlers do not overlap implement the barrier: a client is released
\* when all its records are digested and not before, nothing is handed over
\* earlier, and what is handed over leaves its worker, for any number of
\* workers, clients and records.
THEOREM BarrierKept ==
    ASSUME InitiallyListening = Sums, MaxBroken = 0
    PROVE  AtomicSpec => Barrier!Spec
  <1>1. Init => BarrierInv /\ Barrier!Init
    BY BarrierInvInit, BarrierStart
  <1>2. BarrierInv /\ [AtomicNext]_vars => BarrierInv'
    BY BarrierInvStep
  <1>3. BarrierInv /\ BarrierInv' /\ [AtomicNext]_vars => [Barrier!Next]_(Barrier!vars)
    BY AtomicIsNext, BarrierStep
  <1> QED BY <1>1, <1>2, <1>3, PTL DEF AtomicSpec, Barrier!Spec
================================================================================

----------------------------- MODULE PipelineProofs -----------------------------
(***************************************************************************)
(* Everything behind the Sum workers, for any numbers of them and of       *)
(* aggregators, any digests, any hash and any TopSize: a client none of    *)
(* whose messages was hit by a failure gets the exact top of its totals,   *)
(* and nothing of it is left behind.                                       *)
(*                                                                         *)
(* What one client is owed can be told from the queues, and the steps for  *)
(* the others do not touch it.  So the invariant (ClientInv) speaks of one *)
(* client at a time.  A queue has the client's amounts before its EOF, so  *)
(* an aggregator has been given what a Sum flushed and the queue does not  *)
(* hold any more (Given), and has counted the Sums whose EOF it does not   *)
(* hold (Ended).  With all of them it sends a top of its part of the       *)
(* totals, once; Join's heap is a top of the parts taken (Taken), because  *)
(* a top of partial tops of disjoint parts is a top of the whole           *)
(* (HeapAfterTop).  Every action has two lemmas: what it is to the other   *)
(* clients (...Step: Nothing) and what it is to its own (...Own).          *)
(***************************************************************************)

EXTENDS TopPipeline, FruitTopProofs

-----------------------------------------------------------------------------
(* What a queue holds for a client.                                        *)

IsData(m, c) == m.client = c /\ m.type = "data"
IsEof(m, c) == m.client = c /\ m.type = "eof"

About(q, c) == \E i \in DOMAIN q : q[i].client = c
Ends(q, c) == \E i \in DOMAIN q : IsEof(q[i], c)
Waits(q, c, f) == \E i \in DOMAIN q : IsData(q[i], c) /\ q[i].fruit = f

\* Of client c, q holds nothing after the EOF, no fruit without the EOF or
\* twice, and the amounts of d.
InOrder(q, c, d) ==
    /\ \A i, j \in DOMAIN q : IsEof(q[i], c) /\ q[j].client = c => j <= i
    /\ \A i \in DOMAIN q : q[i].client = c => Ends(q, c)
    /\ \A i, j \in DOMAIN q :
          IsData(q[i], c) /\ IsData(q[j], c) /\ q[i].fruit = q[j].fruit => i = j
    /\ \A i \in DOMAIN q :
          IsData(q[i], c) => q[i].fruit \in DOMAIN d /\ q[i].amount = d[q[i].fruit]

SameFor(c, d, q, r) ==
    /\ About(r, c) <=> About(q, c)
    /\ Ends(r, c) <=> Ends(q, c)
    /\ \A f : Waits(r, c, f) <=> Waits(q, c, f)
    /\ InOrder(q, c, d) => InOrder(r, c, d)

\* r has the messages of c that q has, in the same order: those at i in q are at
\* to[i] in r.
LEMMA SameMessages ==
    ASSUME NEW c, NEW d, NEW q, NEW r, NEW to,
           \A i \in DOMAIN q : q[i].client = c => to[i] \in DOMAIN r /\ r[to[i]] = q[i],
           \A j \in DOMAIN r : r[j].client = c => \E i \in DOMAIN q : to[i] = j /\ q[i] = r[j],
           \A i, j \in DOMAIN q : i <= j => to[i] <= to[j]
    PROVE  SameFor(c, d, q, r)
<1>1. ASSUME NEW j \in DOMAIN r, r[j].client = c
      PROVE  \E i \in DOMAIN q : to[i] = j /\ q[i] = r[j] /\ q[i].client = c
  BY <1>1
<1>2. ASSUME NEW i \in DOMAIN q, q[i].client = c
      PROVE  to[i] \in DOMAIN r /\ r[to[i]] = q[i] /\ r[to[i]].client = c
  BY <1>2
<1>3. About(r, c) <=> About(q, c)
  BY <1>1, <1>2 DEF About
<1>4. Ends(r, c) <=> Ends(q, c)
  BY <1>1, <1>2 DEF Ends, IsEof
<1>5. ASSUME NEW f PROVE Waits(r, c, f) <=> Waits(q, c, f)
  BY <1>1, <1>2 DEF Waits, IsData
<1>6. ASSUME InOrder(q, c, d) PROVE InOrder(r, c, d)
  <2>1. ASSUME NEW i \in DOMAIN r, NEW j \in DOMAIN r, IsEof(r[i], c), r[j].client = c
        PROVE  j <= i
    <3>1. PICK k \in DOMAIN q : to[k] = i /\ q[k] = r[i]
      BY <1>1, <2>1 DEF IsEof
    <3>2. PICK l \in DOMAIN q : to[l] = j /\ q[l] = r[j]
      BY <1>1, <2>1
    <3>3. l <= k
      BY <1>6, <2>1, <3>1, <3>2 DEF InOrder
    <3> QED BY <3>1, <3>2, <3>3
  <2>2. ASSUME NEW i \in DOMAIN r, r[i].client = c PROVE Ends(r, c)
    <3>1. PICK k \in DOMAIN q : to[k] = i /\ q[k] = r[i]
      BY <1>1, <2>2
    <3>2. Ends(q, c)
      BY <1>6, <2>2, <3>1 DEF InOrder
    <3> QED BY <1>4, <3>2
  <2>3. ASSUME NEW i \in DOMAIN r, NEW j \in DOMAIN r,
               IsData(r[i], c), IsData(r[j], c), r[i].fruit = r[j].fruit
        PROVE  i = j
    <3>1. PICK k \in DOMAIN q : to[k] = i /\ q[k] = r[i]
      BY <1>1, <2>3 DEF IsData
    <3>2. PICK l \in DOMAIN q : to[l] = j /\ q[l] = r[j]
      BY <1>1, <2>3 DEF IsData
    <3>3. k = l
      BY <1>6, <2>3, <3>1, <3>2 DEF InOrder
    <3> QED BY <3>1, <3>2, <3>3
  <2>4. ASSUME NEW i \in DOMAIN r, IsData(r[i], c)
        PROVE  r[i].fruit \in DOMAIN d /\ r[i].amount = d[r[i].fruit]
    <3>1. PICK k \in DOMAIN q : to[k] = i /\ q[k] = r[i]
      BY <1>1, <2>4 DEF IsData
    <3> QED BY <1>6, <2>4, <3>1 DEF InOrder
  <2> QED BY <2>1, <2>2, <2>3, <2>4 DEF InOrder
<1> QED BY <1>3, <1>4, <1>5, <1>6 DEF SameFor

\* Nothing is taken from c when another client's message leaves.
LEMMA SameTail ==
    ASSUME NEW c, NEW d, NEW M, NEW q \in Seq(M), q # << >>, Head(q).client # c
    PROVE  SameFor(c, d, q, Tail(q))
<1> DEFINE to == [i \in DOMAIN q |-> i - 1]
<1>1. Head(q) = q[1] /\ Tail(q) \in Seq(M) /\ Len(Tail(q)) = Len(q) - 1 /\ Len(q) \in Nat
      /\ \A i \in 1 .. Len(Tail(q)) : Tail(q)[i] = q[i + 1]
  BY HeadTailProperties
<1>2. DOMAIN q = 1 .. Len(q) /\ DOMAIN Tail(q) = 1 .. Len(q) - 1
  BY <1>1
<1>3. ASSUME NEW i \in DOMAIN q, q[i].client = c
      PROVE  to[i] \in DOMAIN Tail(q) /\ Tail(q)[to[i]] = q[i]
  <2>1. i # 1
    BY <1>1, <1>3
  <2>2. i - 1 \in 1 .. Len(q) - 1 /\ (i - 1) + 1 = i
    BY <1>1, <1>2, <2>1
  <2> QED BY <1>1, <1>2, <2>2
<1>4. ASSUME NEW j \in DOMAIN Tail(q)
      PROVE  \E i \in DOMAIN q : to[i] = j /\ q[i] = Tail(q)[j]
  <2>1. j + 1 \in DOMAIN q /\ (j + 1) - 1 = j
    BY <1>1, <1>2
  <2> QED BY <1>1, <1>2, <2>1
<1>5. \A i, j \in DOMAIN q : i <= j => to[i] <= to[j]
  BY <1>1, <1>2
<1> HIDE DEF to
<1> QED BY <1>3, <1>4, <1>5, SameMessages

\* Nor added, when another client's arrives,
LEMMA SameAppend ==
    ASSUME NEW c, NEW d, NEW M, NEW q \in Seq(M), NEW m \in M, m.client # c
    PROVE  SameFor(c, d, q, Append(q, m))
<1> DEFINE to == [i \in DOMAIN q |-> i]
<1>1. Append(q, m) \in Seq(M) /\ Len(Append(q, m)) = Len(q) + 1 /\ Len(q) \in Nat
      /\ Append(q, m)[Len(q) + 1] = m
      /\ \A i \in 1 .. Len(q) : Append(q, m)[i] = q[i]
  BY AppendProperties
<1>2. DOMAIN q = 1 .. Len(q) /\ DOMAIN Append(q, m) = 1 .. Len(q) + 1
  BY <1>1
<1>3. ASSUME NEW i \in DOMAIN q
      PROVE  to[i] \in DOMAIN Append(q, m) /\ Append(q, m)[to[i]] = q[i]
  BY <1>1, <1>2
<1>4. ASSUME NEW j \in DOMAIN Append(q, m), Append(q, m)[j].client = c
      PROVE  \E i \in DOMAIN q : to[i] = j /\ q[i] = Append(q, m)[j]
  <2>1. j # Len(q) + 1
    BY <1>1, <1>4
  <2>2. j \in DOMAIN q
    BY <1>1, <1>2, <2>1
  <2> QED BY <1>1, <1>2, <2>2
<1>5. \A i, j \in DOMAIN q : i <= j => to[i] <= to[j]
  OBVIOUS
<1> HIDE DEF to
<1> QED BY <1>3, <1>4, <1>5, SameMessages

\* or several do,
LEMMA SameConcat ==
    ASSUME NEW c, NEW d, NEW M, NEW q \in Seq(M), NEW r \in Seq(M), ~About(r, c)
    PROVE  SameFor(c, d, q, q \o r)
<1> DEFINE to == [i \in DOMAIN q |-> i]
<1>1. q \o r \in Seq(M) /\ Len(q \o r) = Len(q) + Len(r) /\ Len(q) \in Nat /\ Len(r) \in Nat
      /\ \A i \in 1 .. Len(q) + Len(r) :
            (q \o r)[i] = IF i <= Len(q) THEN q[i] ELSE r[i - Len(q)]
  BY ConcatProperties
<1>2. DOMAIN q = 1 .. Len(q) /\ DOMAIN r = 1 .. Len(r) /\ DOMAIN (q \o r) = 1 .. Len(q) + Len(r)
  BY <1>1
<1>3. ASSUME NEW i \in DOMAIN q
      PROVE  to[i] \in DOMAIN (q \o r) /\ (q \o r)[to[i]] = q[i]
  BY <1>1, <1>2
<1>4. ASSUME NEW j \in DOMAIN (q \o r), (q \o r)[j].client = c
      PROVE  \E i \in DOMAIN q : to[i] = j /\ q[i] = (q \o r)[j]
  <2>1. j <= Len(q)
    <3> SUFFICES ASSUME ~(j <= Len(q)) PROVE FALSE
      OBVIOUS
    <3>1. j - Len(q) \in DOMAIN r /\ (q \o r)[j] = r[j - Len(q)]
      BY <1>1, <1>2
    <3> QED BY <1>4, <3>1 DEF About
  <2>2. j \in DOMAIN q
    BY <1>1, <1>2, <2>1
  <2> QED BY <1>1, <1>2, <2>1, <2>2
<1>5. \A i, j \in DOMAIN q : i <= j => to[i] <= to[j]
  OBVIOUS
<1> HIDE DEF to
<1> QED BY <1>3, <1>4, <1>5, SameMessages

\* or one comes back to the end of its queue.
LEMMA SameRotated ==
    ASSUME NEW c, NEW d, NEW M, NEW q \in Seq(M), q # << >>, Head(q).client # c
    PROVE  SameFor(c, d, q, Append(Tail(q), Head(q)))
<1>1. Tail(q) \in Seq(M) /\ Head(q) \in M
  BY HeadTailProperties
<1>2. SameFor(c, d, q, Tail(q)) /\ SameFor(c, d, Tail(q), Append(Tail(q), Head(q)))
  BY <1>1, SameTail, SameAppend
<1> QED BY <1>2 DEF SameFor

-----------------------------------------------------------------------------
(* A message taken from a queue, or delivered to it.                       *)

AggMessages == [type : {"data"}, client : Clients, fruit : Fruits, amount : Nat]
               \cup [type : {"eof"}, client : Clients]

\* What the aggregators are sent.
LEMMA KindsOfMessage ==
    ASSUME NEW m \in AggMessages
    PROVE  /\ m.client \in Clients /\ m.type \in {"data", "eof"}
           /\ m.type = "data" => m.fruit \in Fruits /\ m.amount \in Nat
BY DEF AggMessages

\* The head of a queue is the first message of c in order.
LEMMA OwnEofTaken ==
    ASSUME NEW c, NEW d, NEW M, NEW q \in Seq(M), q # << >>, IsEof(Head(q), c),
           InOrder(q, c, d)
    PROVE  ~About(Tail(q), c) /\ Ends(q, c) /\ \A f : ~Waits(q, c, f)
<1>1. Head(q) = q[1] /\ Tail(q) \in Seq(M) /\ Len(Tail(q)) = Len(q) - 1 /\ Len(q) \in Nat
      /\ \A i \in 1 .. Len(Tail(q)) : Tail(q)[i] = q[i + 1]
  BY HeadTailProperties
<1>2. DOMAIN q = 1 .. Len(q) /\ DOMAIN Tail(q) = 1 .. Len(q) - 1 /\ 1 \in DOMAIN q
  BY <1>1, EmptySeq
<1>3. ASSUME NEW j \in DOMAIN q, q[j].client = c PROVE j = 1
  <2>1. j <= 1
    BY <1>1, <1>2, <1>3 DEF InOrder
  <2> QED BY <1>1, <1>2, <2>1
<1>4. ~About(Tail(q), c)
  <2> SUFFICES ASSUME NEW j \in DOMAIN Tail(q), Tail(q)[j].client = c PROVE FALSE
    BY DEF About
  <2>1. j + 1 \in DOMAIN q /\ q[j + 1].client = c
    BY <1>1, <1>2
  <2>2. j + 1 = 1
    BY <1>3, <2>1
  <2> QED BY <1>1, <1>2, <2>2
<1>5. Ends(q, c)
  BY <1>1, <1>2 DEF Ends
<1>6. ASSUME NEW f PROVE ~Waits(q, c, f)
  <2> SUFFICES ASSUME NEW j \in DOMAIN q, IsData(q[j], c) PROVE FALSE
    BY DEF Waits
  <2>1. j = 1
    BY <1>3 DEF IsData
  <2> QED BY <1>1, <2>1 DEF IsData, IsEof
<1> QED BY <1>4, <1>5, <1>6

\* A queue without a message of c is in order for it.
LEMMA NothingAbout ==
    ASSUME NEW c, NEW d, NEW q, ~About(q, c)
    PROVE  ~Ends(q, c) /\ (\A f : ~Waits(q, c, f)) /\ InOrder(q, c, d)
<1>1. \A i \in DOMAIN q : ~IsEof(q[i], c) /\ ~IsData(q[i], c) /\ q[i].client # c
  BY DEF About, IsEof, IsData
<1> QED BY <1>1 DEF Ends, Waits, InOrder

\* Message m of c is the head of q: it is one of d, and what is left.
AfterData(q, c, d, m) ==
    /\ InOrder(Tail(q), c, d)
    /\ Ends(q, c) /\ Ends(Tail(q), c) /\ About(q, c)
    /\ m.fruit \in DOMAIN d /\ m.amount = d[m.fruit]
    /\ Waits(q, c, m.fruit)
    /\ \A f : Waits(Tail(q), c, f) <=> Waits(q, c, f) /\ f # m.fruit

\* An amount is taken from a queue in order.
LEMMA OwnDataTaken ==
    ASSUME NEW c, NEW d, NEW M, NEW q \in Seq(M), q # << >>, IsData(Head(q), c),
           InOrder(q, c, d)
    PROVE  AfterData(q, c, d, Head(q))
<1> DEFINE t == Tail(q)
<1>1. Head(q) = q[1] /\ t \in Seq(M) /\ Len(t) = Len(q) - 1 /\ Len(q) \in Nat
      /\ \A i \in 1 .. Len(t) : t[i] = q[i + 1]
  BY HeadTailProperties
<1>2. DOMAIN q = 1 .. Len(q) /\ DOMAIN t = 1 .. Len(q) - 1 /\ 1 \in DOMAIN q
  BY <1>1, EmptySeq
<1> HIDE DEF t
<1>3. ASSUME NEW j \in DOMAIN t PROVE j + 1 \in DOMAIN q /\ t[j] = q[j + 1] /\ j + 1 # 1
  BY <1>1, <1>2
<1>4. ASSUME NEW i \in DOMAIN q, i # 1 PROVE i - 1 \in DOMAIN t /\ t[i - 1] = q[i]
  <2>1. i - 1 \in 1 .. Len(t) /\ (i - 1) + 1 = i
    BY <1>1, <1>2, <1>4
  <2> QED BY <1>1, <1>2, <2>1
<1>5. Ends(q, c) /\ About(q, c)
  BY <1>1, <1>2 DEF InOrder, About, IsData
<1>6. PICK e \in DOMAIN q : IsEof(q[e], c)
  BY <1>5 DEF Ends
<1>7. e # 1
  BY <1>1, <1>6 DEF IsEof, IsData
<1>8. Ends(t, c)
  BY <1>4, <1>6, <1>7 DEF Ends
<1>9. \A i, j \in DOMAIN q : IsEof(q[i], c) /\ q[j].client = c => j <= i
  BY DEF InOrder
<1>10. \A i, j \in DOMAIN q :
          IsData(q[i], c) /\ IsData(q[j], c) /\ q[i].fruit = q[j].fruit => i = j
  BY DEF InOrder
<1>11. \A i \in DOMAIN q :
          IsData(q[i], c) => q[i].fruit \in DOMAIN d /\ q[i].amount = d[q[i].fruit]
  BY DEF InOrder
<1>12. ASSUME NEW i \in DOMAIN t, NEW j \in DOMAIN t, IsEof(t[i], c), t[j].client = c
       PROVE  j <= i
  <2>1. j + 1 <= i + 1
    BY <1>3, <1>9, <1>12
  <2> QED BY <1>1, <1>2, <2>1
<1>13. ASSUME NEW i \in DOMAIN t, NEW j \in DOMAIN t,
              IsData(t[i], c), IsData(t[j], c), t[i].fruit = t[j].fruit
       PROVE  i = j
  <2>1. j + 1 = i + 1
    BY <1>3, <1>10, <1>13
  <2> QED BY <1>1, <1>2, <2>1
<1>14. ASSUME NEW i \in DOMAIN t, IsData(t[i], c)
       PROVE  t[i].fruit \in DOMAIN d /\ t[i].amount = d[t[i].fruit]
  BY <1>3, <1>11, <1>14
<1>15. InOrder(t, c, d)
  BY <1>8, <1>12, <1>13, <1>14 DEF InOrder
<1>16. Head(q).fruit \in DOMAIN d /\ Head(q).amount = d[Head(q).fruit]
  BY <1>1, <1>2, <1>11
<1>17. Waits(q, c, Head(q).fruit)
  BY <1>1, <1>2 DEF Waits
<1>18. ASSUME NEW f PROVE Waits(t, c, f) <=> Waits(q, c, f) /\ f # Head(q).fruit
  <2>1. ASSUME Waits(t, c, f) PROVE Waits(q, c, f) /\ f # Head(q).fruit
    <3>1. PICK j \in DOMAIN t : IsData(t[j], c) /\ t[j].fruit = f
      BY <2>1 DEF Waits
    <3>2. Waits(q, c, f)
      BY <1>3, <3>1 DEF Waits
    <3>3. f # Head(q).fruit
      BY <1>1, <1>2, <1>3, <1>10, <3>1
    <3> QED BY <3>2, <3>3
  <2>2. ASSUME Waits(q, c, f), f # Head(q).fruit PROVE Waits(t, c, f)
    <3>1. PICK i \in DOMAIN q : IsData(q[i], c) /\ q[i].fruit = f
      BY <2>2 DEF Waits
    <3>2. i # 1
      BY <1>1, <2>2, <3>1
    <3> QED BY <1>4, <3>1, <3>2 DEF Waits
  <2> QED BY <2>1, <2>2
<1> QED BY <1>5, <1>8, <1>15, <1>16, <1>17, <1>18 DEF t, AfterData

-----------------------------------------------------------------------------
(* What a flush delivers.                                                  *)

Amounts(c, d, D) == {DataMessage(c, f, d[f]) : f \in D}

\* Queue q, with nothing of c, after the amounts of d, in any order, and the EOF.
LEMMA OwnFlush ==
    ASSUME NEW c, NEW M, NEW q \in Seq(M), ~About(q, c),
           NEW d, IsFiniteSet(DOMAIN d),
           NEW r, r = q \o SetToSeq(Amounts(c, d, DOMAIN d)) \o SetToSeq({EofMessage(c)})
    PROVE  /\ Ends(r, c) /\ InOrder(r, c, d)
           /\ \A f : Waits(r, c, f) <=> f \in DOMAIN d
<1> DEFINE D == Amounts(c, d, DOMAIN d)
           E == {EofMessage(c)}
           x == SetToSeq(D)
           y == SetToSeq(E)
           N == M \cup D \cup E
<1>1. IsFiniteSet(D)
  <2> DEFINE m == [f \in DOMAIN d |-> DataMessage(c, f, d[f])]
  <2>1. m \in Surjection(DOMAIN d, D)
    BY DEF Amounts, Surjection
  <2> HIDE DEF m, D
  <2> QED BY <2>1, FS_Surjection
<1>2. IsFiniteSet(E) /\ Cardinality(E) = 1
  BY FS_Singleton
<1>3. /\ x \in Seq(D) /\ Len(x) = Cardinality(D)
      /\ \A i, j \in 1 .. Cardinality(D) : x[i] = x[j] => i = j
      /\ \A m \in D : \E i \in 1 .. Cardinality(D) : x[i] = m
  BY <1>1, SetAsSequence
<1>4. y \in Seq(E) /\ Len(y) = 1
  BY <1>2, SetAsSequence
<1>5. \A m \in D : m.client = c /\ m.type = "data" /\ m.fruit \in DOMAIN d /\ m.amount = d[m.fruit]
                   /\ m = DataMessage(c, m.fruit, d[m.fruit])
  BY DEF Amounts, DataMessage
<1>6. \A m \in E : m.client = c /\ m.type = "eof"
  BY DEF EofMessage
<1>7. \A f \in DOMAIN d : DataMessage(c, f, d[f]) \in D /\ DataMessage(c, f, d[f]).fruit = f
  BY DEF Amounts, DataMessage
<1> HIDE DEF D, E, x, y
<1>8. q \in Seq(N) /\ x \in Seq(N) /\ y \in Seq(N)
  BY <1>3, <1>4
<1> DEFINE l == Len(q)
           n == Len(x)
<1>9. l \in Nat /\ n \in Nat /\ DOMAIN q = 1 .. l /\ DOMAIN x = 1 .. n
  BY <1>8
<1>10. /\ q \o x \in Seq(N) /\ Len(q \o x) = l + n
       /\ \A i \in 1 .. l + n : (q \o x)[i] = IF i <= l THEN q[i] ELSE x[i - l]
  BY <1>8, ConcatProperties
<1> DEFINE u == q \o x
<1>11. r = u \o y
  BY DEF D, E, x, y
<1> HIDE DEF l, n, u
<1>12. /\ r \in Seq(N) /\ Len(r) = l + n + 1
       /\ \A i \in 1 .. l + n + 1 : r[i] = IF i <= l + n THEN u[i] ELSE y[i - (l + n)]
  <2>1. u \in Seq(N) /\ Len(u) = l + n
    BY <1>10 DEF u
  <2>2. /\ u \o y \in Seq(N) /\ Len(u \o y) = Len(u) + Len(y)
        /\ \A i \in 1 .. Len(u) + Len(y) : (u \o y)[i] = IF i <= Len(u) THEN u[i] ELSE y[i - Len(u)]
    BY <1>8, <2>1, ConcatProperties
  <2> QED BY <1>4, <1>11, <2>1, <2>2
<1>13. DOMAIN r = 1 .. l + n + 1
  <2>1. DOMAIN r = 1 .. Len(r)
    BY <1>12
  <2> QED BY <1>12, <2>1
<1>14. ASSUME NEW i \in 1 .. l PROVE r[i] = q[i] /\ r[i].client # c
  <2>1. r[i] = q[i]
    BY <1>9, <1>10, <1>12 DEF u
  <2> QED BY <1>9, <2>1 DEF About
<1>15. ASSUME NEW i \in 1 .. n PROVE r[l + i] = x[i] /\ x[i] \in D /\ l + i \in DOMAIN r
  <2>1. l + i \in 1 .. l + n /\ l + i \in 1 .. l + n + 1 /\ (l + i) - l = i /\ ~(l + i <= l)
        /\ l + i <= l + n
    BY <1>9
  <2>2. r[l + i] = (q \o x)[l + i] /\ (q \o x)[l + i] = x[(l + i) - l]
    BY <1>10, <1>12, <2>1 DEF u
  <2> QED BY <1>3, <1>9, <1>13, <2>1, <2>2
<1>16. r[l + n + 1] \in E /\ l + n + 1 \in DOMAIN r
  <2>1. l + n + 1 \in 1 .. l + n + 1 /\ ~(l + n + 1 <= l + n) /\ (l + n + 1) - (l + n) = 1
    BY <1>9
  <2>2. r[l + n + 1] = y[1]
    BY <1>12, <2>1
  <2>3. y[1] \in E
    <3>1. 1 \in 1 .. Len(y)
      BY <1>4
    <3> QED BY <1>4, <3>1, ElementOfSeq
  <2> QED BY <1>13, <2>1, <2>2, <2>3
<1>17. ASSUME NEW i \in DOMAIN r, r[i].client = c
       PROVE  i = l + n + 1 \/ \E k \in 1 .. n : i = l + k
  <2>1. ~(i <= l)
    BY <1>9, <1>13, <1>14, <1>17
  <2>2. CASE i <= l + n
    <3>1. i - l \in 1 .. n /\ i = l + (i - l)
      BY <1>9, <1>13, <2>1, <2>2
    <3> QED BY <3>1
  <2>3. CASE ~(i <= l + n)
    <3>1. i \in 1 .. l + n + 1
      BY <1>13
    <3>2. i = l + n + 1
      BY <1>9, <2>3, <3>1
    <3> QED BY <3>2
  <2> QED BY <2>2, <2>3
<1>18. ASSUME NEW i \in DOMAIN r, IsData(r[i], c) PROVE \E k \in 1 .. n : i = l + k
  BY <1>6, <1>16, <1>17, <1>18 DEF IsData
<1>19. ASSUME NEW i \in DOMAIN r, IsEof(r[i], c) PROVE i = l + n + 1
  <2> SUFFICES ASSUME i # l + n + 1 PROVE FALSE
    OBVIOUS
  <2>1. PICK k \in 1 .. n : i = l + k
    BY <1>17, <1>19 DEF IsEof
  <2>2. r[i].type = "data"
    BY <1>5, <1>15, <2>1
  <2> QED BY <1>19, <2>2 DEF IsEof
<1>20. Ends(r, c)
  BY <1>6, <1>16 DEF Ends, IsEof
<1>21. ASSUME NEW i \in DOMAIN r, NEW j \in DOMAIN r, IsEof(r[i], c), r[j].client = c
       PROVE  j <= i
  <2>1. i = l + n + 1
    BY <1>19, <1>21
  <2>2. j \in 1 .. l + n + 1
    BY <1>13
  <2> QED BY <1>9, <2>1, <2>2
<1>22. ASSUME NEW i \in DOMAIN r, NEW j \in DOMAIN r,
              IsData(r[i], c), IsData(r[j], c), r[i].fruit = r[j].fruit
       PROVE  i = j
  <2>1. PICK a \in 1 .. n : i = l + a
    BY <1>18, <1>22
  <2>2. PICK b \in 1 .. n : j = l + b
    BY <1>18, <1>22
  <2>3. x[a] \in D /\ x[b] \in D /\ x[a].fruit = x[b].fruit
    BY <1>15, <1>22, <2>1, <2>2
  <2>4. x[a] = x[b]
    BY <1>5, <2>3
  <2>5. a = b
    BY <1>3, <2>4 DEF n
  <2> QED BY <2>1, <2>2, <2>5
<1>23. ASSUME NEW i \in DOMAIN r, IsData(r[i], c)
       PROVE  r[i].fruit \in DOMAIN d /\ r[i].amount = d[r[i].fruit]
  <2>1. PICK k \in 1 .. n : i = l + k
    BY <1>18, <1>23
  <2> QED BY <1>5, <1>15, <2>1
<1>24. ASSUME NEW f PROVE Waits(r, c, f) <=> f \in DOMAIN d
  <2>1. ASSUME Waits(r, c, f) PROVE f \in DOMAIN d
    BY <1>23, <2>1 DEF Waits
  <2>2. ASSUME f \in DOMAIN d PROVE Waits(r, c, f)
    <3>1. PICK k \in 1 .. n : x[k] = DataMessage(c, f, d[f])
      BY <1>3, <1>7, <2>2 DEF n
    <3>2. l + k \in DOMAIN r /\ r[l + k] = DataMessage(c, f, d[f])
      BY <1>15, <3>1
    <3>3. IsData(r[l + k], c) /\ r[l + k].fruit = f
      BY <1>5, <1>7, <2>2, <3>2 DEF IsData
    <3> QED BY <3>2, <3>3 DEF Waits
  <2> QED BY <2>1, <2>2
<1>25. InOrder(r, c, d)
  BY <1>20, <1>21, <1>22, <1>23 DEF InOrder
<1> QED BY <1>20, <1>24, <1>25

-----------------------------------------------------------------------------
(* The totals of a client, and what TopService makes of them.              *)

Digests == UNION {[D -> Nat] : D \in {D \in SUBSET Fruits : IsFiniteSet(D)}}
Heaps == {h \in SUBSET Items : IsFiniteSet(h) /\ Cardinality(h) <= TopSize}

\* What Inputs allows as digests and as hash.
IsShare(sh) == \A s \in Sums, c \in Clients : IsDigest(sh[s][c])
IsRoute(rt) == \A c \in Clients, f \in Fruits : rt[<< c, f >>] \in Aggregators

\* What s has for a of client c.
Part(a, s, c) ==
    [f \in {f \in DOMAIN share[s][c] : route[<< c, f >>] = a} |-> share[s][c][f]]

Amounted(c, f) == [s \in Sums |-> share[s][c][f]]
Bearers(c, f) == {s \in Sums : f \in DOMAIN share[s][c]}
FruitsOf(c) == {f \in Fruits : Bearers(c, f) # {}}

\* The totals of client c, and those of the fruits that go to workers in Y.
Tot(c) == {Item(f, SumOver(Amounted(c, f), Bearers(c, f)), 0) : f \in FruitsOf(c)}
TotFor(c, Y) == {x \in Tot(c) : route[<< c, x.fruit >>] \in Y}

\* The instances have the operators of the modules they extend.
LEMMA SameCardinality ==
    ASSUME NEW S
    PROVE  /\ A!Cardinality(S) = Cardinality(S) /\ J!Cardinality(S) = Cardinality(S)
           /\ Service!Cardinality(S) = Cardinality(S)
BY DEF A!Cardinality, J!Cardinality, Service!Cardinality, Cardinality,
       A!IsFiniteSet, J!IsFiniteSet, IsFiniteSet

\* One ranking, of three modules.
LEMMA SameRankedS ==
  ASSUME NEW S PROVE Service!Ranked(S) = Ranked(S)
BY DEF Service!Ranked, Ranked, Service!Rank, Rank, Service!Beats, Beats, Service!Less, Less,
       Service!Cardinality, Cardinality

\* The totals of TopService, its fold expanded.
LEMMA ServiceTotal ==
    ASSUME NEW c
    PROVE  Service!Total(c) =
              [f \in UNION {DOMAIN share[s][c] : s \in Sums} |->
                  MapThenSumSet(LAMBDA s : share[s][c][f],
                                {s \in Sums : f \in DOMAIN share[s][c]})]
BY DEF Service!Total, Service!MapThenSumSet, MapThenSumSet,  Service!MapThenFoldSet, MapThenFoldSet

\* The workers that bear fruit f are finitely many, its amounts numbers.
LEMMA AmountsAreNumbers ==
    ASSUME IsShare(share), NEW c \in Clients, NEW f
    PROVE  /\ IsFiniteSet(Bearers(c, f)) /\ Bearers(c, f) \subseteq Sums
           /\ \A s \in Bearers(c, f) : Amounted(c, f)[s] \in Nat /\ f \in Fruits
<1>1. Bearers(c, f) \subseteq Sums
  BY DEF Bearers
<1>2. IsFiniteSet(Bearers(c, f))
  BY <1>1, FS_Subset, PipelineAssumption
<1>3. ASSUME NEW s \in Bearers(c, f) PROVE Amounted(c, f)[s] \in Nat /\ f \in Fruits
  BY DEF Bearers, Amounted, IsShare, IsDigest
<1> QED BY <1>1, <1>2, <1>3

\* TopService adds up the same amounts.
LEMMA TotalOfFruit ==
    ASSUME IsShare(share), NEW c \in Clients, NEW f \in UNION {DOMAIN share[s][c] : s \in Sums}
    PROVE  Service!Total(c)[f] = SumOver(Amounted(c, f), Bearers(c, f))
<1> DEFINE S == Bearers(c, f)
           g == Amounted(c, f)
           F(i) == i = [s \in SUBSET S |->
                           IF s = {} THEN 0 ELSE share[AnyOf(s)][c][f] + i[s \ {AnyOf(s)}]]
           it == CHOOSE i : F(i)
<1>1. IsFiniteSet(S) /\ S \subseteq Sums /\ \A s \in S : g[s] \in Nat
  BY AmountsAreNumbers
<1>2. PICK k : SumFolds(k, g, S) /\ SumOver(g, S) = k[S]
  BY <1>1, SumUnfolds
<1>3. ASSUME NEW s \in SUBSET S, s # {} PROVE g[AnyOf(s)] = share[AnyOf(s)][c][f]
  <2>1. AnyOf(s) \in Sums
    BY <1>1, <1>3 DEF AnyOf
  <2> QED BY <2>1 DEF Amounted
<1>4. Service!Total(c)[f] = it[S]
  <2>1. Service!Total(c)[f] = MapThenSumSet(LAMBDA s : share[s][c][f], S)
    BY ServiceTotal DEF Bearers
  <2>2. MapThenSumSet(LAMBDA s : share[s][c][f], S) = it[S]
    BY DEF MapThenSumSet, MapThenFoldSet, AnyOf
  <2> QED BY <2>1, <2>2
<1> HIDE DEF S, g
<1>5. F(k)
  BY <1>2, <1>3 DEF SumFolds
<1>6. F(it)
  BY <1>5
<1> HIDE DEF it
<1>7. SumFolds(it, g, S)
  BY <1>6, <1>3 DEF SumFolds
<1>8. it[S] = k[S]
  BY <1>1, <1>2, <1>7, SumFoldUnique
<1> QED BY <1>2, <1>4, <1>8 DEF S, g

\* The totals of TopService are Tot,
LEMMA TotalsAre ==
    ASSUME IsShare(share), NEW c \in Clients
    PROVE  Service!Totals(c) = Tot(c)
<1> DEFINE U == UNION {DOMAIN share[s][c] : s \in Sums}
<1>1. DOMAIN Service!Total(c) = U
  BY ServiceTotal
<1>2. U = FruitsOf(c)
  BY DEF FruitsOf, Bearers, IsShare, IsDigest
<1>3. ASSUME NEW f, NEW n PROVE Service!Item(f, n, 0) = Item(f, n, 0)
  BY DEF Service!Item, Item
<1>4. \A f \in U : Service!Total(c)[f] = SumOver(Amounted(c, f), Bearers(c, f))
  BY TotalOfFruit
<1>5. Service!Totals(c) = {Service!Item(f, Service!Total(c)[f], 0) : f \in DOMAIN Service!Total(c)}
  BY DEF Service!Totals
<1> HIDE DEF U
<1>6. Service!Totals(c) = {Item(f, Service!Total(c)[f], 0) : f \in U}
  BY <1>1, <1>3, <1>5
<1> QED BY <1>2, <1>4, <1>6 DEF Tot

\* The ranking of the totals, cut,
Exact(c) ==
    SubSeq(Ranked(Tot(c)), 1,
           IF Cardinality(Tot(c)) < TopSize THEN Cardinality(Tot(c)) ELSE TopSize)

\* which is the exact top of TopService.
LEMMA ExactTopIs ==
    ASSUME IsShare(share), NEW c \in Clients
    PROVE  Service!ExactTop(c) = Exact(c)
<1>1. Service!ExactTop(c) = Service!SubSeq(Service!Ranked(Tot(c)), 1,
           IF Service!Cardinality(Tot(c)) < TopSize THEN Service!Cardinality(Tot(c)) ELSE TopSize)
  BY TotalsAre DEF Service!ExactTop
<1> QED BY <1>1, SameCardinality, SameRankedS DEF Exact

\* The totals are finitely many items of distinct fruits.
LEMMA TotType ==
    ASSUME IsShare(share), NEW c \in Clients
    PROVE  /\ Tot(c) \in SUBSET Items /\ IsFiniteSet(Tot(c)) /\ DistinctFruits(Tot(c))
           /\ \A x \in Tot(c) : x.part = 0
<1>1. ASSUME NEW f \in FruitsOf(c)
      PROVE  SumOver(Amounted(c, f), Bearers(c, f)) \in Nat /\ f \in Fruits
  <2>1. IsFiniteSet(Bearers(c, f)) /\ \A s \in Bearers(c, f) : Amounted(c, f)[s] \in Nat
    BY AmountsAreNumbers
  <2> QED BY <2>1, SumOverStep DEF FruitsOf
<1>2. Tot(c) \in SUBSET Items /\ \A x \in Tot(c) : x.part = 0
  BY <1>1 DEF Tot, Items, Item
<1>3. DistinctFruits(Tot(c))
  BY DEF DistinctFruits, Tot, Item
<1>4. IsFiniteSet(FruitsOf(c))
  <2> DEFINE W == {DOMAIN share[s][c] : s \in Sums}
             dom == [s \in Sums |-> DOMAIN share[s][c]]
  <2>1. dom \in Surjection(Sums, W)
    BY DEF Surjection
  <2>2. \A D \in W : IsFiniteSet(D)
    BY DEF IsShare, IsDigest
  <2>3. FruitsOf(c) = UNION W
    BY DEF FruitsOf, Bearers, IsShare, IsDigest
  <2> HIDE DEF W, dom
  <2>4. IsFiniteSet(W)
    BY <2>1, FS_Surjection, PipelineAssumption
  <2> QED BY <2>2, <2>3, <2>4, FS_UNION
<1>5. IsFiniteSet(Tot(c))
  <2> DEFINE m == [f \in FruitsOf(c) |-> Item(f, SumOver(Amounted(c, f), Bearers(c, f)), 0)]
  <2>1. m \in Surjection(FruitsOf(c), Tot(c))
    BY DEF Tot, Surjection
  <2> HIDE DEF m
  <2> QED BY <1>4, <2>1, FS_Surjection
<1> QED BY <1>2, <1>3, <1>5

\* A part of a digest is a digest, of the fruits routed to a.
LEMMA PartType ==
    ASSUME IsShare(share), NEW c \in Clients, NEW s \in Sums, NEW a
    PROVE  /\ DOMAIN Part(a, s, c) \subseteq Fruits /\ IsFiniteSet(DOMAIN Part(a, s, c))
           /\ \A f \in DOMAIN Part(a, s, c) :
                 Part(a, s, c)[f] = share[s][c][f] /\ Part(a, s, c)[f] \in Nat /\ route[<< c, f >>] = a
           /\ \A f : f \in DOMAIN Part(a, s, c) <=> f \in DOMAIN share[s][c] /\ route[<< c, f >>] = a
<1>1. DOMAIN Part(a, s, c) = {f \in DOMAIN share[s][c] : route[<< c, f >>] = a}
  BY DEF Part
<1>2. DOMAIN share[s][c] \subseteq Fruits /\ IsFiniteSet(DOMAIN share[s][c])
      /\ \A f \in DOMAIN share[s][c] : share[s][c][f] \in Nat
  BY DEF IsShare, IsDigest
<1>3. IsFiniteSet(DOMAIN Part(a, s, c))
  <2>1. DOMAIN Part(a, s, c) \subseteq DOMAIN share[s][c]
    BY <1>1
  <2> QED BY <1>2, <2>1, FS_Subset
<1> QED BY <1>1, <1>2, <1>3 DEF Part

-----------------------------------------------------------------------------
(* A flush: what it sends, and where.                                      *)

\* The messages of digest d of client c, for any hash.
Outgoing(c, d, rt) == Messages(c, d, [f \in DOMAIN d |-> rt[<< c, f >>]])

\* What of it is for aggregator a.
PartOf(c, d, rt, a) == [f \in {f \in DOMAIN d : rt[<< c, f >>] = a} |-> d[f]]

\* The queue q of aggregator a after it.
AfterIt(q, c, d, rt, a) ==
    q \o InLine(Outgoing(c, d, rt), a, "data") \o InLine(Outgoing(c, d, rt), a, "eof")

LEMMA FlushIsOutgoing ==
    ASSUME NEW s, NEW c
    PROVE  FlushOf(s, c) = Outgoing(c, share[s][c], route)
BY DEF FlushOf, Outgoing, RoutingKey

\* Everything in a flush is about its client.
LEMMA OutgoingMessages ==
    ASSUME NEW c \in Clients, NEW d, IsDigest(d), NEW rt
    PROVE  /\ IsFiniteSet(Outgoing(c, d, rt))
           /\ \A x \in Outgoing(c, d, rt) : x.message \in AggMessages /\ x.message.client = c
<1> DEFINE key == [f \in DOMAIN d |-> rt[<< c, f >>]]
           X == {Sent(key[f], DataMessage(c, f, d[f])) : f \in DOMAIN d}
           Y == {Sent(a, EofMessage(c)) : a \in Aggregators}
<1>1. Outgoing(c, d, rt) = X \cup Y
  BY DEF Outgoing, Messages
<1>2. DOMAIN d \subseteq Fruits /\ IsFiniteSet(DOMAIN d) /\ \A f \in DOMAIN d : d[f] \in Nat
  BY DEF IsDigest
<1> HIDE DEF key
<1>3. IsFiniteSet(X)
  <2> DEFINE m == [f \in DOMAIN d |-> Sent(key[f], DataMessage(c, f, d[f]))]
  <2>1. m \in Surjection(DOMAIN d, X)
    BY DEF Surjection
  <2> HIDE DEF m, X
  <2> QED BY <1>2, <2>1, FS_Surjection
<1>4. IsFiniteSet(Y)
  <2> DEFINE m == [a \in Aggregators |-> Sent(a, EofMessage(c))]
  <2>1. m \in Surjection(Aggregators, Y)
    BY DEF Surjection
  <2> HIDE DEF m, Y
  <2> QED BY <2>1, FS_Surjection, AggregatorsAssumption
<1>5. ASSUME NEW x \in X PROVE x.message \in AggMessages /\ x.message.client = c
  <2>1. PICK f \in DOMAIN d : x = Sent(key[f], DataMessage(c, f, d[f]))
    OBVIOUS
  <2>2. x.message = DataMessage(c, f, d[f])
    BY <2>1 DEF Sent
  <2> QED BY <1>2, <2>2 DEF DataMessage, AggMessages
<1>6. ASSUME NEW x \in Y PROVE x.message \in AggMessages /\ x.message.client = c
  <2>1. x.message = EofMessage(c)
    BY DEF Sent
  <2> QED BY <2>1 DEF EofMessage, AggMessages
<1> HIDE DEF X, Y
<1>7. IsFiniteSet(X \cup Y)
  BY <1>3, <1>4, FS_Union
<1> QED BY <1>1, <1>5, <1>6, <1>7

LEMMA FlushMessages ==
    ASSUME IsShare(share), NEW c \in Clients, NEW s \in Sums
    PROVE  /\ IsFiniteSet(FlushOf(s, c))
           /\ \A x \in FlushOf(s, c) : x.message \in AggMessages /\ x.message.client = c
BY OutgoingMessages, FlushIsOutgoing DEF IsShare

\* Messages about c in line are messages, and about nobody else.
LEMMA InLineType ==
    ASSUME NEW msgs, IsFiniteSet(msgs), NEW c,
           \A x \in msgs : x.message \in AggMessages /\ x.message.client = c,
           NEW a, NEW type
    PROVE  /\ InLine(msgs, a, type) \in Seq(AggMessages)
           /\ \A e : e # c => ~About(InLine(msgs, a, type), e)
<1> DEFINE X == {x \in msgs : x.to = a /\ x.message.type = type}
           M == {x.message : x \in X}
           m == [x \in X |-> x.message]
<1>1. IsFiniteSet(X)
  BY FS_Subset
<1>2. m \in Surjection(X, M)
  BY DEF Surjection
<1>3. \A z \in M : z \in AggMessages /\ z.client = c
  OBVIOUS
<1>4. InLine(msgs, a, type) = SetToSeq(M)
  BY DEF InLine
<1> HIDE DEF m, M, X
<1>5. IsFiniteSet(M)
  BY <1>1, <1>2, FS_Surjection
<1>6. SetToSeq(M) \in Seq(M)
  BY <1>5, SetAsSequence
<1>7. \A i \in DOMAIN SetToSeq(M) : SetToSeq(M)[i] \in M
  BY <1>6
<1>8. SetToSeq(M) \in Seq(AggMessages)
  BY <1>3, <1>6
<1> QED BY <1>3, <1>4, <1>7, <1>8 DEF About

InboxType == inbox \in [Aggregators -> [Sums -> Seq(AggMessages)]]

\* No queue changes but that of s for a; nothing changes for any client but c.
OnlyQueue(a, s) ==
    \A b \in Aggregators, t \in Sums : b # a \/ t # s => inbox'[b][t] = inbox[b][t]
OthersKept(c) ==
    \A b \in Aggregators, t \in Sums : \A e, d :
        e # c => SameFor(e, d, inbox[b][t], inbox'[b][t])

OwnChanged(s, msgs) ==
    \A a \in Aggregators :
        /\ \A t \in Sums \ {s} : inbox'[a][t] = inbox[a][t]
        /\ inbox'[a][s] = inbox[a][s] \o InLine(msgs, a, "data") \o InLine(msgs, a, "eof")

\* Some messages of s, all about c, are delivered.
LEMMA DeliveredOthers ==
    ASSUME InboxType, NEW s \in Sums, NEW c,
           NEW msgs, IsFiniteSet(msgs),
           \A x \in msgs : x.message \in AggMessages /\ x.message.client = c,
           inbox' = Delivered(inbox, s, msgs)
    PROVE  InboxType' /\ OthersKept(c) /\ OwnChanged(s, msgs)
<1> DEFINE x(a) == InLine(msgs, a, "data")
           y(a) == InLine(msgs, a, "eof")
<1>1. ASSUME NEW a \in Aggregators
      PROVE  /\ x(a) \in Seq(AggMessages) /\ y(a) \in Seq(AggMessages)
             /\ \A e : e # c => ~About(x(a), e) /\ ~About(y(a), e)
  BY InLineType
<1>2. inbox' = [a \in Aggregators |-> [inbox[a] EXCEPT ![s] = @ \o x(a) \o y(a)]]
  BY DEF Delivered
<1> HIDE DEF x, y
<1>3. ASSUME NEW a \in Aggregators
      PROVE  /\ \A t \in Sums \ {s} : inbox'[a][t] = inbox[a][t]
             /\ inbox'[a][s] = (inbox[a][s] \o x(a)) \o y(a)
             /\ inbox[a] \in [Sums -> Seq(AggMessages)]
  BY <1>2 DEF InboxType
<1>4. ASSUME NEW a \in Aggregators
      PROVE  inbox[a][s] \o x(a) \in Seq(AggMessages) /\ (inbox[a][s] \o x(a)) \o y(a) \in Seq(AggMessages)
  <2>1. inbox[a][s] \in Seq(AggMessages)
    BY <1>3
  <2>2. inbox[a][s] \o x(a) \in Seq(AggMessages)
    BY <1>1, <2>1, ConcatProperties
  <2> QED BY <1>1, <2>2, ConcatProperties
<1>5. InboxType'
  <2>1. ASSUME NEW a \in Aggregators PROVE [inbox[a] EXCEPT ![s] = @ \o x(a) \o y(a)] \in [Sums -> Seq(AggMessages)]
    BY <1>3, <1>4
  <2> QED BY <1>2, <2>1 DEF InboxType
<1>6. ASSUME NEW a \in Aggregators, NEW t \in Sums, NEW e, NEW d, e # c
      PROVE  SameFor(e, d, inbox[a][t], inbox'[a][t])
  <2>1. CASE t # s
    BY <1>3, <2>1 DEF SameFor
  <2>2. CASE t = s
    <3>1. inbox[a][s] \in Seq(AggMessages)
      BY <1>3
    <3>2. SameFor(e, d, inbox[a][s], inbox[a][s] \o x(a))
      BY <1>1, <1>6, <3>1, SameConcat
    <3>3. SameFor(e, d, inbox[a][s] \o x(a), (inbox[a][s] \o x(a)) \o y(a))
      BY <1>1, <1>4, <1>6, <3>1, SameConcat
    <3> QED BY <1>3, <2>2, <3>2, <3>3 DEF SameFor
  <2> QED BY <2>1, <2>2
<1> QED BY <1>3, <1>5, <1>6 DEF x, y, OthersKept, OwnChanged

\* All messages of a flush are delivered.
LEMMA DeliveredOwn ==
    ASSUME NEW c \in Clients, NEW d, IsDigest(d), NEW rt, NEW a \in Aggregators,
           NEW q \in Seq(AggMessages), ~About(q, c),
           NEW r, r = AfterIt(q, c, d, rt, a), NEW p, p = PartOf(c, d, rt, a)
    PROVE  /\ Ends(r, c) /\ InOrder(r, c, p)
           /\ \A f : Waits(r, c, f) <=> f \in DOMAIN p
<1> DEFINE key == [f \in DOMAIN d |-> rt[<< c, f >>]]
           flush == Outgoing(c, d, rt)
<1>1. /\ IsFiniteSet(DOMAIN p)
      /\ \A f \in DOMAIN p : p[f] = d[f] /\ f \in DOMAIN d
      /\ \A f : f \in DOMAIN p <=> f \in DOMAIN d /\ key[f] = a
  <2>1. DOMAIN p = {f \in DOMAIN d : rt[<< c, f >>] = a}
    BY DEF PartOf
  <2>2. DOMAIN p \subseteq DOMAIN d /\ IsFiniteSet(DOMAIN d)
    BY <2>1 DEF IsDigest
  <2>3. IsFiniteSet(DOMAIN p)
    BY <2>2, FS_Subset
  <2> QED BY <2>1, <2>3 DEF PartOf
<1>0. r = q \o InLine(flush, a, "data") \o InLine(flush, a, "eof")
  BY DEF AfterIt
<1>2. flush = {Sent(key[f], DataMessage(c, f, d[f])) : f \in DOMAIN d}
              \cup {Sent(b, EofMessage(c)) : b \in Aggregators}
  BY DEF Outgoing, Messages
<1> HIDE DEF key, flush
<1>3. /\ \A b, m : Sent(b, m).to = b /\ Sent(b, m).message = m
      /\ \A f, n : DataMessage(c, f, n).type = "data"
      /\ EofMessage(c).type = "eof"
  BY DEF Sent, DataMessage, EofMessage
<1> DEFINE X(ty) == {x \in flush : x.to = a /\ x.message.type = ty}
<1>4. {x.message : x \in X("data")} = Amounts(c, p, DOMAIN p)
  <2>1. ASSUME NEW x \in X("data") PROVE x.message \in Amounts(c, p, DOMAIN p)
    <3>1. PICK f \in DOMAIN d : x = Sent(key[f], DataMessage(c, f, d[f]))
      BY <1>2, <1>3
    <3>2. f \in DOMAIN p /\ x.message = DataMessage(c, f, p[f])
      BY <1>1, <1>3, <3>1
    <3> QED BY <3>2 DEF Amounts
  <2>2. ASSUME NEW m \in Amounts(c, p, DOMAIN p) PROVE \E x \in X("data") : x.message = m
    <3>1. PICK f \in DOMAIN p : m = DataMessage(c, f, p[f])
      BY DEF Amounts
    <3>2. Sent(key[f], m) \in flush /\ key[f] = a
      BY <1>1, <1>2, <3>1
    <3>3. Sent(key[f], m) \in X("data")
      BY <1>3, <3>1, <3>2
    <3> QED BY <1>3, <3>3
  <2> HIDE DEF X
  <2> QED BY <2>1, <2>2
<1>5. {x.message : x \in X("eof")} = {EofMessage(c)}
  <2>1. ASSUME NEW x \in X("eof") PROVE x.message = EofMessage(c)
    BY <1>2, <1>3
  <2>2. Sent(a, EofMessage(c)) \in X("eof")
    BY <1>2, <1>3
  <2> HIDE DEF X
  <2>3. Sent(a, EofMessage(c)).message = EofMessage(c)
    BY <1>3
  <2> QED BY <2>1, <2>2, <2>3
<1>6. r = q \o SetToSeq(Amounts(c, p, DOMAIN p)) \o SetToSeq({EofMessage(c)})
  <2>1. InLine(flush, a, "data") = SetToSeq({x.message : x \in X("data")})
    BY DEF InLine
  <2>2. InLine(flush, a, "eof") = SetToSeq({x.message : x \in X("eof")})
    BY DEF InLine
  <2> HIDE DEF X
  <2> QED BY <1>0, <1>4, <1>5, <2>1, <2>2
<1> HIDE DEF X
<1>7. Ends(r, c) /\ InOrder(r, c, p) /\ \A f : Waits(r, c, f) <=> f \in DOMAIN p
  BY <1>1, <1>6, OwnFlush
<1> QED BY <1>7

-----------------------------------------------------------------------------
(* Types.  The worker modules' operators are those of FruitTop.            *)

\* The heap of Aggregation is that of FruitTop,
LEMMA SameOfferAll ==
  ASSUME NEW H, NEW S PROVE A!OfferAll(H, S) = OfferAll(H, S)
BY DEF A!OfferAll, OfferAll, A!FoldSet, FoldSet, A!MapThenFoldSet, MapThenFoldSet, A!Offer, Offer,
       A!Less, Less, A!Least, Least, A!Cardinality, Cardinality, A!IsFiniteSet, IsFiniteSet

\* so is that of Join,
LEMMA SameOfferAllJ ==
  ASSUME NEW H, NEW S PROVE J!OfferAll(H, S) = OfferAll(H, S)
BY DEF J!OfferAll, OfferAll, J!FoldSet, FoldSet, J!MapThenFoldSet, MapThenFoldSet, J!Offer, Offer,
       J!Less, Less, J!Least, Least, J!Cardinality, Cardinality, J!IsFiniteSet, IsFiniteSet

\* and its ranking.
LEMMA SameRankedJ ==
  ASSUME NEW S PROVE J!Ranked(S) = Ranked(S)
BY DEF J!Ranked, Ranked, J!Rank, Rank, J!Beats, Beats,
       J!Less, Less, J!Cardinality, Cardinality, J!IsFiniteSet, IsFiniteSet

\* What an aggregator sends to Join, and Join to the gateway.
Tops == [client : Clients, top : Heaps]

ResultsType == \E T : results \in Seq([client : Clients, top : T])

\* The inputs are fixed; connections only break, each once.
InputsType ==
    \E input \in Inputs :
        /\ share = input.share /\ route = input.route
        /\ Cardinality(broken) + breaks = input.breaks

\* The domains of the variables.
Types ==
    /\ InputsType
    /\ IsFiniteSet(broken) /\ breaks \in Nat /\ disturbed \subseteq Clients
    /\ tries \in [Sums -> [Clients -> 0 .. MaxRetries + 1]]
    /\ flushes \in [Sums -> [Clients -> 0 .. 1]]
    /\ InboxType
    /\ fruitItems \in [Aggregators -> [Clients -> Digests]]
    /\ eofCount \in [Aggregators -> [Clients -> Nat]]
    /\ partialTops \in [Aggregators -> Seq(Tops)]
    /\ topHeap \in [Clients -> Heaps]
    /\ received \in [Clients -> Nat]
    /\ ResultsType

\* The input is one of Inputs, whatever breaks later.
LEMMA InputsAre ==
    ASSUME InputsType
    PROVE  IsShare(share) /\ IsRoute(route)
BY PipelineAssumption DEF InputsType, IsShare, IsRoute

\* A heap holds finitely many items, TopSize at most.
LEMMA HeapIsSmall == ASSUME NEW h PROVE h \in Heaps <=> Small(h)
BY DEF Heaps, Small

\* A digest as a function.
LEMMA DigestsAre ==
    ASSUME NEW d \in Digests
    PROVE  /\ DOMAIN d \in SUBSET Fruits /\ IsFiniteSet(DOMAIN d) /\ \A f \in DOMAIN d : d[f] \in Nat
           /\ IsDigest(d) /\ d = [f \in DOMAIN d |-> d[f]]
<1>1. PICK D \in SUBSET Fruits : IsFiniteSet(D) /\ d \in [D -> Nat]
  BY DEF Digests
<1> QED BY <1>1 DEF IsDigest

\* No items are a digest,
LEMMA NoItemsIsDigest == A!NoItems \in Digests
<1>1. A!NoItems \in [{} -> Nat] /\ {} \in SUBSET Fruits /\ IsFiniteSet({})
  BY FS_EmptySet DEF A!NoItems
<1> QED BY <1>1 DEF Digests

\* and an amount added to a digest makes a digest.
LEMMA AddToDigest ==
    ASSUME NEW d \in Digests, NEW f \in Fruits, NEW n \in Nat
    PROVE  A!AddTo(d, f, n) \in Digests
<1>1. DOMAIN d \in SUBSET Fruits /\ IsFiniteSet(DOMAIN d) /\ \A g \in DOMAIN d : d[g] \in Nat
  BY DigestsAre
<1> DEFINE D == DOMAIN d \cup {f}
<1>2. D \in SUBSET Fruits /\ IsFiniteSet(D)
  BY <1>1, FS_AddElement
<1>3. A!AddTo(d, f, n) \in [D -> Nat]
  BY <1>1 DEF A!AddTo, A!AmountIn
<1> QED BY <1>2, <1>3 DEF Digests

\* A send that raises breaks one connection and disturbs one client;
LEMMA Breaking ==
    ASSUME InputsType, IsFiniteSet(broken), breaks \in Nat, disturbed \subseteq Clients,
           UNCHANGED << share, route >>,
           NEW link, NEW c \in Clients, Raises(link, c)
    PROVE  /\ InputsType' /\ IsFiniteSet(broken') /\ breaks' \in Nat
           /\ disturbed' \subseteq Clients /\ disturbed' = disturbed \cup {c}
<1>1. broken' = broken \cup {link} /\ disturbed' = disturbed \cup {c}
  BY DEF Raises
<1>2. IsFiniteSet(broken') /\ Cardinality(broken') \in Nat /\ Cardinality(broken) \in Nat
      /\ Cardinality(broken') = IF link \in broken THEN Cardinality(broken) ELSE Cardinality(broken) + 1
  <2>1. IsFiniteSet(broken')
        /\ Cardinality(broken') = IF link \in broken THEN Cardinality(broken) ELSE Cardinality(broken) + 1
    BY <1>1, FS_AddElement
  <2> QED BY <2>1, FS_CardinalityType
<1>3. breaks' \in Nat /\ Cardinality(broken') + breaks' = Cardinality(broken) + breaks
  BY <1>2 DEF Raises
<1>4. InputsType'
  BY <1>3 DEF InputsType
<1> QED BY <1>1, <1>2, <1>3, <1>4

\* one that works changes no connection.
LEMMA Quiet ==
    ASSUME InputsType, IsFiniteSet(broken), breaks \in Nat, disturbed \subseteq Clients,
           UNCHANGED << share, route, connectionVars >>
    PROVE  /\ InputsType' /\ IsFiniteSet(broken') /\ breaks' \in Nat
           /\ disturbed' \subseteq Clients
BY DEF InputsType, connectionVars

\* A partial top is small, and made of the worker's items.
LEMMA FindTopFruitsType ==
    ASSUME NEW d \in Digests
    PROVE  A!FindTopFruits(d) = OfferAll({}, {Item(f, d[f], 0) : f \in DOMAIN d})
           /\ A!FindTopFruits(d) \in Heaps
<1> DEFINE S == {Item(f, d[f], 0) : f \in DOMAIN d}
           m == [f \in DOMAIN d |-> Item(f, d[f], 0)]
<1>1. DOMAIN d \in SUBSET Fruits /\ IsFiniteSet(DOMAIN d) /\ \A g \in DOMAIN d : d[g] \in Nat
  BY DigestsAre
<1>2. S \in SUBSET Items
  BY <1>1 DEF Item, Items
<1>3. m \in Surjection(DOMAIN d, S)
  BY DEF Surjection
<1>4. \A f, n : A!Item(f, n, 0) = Item(f, n, 0)
  BY DEF A!Item, Item
<1>5. S = {A!Item(f, d[f], 0) : f \in DOMAIN d}
  BY <1>4
<1>6. A!FindTopFruits(d) = A!OfferAll({}, S)
  BY <1>5 DEF A!FindTopFruits
<1> HIDE DEF S, m
<1>7. IsFiniteSet(S)
  BY <1>1, <1>3, FS_Surjection
<1>8. A!FindTopFruits(d) = OfferAll({}, S)
  BY <1>6, SameOfferAll
<1>9. Small({})
  BY FS_EmptySet, TopSizeAssumption DEF Small
<1>10. Small(OfferAll({}, S))
  BY <1>2, <1>7, <1>9, OfferAllKeepsSmall
<1> QED BY <1>8, <1>10, HeapIsSmall DEF S

\* The items of a partial top as those of message n.
NewItems(top, n) == {[item EXCEPT !.part = n] : item \in top}

\* Join's heap after a partial top is its items offered, and small.
LEMMA UpdateClientTopType ==
    ASSUME NEW m \in Tops, topHeap \in [Clients -> Heaps], received \in [Clients -> Nat]
    PROVE  /\ J!UpdateClientTop(m) = OfferAll(topHeap[m.client], NewItems(m.top, received[m.client]))
           /\ J!UpdateClientTop(m) \in Heaps
<1> DEFINE n == received[m.client]
           S == NewItems(m.top, n)
           h == topHeap[m.client]
           g == [x \in m.top |-> [x EXCEPT !.part = n]]
<1>1. m.client \in Clients /\ m.top \in Heaps /\ n \in Nat /\ h \in Heaps
  BY DEF Tops
<1>2. m.top \in SUBSET Items /\ IsFiniteSet(m.top) /\ Small(h)
  BY <1>1, HeapIsSmall DEF Heaps
<1>3. g \in Surjection(m.top, S)
  BY DEF Surjection, NewItems
<1>4. J!UpdateClientTop(m) = J!OfferAll(h, S)
  BY DEF J!UpdateClientTop, NewItems
<1>5. S \in SUBSET Items
  BY <1>1, <1>2 DEF NewItems, Items
<1> HIDE DEF n, S, h, g
<1>6. IsFiniteSet(S)
  BY <1>2, <1>3, FS_Surjection
<1>7. Small(OfferAll(h, S))
  BY <1>2, <1>5, <1>6, OfferAllKeepsSmall
<1>8. J!UpdateClientTop(m) = OfferAll(h, S)
  BY <1>4, SameOfferAllJ
<1> QED BY <1>7, <1>8, HeapIsSmall DEF n, S, h

\* One more result.
LEMMA ResultAdded ==
    ASSUME ResultsType, NEW r, r.client \in Clients, r = [client |-> r.client, top |-> r.top],
           results' = Append(results, r)
    PROVE  ResultsType'
<1>1. PICK T : results \in Seq([client : Clients, top : T])
  BY DEF ResultsType
<1> DEFINE U == T \cup {r.top}
           R == [client : Clients, top : U]
<1>2. results \in Seq(R) /\ r \in R
  <2>1. [client : Clients, top : T] \subseteq R
    OBVIOUS
  <2>2. r \in R
    OBVIOUS
  <2> DEFINE Q == [client : Clients, top : T]
  <2>3. results \in Seq(Q) /\ Q \subseteq R
    BY <1>1, <2>1
  <2> HIDE DEF R, Q
  <2>4. results \in Seq(R)
    BY <2>3
  <2> QED BY <2>2, <2>4
<1> HIDE DEF R
<1>3. results' \in Seq(R)
  BY <1>2, AppendProperties
<1> QED BY <1>3 DEF ResultsType, R

-----------------------------------------------------------------------------
(* The tops of a client in a queue.                                        *)

\* The tops of c in a queue; c has at most one; c has in r what it has in q.
TopsIn(q, c) == {q[i].top : i \in {i \in DOMAIN q : q[i].client = c}}
AtMostOne(q, c) == \A i, j \in DOMAIN q : q[i].client = c /\ q[j].client = c => i = j

SameTops(c, q, r) == TopsIn(r, c) = TopsIn(q, c) /\ (AtMostOne(q, c) => AtMostOne(r, c))

\* What one more message changes of a queue: nothing for another client.
Appended(q, m, r) ==
    /\ \A i \in DOMAIN q : i \in DOMAIN r /\ r[i] = q[i]
    /\ \E n \in DOMAIN r : r[n] = m /\ \A i \in DOMAIN r : i \in DOMAIN q \/ i = n

\* Append does that.
LEMMA AppendedMessage ==
    ASSUME NEW M, NEW q \in Seq(M), NEW m \in M
    PROVE  Appended(q, m, Append(q, m))
<1> DEFINE r == Append(q, m)
           n == Len(q)
<1>1. r \in Seq(M) /\ Len(r) = n + 1 /\ n \in Nat /\ r[n + 1] = m
      /\ \A i \in 1 .. n : r[i] = q[i]
  BY AppendProperties
<1>2. DOMAIN q = 1 .. n /\ DOMAIN r = 1 .. n + 1
  BY <1>1
<1> HIDE DEF r, n
<1>3. \A i \in DOMAIN q : i \in DOMAIN r /\ r[i] = q[i]
  BY <1>1, <1>2
<1>4. n + 1 \in DOMAIN r /\ \A i \in DOMAIN r : i \in DOMAIN q \/ i = n + 1
  BY <1>1, <1>2
<1> QED BY <1>1, <1>3, <1>4 DEF Appended, r

\* A message of another client is nothing to c.
LEMMA TopsAfterAppend ==
    ASSUME NEW M, NEW q \in Seq(M), NEW m \in M, NEW c, m.client # c
    PROVE  SameTops(c, q, Append(q, m))
<1>1. PICK r : r = Append(q, m)
  OBVIOUS
<1>2. Appended(q, m, r)
  BY <1>1, AppendedMessage
<1>3. \A i \in DOMAIN q : i \in DOMAIN r /\ r[i] = q[i]
  BY <1>2 DEF Appended
<1>4. \A i \in DOMAIN r : r[i].client = c => i \in DOMAIN q
  BY <1>2 DEF Appended
<1>5. TopsIn(r, c) = TopsIn(q, c)
  BY <1>3, <1>4 DEF TopsIn
<1>6. AtMostOne(q, c) => AtMostOne(r, c)
  BY <1>3, <1>4 DEF AtMostOne
<1> QED BY <1>1, <1>5, <1>6 DEF SameTops

\* The first of c is then the only one.
LEMMA OwnTopAppended ==
    ASSUME NEW M, NEW q \in Seq(M), NEW m \in M, NEW c, m.client = c, TopsIn(q, c) = {}
    PROVE  TopsIn(Append(q, m), c) = {m.top} /\ AtMostOne(Append(q, m), c)
<1>1. PICK r : r = Append(q, m)
  OBVIOUS
<1>2. Appended(q, m, r)
  BY <1>1, AppendedMessage
<1>3. \A i \in DOMAIN q : i \in DOMAIN r /\ r[i] = q[i] /\ q[i].client # c
  BY <1>2 DEF Appended, TopsIn
<1>4. PICK n \in DOMAIN r : r[n] = m /\ \A i \in DOMAIN r : i \in DOMAIN q \/ i = n
  BY <1>2 DEF Appended
<1>5. \A i \in DOMAIN r : r[i].client = c => i = n
  BY <1>3, <1>4
<1>6. TopsIn(r, c) = {m.top}
  BY <1>4, <1>5 DEF TopsIn
<1>7. AtMostOne(r, c)
  BY <1>5 DEF AtMostOne
<1> QED BY <1>1, <1>6, <1>7

\* The head of a queue leaves.
LEMMA TopsAfterTail ==
    ASSUME NEW M, NEW q \in Seq(M), q # << >>, NEW c
    PROVE  /\ Head(q).client # c => SameTops(c, q, Tail(q))
           /\ Head(q).client = c => Head(q).top \in TopsIn(q, c)
           /\ Head(q).client = c /\ AtMostOne(q, c) =>
                 TopsIn(Tail(q), c) = {} /\ AtMostOne(Tail(q), c)
<1> DEFINE t == Tail(q)
<1>1. Head(q) = q[1] /\ t \in Seq(M) /\ Len(t) = Len(q) - 1 /\ Len(q) \in Nat
      /\ \A i \in 1 .. Len(t) : t[i] = q[i + 1]
  BY HeadTailProperties
<1>2. DOMAIN q = 1 .. Len(q) /\ DOMAIN t = 1 .. Len(q) - 1 /\ 1 \in DOMAIN q
  BY <1>1, EmptySeq
<1> HIDE DEF t
<1>3. \A j \in DOMAIN t : j \in Nat /\ j + 1 \in DOMAIN q /\ t[j] = q[j + 1] /\ j + 1 # 1
  BY <1>1, <1>2
<1>4. ASSUME NEW i \in DOMAIN q, i # 1 PROVE i - 1 \in DOMAIN t /\ t[i - 1] = q[i]
  <2>1. i - 1 \in 1 .. Len(t) /\ (i - 1) + 1 = i
    BY <1>1, <1>2, <1>4
  <2> QED BY <1>1, <1>2, <2>1
<1>5. ASSUME Head(q).client # c PROVE SameTops(c, q, t)
  <2>1. \A i \in DOMAIN q : q[i].client = c => i # 1
    BY <1>1, <1>5
  <2>2. TopsIn(t, c) = TopsIn(q, c)
    <3>1. ASSUME NEW x \in TopsIn(t, c) PROVE x \in TopsIn(q, c)
      BY <1>3 DEF TopsIn
    <3>2. ASSUME NEW x \in TopsIn(q, c) PROVE x \in TopsIn(t, c)
      <4>1. PICK i \in DOMAIN q : q[i].client = c /\ q[i].top = x
        BY DEF TopsIn
      <4>2. i - 1 \in DOMAIN t /\ t[i - 1] = q[i]
        BY <1>4, <2>1, <4>1
      <4> QED BY <4>1, <4>2 DEF TopsIn
    <3> QED BY <3>1, <3>2
  <2>3. AtMostOne(q, c) => AtMostOne(t, c)
    <3> SUFFICES ASSUME AtMostOne(q, c), NEW i \in DOMAIN t, NEW j \in DOMAIN t,
                        t[i].client = c, t[j].client = c
                 PROVE  i = j
      BY DEF AtMostOne
    <3>1. i + 1 = j + 1
      BY <1>3 DEF AtMostOne
    <3> QED BY <1>3, <3>1
  <2> QED BY <2>2, <2>3 DEF SameTops
<1>6. ASSUME Head(q).client = c PROVE Head(q).top \in TopsIn(q, c)
  BY <1>1, <1>2, <1>6 DEF TopsIn
<1>7. ASSUME Head(q).client = c, AtMostOne(q, c) PROVE TopsIn(t, c) = {} /\ AtMostOne(t, c)
  <2>1. ASSUME NEW j \in DOMAIN t PROVE t[j].client # c
    BY <1>1, <1>2, <1>3, <1>7 DEF AtMostOne
  <2> QED BY <2>1 DEF TopsIn, AtMostOne
<1> QED BY <1>5, <1>6, <1>7 DEF t

\* No step is nothing to everyone.
LEMMA SameTopsRefl == ASSUME NEW c, NEW q PROVE SameTops(c, q, q)
BY DEF SameTops

\* The same, of the aggregators' queues.
LEMMA SameForRefl == ASSUME NEW c, NEW d, NEW q PROVE SameFor(c, d, q, q)
BY DEF SameFor

-----------------------------------------------------------------------------
(* The state of a client.                                                  *)

\* Whose messages of c aggregator a has all processed, and whose amount of f.
Ended(a, c) == {s \in Sums : flushes[s][c] = 1 /\ ~Ends(inbox[a][s], c)}
Given(a, c, f) ==
    {s \in Sums : /\ flushes[s][c] = 1 /\ f \in DOMAIN Part(a, s, c)
                  /\ ~Waits(inbox[a][s], c, f)}
GivenFruits(a, c) == {f \in Fruits : Given(a, c, f) # {}}

\* The aggregators whose partial top Join has taken.
Taken(c) == {a \in Aggregators : Ended(a, c) = Sums /\ TopsIn(partialTops[a], c) = {}}

QueueInv(a, c) ==
    \A s \in Sums :
        /\ InOrder(inbox[a][s], c, Part(a, s, c))
        /\ flushes[s][c] = 0 => ~About(inbox[a][s], c)

CountInv(a, c) ==
    eofCount[a][c] = IF Ended(a, c) = Sums THEN 0 ELSE Cardinality(Ended(a, c))

ItemsInv(a, c) ==
    fruitItems[a][c] = IF Ended(a, c) = Sums THEN A!NoItems
                       ELSE [f \in GivenFruits(a, c) |-> SumOver(Amounted(c, f), Given(a, c, f))]

TopsInv(a, c) ==
    /\ AtMostOne(partialTops[a], c)
    /\ \A x \in TopsIn(partialTops[a], c) : Ended(a, c) = Sums /\ IsTop(x, TotFor(c, {a}))

JoinInv(c) ==
    /\ received[c] = IF Taken(c) = Aggregators THEN 0 ELSE Cardinality(Taken(c))
    /\ IF Taken(c) = Aggregators THEN topHeap[c] = {}
       ELSE \E p \in [Tot(c) -> Nat] : IsTop(topHeap[c], Parted(TotFor(c, Taken(c)), p))
    /\ \A x \in TopsIn(results, c) : Taken(c) = Aggregators /\ x = Exact(c)
    /\ AtMostOne(results, c)

ClientInv(c) ==
    /\ \A a \in Aggregators : QueueInv(a, c) /\ CountInv(a, c) /\ ItemsInv(a, c) /\ TopsInv(a, c)
    /\ JoinInv(c)

\* A step that is nothing to client e.
Nothing(e) ==
    /\ route' = route
    /\ \A s \in Sums : share'[s][e] = share[s][e] /\ flushes'[s][e] = flushes[s][e]
    /\ \A a \in Aggregators, s \in Sums : \A d : SameFor(e, d, inbox[a][s], inbox'[a][s])
    /\ \A a \in Aggregators :
          /\ fruitItems'[a][e] = fruitItems[a][e] /\ eofCount'[a][e] = eofCount[a][e]
          /\ SameTops(e, partialTops[a], partialTops'[a])
    /\ topHeap'[e] = topHeap[e] /\ received'[e] = received[e]
    /\ SameTops(e, results, results')

\* The totals depend on the inputs only.
LEMMA SameTot ==
    ASSUME NEW c, route' = route, \A s \in Sums : share'[s][c] = share[s][c]
    PROVE  /\ Tot(c)' = Tot(c) /\ Exact(c)' = Exact(c)
           /\ \A Y : TotFor(c, Y)' = TotFor(c, Y)
           /\ \A f : Amounted(c, f)' = Amounted(c, f)
           /\ \A a : \A s \in Sums : Part(a, s, c)' = Part(a, s, c)
<1>1. \A f : Amounted(c, f)' = Amounted(c, f) /\ Bearers(c, f)' = Bearers(c, f)
  BY DEF Amounted, Bearers
<1>2. Tot(c)' = Tot(c)
  BY <1>1 DEF Tot, FruitsOf
<1>3. \A Y : TotFor(c, Y)' = TotFor(c, Y)
  BY <1>2 DEF TotFor
<1>4. Exact(c)' = Exact(c)
  BY <1>2 DEF Exact
<1>5. \A a : \A s \in Sums : Part(a, s, c)' = Part(a, s, c)
  BY DEF Part
<1> QED BY <1>1, <1>2, <1>3, <1>4, <1>5

\* What is nothing to e keeps its invariant.
LEMMA NothingKeeps ==
    ASSUME NEW e \in Clients, Nothing(e), ClientInv(e)
    PROVE  ClientInv(e)'
<1>1. /\ Tot(e)' = Tot(e) /\ Exact(e)' = Exact(e)
      /\ \A Y : TotFor(e, Y)' = TotFor(e, Y)
      /\ \A f : Amounted(e, f)' = Amounted(e, f)
      /\ \A a : \A s \in Sums : Part(a, s, e)' = Part(a, s, e)
  BY SameTot DEF Nothing
<1>2. ASSUME NEW a \in Aggregators, NEW s \in Sums, NEW d
      PROVE  SameFor(e, d, inbox[a][s], inbox'[a][s]) /\ flushes'[s][e] = flushes[s][e]
  BY DEF Nothing
<1>3. ASSUME NEW a \in Aggregators PROVE Ended(a, e)' = Ended(a, e)
  BY <1>2 DEF Ended, SameFor
<1>4. ASSUME NEW a \in Aggregators, NEW f PROVE Given(a, e, f)' = Given(a, e, f)
  BY <1>1, <1>2 DEF Given, SameFor
<1>5. ASSUME NEW a \in Aggregators PROVE TopsIn(partialTops[a], e)' = TopsIn(partialTops[a], e)
  BY DEF Nothing, SameTops
<1>6. Taken(e)' = Taken(e)
  BY <1>3, <1>5 DEF Taken
<1>7. ASSUME NEW a \in Aggregators PROVE QueueInv(a, e)'
  BY <1>1, <1>2 DEF QueueInv, SameFor, ClientInv
<1>8. ASSUME NEW a \in Aggregators PROVE CountInv(a, e)'
  BY <1>3 DEF CountInv, ClientInv, Nothing
<1>9. ASSUME NEW a \in Aggregators PROVE ItemsInv(a, e)'
  <2>1. GivenFruits(a, e)' = GivenFruits(a, e)
    BY <1>4 DEF GivenFruits
  <2>2. A!NoItems' = A!NoItems
    BY DEF A!NoItems
  <2> QED BY <1>1, <1>3, <1>4, <2>1, <2>2 DEF ItemsInv, ClientInv, Nothing
<1>10. ASSUME NEW a \in Aggregators PROVE TopsInv(a, e)'
  BY <1>1, <1>3, <1>5 DEF TopsInv, ClientInv, Nothing, SameTops
<1>11. JoinInv(e)'
  BY <1>1, <1>6 DEF JoinInv, ClientInv, Nothing, SameTops
<1> QED BY <1>7, <1>8, <1>9, <1>10, <1>11 DEF ClientInv

-----------------------------------------------------------------------------
(* The queues of the aggregators.                                          *)

\* The queues when worker a changes its part of s, q, to r.
LEMMA InboxChange ==
    ASSUME InboxType, NEW a \in Aggregators, NEW s \in Sums, NEW r \in Seq(AggMessages),
           inbox' = [inbox EXCEPT ![a][s] = r],
           NEW c, \A e, d : e # c => SameFor(e, d, inbox[a][s], r)
    PROVE  /\ InboxType' /\ inbox'[a][s] = r
           /\ OnlyQueue(a, s)
           /\ OthersKept(c)
<1>1. InboxType' /\ inbox'[a][s] = r
  BY DEF InboxType
<1>2. ASSUME NEW b \in Aggregators, NEW t \in Sums, b # a \/ t # s
      PROVE  inbox'[b][t] = inbox[b][t]
  BY <1>2 DEF InboxType
<1>3. ASSUME NEW b \in Aggregators, NEW t \in Sums, NEW e, NEW d, e # c
      PROVE  SameFor(e, d, inbox[b][t], inbox'[b][t])
  BY <1>1, <1>2, <1>3, SameForRefl
<1> QED BY <1>1, <1>2, <1>3 DEF OnlyQueue, OthersKept

\* A message leaves a queue.
LEMMA MessageTaken ==
    ASSUME InboxType, NEW a \in Aggregators, NEW s \in Sums, A!Take(a, s),
           NEW m, m = Head(inbox[a][s])
    PROVE  /\ InboxType' /\ m \in AggMessages /\ inbox[a][s] # << >>
           /\ inbox[a][s] \in Seq(AggMessages)
           /\ inbox'[a][s] = Tail(inbox[a][s])
           /\ OnlyQueue(a, s)
           /\ OthersKept(m.client)
<1> DEFINE q == inbox[a][s]
<1>1. q # << >> /\ inbox' = [inbox EXCEPT ![a][s] = Tail(q)]
  BY DEF A!Take
<1>2. q \in Seq(AggMessages)
  BY DEF InboxType
<1> HIDE DEF q
<1>3. Tail(q) \in Seq(AggMessages) /\ Head(q) \in AggMessages
  BY <1>1, <1>2, HeadTailProperties
<1>4. \A e, d : e # m.client => SameFor(e, d, q, Tail(q))
  BY <1>1, <1>2, SameTail DEF q
<1>5. \A e, d : e # m.client => SameFor(e, d, inbox[a][s], Tail(q))
  BY <1>4 DEF q
<1> HIDE DEF InboxType
<1>6. /\ InboxType' /\ inbox'[a][s] = Tail(q)
      /\ OnlyQueue(a, s)
      /\ OthersKept(m.client)
  BY <1>1, <1>3, <1>5, InboxChange
<1> QED BY <1>1, <1>2, <1>3, <1>6 DEF q

\* A message leaves a queue and comes back to its end.
LEMMA MessageComesBack ==
    ASSUME InboxType, NEW a \in Aggregators, NEW s \in Sums, inbox[a][s] # << >>,
           inbox' = [inbox EXCEPT ![a][s] = Append(Tail(@), Head(@))],
           NEW m, m = Head(inbox[a][s])
    PROVE  /\ InboxType' /\ m \in AggMessages
           /\ OthersKept(m.client)
<1> DEFINE q == inbox[a][s]
           r == Append(Tail(q), Head(q))
<1>1. q # << >> /\ inbox' = [inbox EXCEPT ![a][s] = r]
  OBVIOUS
<1>2. q \in Seq(AggMessages)
  BY DEF InboxType
<1> HIDE DEF q
<1>3. Tail(q) \in Seq(AggMessages) /\ Head(q) \in AggMessages
  BY <1>1, <1>2, HeadTailProperties
<1>4. r \in Seq(AggMessages)
  BY <1>3, AppendProperties
<1>5. \A e, d : e # m.client => SameFor(e, d, q, r)
  BY <1>1, <1>2, SameRotated DEF q
<1> HIDE DEF r
<1>6. \A e, d : e # m.client => SameFor(e, d, inbox[a][s], r)
  BY <1>5 DEF q
<1>7. /\ InboxType'
      /\ OthersKept(m.client)
  BY <1>1, <1>4, <1>6, InboxChange
<1> QED BY <1>3, <1>7 DEF q

-----------------------------------------------------------------------------
(* Every step keeps the types and is nothing to the clients it is not about. *)

\* A flush of s that is its first of c.  The digest it sends is known by now: what
\* the share of s was before is nothing to anyone, so a composition with the Sum
\* workers may leave it open until then.
FirstFlush(s, c) ==
    /\ flushes[s][c] = 0
    /\ flushes' = [flushes EXCEPT ![s][c] = 1]
    /\ InputsType' /\ route' = route
    /\ \A t \in Sums, e \in Clients : t # s \/ e # c => share'[t][e] = share[t][e]
    /\ UNCHANGED << tries, connectionVars, fruitItems, eofCount, partialTops, topHeap,
                    received, results >>
    /\ inbox' = Delivered(inbox, s, Outgoing(c, share'[s][c], route))

\* A flush is one.
LEMMA FlushIsFirst ==
    ASSUME Types, NEW s \in Sums, NEW c \in Clients, Flush(s, c)
    PROVE  FirstFlush(s, c)
<1>1. /\ UNCHANGED << share, route, tries, connectionVars, fruitItems, eofCount,
                      partialTops, topHeap, received, results >>
      /\ flushes[s][c] = 0 /\ flushes' = [flushes EXCEPT ![s][c] = 1]
      /\ inbox' = Delivered(inbox, s, FlushOf(s, c))
  BY DEF Flush
<1>2. InputsType'
  BY <1>1, Quiet DEF Types
<1>3. inbox' = Delivered(inbox, s, Outgoing(c, share'[s][c], route))
  BY <1>1, FlushIsOutgoing
<1> QED BY <1>1, <1>2, <1>3 DEF FirstFlush

\* What the flush of a digest leaves in the queues.
LEMMA DigestDelivered ==
    ASSUME InboxType, NEW s \in Sums, NEW c \in Clients, NEW d, IsDigest(d),
           inbox' = Delivered(inbox, s, Outgoing(c, d, route))
    PROVE  InboxType' /\ OthersKept(c) /\ OwnChanged(s, Outgoing(c, d, route))
<1>1. IsFiniteSet(Outgoing(c, d, route))
      /\ \A x \in Outgoing(c, d, route) : x.message \in AggMessages /\ x.message.client = c
  BY OutgoingMessages
<1> QED BY <1>1, DeliveredOthers

\* The digests are digests after the step, too.
LEMMA NextShare ==
    ASSUME InputsType', NEW s \in Sums, NEW c \in Clients
    PROVE  IsDigest(share'[s][c])
BY PipelineAssumption DEF InputsType

LEMMA FlushStep ==
    ASSUME Types, NEW s \in Sums, NEW c \in Clients, FirstFlush(s, c)
    PROVE  /\ Types' /\ disturbed' = disturbed
           /\ \A e \in Clients : e # c => Nothing(e)
<1>1. /\ UNCHANGED << tries, connectionVars, fruitItems, eofCount, partialTops, topHeap,
                      received, results >>
      /\ flushes' = [flushes EXCEPT ![s][c] = 1]
      /\ InputsType' /\ route' = route
      /\ \A t \in Sums, e \in Clients : e # c => share'[t][e] = share[t][e]
      /\ inbox' = Delivered(inbox, s, Outgoing(c, share'[s][c], route))
  BY DEF FirstFlush
<1>2. IsDigest(share'[s][c])
  BY <1>1, NextShare
<1>3. InboxType' /\ OthersKept(c)
  BY <1>1, <1>2, DigestDelivered DEF Types
<1>4. flushes' \in [Sums -> [Clients -> 0 .. 1]]
      /\ \A t \in Sums, e \in Clients : e # c => flushes'[t][e] = flushes[t][e]
  BY <1>1 DEF Types
<1>5. IsFiniteSet(broken') /\ breaks' \in Nat /\ disturbed' \subseteq Clients
  BY <1>1 DEF Types, connectionVars
<1>6. Types'
  BY <1>1, <1>3, <1>4, <1>5 DEF Types, ResultsType
<1>7. \A e \in Clients : e # c => Nothing(e)
  <2> SUFFICES ASSUME NEW e \in Clients, e # c PROVE Nothing(e)
    OBVIOUS
  <2>1. \A t \in Sums : share'[t][e] = share[t][e] /\ flushes'[t][e] = flushes[t][e]
    BY <1>1, <1>4
  <2>2. \A b \in Aggregators, t \in Sums : \A d : SameFor(e, d, inbox[b][t], inbox'[b][t])
    BY <1>3 DEF OthersKept
  <2>3. /\ route' = route /\ fruitItems' = fruitItems /\ eofCount' = eofCount
        /\ partialTops' = partialTops /\ topHeap' = topHeap
        /\ received' = received /\ results' = results
    BY <1>1
  <2>4. SameTops(e, results, results') /\ \A b \in Aggregators : SameTops(e, partialTops[b], partialTops'[b])
    BY <2>3, SameTopsRefl
  <2> QED BY <2>1, <2>2, <2>3, <2>4 DEF Nothing
<1> QED BY <1>1, <1>6, <1>7 DEF connectionVars

\* A flush of s when it has flushed c before disturbs c: it counts twice.
FlushAgain(s, c) ==
    /\ disturbed' = disturbed \cup {c}
    /\ InputsType' /\ route' = route
    /\ \A t \in Sums, e \in Clients : t # s \/ e # c => share'[t][e] = share[t][e]
    /\ UNCHANGED << tries, flushes, broken, breaks, fruitItems, eofCount, partialTops,
                    topHeap, received, results >>
    /\ \E d : IsDigest(d) /\ inbox' = Delivered(inbox, s, Outgoing(c, d, route))

LEMMA FlushAgainStep ==
    ASSUME Types, NEW s \in Sums, NEW c \in Clients, FlushAgain(s, c)
    PROVE  /\ Types' /\ disturbed' = disturbed \cup {c}
           /\ \A e \in Clients : e # c => Nothing(e)
<1>1. /\ UNCHANGED << tries, flushes, broken, breaks, fruitItems, eofCount, partialTops,
                      topHeap, received, results >>
      /\ disturbed' = disturbed \cup {c}
      /\ InputsType' /\ route' = route
      /\ \A t \in Sums, e \in Clients : e # c => share'[t][e] = share[t][e]
  BY DEF FlushAgain
<1>2. PICK d : IsDigest(d) /\ inbox' = Delivered(inbox, s, Outgoing(c, d, route))
  BY DEF FlushAgain
<1>3. InboxType' /\ OthersKept(c)
  BY <1>2, DigestDelivered DEF Types
<1>4. Types'
  BY <1>1, <1>3 DEF Types, ResultsType
<1>5. \A e \in Clients : e # c => Nothing(e)
  BY <1>1, <1>3, SameTopsRefl DEF Nothing, OthersKept
<1> QED BY <1>1, <1>4, <1>5

\* and one that a send cuts off.
LEMMA FlushFailsStep ==
    ASSUME Types, NEW s \in Sums, NEW c \in Clients, FlushFails(s, c)
    PROVE  /\ Types' /\ disturbed' = disturbed \cup {c}
           /\ \A e \in Clients : e # c => Nothing(e)
<1>1. UNCHANGED << share, route, flushes, fruitItems, eofCount,
                   partialTops, topHeap, received, results >>
      /\ tries[s][c] <= MaxRetries
      /\ tries' = [tries EXCEPT ![s][c] = @ + 1]
  BY DEF FlushFails
<1>2. PICK sent \in SUBSET FlushOf(s, c), next \in FlushOf(s, c) :
         /\ Raises(OutputTo(s, next.to), c)
         /\ \/ inbox' = Delivered(inbox, s, sent)
            \/ inbox' = Delivered(inbox, s, sent \cup {next})
  BY DEF FlushFails
<1>3. PICK msgs \in SUBSET FlushOf(s, c) : inbox' = Delivered(inbox, s, msgs)
  BY <1>2
<1>4. IsShare(share) /\ IsRoute(route)
  BY InputsAre DEF Types
<1>5. IsFiniteSet(msgs)
      /\ \A x \in msgs : x.message \in AggMessages /\ x.message.client = c
  BY <1>4, FlushMessages, FS_Subset
<1>6. /\ InboxType'
      /\ OthersKept(c)
  BY <1>3, <1>5, DeliveredOthers DEF Types
<1>7. tries' \in [Sums -> [Clients -> 0 .. MaxRetries + 1]]
  BY <1>1, RetriesAssumption DEF Types
<1>8. /\ InputsType' /\ IsFiniteSet(broken') /\ breaks' \in Nat /\ disturbed' \subseteq Clients
      /\ disturbed' = disturbed \cup {c}
  BY <1>1, <1>2, Breaking DEF Types
<1>9. Types'
  BY <1>1, <1>6, <1>7, <1>8 DEF Types, ResultsType
<1>10. \A e \in Clients : e # c => Nothing(e)
  BY <1>1, <1>6, SameTopsRefl DEF Nothing, OthersKept
<1> QED BY <1>8, <1>9, <1>10

\* An aggregator leaves the Sums and Join alone.
Still == UNCHANGED << flushVars, topHeap, received, results >>

\* An amount is added up.
LEMMA ProcessDataStep ==
    ASSUME Types, Still, NEW a \in Aggregators, NEW s \in Sums, A!ProcessData(a, s)
    PROVE  /\ Types' /\ disturbed' = disturbed
           /\ \A e \in Clients : e # Head(inbox[a][s]).client => Nothing(e)
<1> DEFINE m == Head(inbox[a][s])
           c == m.client
<1>1. /\ A!Take(a, s) /\ m.type = "data"
      /\ fruitItems' = [fruitItems EXCEPT ![a][c] = A!AddTo(@, m.fruit, m.amount)]
      /\ UNCHANGED << eofCount, partialTops, connectionVars >>
  BY DEF A!ProcessData, A!connectionVars, connectionVars
<1>2. UNCHANGED << share, route, tries, flushes, topHeap, received, results >>
  BY DEF Still, flushVars
<1>3. /\ InboxType' /\ m \in AggMessages
      /\ OthersKept(c)
  BY <1>1, MessageTaken DEF Types
<1> HIDE DEF m
<1>4. c \in Clients /\ m.fruit \in Fruits /\ m.amount \in Nat
  BY <1>1, <1>3, KindsOfMessage
<1>5. fruitItems' \in [Aggregators -> [Clients -> Digests]]
      /\ \A b \in Aggregators, e \in Clients : e # c => fruitItems'[b][e] = fruitItems[b][e]
  <2>1. A!AddTo(fruitItems[a][c], m.fruit, m.amount) \in Digests
    BY <1>4, AddToDigest DEF Types
  <2> QED BY <1>1, <1>4, <2>1 DEF Types
<1>6. InputsType' /\ IsFiniteSet(broken') /\ breaks' \in Nat /\ disturbed' \subseteq Clients
  BY <1>1, <1>2, Quiet DEF Types
<1>7. Types'
  BY <1>1, <1>2, <1>3, <1>5, <1>6 DEF Types, ResultsType
<1>8. \A e \in Clients : e # c => Nothing(e)
  BY <1>1, <1>2, <1>3, <1>5, SameTopsRefl DEF Nothing, OthersKept
<1> QED BY <1>1, <1>7, <1>8 DEF connectionVars, m

\* An EOF is counted.
LEMMA CountEofStep ==
    ASSUME Types, Still, NEW a \in Aggregators, NEW s \in Sums, A!CountEof(a, s)
    PROVE  /\ Types' /\ disturbed' = disturbed
           /\ \A e \in Clients : e # Head(inbox[a][s]).client => Nothing(e)
<1> DEFINE m == Head(inbox[a][s])
           c == m.client
<1>1. /\ A!Take(a, s)
      /\ eofCount' = [eofCount EXCEPT ![a][c] = @ + 1]
      /\ UNCHANGED << fruitItems, partialTops, connectionVars >>
  BY DEF A!CountEof, A!connectionVars, connectionVars
<1>2. UNCHANGED << share, route, tries, flushes, topHeap, received, results >>
  BY DEF Still, flushVars
<1>3. /\ InboxType' /\ m \in AggMessages
      /\ OthersKept(c)
  BY <1>1, MessageTaken DEF Types
<1> HIDE DEF m
<1>4. c \in Clients
  BY <1>3, KindsOfMessage
<1>5. eofCount' \in [Aggregators -> [Clients -> Nat]]
      /\ \A b \in Aggregators, e \in Clients : e # c => eofCount'[b][e] = eofCount[b][e]
  <2>1. eofCount[a][c] + 1 \in Nat
    BY <1>4 DEF Types
  <2> QED BY <1>1, <1>4, <2>1 DEF Types
<1>6. InputsType' /\ IsFiniteSet(broken') /\ breaks' \in Nat /\ disturbed' \subseteq Clients
  BY <1>1, <1>2, Quiet DEF Types
<1>7. Types'
  BY <1>1, <1>2, <1>3, <1>5, <1>6 DEF Types, ResultsType
<1>8. \A e \in Clients : e # c => Nothing(e)
  BY <1>1, <1>2, <1>3, <1>5, SameTopsRefl DEF Nothing, OthersKept
<1> QED BY <1>1, <1>7, <1>8 DEF connectionVars, m

\* A partial top is one more message for Join.
LEMMA TopPublished ==
    ASSUME Types, NEW a \in Aggregators, NEW c \in Clients, A!Publish(a, c)
    PROVE  /\ partialTops' \in [Aggregators -> Seq(Tops)]
           /\ partialTops'[a] = Append(partialTops[a], [client |-> c, top |-> A!FindTopFruits(fruitItems[a][c])])
           /\ \A b \in Aggregators \ {a} : partialTops'[b] = partialTops[b]
           /\ \A b \in Aggregators, e \in Clients : e # c => SameTops(e, partialTops[b], partialTops'[b])
<1> DEFINE t == [client |-> c, top |-> A!FindTopFruits(fruitItems[a][c])]
<1>1. partialTops' = [partialTops EXCEPT ![a] = Append(@, t)]
  BY DEF A!Publish, A!PartialTop
<1>2. t \in Tops
  <2>1. A!FindTopFruits(fruitItems[a][c]) \in Heaps
    <3>1. fruitItems[a][c] \in Digests
      BY DEF Types
    <3> QED BY <3>1, FindTopFruitsType
  <2> QED BY <2>1 DEF Tops
<1>3. t.client = c
  OBVIOUS
<1> HIDE DEF t
<1>4. partialTops \in [Aggregators -> Seq(Tops)]
  BY DEF Types
<1>5. Append(partialTops[a], t) \in Seq(Tops)
      /\ \A e : e # c => SameTops(e, partialTops[a], Append(partialTops[a], t))
  BY <1>2, <1>3, <1>4, AppendProperties, TopsAfterAppend
<1>6. /\ partialTops' \in [Aggregators -> Seq(Tops)]
      /\ partialTops'[a] = Append(partialTops[a], t)
      /\ \A b \in Aggregators \ {a} : partialTops'[b] = partialTops[b]
  BY <1>1, <1>4, <1>5
<1>7. \A b \in Aggregators, e \in Clients : e # c => SameTops(e, partialTops[b], partialTops'[b])
  BY <1>5, <1>6, SameTopsRefl
<1> QED BY <1>6, <1>7 DEF t

\* The last EOF: the partial top is sent,
LEMMA SendPartialTopStep ==
    ASSUME Types, Still, NEW a \in Aggregators, NEW s \in Sums, A!SendPartialTop(a, s)
    PROVE  /\ Types' /\ disturbed' = disturbed
           /\ \A e \in Clients : e # Head(inbox[a][s]).client => Nothing(e)
<1> DEFINE m == Head(inbox[a][s])
           c == m.client
<1>1. /\ A!Take(a, s) /\ A!Publish(a, c)
      /\ fruitItems' = [fruitItems EXCEPT ![a][c] = A!NoItems]
      /\ eofCount' = [eofCount EXCEPT ![a][c] = 0]
      /\ UNCHANGED connectionVars
  BY DEF A!SendPartialTop, A!Works, A!connectionVars, connectionVars
<1>2. UNCHANGED << share, route, tries, flushes, topHeap, received, results >>
  BY DEF Still, flushVars
<1>3. /\ InboxType' /\ m \in AggMessages
      /\ OthersKept(c)
  BY <1>1, MessageTaken DEF Types
<1> HIDE DEF m
<1>4. c \in Clients
  BY <1>3, KindsOfMessage
<1>5. eofCount' \in [Aggregators -> [Clients -> Nat]]
      /\ fruitItems' \in [Aggregators -> [Clients -> Digests]]
      /\ \A b \in Aggregators, e \in Clients : e # c =>
            eofCount'[b][e] = eofCount[b][e] /\ fruitItems'[b][e] = fruitItems[b][e]
  BY <1>1, <1>4, NoItemsIsDigest DEF Types
<1>6. InputsType' /\ IsFiniteSet(broken') /\ breaks' \in Nat /\ disturbed' \subseteq Clients
  BY <1>1, <1>2, Quiet DEF Types
<1>7. /\ partialTops' \in [Aggregators -> Seq(Tops)]
      /\ \A b \in Aggregators, e \in Clients : e # c => SameTops(e, partialTops[b], partialTops'[b])
  BY <1>1, <1>4, TopPublished
<1>8. Types'
  BY <1>1, <1>2, <1>3, <1>5, <1>6, <1>7 DEF Types, ResultsType
<1>9. \A e \in Clients : e # c => Nothing(e)
  BY <1>1, <1>2, <1>3, <1>5, <1>7, SameTopsRefl DEF Nothing, OthersKept
<1> QED BY <1>1, <1>8, <1>9 DEF connectionVars, m

\* or the send raises.
LEMMA SendPartialTopFailsStep ==
    ASSUME Types, Still, NEW a \in Aggregators, NEW s \in Sums, A!SendPartialTopFails(a, s)
    PROVE  /\ Types' /\ disturbed' = disturbed \cup {Head(inbox[a][s]).client}
           /\ \A e \in Clients : e # Head(inbox[a][s]).client => Nothing(e)
<1> DEFINE m == Head(inbox[a][s])
           c == m.client
<1>1. /\ inbox[a][s] # << >>
      /\ Raises(A!OutputOf(a), c)
      /\ eofCount' = [eofCount EXCEPT ![a][c] = A!Bounded(@ + 1, A!Cardinality(Sums))]
      /\ UNCHANGED partialTops \/ A!Publish(a, c)
      /\ inbox' = [inbox EXCEPT ![a][s] = Append(Tail(@), Head(@))]
      /\ UNCHANGED fruitItems
  BY DEF A!SendPartialTopFails, A!LastEof, A!Raises, Raises
<1>2. UNCHANGED << share, route, tries, flushes, topHeap, received, results >>
  BY DEF Still, flushVars
<1>3. /\ InboxType' /\ m \in AggMessages
      /\ OthersKept(c)
  BY <1>1, MessageComesBack DEF Types
<1> HIDE DEF m
<1>4. c \in Clients
  BY <1>3, KindsOfMessage
<1>5. eofCount' \in [Aggregators -> [Clients -> Nat]]
      /\ \A b \in Aggregators, e \in Clients : e # c => eofCount'[b][e] = eofCount[b][e]
  <2>1. A!Cardinality(Sums) \in Nat
    BY SameCardinality, FS_CardinalityType, PipelineAssumption
  <2>2. A!Bounded(eofCount[a][c] + 1, A!Cardinality(Sums)) \in Nat
    <3>1. eofCount[a][c] \in Nat
      BY <1>4 DEF Types
    <3> QED BY <2>1, <3>1, RetriesAssumption DEF A!Bounded
  <2> QED BY <1>1, <1>4, <2>2 DEF Types
<1>6. /\ InputsType' /\ IsFiniteSet(broken') /\ breaks' \in Nat /\ disturbed' \subseteq Clients
      /\ disturbed' = disturbed \cup {c}
  BY <1>1, <1>2, <1>4, Breaking DEF Types
<1>7. /\ partialTops' \in [Aggregators -> Seq(Tops)]
      /\ \A b \in Aggregators, e \in Clients : e # c => SameTops(e, partialTops[b], partialTops'[b])
  <2>1. CASE UNCHANGED partialTops
    BY <2>1, SameTopsRefl DEF Types
  <2>2. CASE A!Publish(a, c)
    BY <1>4, <2>2, TopPublished
  <2> QED BY <1>1, <2>1, <2>2
<1>8. Types'
  BY <1>1, <1>2, <1>3, <1>5, <1>6, <1>7 DEF Types, ResultsType
<1>9. \A e \in Clients : e # c => Nothing(e)
  BY <1>1, <1>2, <1>3, <1>5, <1>7, SameTopsRefl DEF Nothing, OthersKept
<1> QED BY <1>6, <1>8, <1>9 DEF m

\* Join leaves the others alone.
JoinStill == UNCHANGED << flushVars, inbox, fruitItems, eofCount >>

\* A partial top leaves its queue,
LEMMA TopTaken ==
    ASSUME Types, NEW a \in Aggregators, J!Receive(a), NEW m, m = Head(partialTops[a])
    PROVE  /\ partialTops' \in [Aggregators -> Seq(Tops)]
           /\ m \in Tops /\ m.client \in Clients /\ m.top \in Heaps
           /\ partialTops[a] # << >> /\ partialTops[a] \in Seq(Tops)
           /\ partialTops'[a] = Tail(partialTops[a])
           /\ \A b \in Aggregators \ {a} : partialTops'[b] = partialTops[b]
           /\ \A b \in Aggregators, e \in Clients :
                 e # m.client => SameTops(e, partialTops[b], partialTops'[b])
<1> DEFINE q == partialTops[a]
<1>1. q # << >> /\ partialTops' = [partialTops EXCEPT ![a] = Tail(q)]
  BY DEF J!Receive
<1>2. partialTops \in [Aggregators -> Seq(Tops)] /\ q \in Seq(Tops)
  BY DEF Types
<1> HIDE DEF q
<1>3. Tail(q) \in Seq(Tops) /\ Head(q) \in Tops
  BY <1>1, <1>2, HeadTailProperties
<1>4. \A e : e # m.client => SameTops(e, q, Tail(q))
  BY <1>1, <1>2, TopsAfterTail DEF q
<1>5. /\ partialTops' \in [Aggregators -> Seq(Tops)]
      /\ partialTops'[a] = Tail(q)
      /\ \A b \in Aggregators \ {a} : partialTops'[b] = partialTops[b]
  BY <1>1, <1>2, <1>3
<1>6. \A b \in Aggregators, e \in Clients :
         e # m.client => SameTops(e, partialTops[b], partialTops'[b])
  BY <1>4, <1>5, SameTopsRefl DEF q
<1>7. m \in Tops /\ m.client \in Clients /\ m.top \in Heaps
  BY <1>3 DEF q, Tops
<1> QED BY <1>1, <1>2, <1>5, <1>6, <1>7 DEF q

\* or comes back to its end.
LEMMA TopComesBack ==
    ASSUME Types, NEW a \in Aggregators, partialTops[a] # << >>,
           partialTops' = [partialTops EXCEPT ![a] = Append(Tail(@), Head(@))],
           NEW m, m = Head(partialTops[a])
    PROVE  /\ partialTops' \in [Aggregators -> Seq(Tops)]
           /\ m \in Tops /\ m.client \in Clients
           /\ \A b \in Aggregators, e \in Clients :
                 e # m.client => SameTops(e, partialTops[b], partialTops'[b])
<1> DEFINE q == partialTops[a]
           r == Append(Tail(q), Head(q))
<1>1. q # << >> /\ partialTops' = [partialTops EXCEPT ![a] = r]
  OBVIOUS
<1>2. partialTops \in [Aggregators -> Seq(Tops)] /\ q \in Seq(Tops)
  BY DEF Types
<1> HIDE DEF q
<1>3. Tail(q) \in Seq(Tops) /\ Head(q) \in Tops /\ Head(q) = m
  <2>1. Tail(q) \in Seq(Tops) /\ Head(q) \in Tops
    BY <1>1, <1>2, HeadTailProperties
  <2> QED BY <2>1 DEF q
<1>4. r \in Seq(Tops)
  BY <1>3, AppendProperties
<1>5. ASSUME NEW e, e # m.client PROVE SameTops(e, q, r)
  <2>1. SameTops(e, q, Tail(q))
    BY <1>1, <1>2, <1>3, <1>5, TopsAfterTail
  <2>2. SameTops(e, Tail(q), r)
    BY <1>3, <1>5, TopsAfterAppend
  <2> QED BY <2>1, <2>2 DEF SameTops
<1> HIDE DEF r
<1>6. /\ partialTops' \in [Aggregators -> Seq(Tops)]
      /\ partialTops'[a] = r
      /\ \A b \in Aggregators \ {a} : partialTops'[b] = partialTops[b]
  BY <1>1, <1>2, <1>4
<1>7. \A b \in Aggregators, e \in Clients :
         e # m.client => SameTops(e, partialTops[b], partialTops'[b])
  BY <1>5, <1>6, SameTopsRefl DEF q
<1>8. m \in Tops /\ m.client \in Clients
  BY <1>3 DEF Tops
<1> QED BY <1>6, <1>7, <1>8

\* A result is one more message for the gateway.
LEMMA ResultPublished ==
    ASSUME Types, NEW m \in Tops, J!Publish(m)
    PROVE  /\ ResultsType'
           /\ \E M : results \in Seq(M) /\ [client |-> m.client, top |-> J!Ranked(J!UpdateClientTop(m))] \in M
           /\ results' = Append(results, [client |-> m.client, top |-> J!Ranked(J!UpdateClientTop(m))])
           /\ \A e \in Clients : e # m.client => SameTops(e, results, results')
<1> DEFINE top == J!Ranked(J!UpdateClientTop(m))
           r == [client |-> m.client, top |-> top]
<1>1. results' = Append(results, r)
  BY DEF J!Publish, J!Result
<1> HIDE DEF top
<1>2. r.client = m.client /\ r.client \in Clients /\ r.top = top
  BY DEF Tops
<1>3. PICK T : results \in Seq([client : Clients, top : T])
  BY DEF Types, ResultsType
<1> DEFINE M == [client : Clients, top : T \cup {top}]
           Q == [client : Clients, top : T]
<1>4. r \in M
  BY <1>2
<1>5. Q \subseteq M /\ results \in Seq(Q)
  BY <1>3
<1> HIDE DEF M, Q, r
<1>6. results \in Seq(M)
  BY <1>5
<1>7. results' \in Seq(M)
  BY <1>1, <1>4, <1>6, AppendProperties
<1>8. \A e \in Clients : e # m.client => SameTops(e, results, results')
  BY <1>1, <1>2, <1>4, <1>6, TopsAfterAppend
<1>9. ResultsType'
  BY <1>7 DEF ResultsType, M
<1> QED BY <1>1, <1>4, <1>6, <1>8, <1>9 DEF r, top

\* A partial top is merged.
LEMMA KeepPartialTopStep ==
    ASSUME Types, JoinStill, NEW a \in Aggregators, J!KeepPartialTop(a)
    PROVE  /\ Types' /\ disturbed' = disturbed
           /\ \A e \in Clients : e # Head(partialTops[a]).client => Nothing(e)
<1> DEFINE m == Head(partialTops[a])
           c == m.client
<1>1. /\ J!Receive(a)
      /\ topHeap' = [topHeap EXCEPT ![c] = J!UpdateClientTop(m)]
      /\ received' = [received EXCEPT ![c] = @ + 1]
      /\ UNCHANGED << results, connectionVars >>
  BY DEF J!KeepPartialTop, J!connectionVars, connectionVars
<1>2. UNCHANGED << share, route, tries, flushes, inbox, fruitItems, eofCount >>
  BY DEF JoinStill, flushVars
<1>3. /\ partialTops' \in [Aggregators -> Seq(Tops)]
      /\ m \in Tops /\ c \in Clients
      /\ \A b \in Aggregators, e \in Clients : e # c => SameTops(e, partialTops[b], partialTops'[b])
  BY <1>1, TopTaken
<1> HIDE DEF m
<1>4. J!UpdateClientTop(m) \in Heaps
  BY <1>3, UpdateClientTopType DEF Types
<1>5. /\ topHeap' \in [Clients -> Heaps] /\ received' \in [Clients -> Nat]
      /\ \A e \in Clients : e # c => topHeap'[e] = topHeap[e] /\ received'[e] = received[e]
  BY <1>1, <1>3, <1>4 DEF Types
<1>6. InputsType' /\ IsFiniteSet(broken') /\ breaks' \in Nat /\ disturbed' \subseteq Clients
  BY <1>1, <1>2, Quiet DEF Types
<1>7. Types'
  BY <1>1, <1>2, <1>3, <1>5, <1>6 DEF Types, ResultsType, InboxType
<1>8. \A e \in Clients : e # c => Nothing(e)
  BY <1>1, <1>2, <1>3, <1>5, SameTopsRefl, SameForRefl DEF Nothing
<1> QED BY <1>1, <1>7, <1>8 DEF connectionVars, m

\* The last partial top: the result is sent,
LEMMA SendFinalResultsStep ==
    ASSUME Types, JoinStill, NEW a \in Aggregators, J!SendFinalResults(a)
    PROVE  /\ Types' /\ disturbed' = disturbed
           /\ \A e \in Clients : e # Head(partialTops[a]).client => Nothing(e)
<1> DEFINE m == Head(partialTops[a])
           c == m.client
<1>1. /\ J!Receive(a) /\ J!Publish(m)
      /\ topHeap' = [topHeap EXCEPT ![c] = {}]
      /\ received' = [received EXCEPT ![c] = 0]
      /\ UNCHANGED connectionVars
  BY DEF J!SendFinalResults, J!Works, J!connectionVars, connectionVars
<1>2. UNCHANGED << share, route, tries, flushes, inbox, fruitItems, eofCount >>
  BY DEF JoinStill, flushVars
<1>3. /\ partialTops' \in [Aggregators -> Seq(Tops)]
      /\ m \in Tops /\ c \in Clients
      /\ \A b \in Aggregators, e \in Clients : e # c => SameTops(e, partialTops[b], partialTops'[b])
  BY <1>1, TopTaken
<1> HIDE DEF m
<1>4. ResultsType' /\ \A e \in Clients : e # c => SameTops(e, results, results')
  BY <1>1, <1>3, ResultPublished
<1>5. /\ topHeap' \in [Clients -> Heaps] /\ received' \in [Clients -> Nat]
      /\ \A e \in Clients : e # c => topHeap'[e] = topHeap[e] /\ received'[e] = received[e]
  <2>1. {} \in Heaps
    BY FS_EmptySet, TopSizeAssumption DEF Heaps
  <2> QED BY <1>1, <1>3, <2>1 DEF Types
<1>6. InputsType' /\ IsFiniteSet(broken') /\ breaks' \in Nat /\ disturbed' \subseteq Clients
  BY <1>1, <1>2, Quiet DEF Types
<1>7. Types'
  BY <1>1, <1>2, <1>3, <1>4, <1>5, <1>6 DEF Types, InboxType
<1>8. \A e \in Clients : e # c => Nothing(e)
  BY <1>1, <1>2, <1>3, <1>4, <1>5, SameTopsRefl, SameForRefl DEF Nothing
<1> QED BY <1>1, <1>7, <1>8 DEF connectionVars, m

\* or the send raises.
LEMMA SendFinalResultsFailsStep ==
    ASSUME Types, JoinStill, NEW a \in Aggregators, J!SendFinalResultsFails(a)
    PROVE  /\ Types' /\ disturbed' = disturbed \cup {Head(partialTops[a]).client}
           /\ \A e \in Clients : e # Head(partialTops[a]).client => Nothing(e)
<1> DEFINE m == Head(partialTops[a])
           c == m.client
<1>1. /\ partialTops[a] # << >>
      /\ Raises(J!Output, c)
      /\ topHeap' = [topHeap EXCEPT ![c] = J!UpdateClientTop(m)]
      /\ received' = [received EXCEPT ![c] = J!Bounded(@ + 1, J!Cardinality(Aggregators))]
      /\ UNCHANGED results \/ J!Publish(m)
      /\ partialTops' = [partialTops EXCEPT ![a] = Append(Tail(@), Head(@))]
  BY DEF J!SendFinalResultsFails, J!Raises, Raises
<1>2. UNCHANGED << share, route, tries, flushes, inbox, fruitItems, eofCount >>
  BY DEF JoinStill, flushVars
<1>3. /\ partialTops' \in [Aggregators -> Seq(Tops)]
      /\ m \in Tops /\ c \in Clients
      /\ \A b \in Aggregators, e \in Clients : e # c => SameTops(e, partialTops[b], partialTops'[b])
  BY <1>1, TopComesBack
<1> HIDE DEF m
<1>4. ResultsType' /\ \A e \in Clients : e # c => SameTops(e, results, results')
  <2>1. CASE UNCHANGED results
    BY <2>1, SameTopsRefl DEF Types, ResultsType
  <2>2. CASE J!Publish(m)
    BY <1>3, <2>2, ResultPublished
  <2> QED BY <1>1, <2>1, <2>2
<1>5. /\ topHeap' \in [Clients -> Heaps] /\ received' \in [Clients -> Nat]
      /\ \A e \in Clients : e # c => topHeap'[e] = topHeap[e] /\ received'[e] = received[e]
  <2>1. J!Cardinality(Aggregators) \in Nat
    BY SameCardinality, FS_CardinalityType, AggregatorsAssumption
  <2>2. J!Bounded(received[c] + 1, J!Cardinality(Aggregators)) \in Nat
    BY <1>3, <2>1, RetriesAssumption DEF Types, J!Bounded
  <2>3. J!UpdateClientTop(m) \in Heaps
    BY <1>3, UpdateClientTopType DEF Types
  <2> QED BY <1>1, <1>3, <2>2, <2>3 DEF Types
<1>6. /\ InputsType' /\ IsFiniteSet(broken') /\ breaks' \in Nat /\ disturbed' \subseteq Clients
      /\ disturbed' = disturbed \cup {c}
  BY <1>1, <1>2, <1>3, Breaking DEF Types
<1>7. Types'
  BY <1>1, <1>2, <1>3, <1>4, <1>5, <1>6 DEF Types, InboxType
<1>8. \A e \in Clients : e # c => Nothing(e)
  BY <1>1, <1>2, <1>3, <1>4, <1>5, SameTopsRefl, SameForRefl DEF Nothing
<1> QED BY <1>6, <1>7, <1>8 DEF m

-----------------------------------------------------------------------------
(* Counting workers.                                                       *)

\* A fruit of a part.
LEMMA PartAt ==
    ASSUME IsShare(share), NEW c \in Clients, NEW s \in Sums, NEW a, NEW f \in DOMAIN Part(a, s, c)
    PROVE  /\ f \in Fruits /\ f \in DOMAIN share[s][c] /\ route[<< c, f >>] = a
           /\ Part(a, s, c)[f] = share[s][c][f] /\ Part(a, s, c)[f] \in Nat
BY DEF Part, IsShare, IsDigest

\* One worker more of a set of workers: the last one, or not.
LEMMA SumsMissing ==
    ASSUME NEW S, IsFiniteSet(S), NEW T \in SUBSET S, NEW x \in S \ T
    PROVE  /\ IsFiniteSet(T) /\ Cardinality(T) \in Nat /\ Cardinality(S) \in Nat
           /\ Cardinality(T \cup {x}) = Cardinality(T) + 1
           /\ T \cup {x} = S <=> Cardinality(T) + 1 >= Cardinality(S)
<1>1. IsFiniteSet(T) /\ Cardinality(T) \in Nat /\ Cardinality(S) \in Nat
  BY FS_Subset, FS_CardinalityType
<1> DEFINE U == T \cup {x}
<1>2. IsFiniteSet(U) /\ Cardinality(U) = Cardinality(T) + 1
  BY <1>1, FS_AddElement
<1>3. U \subseteq S
  OBVIOUS
<1>4. Cardinality(U) <= Cardinality(S) /\ (Cardinality(S) = Cardinality(U) => S = U)
  BY <1>3, FS_Subset
<1> HIDE DEF U
<1>5. U = S <=> Cardinality(T) + 1 >= Cardinality(S)
  BY <1>1, <1>2, <1>4
<1> QED BY <1>1, <1>2, <1>5 DEF U

-----------------------------------------------------------------------------
(* Aggregation: what a step is to the client it is about.                  *)

\* After a flush, everything of s for c is in the queues.
LEMMA FlushOwn ==
    ASSUME Types, NEW s \in Sums, NEW c \in Clients, FirstFlush(s, c), ClientInv(c)
    PROVE  ClientInv(c)'
<1>1. /\ UNCHANGED << route, fruitItems, eofCount, partialTops, topHeap, received, results >>
      /\ flushes[s][c] = 0
      /\ flushes' = [flushes EXCEPT ![s][c] = 1]
      /\ InputsType'
      /\ \A t \in Sums \ {s} : share'[t][c] = share[t][c]
      /\ inbox' = Delivered(inbox, s, Outgoing(c, share'[s][c], route))
  BY DEF FirstFlush
<1>2. IsShare(share) /\ IsDigest(share'[s][c])
  BY <1>1, InputsAre, NextShare DEF Types
<1> DEFINE msgs == Outgoing(c, share'[s][c], route)
<1>3. /\ flushes'[s][c] = 1
      /\ \A t \in Sums \ {s} : flushes'[t][c] = flushes[t][c]
  BY <1>1 DEF Types
<1>4. ASSUME NEW a \in Aggregators
      PROVE  /\ \A t \in Sums \ {s} : inbox'[a][t] = inbox[a][t]
             /\ inbox'[a][s] = inbox[a][s] \o InLine(msgs, a, "data") \o InLine(msgs, a, "eof")
  <2>1. OwnChanged(s, msgs)
    BY <1>1, <1>2, DigestDelivered DEF Types
  <2> QED BY <2>1 DEF OwnChanged
<1>5. ASSUME NEW a \in Aggregators
      PROVE  /\ Ends(inbox'[a][s], c) /\ InOrder(inbox'[a][s], c, Part(a, s, c)')
             /\ \A f : Waits(inbox'[a][s], c, f) <=> f \in DOMAIN Part(a, s, c)'
  <2>1. inbox[a][s] \in Seq(AggMessages)
    BY DEF Types, InboxType
  <2>2. ~About(inbox[a][s], c)
    BY <1>1 DEF ClientInv, QueueInv
  <2> DEFINE d == share'[s][c]
             r == inbox'[a][s]
             p == Part(a, s, c)'
  <2>3. p = PartOf(c, d, route, a)
    BY <1>1 DEF Part, PartOf
  <2>4. r = AfterIt(inbox[a][s], c, d, route, a)
    BY <1>4 DEF AfterIt
  <2>5. IsDigest(d)
    BY <1>2
  <2> HIDE DEF d, r, p
  <2>6. /\ Ends(r, c) /\ InOrder(r, c, p)
        /\ \A f : Waits(r, c, f) <=> f \in DOMAIN p
    BY <2>1, <2>2, <2>3, <2>4, <2>5, DeliveredOwn
  <2> QED BY <2>6 DEF r, p
<1> HIDE DEF msgs
<1>6. ASSUME NEW t \in Sums \ {s}
      PROVE  /\ \A a : Part(a, t, c)' = Part(a, t, c)
             /\ \A f : Amounted(c, f)'[t] = Amounted(c, f)[t]
  BY <1>1 DEF Part, Amounted
<1>7. ASSUME NEW a \in Aggregators
      PROVE  /\ Ended(a, c)' = Ended(a, c) /\ Ended(a, c) # Sums
             /\ TopsIn(partialTops[a], c) = {}
  <2>1. s \notin Ended(a, c) /\ s \notin Ended(a, c)'
    BY <1>1, <1>5 DEF Ended
  <2>2. \A t \in Sums \ {s} : t \in Ended(a, c)' <=> t \in Ended(a, c)
    BY <1>3, <1>4 DEF Ended
  <2> QED BY <2>1, <2>2 DEF Ended, ClientInv, TopsInv
<1>8. ASSUME NEW a \in Aggregators, NEW f
      PROVE  Given(a, c, f)' = Given(a, c, f) /\ s \notin Given(a, c, f)
  <2>1. s \notin Given(a, c, f) /\ s \notin Given(a, c, f)'
    BY <1>1, <1>5 DEF Given
  <2>2. \A t \in Sums \ {s} : t \in Given(a, c, f)' <=> t \in Given(a, c, f)
    BY <1>3, <1>4, <1>6 DEF Given
  <2> QED BY <2>1, <2>2 DEF Given
<1>9. Taken(c) = {} /\ Taken(c)' = {} /\ {} # Aggregators
  BY <1>7, AggregatorsAssumption DEF Taken
<1>10. ASSUME NEW a \in Aggregators PROVE QueueInv(a, c)'
  <2>1. ASSUME NEW t \in Sums
        PROVE  /\ InOrder(inbox'[a][t], c, Part(a, t, c)')
               /\ flushes'[t][c] = 0 => ~About(inbox'[a][t], c)
    <3>1. CASE t = s
      BY <1>3, <1>5, <3>1
    <3>2. CASE t # s
      BY <1>3, <1>4, <1>6, <3>2 DEF ClientInv, QueueInv
    <3> QED BY <3>1, <3>2
  <2> QED BY <2>1 DEF QueueInv
<1>11. ASSUME NEW a \in Aggregators PROVE CountInv(a, c)'
  BY <1>1, <1>7 DEF ClientInv, CountInv
<1>12. ASSUME NEW a \in Aggregators PROVE ItemsInv(a, c)'
  <2>1. GivenFruits(a, c)' = GivenFruits(a, c)
    BY <1>8 DEF GivenFruits
  <2>2. ASSUME NEW f PROVE SumOver(Amounted(c, f)', Given(a, c, f)) = SumOver(Amounted(c, f), Given(a, c, f))
    <3>1. Given(a, c, f) \subseteq Bearers(c, f)
      BY DEF Given, Bearers, Part
    <3>2. IsFiniteSet(Bearers(c, f)) /\ \A t \in Bearers(c, f) : Amounted(c, f)[t] \in Nat
      BY <1>2, AmountsAreNumbers
    <3>3. IsFiniteSet(Given(a, c, f))
      BY <3>1, <3>2, FS_Subset
    <3>4. \A t \in Given(a, c, f) : Amounted(c, f)[t] \in Nat /\ Amounted(c, f)'[t] = Amounted(c, f)[t]
      BY <1>6, <1>8, <3>1, <3>2 DEF Given
    <3> QED BY <3>3, <3>4, SumOverSame
  <2>3. fruitItems[a][c] = [f \in GivenFruits(a, c) |-> SumOver(Amounted(c, f), Given(a, c, f))]
    BY <1>7 DEF ClientInv, ItemsInv
  <2>4. fruitItems'[a][c] = [f \in GivenFruits(a, c)' |-> SumOver(Amounted(c, f)', Given(a, c, f)')]
    BY <1>1, <1>8, <2>1, <2>2, <2>3
  <2> QED BY <1>7, <2>4 DEF ItemsInv
<1>13. ASSUME NEW a \in Aggregators PROVE TopsInv(a, c)'
  BY <1>1, <1>7 DEF ClientInv, TopsInv
<1>14. JoinInv(c)'
  <2>1. received[c] = Cardinality({}) /\ TopsIn(results, c) = {} /\ AtMostOne(results, c)
    BY <1>9 DEF ClientInv, JoinInv
  <2>2. \A p : Parted(TotFor(c, {}), p) = {} /\ Parted(TotFor(c, {})', p) = {}
    BY DEF Parted, TotFor
  <2>3. IsTop(topHeap[c], {})
    BY <1>9, <2>2 DEF ClientInv, JoinInv
  <2>4. [x \in Tot(c)' |-> 0] \in [Tot(c)' -> Nat]
    OBVIOUS
  <2>5. \E p \in [Tot(c)' -> Nat] : IsTop(topHeap[c], Parted(TotFor(c, {})', p))
    BY <2>2, <2>3, <2>4
  <2> QED BY <1>1, <1>9, <2>1, <2>5 DEF JoinInv
<1> QED BY <1>10, <1>11, <1>12, <1>13, <1>14 DEF ClientInv

\* Once a's queues are through, its items are the totals.
LEMMA ProcessDataOwn ==
    ASSUME Types, Still, NEW a \in Aggregators, NEW s \in Sums, A!ProcessData(a, s),
           NEW c \in Clients, c = Head(inbox[a][s]).client, ClientInv(c)
    PROVE  ClientInv(c)'
<1>0. PICK m, q, d : m = Head(inbox[a][s]) /\ q = inbox[a][s] /\ d = Part(a, s, c)
  OBVIOUS
<1>1. /\ A!Take(a, s) /\ m.type = "data"
      /\ fruitItems' = [fruitItems EXCEPT ![a][c] = A!AddTo(@, m.fruit, m.amount)]
      /\ UNCHANGED << eofCount, partialTops >>
  BY <1>0 DEF A!ProcessData
<1>2. UNCHANGED << share, route, flushes, topHeap, received, results >>
  BY DEF Still, flushVars
<1>3. m \in AggMessages /\ q # << >> /\ q \in Seq(AggMessages) /\ inbox'[a][s] = Tail(q)
      /\ OnlyQueue(a, s)
  BY <1>0, <1>1, MessageTaken DEF Types
<1>4. IsShare(share) /\ IsRoute(route)
  BY InputsAre DEF Types
<1>5. IsData(m, c) /\ InOrder(q, c, d) /\ m = Head(q)
  BY <1>0, <1>1 DEF IsData, ClientInv, QueueInv
<1>6. /\ InOrder(Tail(q), c, d)
      /\ Ends(q, c) /\ Ends(Tail(q), c) /\ About(q, c)
      /\ m.fruit \in DOMAIN d /\ m.amount = d[m.fruit]
      /\ Waits(q, c, m.fruit)
      /\ \A f : Waits(Tail(q), c, f) <=> Waits(q, c, f) /\ f # m.fruit
  <2>1. IsData(Head(q), c) /\ q \in Seq(AggMessages) /\ q # << >> /\ InOrder(q, c, d)
    BY <1>3, <1>5
  <2>2. AfterData(q, c, d, Head(q))
    BY <2>1, OwnDataTaken
  <2> QED BY <1>5, <2>2 DEF AfterData
<1>7. flushes[s][c] = 1
  <2>1. flushes[s][c] # 0
    BY <1>0, <1>6 DEF ClientInv, QueueInv
  <2> QED BY <2>1 DEF Types
<1>8. \A b \in Aggregators, t \in Sums : b # a \/ t # s => inbox'[b][t] = inbox[b][t]
  BY <1>0, <1>3 DEF OnlyQueue
<1>9. /\ Tot(c)' = Tot(c) /\ Exact(c)' = Exact(c)
      /\ \A Y : TotFor(c, Y)' = TotFor(c, Y)
      /\ \A f : Amounted(c, f)' = Amounted(c, f)
      /\ \A b : \A t \in Sums : Part(b, t, c)' = Part(b, t, c)
  BY <1>2, SameTot
<1>10. ASSUME NEW b \in Aggregators PROVE Ended(b, c)' = Ended(b, c)
  <2>1. ASSUME NEW t \in Sums PROVE Ends(inbox'[b][t], c) <=> Ends(inbox[b][t], c)
    <3>1. CASE b = a /\ t = s
      BY <1>0, <1>3, <1>6, <3>1
    <3>2. CASE b # a \/ t # s
      BY <1>8, <3>2
    <3> QED BY <3>1, <3>2
  <2> QED BY <1>2, <2>1 DEF Ended
<1>11. ASSUME NEW b \in Aggregators, NEW f, b # a \/ f # m.fruit PROVE Given(b, c, f)' = Given(b, c, f)
  <2>1. ASSUME NEW t \in Sums PROVE Waits(inbox'[b][t], c, f) <=> Waits(inbox[b][t], c, f)
    <3>1. CASE b = a /\ t = s
      BY <1>0, <1>3, <1>6, <1>11, <3>1
    <3>2. CASE b # a \/ t # s
      BY <1>8, <3>2
    <3> QED BY <3>1, <3>2
  <2> QED BY <1>2, <1>9, <2>1 DEF Given
<1>12. /\ Given(a, c, m.fruit)' = Given(a, c, m.fruit) \cup {s}
       /\ s \notin Given(a, c, m.fruit)
  <2>1. s \notin Given(a, c, m.fruit)
    BY <1>0, <1>6 DEF Given
  <2>2. s \in Given(a, c, m.fruit)'
    BY <1>0, <1>2, <1>3, <1>6, <1>7, <1>9 DEF Given
  <2>3. \A t \in Sums \ {s} : t \in Given(a, c, m.fruit)' <=> t \in Given(a, c, m.fruit)
    BY <1>2, <1>8, <1>9 DEF Given
  <2> QED BY <2>1, <2>2, <2>3 DEF Given
<1>13. s \notin Ended(a, c) /\ Ended(a, c) # Sums
  BY <1>0, <1>6 DEF Ended
<1>14. Taken(c)' = Taken(c)
  BY <1>0, <1>1, <1>10 DEF Taken
<1>15. ASSUME NEW b \in Aggregators PROVE QueueInv(b, c)'
  <2>1. ASSUME NEW t \in Sums
        PROVE  /\ InOrder(inbox'[b][t], c, Part(b, t, c))
               /\ flushes'[t][c] = 0 => ~About(inbox'[b][t], c)
    <3>1. CASE b = a /\ t = s
      <4>1. Part(b, t, c) = Part(a, s, c) /\ inbox'[b][t] = inbox'[a][s] /\ flushes'[t][c] = 1
        BY <1>2, <1>7, <3>1
      <4>2. InOrder(inbox'[a][s], c, Part(a, s, c))
        BY <1>0, <1>3, <1>6
      <4> QED BY <4>1, <4>2
    <3>2. CASE b # a \/ t # s
      BY <1>2, <1>8, <3>2 DEF ClientInv, QueueInv
    <3> QED BY <3>1, <3>2
  <2> QED BY <1>9, <2>1 DEF QueueInv
<1>16. ASSUME NEW b \in Aggregators PROVE CountInv(b, c)'
  BY <1>0, <1>1, <1>10 DEF ClientInv, CountInv
<1>17. ASSUME NEW b \in Aggregators \ {a} PROVE ItemsInv(b, c)'
  <2>1. GivenFruits(b, c)' = GivenFruits(b, c) /\ \A f : Given(b, c, f)' = Given(b, c, f)
    BY <1>11 DEF GivenFruits
  <2>2. A!NoItems' = A!NoItems
    BY DEF A!NoItems
  <2>3. fruitItems'[b][c] = fruitItems[b][c]
    BY <1>0, <1>1 DEF Types
  <2>4. b \in Aggregators /\ ItemsInv(b, c) /\ Ended(b, c)' = Ended(b, c)
    BY <1>10 DEF ClientInv
  <2> QED BY <1>9, <2>1, <2>2, <2>3, <2>4 DEF ItemsInv
<1>18. ItemsInv(a, c)'
  <2> DEFINE g == Amounted(c, m.fruit)
             G == Given(a, c, m.fruit)
             items == fruitItems[a][c]
  <2>1. m.fruit \in Fruits
    BY <1>0, <1>4, <1>6, PartAt
  <2>2. GivenFruits(a, c)' = GivenFruits(a, c) \cup {m.fruit}
    <3>1. \A f \in Fruits \ {m.fruit} : f \in GivenFruits(a, c)' <=> f \in GivenFruits(a, c)
      BY <1>11 DEF GivenFruits
    <3>2. m.fruit \in GivenFruits(a, c)'
      BY <1>12, <2>1 DEF GivenFruits
    <3> QED BY <3>1, <3>2 DEF GivenFruits
  <2>3. items = [f \in GivenFruits(a, c) |-> SumOver(Amounted(c, f), Given(a, c, f))]
    BY <1>13 DEF ClientInv, ItemsInv
  <2>4. /\ IsFiniteSet(G)
        /\ \A t \in G \cup {s} : g[t] \in Nat
        /\ g[s] = m.amount
    <3>1. G \cup {s} \subseteq Sums
      BY DEF Given
    <3>2. IsFiniteSet(G)
      BY <3>1, FS_Subset, PipelineAssumption
    <3>3. ASSUME NEW t \in G \cup {s} PROVE g[t] = Part(a, t, c)[m.fruit] /\ g[t] \in Nat
      <4>1. t \in Sums /\ m.fruit \in DOMAIN Part(a, t, c)
        BY <1>0, <1>6 DEF Given
      <4>2. g[t] = share[t][c][m.fruit]
        BY <4>1 DEF Amounted
      <4> QED BY <1>4, <4>1, <4>2 DEF Part, IsShare, IsDigest
    <3>4. s \in G \cup {s}
      OBVIOUS
    <3> HIDE DEF g, G
    <3> QED BY <1>0, <1>6, <3>2, <3>3, <3>4
  <2>5. SumOver(g, G \cup {s}) = SumOver(g, G) + m.amount
    <3> HIDE DEF g, G
    <3>1. s \notin G
      BY <1>12 DEF G
    <3>2. SumOver(g, G \cup {s}) = SumOver(g, G) + g[s]
      BY <2>4, <3>1, SumOverAdd
    <3> QED BY <2>4, <3>2
  <2>6. A!AmountIn(items, m.fruit) = SumOver(g, G)
    <3>1. CASE m.fruit \in GivenFruits(a, c)
      BY <2>3, <3>1 DEF A!AmountIn
    <3>2. CASE m.fruit \notin GivenFruits(a, c)
      <4>1. G = {}
        BY <2>1, <3>2 DEF GivenFruits
      <4>2. SumOver(g, G) = 0
        BY <2>4, <4>1, SumOverStep
      <4> QED BY <2>3, <3>2, <4>2 DEF A!AmountIn
    <3> QED BY <3>1, <3>2
  <2>7. A!AddTo(items, m.fruit, m.amount)
        = [f \in GivenFruits(a, c) \cup {m.fruit} |->
              IF f = m.fruit THEN SumOver(g, G \cup {s}) ELSE SumOver(Amounted(c, f), Given(a, c, f))]
    <3>1. DOMAIN items = GivenFruits(a, c)
      BY <2>3
    <3>2. \A f \in GivenFruits(a, c) : items[f] = SumOver(Amounted(c, f), Given(a, c, f))
      BY <2>3
    <3> HIDE DEF items, g, G
    <3> QED BY <2>5, <2>6, <3>1, <3>2 DEF A!AddTo
  <2>8. \A f \in GivenFruits(a, c) \cup {m.fruit} :
           (IF f = m.fruit THEN SumOver(g, G \cup {s}) ELSE SumOver(Amounted(c, f), Given(a, c, f)))
           = SumOver(Amounted(c, f)', Given(a, c, f)')
    BY <1>9, <1>11, <1>12
  <2>9. fruitItems'[a][c] = A!AddTo(items, m.fruit, m.amount)
    BY <1>0, <1>1 DEF Types
  <2>10. fruitItems'[a][c] = [f \in GivenFruits(a, c)' |-> SumOver(Amounted(c, f)', Given(a, c, f)')]
    <3> HIDE DEF items, g, G
    <3> QED BY <2>2, <2>7, <2>8, <2>9
  <2>11. Ended(a, c)' # Sums
    BY <1>10, <1>13
  <2> QED BY <2>10, <2>11 DEF ItemsInv
<1>19. ASSUME NEW b \in Aggregators PROVE TopsInv(b, c)'
  BY <1>0, <1>1, <1>9, <1>10 DEF ClientInv, TopsInv
<1>20. JoinInv(c)'
  BY <1>2, <1>9, <1>14 DEF ClientInv, JoinInv
<1>21. ASSUME NEW b \in Aggregators PROVE ItemsInv(b, c)'
  BY <1>17, <1>18
<1> QED BY <1>15, <1>16, <1>19, <1>20, <1>21 DEF ClientInv

\* s's EOF of c is taken from a's queue.
EofTaken(a, s, c) ==
    /\ s \notin Ended(a, c) /\ s \in Sums
    /\ Ended(a, c)' = Ended(a, c) \cup {s}
    /\ \A b \in Aggregators \ {a} : Ended(b, c)' = Ended(b, c)
    /\ \A b \in Aggregators : \A f : Given(b, c, f)' = Given(b, c, f)
    /\ \A b \in Aggregators : QueueInv(b, c)'
    /\ flushes[s][c] = 1 /\ \A f : ~Waits(inbox[a][s], c, f)

\* EofTaken is what taking it does.
LEMMA EofTakenOwn ==
    ASSUME Types, Still, NEW a \in Aggregators, NEW s \in Sums, A!Take(a, s),
           NEW c \in Clients, c = Head(inbox[a][s]).client, Head(inbox[a][s]).type = "eof",
           ClientInv(c)
    PROVE  EofTaken(a, s, c)
<1>0. PICK m, q, d : m = Head(inbox[a][s]) /\ q = inbox[a][s] /\ d = Part(a, s, c)
  OBVIOUS
<1>2. UNCHANGED << share, route, flushes >>
  BY DEF Still, flushVars
<1>3. m \in AggMessages /\ q # << >> /\ q \in Seq(AggMessages) /\ inbox'[a][s] = Tail(q)
      /\ OnlyQueue(a, s)
  BY <1>0, MessageTaken DEF Types
<1>5. IsEof(Head(q), c) /\ InOrder(q, c, d)
  BY <1>0 DEF IsEof, ClientInv, QueueInv
<1>6. ~About(Tail(q), c) /\ Ends(q, c) /\ \A f : ~Waits(q, c, f)
  BY <1>3, <1>5, OwnEofTaken
<1>61. \A f : ~Waits(Tail(q), c, f)
  BY <1>6, NothingAbout
<1>62. ~Ends(Tail(q), c)
  BY <1>6, NothingAbout
<1>63. About(q, c)
  BY <1>6 DEF Ends, About, IsEof
<1>7. flushes[s][c] = 1
  <2>1. flushes[s][c] # 0
    BY <1>0, <1>63 DEF ClientInv, QueueInv
  <2> QED BY <2>1 DEF Types
<1>8. \A b \in Aggregators, t \in Sums : b # a \/ t # s => inbox'[b][t] = inbox[b][t]
  BY <1>3 DEF OnlyQueue
<1>9. \A b : \A t \in Sums : Part(b, t, c)' = Part(b, t, c)
  BY <1>2, SameTot
<1>10. s \notin Ended(a, c) /\ Ended(a, c)' = Ended(a, c) \cup {s}
  <2>1. s \notin Ended(a, c) /\ s \in Ended(a, c)'
    BY <1>0, <1>2, <1>3, <1>6, <1>62, <1>7 DEF Ended
  <2>2. \A t \in Sums \ {s} : t \in Ended(a, c)' <=> t \in Ended(a, c)
    BY <1>2, <1>8 DEF Ended
  <2> QED BY <2>1, <2>2 DEF Ended
<1>11. \A b \in Aggregators \ {a} : Ended(b, c)' = Ended(b, c)
  BY <1>2, <1>8 DEF Ended
<1>12. ASSUME NEW b \in Aggregators, NEW f PROVE Given(b, c, f)' = Given(b, c, f)
  <2>1. ASSUME NEW t \in Sums PROVE Waits(inbox'[b][t], c, f) <=> Waits(inbox[b][t], c, f)
    <3>1. CASE b = a /\ t = s
      BY <1>0, <1>3, <1>6, <1>61, <3>1
    <3>2. CASE b # a \/ t # s
      BY <1>8, <3>2
    <3> QED BY <3>1, <3>2
  <2> QED BY <1>2, <1>9, <2>1 DEF Given
<1>13. ASSUME NEW b \in Aggregators PROVE QueueInv(b, c)'
  <2>1. ASSUME NEW t \in Sums
        PROVE  /\ InOrder(inbox'[b][t], c, Part(b, t, c))
               /\ flushes'[t][c] = 0 => ~About(inbox'[b][t], c)
    <3>1. CASE b = a /\ t = s
      <4>1. InOrder(Tail(q), c, Part(a, s, c))
        BY <1>6, NothingAbout
      <4> QED BY <1>3, <1>6, <3>1, <4>1
    <3>2. CASE b # a \/ t # s
      BY <1>2, <1>8, <3>2 DEF ClientInv, QueueInv
    <3> QED BY <3>1, <3>2
  <2> QED BY <1>9, <2>1 DEF QueueInv
<1>14. \A f : ~Waits(inbox[a][s], c, f)
  BY <1>0, <1>6
<1> QED BY <1>7, <1>10, <1>11, <1>12, <1>13, <1>14 DEF EofTaken

\* An EOF is counted; others are still to come.
LEMMA CountEofOwn ==
    ASSUME Types, Still, NEW a \in Aggregators, NEW s \in Sums, A!CountEof(a, s),
           NEW c \in Clients, c = Head(inbox[a][s]).client, ClientInv(c)
    PROVE  ClientInv(c)'
<1>1. /\ A!Take(a, s) /\ Head(inbox[a][s]).type = "eof"
      /\ ~A!ShouldCalculateTop(a, c)
      /\ eofCount' = [eofCount EXCEPT ![a][c] = @ + 1]
      /\ UNCHANGED << fruitItems, partialTops >>
  BY DEF A!CountEof
<1>2. UNCHANGED << share, route, topHeap, received, results >>
  BY DEF Still, flushVars
<1>3. EofTaken(a, s, c)
  BY <1>1, EofTakenOwn
<1>4. /\ Tot(c)' = Tot(c) /\ Exact(c)' = Exact(c)
      /\ \A Y : TotFor(c, Y)' = TotFor(c, Y)
      /\ \A f : Amounted(c, f)' = Amounted(c, f)
  BY <1>2, SameTot
<1>5. Ended(a, c) \in SUBSET Sums /\ s \in Sums \ Ended(a, c)
  BY <1>3 DEF EofTaken, Ended
<1>6. Ended(a, c) # Sums
  BY <1>5
<1>7. eofCount[a][c] = Cardinality(Ended(a, c))
  BY <1>6 DEF ClientInv, CountInv
<1>8. ~(Cardinality(Ended(a, c)) + 1 >= Cardinality(Sums))
  BY <1>1, <1>7, SameCardinality DEF A!ShouldCalculateTop
<1>9. Ended(a, c)' # Sums /\ Cardinality(Ended(a, c)') = Cardinality(Ended(a, c)) + 1
  <2>1. Ended(a, c) \cup {s} # Sums
        /\ Cardinality(Ended(a, c) \cup {s}) = Cardinality(Ended(a, c)) + 1
    BY <1>5, <1>8, SumsMissing, PipelineAssumption
  <2> QED BY <1>3, <2>1 DEF EofTaken
<1>10. \A b \in Aggregators : Ended(b, c)' = Sums <=> Ended(b, c) = Sums
  BY <1>3, <1>6, <1>9 DEF EofTaken
<1>11. Taken(c)' = Taken(c)
  BY <1>1, <1>10 DEF Taken
<1>12. \A b \in Aggregators : QueueInv(b, c)'
  BY <1>3 DEF EofTaken
<1>13. ASSUME NEW b \in Aggregators PROVE CountInv(b, c)'
  <2>1. CASE b = a
    <3>1. eofCount'[a][c] = eofCount[a][c] + 1
      BY <1>1 DEF Types
    <3> QED BY <1>7, <1>9, <2>1, <3>1 DEF CountInv
  <2>2. CASE b # a
    <3>1. eofCount'[b][c] = eofCount[b][c] /\ Ended(b, c)' = Ended(b, c)
      BY <1>1, <1>3, <2>2 DEF Types, EofTaken
    <3> QED BY <3>1 DEF ClientInv, CountInv
  <2> QED BY <2>1, <2>2
<1>14. ASSUME NEW b \in Aggregators PROVE ItemsInv(b, c)'
  <2>1. \A f : Given(b, c, f)' = Given(b, c, f)
    BY <1>3 DEF EofTaken
  <2>2. GivenFruits(b, c)' = GivenFruits(b, c)
    BY <2>1 DEF GivenFruits
  <2>3. A!NoItems' = A!NoItems
    BY DEF A!NoItems
  <2>4. ItemsInv(b, c) /\ fruitItems'[b][c] = fruitItems[b][c] /\ (Ended(b, c)' = Sums <=> Ended(b, c) = Sums)
    BY <1>1, <1>10 DEF ClientInv
  <2> QED BY <1>4, <2>1, <2>2, <2>3, <2>4 DEF ItemsInv
<1>15. ASSUME NEW b \in Aggregators PROVE TopsInv(b, c)'
  BY <1>1, <1>4, <1>10 DEF ClientInv, TopsInv
<1>16. JoinInv(c)'
  BY <1>2, <1>4, <1>11 DEF ClientInv, JoinInv
<1> QED BY <1>12, <1>13, <1>14, <1>15, <1>16 DEF ClientInv

\* With all EOFs in, a worker has been given what the Sums have for it.
LEMMA AllGiven ==
    ASSUME Types, NEW a \in Aggregators, NEW s \in Sums, NEW c \in Clients, ClientInv(c),
           EofTaken(a, s, c), Ended(a, c) \cup {s} = Sums
    PROVE  {Item(f, SumOver(Amounted(c, f), Given(a, c, f)), 0) : f \in GivenFruits(a, c)}
           = TotFor(c, {a})
<1>1. IsShare(share) /\ IsRoute(route)
  BY InputsAre DEF Types
<1>2. ASSUME NEW t \in Sums, NEW f PROVE flushes[t][c] = 1 /\ ~Waits(inbox[a][t], c, f)
  <2>1. CASE t = s
    BY <2>1 DEF EofTaken
  <2>2. CASE t # s
    <3>1. t \in Ended(a, c)
      BY <2>2
    <3>2. flushes[t][c] = 1 /\ ~Ends(inbox[a][t], c) /\ InOrder(inbox[a][t], c, Part(a, t, c))
      BY <3>1 DEF Ended, ClientInv, QueueInv
    <3>3. ~About(inbox[a][t], c)
      BY <3>2 DEF InOrder, About
    <3> QED BY <3>2, <3>3, NothingAbout
  <2> QED BY <2>1, <2>2
<1>3. ASSUME NEW f PROVE Given(a, c, f) = {t \in Sums : f \in DOMAIN Part(a, t, c)}
  BY <1>2 DEF Given
<1>4. ASSUME NEW f
      PROVE  Given(a, c, f) = IF route[<< c, f >>] = a THEN Bearers(c, f) ELSE {}
  BY <1>3 DEF Bearers, Part
<1>5. GivenFruits(a, c) = {f \in FruitsOf(c) : route[<< c, f >>] = a}
  BY <1>4 DEF GivenFruits, FruitsOf
<1>6. \A f, n : Item(f, n, 0).fruit = f
  BY DEF Item
<1> DEFINE n(f) == SumOver(Amounted(c, f), Bearers(c, f))
<1>7. TotFor(c, {a}) = {x \in {Item(f, n(f), 0) : f \in FruitsOf(c)} : route[<< c, x.fruit >>] = a}
  BY DEF TotFor, Tot
<1>8. \A f \in GivenFruits(a, c) : SumOver(Amounted(c, f), Given(a, c, f)) = n(f)
  BY <1>4, <1>5
<1> HIDE DEF n
<1>9. TotFor(c, {a}) = {Item(f, n(f), 0) : f \in GivenFruits(a, c)}
  <2>1. ASSUME NEW x \in TotFor(c, {a})
        PROVE  x \in {Item(f, n(f), 0) : f \in GivenFruits(a, c)}
    <3>1. PICK f \in FruitsOf(c) : x = Item(f, n(f), 0)
      BY <1>7
    <3>2. route[<< c, f >>] = a
      BY <1>6, <1>7, <3>1
    <3> QED BY <1>5, <3>1, <3>2
  <2>2. ASSUME NEW f \in GivenFruits(a, c) PROVE Item(f, n(f), 0) \in TotFor(c, {a})
    BY <1>5, <1>6, <1>7
  <2> QED BY <2>1, <2>2
<1> QED BY <1>8, <1>9

\* The last EOF: the partial top is one of the part of the totals.
LEMMA SendPartialTopOwn ==
    ASSUME Types, Still, NEW a \in Aggregators, NEW s \in Sums, A!SendPartialTop(a, s),
           NEW c \in Clients, c = Head(inbox[a][s]).client, ClientInv(c)
    PROVE  ClientInv(c)'
<1>1. /\ A!Take(a, s) /\ Head(inbox[a][s]).type = "eof"
      /\ A!ShouldCalculateTop(a, c) /\ A!Publish(a, c)
      /\ fruitItems' = [fruitItems EXCEPT ![a][c] = A!NoItems]
      /\ eofCount' = [eofCount EXCEPT ![a][c] = 0]
  BY DEF A!SendPartialTop, A!LastEof
<1>2. UNCHANGED << share, route, topHeap, received, results >>
  BY DEF Still, flushVars
<1>3. EofTaken(a, s, c)
  BY <1>1, EofTakenOwn
<1>4. /\ Tot(c)' = Tot(c) /\ Exact(c)' = Exact(c)
      /\ \A Y : TotFor(c, Y)' = TotFor(c, Y)
      /\ \A f : Amounted(c, f)' = Amounted(c, f)
  BY <1>2, SameTot
<1>5. Ended(a, c) \in SUBSET Sums /\ s \in Sums \ Ended(a, c)
  BY <1>3 DEF EofTaken, Ended
<1>6. Ended(a, c) # Sums
  BY <1>5
<1>7. eofCount[a][c] = Cardinality(Ended(a, c))
  BY <1>6 DEF ClientInv, CountInv
<1>8. Cardinality(Ended(a, c)) + 1 >= Cardinality(Sums)
  BY <1>1, <1>7, SameCardinality DEF A!ShouldCalculateTop
<1>9. Ended(a, c) \cup {s} = Sums
  BY <1>5, <1>8, SumsMissing, PipelineAssumption
<1>10. Ended(a, c)' = Sums /\ \A b \in Aggregators \ {a} : Ended(b, c)' = Ended(b, c)
  BY <1>3, <1>9 DEF EofTaken
<1> DEFINE top == A!FindTopFruits(fruitItems[a][c])
<1>11. /\ partialTops'[a] = Append(partialTops[a], [client |-> c, top |-> top])
       /\ partialTops' \in [Aggregators -> Seq(Tops)]
       /\ \A b \in Aggregators \ {a} : partialTops'[b] = partialTops[b]
  BY <1>1, TopPublished
<1>12. top \in Heaps
  <2>1. fruitItems[a][c] \in Digests
    BY DEF Types
  <2> QED BY <2>1, FindTopFruitsType
<1>13. IsTop(top, TotFor(c, {a}))
  <2> DEFINE items == fruitItems[a][c]
  <2>1. items = [f \in GivenFruits(a, c) |-> SumOver(Amounted(c, f), Given(a, c, f))]
    BY <1>6 DEF ClientInv, ItemsInv
  <2>2. items \in Digests
    BY DEF Types
  <2>3. top = OfferAll({}, {Item(f, items[f], 0) : f \in DOMAIN items})
    BY <2>2, FindTopFruitsType
  <2>4. {Item(f, items[f], 0) : f \in DOMAIN items} = TotFor(c, {a})
    <3>1. {Item(f, items[f], 0) : f \in DOMAIN items}
          = {Item(f, SumOver(Amounted(c, f), Given(a, c, f)), 0) : f \in GivenFruits(a, c)}
      BY <2>1
    <3> QED BY <1>3, <1>9, <3>1, AllGiven
  <2>5. TotFor(c, {a}) \in SUBSET Items /\ IsFiniteSet(TotFor(c, {a}))
    <3>1. Tot(c) \in SUBSET Items /\ IsFiniteSet(Tot(c))
      BY InputsAre, TotType DEF Types
    <3>2. TotFor(c, {a}) \subseteq Tot(c)
      BY DEF TotFor
    <3> QED BY <3>1, <3>2, FS_Subset
  <2> QED BY <2>3, <2>4, <2>5, OfferAllIsTop
<1> HIDE DEF top
<1>14. TopsIn(partialTops[a], c) = {}
  BY <1>6 DEF ClientInv, TopsInv
<1>15. TopsIn(partialTops'[a], c) = {top} /\ AtMostOne(partialTops'[a], c)
  <2>1. [client |-> c, top |-> top] \in Tops
    BY <1>12 DEF Tops
  <2>2. partialTops[a] \in Seq(Tops)
    BY DEF Types
  <2>3. [client |-> c, top |-> top].client = c /\ [client |-> c, top |-> top].top = top
    OBVIOUS
  <2> DEFINE t == [client |-> c, top |-> top]
  <2> HIDE DEF t
  <2>7. t \in Tops /\ partialTops[a] \in Seq(Tops) /\ t.client = c
    BY <2>1, <2>2, <2>3 DEF t
  <2>4. TopsIn(Append(partialTops[a], t), c) = {t.top} /\ AtMostOne(Append(partialTops[a], t), c)
    BY <1>14, <2>7, OwnTopAppended, Zenon
  <2> QED BY <1>11, <2>3, <2>4 DEF t
<1>16. Taken(c)' = Taken(c)
  <2>1. a \notin Taken(c) /\ a \notin Taken(c)'
    BY <1>6, <1>15 DEF Taken
  <2>2. \A b \in Aggregators \ {a} : b \in Taken(c)' <=> b \in Taken(c)
    BY <1>10, <1>11 DEF Taken
  <2> QED BY <2>1, <2>2 DEF Taken
<1>17. \A b \in Aggregators : QueueInv(b, c)'
  BY <1>3 DEF EofTaken
<1>18. ASSUME NEW b \in Aggregators PROVE CountInv(b, c)'
  <2>1. CASE b = a
    BY <1>1, <1>10, <2>1 DEF CountInv, Types
  <2>2. CASE b # a
    <3>1. eofCount'[b][c] = eofCount[b][c] /\ Ended(b, c)' = Ended(b, c)
      BY <1>1, <1>10, <2>2 DEF Types
    <3> QED BY <3>1 DEF ClientInv, CountInv
  <2> QED BY <2>1, <2>2
<1>19. ASSUME NEW b \in Aggregators PROVE ItemsInv(b, c)'
  <2>1. \A f : Given(b, c, f)' = Given(b, c, f)
    BY <1>3 DEF EofTaken
  <2>2. GivenFruits(b, c)' = GivenFruits(b, c)
    BY <2>1 DEF GivenFruits
  <2>3. A!NoItems' = A!NoItems
    BY DEF A!NoItems
  <2>4. CASE b = a
    <3>1. fruitItems'[a][c] = A!NoItems
      BY <1>1 DEF Types
    <3> QED BY <1>10, <2>3, <2>4, <3>1 DEF ItemsInv
  <2>5. CASE b # a
    <3>1. ItemsInv(b, c) /\ fruitItems'[b][c] = fruitItems[b][c] /\ Ended(b, c)' = Ended(b, c)
      BY <1>1, <1>10, <2>5 DEF ClientInv, Types
    <3> QED BY <1>4, <2>1, <2>2, <2>3, <3>1 DEF ItemsInv
  <2> QED BY <2>4, <2>5
<1>20. ASSUME NEW b \in Aggregators PROVE TopsInv(b, c)'
  <2>1. CASE b = a
    BY <1>4, <1>10, <1>13, <1>15, <2>1 DEF TopsInv
  <2>2. CASE b # a
    <3>1. TopsInv(b, c) /\ partialTops'[b] = partialTops[b] /\ Ended(b, c)' = Ended(b, c)
      BY <1>10, <1>11, <2>2 DEF ClientInv
    <3> QED BY <1>4, <3>1 DEF TopsInv
  <2> QED BY <2>1, <2>2
<1>21. JoinInv(c)'
  BY <1>2, <1>4, <1>16 DEF ClientInv, JoinInv
<1> QED BY <1>17, <1>18, <1>19, <1>20, <1>21 DEF ClientInv

-----------------------------------------------------------------------------
(* Join: what a step is to the client it is about.                         *)

\* The totals of some workers are items of distinct fruits.
LEMMA TotForType ==
    ASSUME IsShare(share), NEW c \in Clients, NEW Y
    PROVE  /\ TotFor(c, Y) \in SUBSET Tot(c) /\ TotFor(c, Y) \in SUBSET Items
           /\ IsFiniteSet(TotFor(c, Y)) /\ DistinctFruits(TotFor(c, Y))
<1>1. Tot(c) \in SUBSET Items /\ IsFiniteSet(Tot(c)) /\ DistinctFruits(Tot(c))
  BY TotType
<1>2. TotFor(c, Y) \subseteq Tot(c)
  BY DEF TotFor
<1>3. IsFiniteSet(TotFor(c, Y))
  BY <1>1, <1>2, FS_Subset
<1>4. DistinctFruits(TotFor(c, Y))
  BY <1>1, <1>2 DEF DistinctFruits
<1> QED BY <1>1, <1>2, <1>3, <1>4

\* Another partial top in the heap, whose items come as part n.
LEMMA HeapAfterTop ==
    ASSUME IsShare(share), NEW c \in Clients, NEW Y, NEW a, a \notin Y,
           NEW p \in [Tot(c) -> Nat], NEW h, IsTop(h, Parted(TotFor(c, Y), p)),
           NEW x, IsTop(x, TotFor(c, {a})), NEW n \in Nat
    PROVE  \E r \in [Tot(c) -> Nat] :
              IsTop(OfferAll(h, NewItems(x, n)), Parted(TotFor(c, Y \cup {a}), r))
<1> DEFINE S == TotFor(c, Y)
           Q == TotFor(c, {a})
           U == TotFor(c, Y \cup {a})
           r == [z \in Tot(c) |-> IF z \in S THEN p[z] ELSE n]
<1>1. /\ S \in SUBSET Tot(c) /\ S \in SUBSET Items /\ IsFiniteSet(S) /\ DistinctFruits(S)
      /\ Q \in SUBSET Tot(c) /\ Q \in SUBSET Items /\ IsFiniteSet(Q) /\ DistinctFruits(Q)
  BY TotForType
<1>2. U = S \cup Q /\ S \cap Q = {} /\ \A y \in S, z \in Q : y.fruit # z.fruit
  BY DEF TotFor
<1>3. r \in [Tot(c) -> Nat] /\ (\A z \in S : r[z] = p[z]) /\ (\A z \in Q : r[z] = n)
  BY <1>1, <1>2
<1>4. x \subseteq Q
  BY DEF IsTop
<1> HIDE DEF S, Q, U, r
<1>5. /\ Parted(S, r) = Parted(S, p)
      /\ Parted(x, r) = NewItems(x, n)
      /\ Parted(U, r) = Parted(S, r) \cup Parted(Q, r)
  BY <1>2, <1>3, <1>4 DEF Parted, NewItems, InPart
<1>6. /\ \A z \in S : r[z] \in Nat
      /\ \A z \in Q : r[z] \in Nat
  BY <1>1, <1>3
<1>7. Parted(S, r) \in SUBSET Items /\ IsFiniteSet(Parted(S, r))
  BY <1>1, <1>6, PartedTop
<1>8. Parted(Q, r) \in SUBSET Items /\ IsFiniteSet(Parted(Q, r))
  BY <1>1, <1>6, PartedTop
<1>9. IsTop(Parted(x, r), Parted(Q, r))
  <2>1. IsTop(x, Q) /\ x \in SUBSET Q
    BY <1>4 DEF Q
  <2> QED BY <1>1, <1>6, <2>1, PartedTop
<1>10. Parted(x, r) \in SUBSET Items /\ IsFiniteSet(Parted(x, r))
  <2>1. Parted(x, r) \subseteq Parted(Q, r)
    BY <1>9 DEF IsTop
  <2> QED BY <1>8, <2>1, FS_Subset
<1>11. Parted(S, r) \cap Parted(x, r) = {}
  <2>1. ASSUME NEW y \in S, NEW z \in x, InPart(y, r[y]) = InPart(z, r[z]) PROVE FALSE
    <3>1. y \in Items /\ z \in Items /\ r[y] \in Nat /\ r[z] \in Nat /\ y.fruit # z.fruit
      BY <1>1, <1>2, <1>4, <1>6
    <3>2. InPart(y, r[y]).fruit = y.fruit /\ InPart(z, r[z]).fruit = z.fruit
      BY <3>1, InPartItem
    <3> QED BY <2>1, <3>1, <3>2
  <2> QED BY <2>1 DEF Parted
<1>12. IsTop(h, Parted(S, r))
  BY <1>5 DEF S
<1>13. IsTop(OfferAll(h, Parted(x, r)), Parted(S, r) \cup Parted(x, r))
  BY <1>7, <1>10, <1>11, <1>12, OfferAllKeepsTop
<1>14. IsTop(OfferAll(h, Parted(x, r)), Parted(S, r) \cup Parted(Q, r))
  BY <1>7, <1>8, <1>9, <1>13, TopOfPartialTop
<1>15. IsTop(OfferAll(h, NewItems(x, n)), Parted(U, r))
  BY <1>5, <1>14
<1> QED BY <1>3, <1>15 DEF U

\* The next partial top of c is taken from a.
TopTakenFrom(a, c) ==
    /\ a \in Aggregators \ Taken(c)
    /\ Taken(c)' = Taken(c) \cup {a}
    /\ \A b \in Aggregators : TopsInv(b, c)'
    /\ Taken(c) # Aggregators
    /\ received[c] = Cardinality(Taken(c))
    /\ \E p \in [Tot(c) -> Nat] :
          IsTop(J!UpdateClientTop(Head(partialTops[a])), Parted(TotFor(c, Taken(c) \cup {a}), p))
    /\ TopsIn(results, c) = {}
    /\ AtMostOne(results, c)

\* TopTakenFrom is what taking it does.
LEMMA TopTakenOwn ==
    ASSUME Types, JoinStill, NEW a \in Aggregators, J!Receive(a),
           NEW c \in Clients, c = Head(partialTops[a]).client, ClientInv(c)
    PROVE  TopTakenFrom(a, c)
<1>0. PICK m, q : m = Head(partialTops[a]) /\ q = partialTops[a]
  OBVIOUS
<1>1. UNCHANGED << share, route, flushes, inbox >>
  BY DEF JoinStill, flushVars
<1>2. /\ m \in Tops /\ m.top \in Heaps /\ q # << >> /\ q \in Seq(Tops)
      /\ partialTops'[a] = Tail(q)
      /\ \A b \in Aggregators \ {a} : partialTops'[b] = partialTops[b]
  BY <1>0, TopTaken
<1>3. AtMostOne(q, c) /\ m = Head(q) /\ m.client = c
  BY <1>0 DEF ClientInv, TopsInv
<1>4. m.top \in TopsIn(q, c) /\ TopsIn(Tail(q), c) = {} /\ AtMostOne(Tail(q), c)
  <2>1. q # << >> /\ q \in Seq(Tops) /\ AtMostOne(q, c) /\ Head(q).client = c
    BY <1>2, <1>3
  <2>2. Head(q).top \in TopsIn(q, c)
    BY <2>1, TopsAfterTail, Zenon
  <2>3. TopsIn(Tail(q), c) = {} /\ AtMostOne(Tail(q), c)
    BY <2>1, TopsAfterTail, Zenon
  <2> QED BY <1>3, <2>2, <2>3
<1>5. Ended(a, c) = Sums /\ IsTop(m.top, TotFor(c, {a}))
  BY <1>0, <1>4 DEF ClientInv, TopsInv
<1>6. a \in Aggregators \ Taken(c)
  BY <1>0, <1>4 DEF Taken
<1>7. \A b \in Aggregators : Ended(b, c)' = Ended(b, c)
  BY <1>1 DEF Ended
<1>8. Taken(c)' = Taken(c) \cup {a}
  <2>1. a \in Taken(c)'
    BY <1>2, <1>4, <1>5, <1>7 DEF Taken
  <2>2. \A b \in Aggregators \ {a} : b \in Taken(c)' <=> b \in Taken(c)
    BY <1>2, <1>7 DEF Taken
  <2> QED BY <2>1, <2>2 DEF Taken
<1>9. ASSUME NEW b \in Aggregators PROVE TopsInv(b, c)'
  <2>1. \A Y : TotFor(c, Y)' = TotFor(c, Y)
    BY <1>1, SameTot
  <2>2. CASE b = a
    BY <1>2, <1>4, <2>2 DEF TopsInv
  <2>3. CASE b # a
    <3>1. TopsInv(b, c) /\ partialTops'[b] = partialTops[b] /\ Ended(b, c)' = Ended(b, c)
      BY <1>2, <1>7, <2>3 DEF ClientInv
    <3> QED BY <2>1, <3>1 DEF TopsInv
  <2> QED BY <2>2, <2>3
<1>10. Taken(c) # Aggregators
  BY <1>6
<1>11. received[c] = Cardinality(Taken(c)) /\ TopsIn(results, c) = {}
       /\ AtMostOne(results, c)
  BY <1>10 DEF ClientInv, JoinInv
<1>12. PICK q0 \in [Tot(c) -> Nat] : IsTop(topHeap[c], Parted(TotFor(c, Taken(c)), q0))
  BY <1>10 DEF ClientInv, JoinInv
<1>13. \E r \in [Tot(c) -> Nat] :
          IsTop(OfferAll(topHeap[c], NewItems(m.top, received[c])), Parted(TotFor(c, Taken(c) \cup {a}), r))
  <2>1. IsShare(share) /\ received[c] \in Nat
    BY InputsAre DEF Types
  <2> QED BY <1>5, <1>6, <1>12, <2>1, HeapAfterTop
<1>14. J!UpdateClientTop(m) = OfferAll(topHeap[c], NewItems(m.top, received[c]))
  BY <1>2, <1>3, UpdateClientTopType DEF Types
<1>15. \E p \in [Tot(c) -> Nat] :
          IsTop(J!UpdateClientTop(Head(partialTops[a])), Parted(TotFor(c, Taken(c) \cup {a}), p))
  BY <1>0, <1>13, <1>14
<1> QED BY <1>6, <1>8, <1>9, <1>10, <1>11, <1>15 DEF TopTakenFrom

\* A partial top goes into the heap; others are still to come.
LEMMA KeepPartialTopOwn ==
    ASSUME Types, JoinStill, NEW a \in Aggregators, J!KeepPartialTop(a),
           NEW c \in Clients, c = Head(partialTops[a]).client, ClientInv(c)
    PROVE  ClientInv(c)'
<1>1. /\ J!Receive(a) /\ ~J!LastPartialTop(c)
      /\ topHeap' = [topHeap EXCEPT ![c] = J!UpdateClientTop(Head(partialTops[a]))]
      /\ received' = [received EXCEPT ![c] = @ + 1]
      /\ UNCHANGED results
  BY DEF J!KeepPartialTop
<1>2. UNCHANGED << share, route, flushes, inbox, fruitItems, eofCount >>
  BY DEF JoinStill, flushVars
<1>3. TopTakenFrom(a, c)
  BY <1>1, TopTakenOwn
<1>4. /\ Tot(c)' = Tot(c) /\ Exact(c)' = Exact(c)
      /\ \A Y : TotFor(c, Y)' = TotFor(c, Y)
      /\ \A f : Amounted(c, f)' = Amounted(c, f)
      /\ \A b : \A s \in Sums : Part(b, s, c)' = Part(b, s, c)
  BY <1>2, SameTot
<1>5. Taken(c) \in SUBSET Aggregators /\ a \in Aggregators \ Taken(c)
  BY <1>3 DEF TopTakenFrom, Taken
<1>6. received[c] = Cardinality(Taken(c))
  BY <1>3 DEF TopTakenFrom
<1>7. ~(Cardinality(Taken(c)) + 1 >= Cardinality(Aggregators))
  BY <1>1, <1>6, SameCardinality DEF J!LastPartialTop
<1>8. Taken(c) \cup {a} # Aggregators
      /\ Cardinality(Taken(c) \cup {a}) = Cardinality(Taken(c)) + 1
  BY <1>5, <1>7, SumsMissing, AggregatorsAssumption
<1>9. Taken(c)' = Taken(c) \cup {a}
  BY <1>3 DEF TopTakenFrom
<1>10. JoinInv(c)'
  <2>1. received'[c] = received[c] + 1
    BY <1>1 DEF Types
  <2>2. topHeap'[c] = J!UpdateClientTop(Head(partialTops[a]))
    BY <1>1 DEF Types
  <2>3. \E p \in [Tot(c) -> Nat] : IsTop(topHeap'[c], Parted(TotFor(c, Taken(c) \cup {a}), p))
    BY <1>3, <2>2 DEF TopTakenFrom
  <2>4. TopsIn(results', c) = {} /\ AtMostOne(results', c)
    BY <1>1, <1>3 DEF TopTakenFrom
  <2> QED BY <1>4, <1>6, <1>8, <1>9, <2>1, <2>3, <2>4 DEF JoinInv
<1>11. ASSUME NEW b \in Aggregators
       PROVE  /\ Ended(b, c)' = Ended(b, c)
              /\ \A f : Given(b, c, f)' = Given(b, c, f)
              /\ GivenFruits(b, c)' = GivenFruits(b, c)
  <2>1. Ended(b, c)' = Ended(b, c)
    BY <1>2 DEF Ended
  <2>2. \A f : Given(b, c, f)' = Given(b, c, f)
    BY <1>2, <1>4 DEF Given
  <2> QED BY <2>1, <2>2 DEF GivenFruits
<1>12. ASSUME NEW b \in Aggregators PROVE QueueInv(b, c)' /\ CountInv(b, c)' /\ ItemsInv(b, c)'
  <2>1. A!NoItems' = A!NoItems
    BY DEF A!NoItems
  <2>2. QueueInv(b, c)'
    BY <1>2, <1>4 DEF ClientInv, QueueInv
  <2>3. CountInv(b, c)'
    BY <1>2, <1>11 DEF ClientInv, CountInv
  <2>4. ItemsInv(b, c)'
    BY <1>2, <1>4, <1>11, <2>1 DEF ClientInv, ItemsInv
  <2> QED BY <2>2, <2>3, <2>4
<1> QED BY <1>3, <1>10, <1>12 DEF ClientInv, TopTakenFrom

\* The last partial top: the heap is a top of all totals.
LEMMA SendFinalResultsOwn ==
    ASSUME Types, JoinStill, NEW a \in Aggregators, J!SendFinalResults(a),
           NEW c \in Clients, c = Head(partialTops[a]).client, ClientInv(c)
    PROVE  ClientInv(c)'
<1>1. /\ J!Receive(a) /\ J!LastPartialTop(c)
      /\ J!Publish(Head(partialTops[a]))
      /\ topHeap' = [topHeap EXCEPT ![c] = {}]
      /\ received' = [received EXCEPT ![c] = 0]
  BY DEF J!SendFinalResults
<1>2. UNCHANGED << share, route, flushes, inbox, fruitItems, eofCount >>
  BY DEF JoinStill, flushVars
<1>3. TopTakenFrom(a, c)
  BY <1>1, TopTakenOwn
<1>4. /\ Tot(c)' = Tot(c) /\ Exact(c)' = Exact(c)
      /\ \A Y : TotFor(c, Y)' = TotFor(c, Y)
      /\ \A f : Amounted(c, f)' = Amounted(c, f)
      /\ \A b : \A s \in Sums : Part(b, s, c)' = Part(b, s, c)
  BY <1>2, SameTot
<1>5. Taken(c) \in SUBSET Aggregators /\ a \in Aggregators \ Taken(c)
  BY <1>3 DEF TopTakenFrom, Taken
<1>6. received[c] = Cardinality(Taken(c))
  BY <1>3 DEF TopTakenFrom
<1>7. Cardinality(Taken(c)) + 1 >= Cardinality(Aggregators)
  BY <1>1, <1>6, SameCardinality DEF J!LastPartialTop
<1>8. Taken(c) \cup {a} = Aggregators
  BY <1>5, <1>7, SumsMissing, AggregatorsAssumption
<1>9. Taken(c)' = Aggregators
  BY <1>3, <1>8 DEF TopTakenFrom
<1>10. IsShare(share) /\ IsRoute(route)
  BY InputsAre DEF Types
<1> DEFINE H == J!UpdateClientTop(Head(partialTops[a]))
<1>11. Ranked(H) = Exact(c)
  <2>1. TotFor(c, Aggregators) = Tot(c)
    <3>1. \A x \in Tot(c) : x.fruit \in Fruits
      BY <1>10, TotType DEF Items
    <3> QED BY <1>10, <3>1 DEF TotFor, IsRoute
  <2>2. PICK p \in [Tot(c) -> Nat] : IsTop(H, Parted(Tot(c), p))
    BY <1>3, <1>8, <2>1 DEF TopTakenFrom
  <2>3. Tot(c) \in SUBSET Items /\ IsFiniteSet(Tot(c)) /\ DistinctFruits(Tot(c))
    BY <1>10, TotType
  <2> HIDE DEF H
  <2>4. \A x \in Tot(c) : p[x] \in Nat
    OBVIOUS
  <2> QED BY <2>2, <2>3, <2>4, RankingOfTop DEF Exact
<1> DEFINE r == [client |-> c, top |-> J!Ranked(H)]
<1>12. Head(partialTops[a]) \in Tops
  BY <1>1, TopTaken
<1>13. \E M : results \in Seq(M) /\ r \in M
  BY <1>1, <1>12, ResultPublished
<1>14. results' = Append(results, r)
  BY <1>1, <1>12, ResultPublished
<1>15. r.client = c /\ r.top = Ranked(H)
  BY SameRankedJ
<1> HIDE DEF r, H
<1>16. TopsIn(results, c) = {}
  BY <1>3 DEF TopTakenFrom
<1>17. TopsIn(results', c) = {r.top} /\ AtMostOne(results', c)
  <2>1. PICK M : results \in Seq(M) /\ r \in M
    BY <1>13
  <2>2. r \in M /\ results \in Seq(M) /\ r.client = c
    BY <1>15, <2>1
  <2>3. TopsIn(Append(results, r), c) = {r.top} /\ AtMostOne(Append(results, r), c)
    BY <1>16, <2>2, OwnTopAppended, Zenon
  <2> QED BY <1>14, <2>3
<1>18. JoinInv(c)'
  <2>1. received'[c] = 0 /\ topHeap'[c] = {}
    BY <1>1 DEF Types
  <2>2. \A x \in TopsIn(results', c) : x = Exact(c)
    BY <1>11, <1>15, <1>17
  <2> QED BY <1>4, <1>9, <1>17, <2>1, <2>2 DEF JoinInv
<1>19. ASSUME NEW b \in Aggregators
       PROVE  /\ Ended(b, c)' = Ended(b, c)
              /\ \A f : Given(b, c, f)' = Given(b, c, f)
              /\ GivenFruits(b, c)' = GivenFruits(b, c)
  <2>1. Ended(b, c)' = Ended(b, c)
    BY <1>2 DEF Ended
  <2>2. \A f : Given(b, c, f)' = Given(b, c, f)
    BY <1>2, <1>4 DEF Given
  <2> QED BY <2>1, <2>2 DEF GivenFruits
<1>20. ASSUME NEW b \in Aggregators PROVE QueueInv(b, c)' /\ CountInv(b, c)' /\ ItemsInv(b, c)'
  <2>1. A!NoItems' = A!NoItems
    BY DEF A!NoItems
  <2>2. QueueInv(b, c)'
    BY <1>2, <1>4 DEF ClientInv, QueueInv
  <2>3. CountInv(b, c)'
    BY <1>2, <1>19 DEF ClientInv, CountInv
  <2>4. ItemsInv(b, c)'
    BY <1>2, <1>4, <1>19, <2>1 DEF ClientInv, ItemsInv
  <2> QED BY <2>2, <2>3, <2>4
<1> QED BY <1>3, <1>18, <1>20 DEF ClientInv, TopTakenFrom

-----------------------------------------------------------------------------
(* The invariant holds initially and is kept.                              *)

\* The inductive invariant.
PipelineInv == Types /\ \A c \in Clients : Undisturbed(c) => ClientInv(c)

\* Nothing has happened.
LEMMA InitTypes == Init => Types
<1> SUFFICES ASSUME Init PROVE Types
  OBVIOUS
<1>1. /\ broken = {} /\ disturbed = {}
      /\ tries = [s \in Sums |-> [c \in Clients |-> 0]]
      /\ flushes = [s \in Sums |-> [c \in Clients |-> 0]]
      /\ inbox = [a \in Aggregators |-> [s \in Sums |-> << >>]]
      /\ fruitItems = [a \in Aggregators |-> [c \in Clients |-> A!NoItems]]
      /\ eofCount = [a \in Aggregators |-> [c \in Clients |-> 0]]
      /\ partialTops = [a \in Aggregators |-> << >>]
      /\ topHeap = [c \in Clients |-> {}]
      /\ received = [c \in Clients |-> 0]
      /\ results = << >>
  BY DEF Init, A!AggregationInit, J!JoinInit
<1>2. IsFiniteSet({}) /\ Cardinality({}) = 0
  BY FS_EmptySet
<1>3. InputsType /\ breaks \in Nat
  <2>1. PICK input \in Inputs : share = input.share /\ route = input.route /\ breaks = input.breaks
    BY DEF Init
  <2>2. breaks \in Nat
    BY <2>1, PipelineAssumption
  <2>3. Cardinality(broken) + breaks = input.breaks
    BY <1>1, <1>2, <2>1, <2>2
  <2> QED BY <2>1, <2>2, <2>3 DEF InputsType
<1>4. {} \in Heaps
  BY <1>2, TopSizeAssumption DEF Heaps
<1>5. InboxType
  BY <1>1 DEF InboxType
<1>6. /\ fruitItems \in [Aggregators -> [Clients -> Digests]]
      /\ partialTops \in [Aggregators -> Seq(Tops)]
  BY <1>1, NoItemsIsDigest
<1>7. ResultsType
  BY <1>1 DEF ResultsType
<1>8. /\ tries \in [Sums -> [Clients -> 0 .. MaxRetries + 1]]
      /\ flushes \in [Sums -> [Clients -> 0 .. 1]]
      /\ eofCount \in [Aggregators -> [Clients -> Nat]]
      /\ received \in [Clients -> Nat]
  BY <1>1, RetriesAssumption
<1>9. topHeap \in [Clients -> Heaps]
  BY <1>1, <1>4
<1> QED BY <1>1, <1>2, <1>3, <1>5, <1>6, <1>7, <1>8, <1>9 DEF Types

\* Nothing is owed to anyone.
LEMMA InitClient ==
    ASSUME Init, NEW c \in Clients
    PROVE  ClientInv(c)
<1>1. /\ \A s \in Sums : flushes[s][c] = 0
      /\ \A a \in Aggregators, s \in Sums : inbox[a][s] = << >>
      /\ \A a \in Aggregators : /\ fruitItems[a][c] = A!NoItems /\ eofCount[a][c] = 0
                                /\ partialTops[a] = << >>
      /\ topHeap[c] = {} /\ received[c] = 0 /\ results = << >>
  BY DEF Init, A!AggregationInit, J!JoinInit
<1>2. ~About(<< >>, c) /\ TopsIn(<< >>, c) = {} /\ AtMostOne(<< >>, c)
  BY DEF About, TopsIn, AtMostOne
<1>3. IsFiniteSet({}) /\ Cardinality({}) = 0
  BY FS_EmptySet
<1>4. ASSUME NEW a \in Aggregators
      PROVE  Ended(a, c) = {} /\ Ended(a, c) # Sums /\ \A f : Given(a, c, f) = {}
  BY <1>1, PipelineAssumption DEF Ended, Given
<1>5. ASSUME NEW a \in Aggregators PROVE QueueInv(a, c)
  <2>1. \A d : InOrder(<< >>, c, d)
    BY <1>2, NothingAbout
  <2> QED BY <1>1, <1>2, <2>1 DEF QueueInv
<1>6. ASSUME NEW a \in Aggregators PROVE CountInv(a, c)
  BY <1>1, <1>3, <1>4 DEF CountInv
<1>7. ASSUME NEW a \in Aggregators PROVE ItemsInv(a, c)
  <2>1. GivenFruits(a, c) = {}
    BY <1>4 DEF GivenFruits
  <2>2. A!NoItems = [f \in GivenFruits(a, c) |-> SumOver(Amounted(c, f), Given(a, c, f))]
    BY <2>1 DEF A!NoItems
  <2> QED BY <1>1, <1>4, <2>2 DEF ItemsInv
<1>8. ASSUME NEW a \in Aggregators PROVE TopsInv(a, c)
  BY <1>1, <1>2 DEF TopsInv
<1>9. Taken(c) = {} /\ Taken(c) # Aggregators
  BY <1>4, AggregatorsAssumption DEF Taken
<1>10. \E p \in [Tot(c) -> Nat] : IsTop(topHeap[c], Parted(TotFor(c, Taken(c)), p))
  <2> DEFINE p == [x \in Tot(c) |-> 0]
  <2>1. p \in [Tot(c) -> Nat]
    OBVIOUS
  <2>2. TotFor(c, Taken(c)) = {}
    BY <1>9 DEF TotFor
  <2>3. Parted(TotFor(c, Taken(c)), p) = {}
    BY <2>2 DEF Parted
  <2>4. IsTop({}, {})
    BY <1>3, TopSizeAssumption DEF IsTop
  <2> QED BY <1>1, <2>1, <2>3, <2>4
<1>11. JoinInv(c)
  BY <1>1, <1>2, <1>3, <1>9, <1>10 DEF JoinInv
<1> QED BY <1>5, <1>6, <1>7, <1>8, <1>11 DEF ClientInv

\* A step about client c: the others stay as they are, and so does c, or it is
\* disturbed.
LEMMA StepAbout ==
    ASSUME PipelineInv, Types', NEW c \in Clients,
           \A e \in Clients : e # c => Nothing(e),
           disturbed \subseteq disturbed',
           c \notin disturbed' /\ ClientInv(c) => ClientInv(c)'
    PROVE  PipelineInv'
<1>1. ASSUME NEW e \in Clients, Undisturbed(e)' PROVE ClientInv(e)'
  <2>1. Undisturbed(e) /\ e \notin disturbed'
    BY <1>1 DEF Undisturbed
  <2>2. ClientInv(e)
    BY <2>1 DEF PipelineInv
  <2>3. CASE e = c
    BY <2>1, <2>2, <2>3
  <2>4. CASE e # c
    BY <2>2, <2>4, NothingKeeps
  <2> QED BY <2>3, <2>4
<1> QED BY <1>1 DEF PipelineInv

\* A flush, the first of its worker and client or a later one,
LEMMA FirstFlushKeeps ==
    ASSUME PipelineInv, NEW s \in Sums, NEW c \in Clients, FirstFlush(s, c)
    PROVE  PipelineInv'
<1>1. Types' /\ disturbed' = disturbed /\ \A e \in Clients : e # c => Nothing(e)
  BY FlushStep DEF PipelineInv
<1>2. ClientInv(c) => ClientInv(c)'
  BY FlushOwn DEF PipelineInv
<1> QED BY <1>1, <1>2, StepAbout

LEMMA FlushAgainKeeps ==
    ASSUME PipelineInv, NEW s \in Sums, NEW c \in Clients, FlushAgain(s, c)
    PROVE  PipelineInv'
<1>1. Types' /\ disturbed' = disturbed \cup {c} /\ \A e \in Clients : e # c => Nothing(e)
  BY FlushAgainStep DEF PipelineInv
<1> QED BY <1>1, StepAbout

\* the steps of a Sum worker,
LEMMA SumKeeps ==
    ASSUME PipelineInv, NEW s \in Sums, NEW c \in Clients, SumWorker(s, c)
    PROVE  PipelineInv'
<1>0. Types
  BY DEF PipelineInv
<1>1. CASE Flush(s, c)
  BY <1>0, <1>1, FlushIsFirst, FirstFlushKeeps
<1>2. CASE FlushFails(s, c)
  <2>1. Types' /\ disturbed' = disturbed \cup {c} /\ \A e \in Clients : e # c => Nothing(e)
    BY <1>0, <1>2, FlushFailsStep
  <2> QED BY <2>1, StepAbout
<1> QED BY <1>1, <1>2 DEF SumWorker

\* of an aggregator,
LEMMA AggregationKeeps ==
    ASSUME PipelineInv, NEW a \in Aggregators, NEW s \in Sums, AggregationWorker(a, s)
    PROVE  PipelineInv'
<1>0. Types /\ Still
  BY DEF PipelineInv, AggregationWorker, Still
<1>1. PICK c : c = Head(inbox[a][s]).client
  OBVIOUS
<1>2. inbox[a][s] # << >>
  BY DEF AggregationWorker, A!AggregationStep, A!ProcessData, A!CountEof, A!SendPartialTop,
         A!SendPartialTopFails, A!LastEof, A!Take
<1>3. c \in Clients
  <2>1. inbox[a][s] \in Seq(AggMessages)
    BY <1>0 DEF Types, InboxType
  <2>2. PICK m : m = Head(inbox[a][s])
    OBVIOUS
  <2>3. m \in AggMessages
    BY <1>2, <2>1, <2>2, HeadTailProperties
  <2>4. m.client \in Clients
    BY <2>3, KindsOfMessage
  <2> QED BY <1>1, <2>2, <2>4
<1>4. CASE A!ProcessData(a, s)
  <2>1. Types' /\ disturbed' = disturbed /\ \A e \in Clients : e # c => Nothing(e)
    BY <1>0, <1>1, <1>4, ProcessDataStep
  <2>2. ClientInv(c) => ClientInv(c)'
    BY <1>0, <1>1, <1>3, <1>4, ProcessDataOwn
  <2> QED BY <1>3, <2>1, <2>2, StepAbout
<1>5. CASE A!CountEof(a, s)
  <2>1. Types' /\ disturbed' = disturbed /\ \A e \in Clients : e # c => Nothing(e)
    BY <1>0, <1>1, <1>5, CountEofStep
  <2>2. ClientInv(c) => ClientInv(c)'
    BY <1>0, <1>1, <1>3, <1>5, CountEofOwn
  <2> QED BY <1>3, <2>1, <2>2, StepAbout
<1>6. CASE A!SendPartialTop(a, s)
  <2>1. Types' /\ disturbed' = disturbed /\ \A e \in Clients : e # c => Nothing(e)
    BY <1>0, <1>1, <1>6, SendPartialTopStep
  <2>2. ClientInv(c) => ClientInv(c)'
    BY <1>0, <1>1, <1>3, <1>6, SendPartialTopOwn
  <2> QED BY <1>3, <2>1, <2>2, StepAbout
<1>7. CASE A!SendPartialTopFails(a, s)
  <2>1. Types' /\ disturbed' = disturbed \cup {c} /\ \A e \in Clients : e # c => Nothing(e)
    BY <1>0, <1>1, <1>7, SendPartialTopFailsStep
  <2> QED BY <1>3, <2>1, StepAbout
<1> QED BY <1>4, <1>5, <1>6, <1>7 DEF AggregationWorker, A!AggregationStep

\* and of Join keep the invariant.
LEMMA JoinKeeps ==
    ASSUME PipelineInv, NEW a \in Aggregators, JoinWorker(a)
    PROVE  PipelineInv'
<1>0. Types /\ JoinStill
  BY DEF PipelineInv, JoinWorker, JoinStill
<1>1. PICK c : c = Head(partialTops[a]).client
  OBVIOUS
<1>2. partialTops[a] # << >>
  BY DEF JoinWorker, J!JoinStep, J!KeepPartialTop, J!SendFinalResults, J!SendFinalResultsFails,
         J!Receive
<1>3. c \in Clients
  <2>1. partialTops[a] \in Seq(Tops)
    BY <1>0 DEF Types
  <2>2. PICK m : m = Head(partialTops[a])
    OBVIOUS
  <2>3. m \in Tops
    BY <1>2, <2>1, <2>2, HeadTailProperties
  <2> QED BY <1>1, <2>2, <2>3 DEF Tops
<1>4. CASE J!KeepPartialTop(a)
  <2>1. Types' /\ disturbed' = disturbed /\ \A e \in Clients : e # c => Nothing(e)
    BY <1>0, <1>1, <1>4, KeepPartialTopStep
  <2>2. ClientInv(c) => ClientInv(c)'
    BY <1>0, <1>1, <1>3, <1>4, KeepPartialTopOwn
  <2> QED BY <1>3, <2>1, <2>2, StepAbout
<1>5. CASE J!SendFinalResults(a)
  <2>1. Types' /\ disturbed' = disturbed /\ \A e \in Clients : e # c => Nothing(e)
    BY <1>0, <1>1, <1>5, SendFinalResultsStep
  <2>2. ClientInv(c) => ClientInv(c)'
    BY <1>0, <1>1, <1>3, <1>5, SendFinalResultsOwn
  <2> QED BY <1>3, <2>1, <2>2, StepAbout
<1>6. CASE J!SendFinalResultsFails(a)
  <2>1. Types' /\ disturbed' = disturbed \cup {c} /\ \A e \in Clients : e # c => Nothing(e)
    BY <1>0, <1>1, <1>6, SendFinalResultsFailsStep
  <2> QED BY <1>3, <2>1, StepAbout
<1> QED BY <1>4, <1>5, <1>6 DEF JoinWorker, J!JoinStep

\* So does no step.
LEMMA StutterKeeps == PipelineInv /\ UNCHANGED vars => PipelineInv'
<1> SUFFICES ASSUME PipelineInv, UNCHANGED vars PROVE PipelineInv'
  OBVIOUS
<1>1. /\ share' = share /\ route' = route /\ tries' = tries /\ flushes' = flushes
      /\ broken' = broken /\ breaks' = breaks /\ disturbed' = disturbed
      /\ inbox' = inbox /\ fruitItems' = fruitItems /\ eofCount' = eofCount
      /\ partialTops' = partialTops /\ topHeap' = topHeap /\ received' = received
      /\ results' = results
  BY DEF vars, flushVars, connectionVars
<1>2. Types'
  BY <1>1 DEF PipelineInv, Types, InputsType, InboxType, ResultsType
<1>3. ASSUME NEW e \in Clients PROVE Nothing(e)
  BY <1>1, SameForRefl, SameTopsRefl DEF Nothing
<1>4. ASSUME NEW e \in Clients, Undisturbed(e)' PROVE ClientInv(e)'
  <2>1. ClientInv(e)
    BY <1>1, <1>4 DEF PipelineInv, Undisturbed
  <2> QED BY <1>3, <2>1, NothingKeeps
<1> QED BY <1>2, <1>4 DEF PipelineInv

\* The invariant is inductive.
LEMMA InitPipelineInv == Init => PipelineInv
BY InitTypes, InitClient DEF PipelineInv

\* Every step keeps it.
LEMMA NextPipelineInv == PipelineInv /\ [Next]_vars => PipelineInv'
<1> SUFFICES ASSUME PipelineInv, [Next]_vars PROVE PipelineInv'
  OBVIOUS
<1>1. ASSUME NEW s \in Sums, NEW c \in Clients, SumWorker(s, c) PROVE PipelineInv'
  BY <1>1, SumKeeps
<1>2. ASSUME NEW a \in Aggregators, NEW s \in Sums, AggregationWorker(a, s) PROVE PipelineInv'
  BY <1>2, AggregationKeeps
<1>3. ASSUME NEW a \in Aggregators, JoinWorker(a) PROVE PipelineInv'
  BY <1>3, JoinKeeps
<1>4. CASE UNCHANGED vars
  BY <1>4, StutterKeeps
<1> QED BY <1>1, <1>2, <1>3, <1>4 DEF Next

-----------------------------------------------------------------------------

\* Of an answered client, every queue is empty.
LEMMA AnsweredMeans ==
    ASSUME NEW c \in Clients, ClientInv(c), Answered(c)
    PROVE  /\ Taken(c) = Aggregators
           /\ \A a \in Aggregators : Ended(a, c) = Sums
<1>1. PICK i \in DOMAIN results : results[i].client = c
  BY DEF Answered
<1>2. results[i].top \in TopsIn(results, c)
  BY <1>1 DEF TopsIn
<1>3. Taken(c) = Aggregators
  BY <1>2 DEF ClientInv, JoinInv
<1> QED BY <1>3 DEF Taken

\* The dictionaries have no entry of it.
LEMMA NothingIsLeft == PipelineInv => NothingLeftBehind
<1> SUFFICES ASSUME PipelineInv, NEW c \in Clients, Undisturbed(c), Answered(c)
             PROVE  /\ \A a \in Aggregators : fruitItems[a][c] = A!NoItems /\ eofCount[a][c] = 0
                    /\ topHeap[c] = {} /\ received[c] = 0
  BY DEF NothingLeftBehind
<1>1. ClientInv(c)
  BY DEF PipelineInv
<1>2. Taken(c) = Aggregators /\ \A a \in Aggregators : Ended(a, c) = Sums
  BY <1>1, AnsweredMeans
<1>3. \A a \in Aggregators : fruitItems[a][c] = A!NoItems /\ eofCount[a][c] = 0
  BY <1>1, <1>2 DEF ClientInv, ItemsInv, CountInv
<1>4. topHeap[c] = {} /\ received[c] = 0
  BY <1>1, <1>2 DEF ClientInv, JoinInv
<1> QED BY <1>3, <1>4

\* Its result is the exact top.
LEMMA AnswersAreExact == PipelineInv => ExactAnswers
<1> SUFFICES ASSUME PipelineInv, NEW i \in DOMAIN results, Undisturbed(results[i].client)
             PROVE  results[i].top = Service!ExactTop(results[i].client)
  BY DEF ExactAnswers
<1>1. PICK c : c = results[i].client
  OBVIOUS
<1>2. c \in Clients
  <2>1. PICK T : results \in Seq([client : Clients, top : T])
    BY DEF PipelineInv, Types, ResultsType
  <2> DEFINE R == [client : Clients, top : T]
  <2>2. \A r \in R : r.client \in Clients
    OBVIOUS
  <2>3. results \in Seq(R)
    BY <2>1
  <2> HIDE DEF R
  <2>4. results[i] \in R
    BY <2>3, ElementOfSeq
  <2> QED BY <1>1, <2>2, <2>4
<1>3. ClientInv(c)
  BY <1>1, <1>2 DEF PipelineInv
<1>4. results[i].top \in TopsIn(results, c)
  BY <1>1 DEF TopsIn
<1>5. results[i].top = Exact(c)
  BY <1>3, <1>4 DEF ClientInv, JoinInv
<1>6. IsShare(share)
  BY InputsAre DEF PipelineInv, Types
<1>7. Service!ExactTop(c) = Exact(c)
  BY <1>2, <1>6, ExactTopIs
<1> QED BY <1>1, <1>5, <1>7

\* A counter that starts over at the last worker stays below their number.
LEMMA CountsBounded ==
    ASSUME NEW S, IsFiniteSet(S), S # {}, NEW T \in SUBSET S
    PROVE  (IF T = S THEN 0 ELSE Cardinality(T)) < Cardinality(S)
<1>1. CASE T = S
  <2>1. PICK x \in S : TRUE
    OBVIOUS
  <2>2. {} \in SUBSET S /\ x \in S \ {}
    BY <2>1
  <2>3. Cardinality({x}) = 1 /\ {x} \subseteq S
    BY FS_Singleton
  <2>4. Cardinality({x}) <= Cardinality(S) /\ Cardinality(S) \in Nat
    BY <2>3, FS_Subset, FS_CardinalityType
  <2> QED BY <1>1, <2>3, <2>4
<1>2. CASE T # S
  <2>1. IsFiniteSet(T) /\ Cardinality(T) <= Cardinality(S) /\ (Cardinality(S) = Cardinality(T) => S = T)
    BY FS_Subset
  <2>2. Cardinality(T) \in Nat /\ Cardinality(S) \in Nat
    BY <2>1, FS_CardinalityType
  <2> QED BY <1>2, <2>1, <2>2
<1> QED BY <1>1, <1>2

\* The types follow.
LEMMA PipelineTypes == PipelineInv => TypeOK
<1> SUFFICES ASSUME PipelineInv PROVE TypeOK
  OBVIOUS
<1>1. Types
  BY DEF PipelineInv
<1>2. InputsType
  BY <1>1 DEF Types
<1>3. ASSUME NEW a \in Aggregators PROVE partialTops[a] \in Seq(PartialTops)
  <2>1. partialTops[a] \in Seq(Tops)
    BY <1>1 DEF Types
  <2>2. Tops \subseteq PartialTops
    BY DEF Tops, PartialTops, Heaps
  <2> QED BY <2>1, <2>2
<1>4. ASSUME NEW c \in Clients
      PROVE  /\ topHeap[c] \subseteq Items /\ Cardinality(topHeap[c]) <= TopSize
             /\ \A a \in Aggregators : IsDigest(fruitItems[a][c])
  <2>1. topHeap[c] \in Heaps /\ \A a \in Aggregators : fruitItems[a][c] \in Digests
    BY <1>1 DEF Types
  <2>2. \A a \in Aggregators : IsDigest(fruitItems[a][c])
    BY <2>1, DigestsAre
  <2> QED BY <2>1, <2>2 DEF Heaps
<1>5. ASSUME NEW c \in Clients, c \notin disturbed
      PROVE  /\ \A a \in Aggregators : eofCount[a][c] < Cardinality(Sums)
             /\ received[c] < Cardinality(Aggregators)
  <2>1. ClientInv(c)
    BY <1>5 DEF PipelineInv, Undisturbed
  <2>2. ASSUME NEW a \in Aggregators PROVE eofCount[a][c] < Cardinality(Sums)
    <3>1. Ended(a, c) \in SUBSET Sums
      BY DEF Ended
    <3>2. eofCount[a][c] = IF Ended(a, c) = Sums THEN 0 ELSE Cardinality(Ended(a, c))
      BY <2>1 DEF ClientInv, CountInv
    <3> QED BY <3>1, <3>2, CountsBounded, PipelineAssumption
  <2>3. received[c] < Cardinality(Aggregators)
    <3>1. Taken(c) \in SUBSET Aggregators
      BY DEF Taken
    <3>2. received[c] = IF Taken(c) = Aggregators THEN 0 ELSE Cardinality(Taken(c))
      BY <2>1 DEF ClientInv, JoinInv
    <3> QED BY <3>1, <3>2, CountsBounded, AggregatorsAssumption
  <2> QED BY <2>2, <2>3
<1>6. /\ tries \in [Sums -> [Clients -> 0 .. MaxRetries + 1]]
      /\ flushes \in [Sums -> [Clients -> 0 .. 1]]
      /\ disturbed \subseteq Clients
  BY <1>1 DEF Types
<1> QED BY <1>2, <1>3, <1>4, <1>5, <1>6 DEF TypeOK, InputsType

\* The domains of the variables: no heap and no partial top is larger than
\* TOP_SIZE, and no worker counts a message of an undisturbed client past the
\* last one (the counters of _should_calculate_top and of Join start over).
THEOREM TypeCorrect == Spec => []TypeOK
BY InitPipelineInv, NextPipelineInv, PipelineTypes, PTL DEF Spec

\* Every result of an undisturbed client is the exact top of its totals: adding
\* up per fruit, cutting to partial tops (_find_top_fruits) and merging them
\* (_update_client_top) loses nothing, in whatever order the workers run.
THEOREM ExactAnswersHolds == Spec => []ExactAnswers
BY InitPipelineInv, NextPipelineInv, AnswersAreExact, PTL DEF Spec

\* When a client's result is out, neither the aggregators nor Join hold anything
\* of it: each entry was deleted with the last message that could add to it.
THEOREM NothingLeftBehindHolds == Spec => []NothingLeftBehind
BY InitPipelineInv, NextPipelineInv, NothingIsLeft, PTL DEF Spec

-----------------------------------------------------------------------------
(* The steps of TopService.                                                *)

\* Nothing is on its way of a client that was answered.
LEMMA AnsweredIsDone ==
    ASSUME NEW c \in Clients, ClientInv(c), ~Service!Unanswered(c)
    PROVE  /\ \A s \in Sums : flushes[s][c] = 1
           /\ \A a \in Aggregators, s \in Sums : ~About(inbox[a][s], c)
           /\ \A a \in Aggregators : TopsIn(partialTops[a], c) = {}
<1>1. Answered(c)
  BY DEF Service!Unanswered, Answered
<1>2. Taken(c) = Aggregators /\ \A a \in Aggregators : Ended(a, c) = Sums
  BY <1>1, AnsweredMeans
<1>3. \A a \in Aggregators, s \in Sums : flushes[s][c] = 1 /\ ~Ends(inbox[a][s], c)
  BY <1>2 DEF Ended
<1>4. \A s \in Sums : flushes[s][c] = 1
  BY <1>3, AggregatorsAssumption
<1>5. ASSUME NEW a \in Aggregators, NEW s \in Sums PROVE ~About(inbox[a][s], c)
  <2>1. PICK d : InOrder(inbox[a][s], c, d)
    BY DEF ClientInv, QueueInv
  <2> QED BY <1>3, <2>1 DEF InOrder, About
<1>6. \A a \in Aggregators : TopsIn(partialTops[a], c) = {}
  BY <1>2 DEF Taken
<1> QED BY <1>4, <1>5, <1>6

\* A failure disturbs a client that was not answered, or was disturbed before.
LEMMA DisturbedInTime ==
    ASSUME PipelineInv, NEW c \in Clients,
           \/ \E s \in Sums : flushes[s][c] = 0
           \/ \E a \in Aggregators, s \in Sums : About(inbox[a][s], c)
           \/ \E a \in Aggregators : TopsIn(partialTops[a], c) # {}
    PROVE  c \in disturbed \/ Service!Unanswered(c)
<1> SUFFICES ASSUME c \notin disturbed, ~Service!Unanswered(c) PROVE FALSE
  OBVIOUS
<1>1. ClientInv(c)
  BY DEF PipelineInv, Undisturbed
<1> QED BY <1>1, AnsweredIsDone

\* The head of a queue is about its client.
LEMMA HeadIsAbout ==
    ASSUME NEW M, NEW q \in Seq(M), q # << >>
    PROVE  /\ About(q, Head(q).client)
           /\ TopsIn(q, Head(q).client) # {}
<1>1. 1 \in DOMAIN q /\ Head(q) = q[1]
  BY EmptySeq, HeadTailProperties
<1> QED BY <1>1 DEF About, TopsIn

\* A Sum worker flushes, or disturbs a client.
LEMMA SumServes ==
    ASSUME PipelineInv, NEW s \in Sums, NEW c \in Clients, SumWorker(s, c)
    PROVE  Service!ServiceNext
<1>1. CASE Flush(s, c)
  <2>1. Service!Flushed(s, c)
    BY <1>1 DEF Flush, Service!Flushed, connectionVars
  <2> QED BY <2>1 DEF Service!ServiceNext
<1>2. CASE FlushFails(s, c)
  <2>1. /\ disturbed' = disturbed \cup {c}
        /\ flushes[s][c] = 0
        /\ UNCHANGED << share, flushes, results >>
    BY <1>2 DEF FlushFails, Raises
  <2>2. c \in disturbed \/ Service!Unanswered(c)
    BY <2>1, DisturbedInTime
  <2>3. Service!Disturb(c)
    BY <2>1, <2>2 DEF Service!Disturb
  <2> QED BY <2>3 DEF Service!ServiceNext
<1> QED BY <1>1, <1>2 DEF SumWorker

\* An aggregator does nothing, or disturbs a client.
LEMMA AggregationServes ==
    ASSUME PipelineInv, NEW a \in Aggregators, NEW s \in Sums, AggregationWorker(a, s)
    PROVE  Service!ServiceNext \/ UNCHANGED Service!serviceVars
<1>0. UNCHANGED << share, flushes, results >>
  BY DEF AggregationWorker, flushVars
<1>1. CASE UNCHANGED disturbed
  BY <1>0, <1>1 DEF Service!serviceVars
<1>2. CASE A!SendPartialTopFails(a, s)
  <2>1. PICK c : c = Head(inbox[a][s]).client
    OBVIOUS
  <2>2. inbox[a][s] # << >> /\ disturbed' = disturbed \cup {c}
    BY <1>2, <2>1 DEF A!SendPartialTopFails, A!LastEof, A!Raises
  <2>3. inbox[a][s] \in Seq(AggMessages)
    BY DEF PipelineInv, Types, InboxType
  <2>4. c \in Clients
    <3>1. PICK m : m = Head(inbox[a][s])
      OBVIOUS
    <3>2. m \in AggMessages
      BY <2>2, <2>3, <3>1, HeadTailProperties
    <3>3. m.client \in Clients
      BY <3>2, KindsOfMessage
    <3> QED BY <2>1, <3>1, <3>3
  <2>5. About(inbox[a][s], c)
    BY <2>1, <2>2, <2>3, HeadIsAbout
  <2>6. c \in disturbed \/ Service!Unanswered(c)
    BY <2>4, <2>5, DisturbedInTime
  <2>7. Service!Disturb(c)
    BY <1>0, <2>2, <2>6 DEF Service!Disturb
  <2> QED BY <2>4, <2>7 DEF Service!ServiceNext
<1> QED BY <1>1, <1>2 DEF AggregationWorker, A!AggregationStep, A!ProcessData, A!CountEof,
              A!SendPartialTop, A!Works, A!connectionVars

\* Join does nothing, or answers a client, or disturbs it.
LEMMA JoinServes ==
    ASSUME PipelineInv, NEW a \in Aggregators, JoinWorker(a)
    PROVE  Service!ServiceNext \/ UNCHANGED Service!serviceVars
<1>0. Types /\ JoinStill /\ UNCHANGED << share, route, flushes >>
  BY DEF PipelineInv, JoinWorker, JoinStill, flushVars
<1>1. PICK c : c = Head(partialTops[a]).client
  OBVIOUS
<1>2. partialTops[a] # << >> /\ partialTops[a] \in Seq(Tops)
  BY DEF PipelineInv, Types, JoinWorker, J!JoinStep, J!KeepPartialTop, J!SendFinalResults,
         J!SendFinalResultsFails, J!Receive
<1>3. PICK m : m = Head(partialTops[a])
  OBVIOUS
<1>4. m \in Tops /\ m.client = c /\ c \in Clients
  <2>1. m \in Tops
    BY <1>2, <1>3, HeadTailProperties
  <2> QED BY <1>1, <1>3, <2>1 DEF Tops
<1>5. c \in disturbed \/ Service!Unanswered(c)
  <2>1. TopsIn(partialTops[a], c) # {}
    BY <1>1, <1>2, HeadIsAbout
  <2> QED BY <1>4, <2>1, DisturbedInTime
<1> DEFINE r == [client |-> c, top |-> J!Ranked(J!UpdateClientTop(m))]
<1> HIDE DEF r
<1>6. r.client = c /\ r = [client |-> c, top |-> r.top]
  BY DEF r
<1>7. ASSUME J!Publish(m)
      PROVE  /\ results' = Append(results, r)
             /\ \E n \in DOMAIN results' : results'[n] = r
  <2>1. results' = Append(results, r) /\ \E R : results \in Seq(R) /\ r \in R
    BY <1>0, <1>4, <1>7, ResultPublished DEF r
  <2>2. PICK R : results \in Seq(R) /\ r \in R
    BY <2>1
  <2>3. Appended(results, r, results')
    BY <2>1, <2>2, AppendedMessage
  <2> QED BY <2>1, <2>3 DEF Appended
<1>8. ASSUME disturbed' = disturbed \cup {c}, UNCHANGED results \/ J!Publish(m)
      PROVE  Service!ServiceNext
  <2>1. UNCHANGED results \/ \E x \in Service!Range(results') : x.client = c /\ results' = Append(results, x)
    <3>1. CASE J!Publish(m)
      <4>1. PICK n \in DOMAIN results' : results'[n] = r
        BY <1>7, <3>1
      <4>2. r \in Service!Range(results')
        BY <4>1 DEF Service!Range
      <4> QED BY <1>6, <1>7, <3>1, <4>2
    <3> QED BY <1>8, <3>1
  <2>2. Service!Disturb(c)
    BY <1>0, <1>5, <1>8, <2>1 DEF Service!Disturb
  <2> QED BY <1>4, <2>2 DEF Service!ServiceNext
<1>9. CASE J!KeepPartialTop(a)
  BY <1>0, <1>9 DEF J!KeepPartialTop, J!connectionVars, Service!serviceVars
<1>10. CASE J!SendFinalResults(a)
  <2>1. J!Publish(m) /\ UNCHANGED disturbed
    BY <1>3, <1>10 DEF J!SendFinalResults, J!Works, J!connectionVars
  <2>2. CASE c \in disturbed
    BY <1>8, <2>1, <2>2
  <2>3. CASE c \notin disturbed
    <3>1. ClientInv(c)
      BY <1>4, <2>3 DEF PipelineInv, Undisturbed
    <3>2. ClientInv(c)'
      BY <1>0, <1>1, <1>4, <1>10, <3>1, SendFinalResultsOwn
    <3>3. PICK n \in DOMAIN results' : results'[n] = r
      BY <1>7, <2>1
    <3>4. r.top \in TopsIn(results', c)
      BY <1>6, <3>3 DEF TopsIn
    <3>5. Taken(c)' = Aggregators /\ r.top = Exact(c)'
      BY <3>2, <3>4 DEF ClientInv, JoinInv
    <3>6. Exact(c)' = Exact(c)
      BY <1>0, SameTot
    <3>7. Service!ExactTop(c) = Exact(c)
      BY <1>0, <1>4, ExactTopIs, InputsAre DEF Types
    <3>8. results' = Append(results, Service!Result(c, Service!ExactTop(c)))
      BY <1>6, <1>7, <2>1, <3>5, <3>6, <3>7 DEF Service!Result
    <3>9. \A s \in Sums : flushes[s][c] = 1
      <4>1. \A b \in Aggregators : Ended(b, c)' = Sums
        BY <3>5 DEF Taken
      <4> QED BY <1>0, <4>1, AggregatorsAssumption DEF Ended
    <3>10. Service!Answer(c)
      BY <1>0, <1>5, <2>1, <2>3, <3>8, <3>9 DEF Service!Answer
    <3> QED BY <1>4, <3>10 DEF Service!ServiceNext
  <2> QED BY <2>2, <2>3
<1>11. CASE J!SendFinalResultsFails(a)
  <2>1. disturbed' = disturbed \cup {c} /\ (UNCHANGED results \/ J!Publish(m))
    BY <1>3, <1>4, <1>11 DEF J!SendFinalResultsFails, J!Raises
  <2> QED BY <1>8, <2>1
<1> QED BY <1>9, <1>10, <1>11 DEF JoinWorker, J!JoinStep

\* Nobody is answered at first.
LEMMA InitServes == Init => Service!ServiceInit
BY DEF Init, J!JoinInit, Service!ServiceInit

\* Every step is a step of TopService, or none.
LEMMA NextServes ==
    PipelineInv /\ [Next]_vars => [Service!ServiceNext]_Service!serviceVars
<1> SUFFICES ASSUME PipelineInv, [Next]_vars
             PROVE  Service!ServiceNext \/ UNCHANGED Service!serviceVars
  OBVIOUS
<1>1. CASE \E s \in Sums, c \in Clients : SumWorker(s, c)
  BY <1>1, SumServes
<1>2. CASE \E a \in Aggregators, s \in Sums : AggregationWorker(a, s)
  BY <1>2, AggregationServes
<1>3. CASE \E a \in Aggregators : JoinWorker(a)
  BY <1>3, JoinServes
<1>4. CASE UNCHANGED vars
  BY <1>4 DEF vars, flushVars, connectionVars, Service!serviceVars
<1> QED BY <1>1, <1>2, <1>3, <1>4 DEF Next

\* The workers, their queues and their counters do what TopService promises, every
\* step one of its steps or a stutter: an undisturbed client is answered once,
\* after the last flush, exactly, and a failure meets no message of a client that
\* was answered.
THEOREM ServiceImplemented == Spec => ImplementsService
<1>1. Spec => [][Service!ServiceNext]_Service!serviceVars
  BY InitPipelineInv, NextPipelineInv, NextServes, PTL DEF Spec
<1>2. Spec => Service!ServiceInit
  BY InitServes, PTL DEF Spec
<1> QED BY <1>1, <1>2, PTL DEF ImplementsService, Service!Service
=================================================================================

---------------------------- MODULE StreamTopProofs ----------------------------
(***************************************************************************)
(* The bounded heap of Aggregation and Join keeps a top of everything it   *)
(* was offered, for every TopSize, every set of items, ties and repeated   *)
(* fruits included, and every order of arrival.                            *)
(*                                                                         *)
(* The heap alone does not tell what was offered and is gone, so the       *)
(* invariant is HeapIsTop itself, with the sets finite.  A step keeps it   *)
(* for one reason: the item pushed out is a least one of the heap, and     *)
(* whatever was left out before is not greater than that.                  *)
(*                                                                         *)
(* The verifier compares a client's output with a ranking of everything;   *)
(* the second part shows that this accepts the ranking of a top, and only  *)
(* that, for every input with enough fruits.                               *)
(***************************************************************************)
EXTENDS StreamTop, Verifier, FruitTopProofs

IInv == offered \in SUBSET Stream /\ IsFiniteSet(offered) /\ HeapIsTop

LEMMA InitIInv == Init => IInv
BY FS_EmptySet, TopSizeAssumption DEF Init, IInv, HeapIsTop, IsTop

LEMMA NextIInv == IInv /\ [Next]_vars => IInv'
<1> SUFFICES ASSUME IInv, [Next]_vars PROVE IInv'
  OBVIOUS
<1>1. CASE Next
  <2>1. PICK item \in Stream : Take(item)
    BY <1>1 DEF Next
  <2>2. offered \in SUBSET Items /\ item \in Items /\ item \notin offered
    BY <2>1, StreamAssumption DEF IInv, Take
  <2>3. IsTop(Offer(heap, item), offered \cup {item})
    BY <2>2, OfferKeepsTop DEF IInv, HeapIsTop
  <2>4. IsFiniteSet(offered \cup {item})
    BY FS_AddElement DEF IInv
  <2> QED BY <2>1, <2>3, <2>4 DEF IInv, HeapIsTop, Take
<1>2. CASE UNCHANGED vars
  BY <1>2 DEF IInv, HeapIsTop, vars
<1> QED BY <1>1, <1>2

LEMMA IInvTypeOK == IInv => TypeOK
BY FS_Subset, FS_CardinalityType, TopSizeAssumption DEF IInv, HeapIsTop, IsTop, TypeOK

\* At every point of the loop the heap is a top of what was offered.
THEOREM HeapIsTopHolds == Spec => []HeapIsTop
<1>1. IInv => HeapIsTop
  BY DEF IInv
<1> QED BY <1>1, InitIInv, NextIInv, PTL DEF Spec

\* The heap never outgrows TOP_SIZE.
THEOREM HeapIsBounded == Spec => []TypeOK
BY InitIInv, NextIInv, IInvTypeOK, PTL DEF Spec

-----------------------------------------------------------------------------
(* The verifier.                                                           *)

Totals(total) == {Item(f, total[f], 0) : f \in DOMAIN total}

\* One item for every fruit of the input.
LEMMA TotalsType ==
    ASSUME NEW total \in Inputs, IsFiniteSet(DOMAIN total)
    PROVE  /\ Totals(total) \in SUBSET Items /\ IsFiniteSet(Totals(total))
           /\ DistinctFruits(Totals(total))
           /\ Cardinality(Totals(total)) = Cardinality(DOMAIN total)
           /\ \A x \in Totals(total) : << x.fruit, x.amount >> \in Fruits \X (0 .. MaxTotal)
<1> DEFINE fs == DOMAIN total
           S == Totals(total)
<1>1. fs \subseteq Fruits /\ total \in [fs -> 0 .. MaxTotal]
  BY DEF Inputs
<1>2. ASSUME NEW f \in fs
      PROVE  /\ Item(f, total[f], 0) \in Items
             /\ Item(f, total[f], 0).fruit = f /\ Item(f, total[f], 0).amount = total[f]
             /\ total[f] \in 0 .. MaxTotal /\ f \in Fruits
  BY <1>1, MaxTotalAssumption DEF Item, Items
<1>3. \A x \in S : \E f \in fs : x = Item(f, total[f], 0)
  BY DEF Totals
<1>4. S \in SUBSET Items /\ DistinctFruits(S)
  BY <1>2, <1>3 DEF DistinctFruits
<1>5. \A x \in S : << x.fruit, x.amount >> \in Fruits \X (0 .. MaxTotal)
  BY <1>2, <1>3
<1>6. IsFiniteSet(S) /\ Cardinality(S) = Cardinality(fs)
  <2> DEFINE g == [f \in fs |-> Item(f, total[f], 0)]
  <2>1. g \in [fs -> S] /\ \A x \in S : \E f \in fs : g[f] = x
    BY DEF Totals
  <2>2. \A f, h \in fs : g[f] = g[h] => f = h
    <3> SUFFICES ASSUME NEW f \in fs, NEW h \in fs, g[f] = g[h] PROVE f = h
      OBVIOUS
    <3>1. Item(f, total[f], 0) = Item(h, total[h], 0)
      OBVIOUS
    <3> QED BY <1>2, <3>1
  <2>3. ExistsBijection(fs, S)
    <3> HIDE DEF g, fs, S
    <3> QED BY <2>1, <2>2 DEF ExistsBijection, Bijection, Injection, Surjection, IsInjective
  <2> QED BY <2>3, FS_Bijection
<1> QED BY <1>4, <1>5, <1>6

\* Whatever top of the totals a heap holds, its ranking is the beginning of the
\* ranking of them all.
LEMMA ExactTopsAreOne ==
    ASSUME NEW total \in Inputs, IsFiniteSet(DOMAIN total),
           Cardinality(DOMAIN total) >= TopSize
    PROVE  ExactTops(total) = {SubSeq(ExpectedTop(total), 1, TopSize)}
<1> DEFINE S == Totals(total)
           p == [x \in S |-> 0]
<1>1. S \in SUBSET Items /\ IsFiniteSet(S) /\ DistinctFruits(S) /\ Cardinality(S) >= TopSize
  BY TotalsType
<1>2. Cardinality(S) \in Nat
  BY <1>1, FS_CardinalityType
<1>3. TopSize = IF Cardinality(S) < TopSize THEN Cardinality(S) ELSE TopSize
  BY <1>1, <1>2, TopSizeAssumption
<1>4. Parted(S, p) = S
  <2>1. \A x \in S : InPart(x, p[x]) = x
    <3> SUFFICES ASSUME NEW x \in S PROVE [x EXCEPT !.part = 0] = x
      BY DEF InPart
    <3>1. PICK f \in DOMAIN total : x = Item(f, total[f], 0)
      BY DEF Totals
    <3> QED BY <3>1 DEF Item
  <2> QED BY <2>1 DEF Parted
<1>5. \A x \in S : p[x] \in Nat
  OBVIOUS
<1>6. ExpectedTop(total) = Ranked(S)
  BY DEF ExpectedTop, Totals
<1>7. ASSUME NEW H, IsTop(H, S) PROVE Ranked(H) = SubSeq(Ranked(S), 1, TopSize)
  <2> HIDE DEF S, p
  <2> QED BY <1>1, <1>3, <1>4, <1>5, <1>7, RankingOfTop
<1>8. \E H \in SUBSET S : IsTop(H, S)
  BY <1>1, OfferAllIsTop DEF IsTop
<1>9. ExactTops(total) = {Ranked(H) : H \in {h \in SUBSET S : IsTop(h, S)}}
  BY DEF ExactTops, Totals
<1> DEFINE Tops == {h \in SUBSET S : IsTop(h, S)}
           start == SubSeq(ExpectedTop(total), 1, TopSize)
<1>10. Tops # {} /\ \A H \in Tops : Ranked(H) = start
  BY <1>6, <1>7, <1>8
<1>11. ExactTops(total) = {Ranked(H) : H \in Tops}
  BY <1>9
<1> HIDE DEF Tops, start
<1>12. ExactTops(total) = {start}
  BY <1>10, <1>11
<1> QED BY <1>12 DEF start

\* The verifier accepts the ranking of a top of the totals and nothing else, for
\* every TOP_SIZE, every set of fruits and every input of finitely many fruits;
\* of an input with fewer fruits than TOP_SIZE it accepts nothing.
THEOREM AcceptsExactTopHolds ==
    inputTotal \in Inputs /\ IsFiniteSet(DOMAIN inputTotal) => AcceptsExactTop
<1> SUFFICES ASSUME inputTotal \in Inputs, IsFiniteSet(DOMAIN inputTotal)
             PROVE  AcceptsExactTop
  OBVIOUS
<1> DEFINE S == Totals(inputTotal)
           expected == ExpectedTop(inputTotal)
           exact == SubSeq(expected, 1, TopSize)
<1>1. /\ S \in SUBSET Items /\ IsFiniteSet(S) /\ DistinctFruits(S)
      /\ Cardinality(S) = Cardinality(DOMAIN inputTotal)
      /\ \A x \in S : << x.fruit, x.amount >> \in Fruits \X (0 .. MaxTotal)
  BY TotalsType
<1>2. expected = Ranked(S)
  BY DEF ExpectedTop, Totals
<1>3. expected \in Seq(Fruits \X Nat) /\ Len(expected) = Cardinality(S) /\ Cardinality(S) \in Nat
  BY <1>1, <1>2, RankedType, FS_CardinalityType
<1>4. ASSUME NEW i \in 1 .. Cardinality(S) PROVE expected[i] \in Fruits \X (0 .. MaxTotal)
  <2>1. PICK x \in S : Rank(x, S) = i - 1
    BY <1>1, RankExists
  <2>2. expected[i] = << x.fruit, x.amount >>
    BY <1>1, <1>2, <2>1, RankedAt
  <2> QED BY <1>1, <2>2
<1>5. ASSUME NEW output \in Outputs
      PROVE  \E n \in 0 .. TopSize : output \in [1 .. n -> Fruits \X (0 .. MaxTotal)] /\ Len(output) = n
  <2>1. PICK n \in 0 .. TopSize : output \in [1 .. n -> Fruits \X (0 .. MaxTotal)]
    BY DEF Outputs
  <2>2. n \in Nat
    BY TopSizeAssumption
  <2> QED BY <2>1, <2>2
<1>6. CASE Cardinality(DOMAIN inputTotal) >= TopSize
  <2>1. Len(expected) >= TopSize /\ ExactTops(inputTotal) = {exact}
    BY <1>1, <1>3, <1>6, ExactTopsAreOne
  <2>2. /\ exact \in [1 .. TopSize -> Fruits \X (0 .. MaxTotal)] /\ Len(exact) = TopSize
        /\ \A i \in 1 .. TopSize : exact[i] = expected[i]
    <3> HIDE DEF expected, S
    <3>1. exact = [i \in 1 .. TopSize |-> expected[i]]
      BY <1>3, <2>1, TopSizeAssumption
    <3>2. \A i \in 1 .. TopSize : i \in 1 .. Cardinality(S)
      BY <1>3, <2>1, TopSizeAssumption
    <3> DEFINE D == Fruits \X (0 .. MaxTotal)
    <3>3. \A i \in 1 .. TopSize : expected[i] \in D
      BY <1>4, <3>2
    <3> HIDE DEF D, exact
    <3>4. exact \in [1 .. TopSize -> D] /\ \A i \in 1 .. TopSize : exact[i] = expected[i]
      BY <3>1, <3>3
    <3>5. Len(exact) = TopSize
      BY <3>1, TopSizeAssumption
    <3> QED BY <3>4, <3>5 DEF D
  <2> HIDE DEF exact, expected
  <2>3. exact \in Outputs /\ Accepts(expected, exact)
    <3>1. exact \in Outputs
      BY <2>2, TopSizeAssumption DEF Outputs
    <3> QED BY <1>3, <2>1, <2>2, <3>1, TopSizeAssumption DEF Accepts, OutOfRange, Differs
  <2>4. ASSUME NEW output \in Outputs, Accepts(expected, output) PROVE output = exact
    <3>1. PICK n \in 0 .. TopSize : output \in [1 .. n -> Fruits \X (0 .. MaxTotal)] /\ Len(output) = n
      BY <1>5
    <3>2. n = TopSize /\ \A i \in 1 .. TopSize : expected[i] = output[i]
      BY <2>4, <3>1 DEF Accepts, Differs
    <3> DEFINE D == Fruits \X (0 .. MaxTotal)
    <3>3. output \in [1 .. TopSize -> D] /\ exact \in [1 .. TopSize -> D]
      BY <2>2, <3>1, <3>2
    <3> HIDE DEF D
    <3>4. \A i \in 1 .. TopSize : output[i] = exact[i]
      BY <2>2, <3>2
    <3>5. /\ output = [i \in 1 .. TopSize |-> output[i]]
          /\ exact = [i \in 1 .. TopSize |-> exact[i]]
      BY <3>3
    <3>6. [i \in 1 .. TopSize |-> output[i]] = [i \in 1 .. TopSize |-> exact[i]]
      BY <3>4
    <3> QED BY <3>5, <3>6
  <2> QED BY <1>6, <2>1, <2>3, <2>4 DEF AcceptsExactTop, expected
<1>7. CASE ~(Cardinality(DOMAIN inputTotal) >= TopSize)
  <2>1. Len(expected) < TopSize
    BY <1>1, <1>3, <1>7, TopSizeAssumption
  <2>2. \A output \in Outputs : ~Accepts(expected, output)
    BY <2>1 DEF Accepts, OutOfRange
  <2> QED BY <1>7, <2>2 DEF AcceptsExactTop
<1> QED BY <1>6, <1>7
================================================================================

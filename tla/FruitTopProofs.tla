----------------------------- MODULE FruitTopProofs -----------------------------
(***************************************************************************)
(* What the operators on items and heaps compute, for every TopSize, every *)
(* set of items and every order in which they are taken.                   *)
(*                                                                         *)
(* A fold is a recursive function over the parts of a set, and what is     *)
(* recursive has to be shown to exist: FoldExists builds it up to any      *)
(* number of elements, one more at a time.  What it computes then follows  *)
(* by looking at a smallest part on which it would be wrong (LeastSubset). *)
(***************************************************************************)
EXTENDS FruitTop, FiniteSetTheorems, SequenceTheorems, WellFoundedInduction, TLAPS

\* A set of numbers has a least element.
LEMMA LeastNumber ==
    ASSUME NEW T \in SUBSET Nat, T # {}
    PROVE  \E n \in T : \A m \in T : n <= m
<1> DEFINE Below == {1 .. m : m \in T}
<1>1. Below \subseteq FiniteSubsetsOf(Nat) /\ Below # {}
  <2>1. ASSUME NEW m \in T PROVE 1 .. m \in FiniteSubsetsOf(Nat)
    <3>1. 1 .. m \in SUBSET Nat /\ IsFiniteSet(1 .. m)
      BY FS_Interval
    <3> QED BY <3>1 DEF FiniteSubsetsOf
  <2> QED BY <2>1
<1>2. PICK B \in Below : \A C \in Below : ~(<< C, B >> \in StrictSubsetOrdering(Nat))
  <2> HIDE DEF Below
  <2> QED BY <1>1, FS_StrictSubsetOrderingWellFounded, WFMin
<1>3. PICK n \in T : B = 1 .. n
  BY <1>2
<1>4. ASSUME NEW m \in T, m < n PROVE FALSE
  <2>1. n \in Nat /\ m \in Nat
    OBVIOUS
  <2>2. 1 .. m \in SUBSET Nat /\ 1 .. n \in SUBSET Nat /\ 1 .. m \subseteq 1 .. n
    BY <1>4, <2>1
  <2>3. n \in 1 .. n /\ n \notin 1 .. m
    BY <1>4, <2>1
  <2>4. << 1 .. m, 1 .. n >> \in StrictSubsetOrdering(Nat)
    BY <2>2, <2>3 DEF StrictSubsetOrdering
  <2> QED BY <1>2, <1>3, <2>4
<1> QED BY <1>4

\* Some of the subsets of a finite set: one of them contains no other.
LEMMA LeastSubset ==
    ASSUME NEW S, IsFiniteSet(S), NEW T \in SUBSET (SUBSET S), T # {}
    PROVE  \E B \in T : \A C \in T : C \subseteq B => C = B
<1>1. T \subseteq FiniteSubsetsOf(S)
  BY FS_FiniteSubsetsOfFinite
<1>2. PICK B \in T : \A C \in T : ~(<< C, B >> \in StrictSubsetOrdering(S))
  BY <1>1, FS_StrictSubsetOrderingWellFounded, WFMin
<1>3. \A C \in T : C \subseteq B => C = B
  BY <1>2 DEF StrictSubsetOrdering
<1> QED BY <1>3

AnyOf(s) == CHOOSE x \in s : TRUE

\* Folds, before they are known to be defined: what the fold of F over S
\* from base would say of each part of S.
Folds(iter, F, base, S) ==
    \A s \in SUBSET S :
        iter[s] = IF s = {} THEN base ELSE F[<< iter[s \ {AnyOf(s)}], AnyOf(s) >>]

FoldsUpTo(n, iter, F, base, S) ==
    \A s \in SUBSET S :
        Cardinality(s) <= n =>
            iter[s] = IF s = {} THEN base ELSE F[<< iter[s \ {AnyOf(s)}], AnyOf(s) >>]

LEMMA FoldExists ==
    ASSUME NEW S, IsFiniteSet(S), NEW D, NEW base \in D, NEW F \in [D \X S -> D]
    PROVE  \E iter \in [SUBSET S -> D] : Folds(iter, F, base, S)
<1> DEFINE Some(n) == \E iter \in [SUBSET S -> D] : FoldsUpTo(n, iter, F, base, S)
           None == {n \in Nat : ~Some(n)}
<1>0. \A s \in SUBSET S : IsFiniteSet(s) /\ Cardinality(s) \in Nat /\ Cardinality(s) <= Cardinality(S)
  BY FS_Subset, FS_CardinalityType
<1>1. Some(0)
  <2> DEFINE i == [s \in SUBSET S |-> base]
  <2>1. i \in [SUBSET S -> D]
    OBVIOUS
  <2>2. FoldsUpTo(0, i, F, base, S)
    BY <1>0, FS_EmptySet DEF FoldsUpTo
  <2> QED BY <2>1, <2>2
<1>2. ASSUME NEW n \in Nat, Some(n) PROVE Some(n + 1)
  <2>1. PICK iter \in [SUBSET S -> D] : FoldsUpTo(n, iter, F, base, S)
    BY <1>2
  <2> DEFINE Next(s) == IF s = {} THEN base ELSE F[<< iter[s \ {AnyOf(s)}], AnyOf(s) >>]
             i == [s \in SUBSET S |-> IF Cardinality(s) <= n THEN iter[s] ELSE Next(s)]
  <2>2. ASSUME NEW s \in SUBSET S
        PROVE  s # {} => AnyOf(s) \in s /\ s \ {AnyOf(s)} \in SUBSET S
    BY DEF AnyOf
  <2>3. i \in [SUBSET S -> D]
    <3> SUFFICES ASSUME NEW s \in SUBSET S PROVE Next(s) \in D
      OBVIOUS
    <3>1. CASE s = {}
      BY <3>1
    <3>2. CASE s # {}
      <4>1. iter[s \ {AnyOf(s)}] \in D /\ AnyOf(s) \in S
        BY <2>2, <3>2
      <4> QED BY <3>2, <4>1
    <3> QED BY <3>1, <3>2
  <2>4. ASSUME NEW s \in SUBSET S, Cardinality(s) <= n + 1
        PROVE  i[s] = IF s = {} THEN base ELSE F[<< i[s \ {AnyOf(s)}], AnyOf(s) >>]
    <3>1. Cardinality({}) = 0
      BY FS_EmptySet
    <3>2. CASE s = {}
      <4>2. Cardinality(s) <= n
        BY <3>1, <3>2
      <4>1. iter[s] = base
        BY <2>1, <3>2, <4>2 DEF FoldsUpTo
      <4>3. i[s] = iter[s]
        BY <3>2, <4>2
      <4> HIDE DEF i
      <4> QED BY <3>2, <4>1, <4>3
    <3>3. CASE s # {}
      <4> DEFINE r == s \ {AnyOf(s)}
      <4>1. AnyOf(s) \in s /\ r \in SUBSET S
        BY <2>2, <3>3
      <4>2. Cardinality(r) = Cardinality(s) - 1
        BY <1>0, <4>1, FS_RemoveElement
      <4>3. Cardinality(r) <= n
        BY <1>0, <2>4, <4>2
      <4> HIDE DEF r
      <4>4. i[r] = iter[r]
        BY <4>1, <4>3
      <4>5. i[s] = F[<< iter[r], AnyOf(s) >>]
        <5>1. CASE Cardinality(s) <= n
          <6>1. i[s] = iter[s]
            BY <5>1
          <6>2. iter[s] = F[<< iter[r], AnyOf(s) >>]
            BY <2>1, <3>3, <5>1 DEF FoldsUpTo, r
          <6> QED BY <6>1, <6>2
        <5>2. CASE ~(Cardinality(s) <= n)
          BY <3>3, <5>2 DEF r
        <5> QED BY <5>1, <5>2
      <4>6. i[s] = F[<< i[r], AnyOf(s) >>]
        BY <4>4, <4>5
      <4> QED BY <3>3, <4>6 DEF r
    <3> QED BY <3>2, <3>3
  <2> HIDE DEF i
  <2>5. FoldsUpTo(n + 1, i, F, base, S)
    BY <2>4 DEF FoldsUpTo
  <2> QED BY <2>3, <2>5
<1>3. None = {}
  <2> SUFFICES ASSUME None # {} PROVE FALSE
    OBVIOUS
  <2>1. None \in SUBSET Nat
    OBVIOUS
  <2>2. PICK n \in None : \A m \in None : n <= m
    BY <2>1, LeastNumber
  <2>3. n \in Nat /\ ~Some(n)
    OBVIOUS
  <2>4. n # 0
    BY <1>1, <2>3
  <2>5. n - 1 \in Nat /\ n - 1 \notin None
    <3> HIDE DEF None
    <3>1. n - 1 \in Nat /\ ~(n <= n - 1)
      BY <2>3, <2>4
    <3> QED BY <2>2, <3>1
  <2>6. Some(n - 1)
    BY <2>5
  <2>7. Some((n - 1) + 1)
    <3> HIDE DEF Some
    <3> QED BY <1>2, <2>5, <2>6
  <2>8. (n - 1) + 1 = n
    BY <2>3
  <2> HIDE DEF Some
  <2> QED BY <2>3, <2>7, <2>8
<1>4. Some(Cardinality(S))
  BY <1>3, FS_CardinalityType
<1>5. PICK iter \in [SUBSET S -> D] : FoldsUpTo(Cardinality(S), iter, F, base, S)
  BY <1>4
<1>6. Folds(iter, F, base, S)
  BY <1>0, <1>5 DEF Folds, FoldsUpTo
<1> QED BY <1>6
-----------------------------------------------------------------------------
(* The order of FruitItem.                                                 *)

\* "Not less" is transitive: the order has no gaps between incomparable items.
LEMMA NotLessTransitive ==
    ASSUME NEW x \in Items, NEW y \in Items, NEW z \in Items,
           ~Less(x, y), ~Less(y, z)
    PROVE  ~Less(x, z)
<1>1. /\ x.amount \in Nat /\ y.amount \in Nat /\ z.amount \in Nat
      /\ x.fruit \in Nat /\ y.fruit \in Nat /\ z.fruit \in Nat
  BY FruitsAssumption DEF Items
<1> QED BY <1>1 DEF Less

\* No two items are less than each other.
LEMMA LessAsymmetric ==
    ASSUME NEW x \in Items, NEW y \in Items, Less(x, y)
    PROVE  ~Less(y, x)
<1>1. /\ x.amount \in Nat /\ y.amount \in Nat
      /\ x.fruit \in Nat /\ y.fruit \in Nat
  BY FruitsAssumption DEF Items
<1> QED BY <1>1 DEF Less

\* What is less than something less, is less.
LEMMA LessTransitive ==
    ASSUME NEW x \in Items, NEW y \in Items, NEW z \in Items,
           Less(x, y), Less(y, z)
    PROVE  Less(x, z)
<1>1. /\ x.amount \in Nat /\ y.amount \in Nat /\ z.amount \in Nat
      /\ x.fruit \in Nat /\ y.fruit \in Nat /\ z.fruit \in Nat
  BY FruitsAssumption DEF Items
<1> QED BY <1>1 DEF Less

\* A finite, non-empty heap has a least item, and Least is one: take an item
\* with the fewest items of the heap below it.
LEMMA LeastIsLeast ==
    ASSUME NEW H \in SUBSET Items, H # {}, IsFiniteSet(H)
    PROVE  /\ Least(H) \in H
           /\ \A y \in H : ~Less(y, Least(H))
<1> DEFINE Below(x) == {y \in H : Less(y, x)}
           T == {Below(x) : x \in H}
<1>1. T \subseteq FiniteSubsetsOf(H) /\ T # {}
  <2>1. ASSUME NEW x \in H PROVE Below(x) \in FiniteSubsetsOf(H)
    <3>1. Below(x) \in SUBSET H
      OBVIOUS
    <3> HIDE DEF Below
    <3>2. IsFiniteSet(Below(x))
      BY <3>1, FS_Subset
    <3> QED BY <3>1, <3>2 DEF FiniteSubsetsOf
  <2> QED BY <2>1
<1>2. PICK B \in T : \A C \in T : ~(<< C, B >> \in StrictSubsetOrdering(H))
  <2> HIDE DEF T
  <2> QED BY <1>1, FS_StrictSubsetOrderingWellFounded, WFMin
<1>3. PICK x \in H : B = Below(x)
  BY <1>2
<1>4. ASSUME NEW y \in H, Less(y, x) PROVE FALSE
  <2>1. Below(y) \subseteq Below(x)
    BY <1>4, LessTransitive
  <2>2. y \in Below(x) /\ y \notin Below(y)
    BY <1>4, LessAsymmetric
  <2>3. << Below(y), Below(x) >> \in StrictSubsetOrdering(H)
    <3>1. Below(y) \in SUBSET H /\ Below(x) \in SUBSET H
      OBVIOUS
    <3>2. Below(y) # Below(x)
      BY <2>2
    <3> HIDE DEF Below
    <3> QED BY <2>1, <3>1, <3>2 DEF StrictSubsetOrdering
  <2> QED BY <1>2, <1>3, <2>3
<1> QED BY <1>4 DEF Least

-----------------------------------------------------------------------------
(* One item offered to the heap.                                           *)

LeftOut(H, S) == \A x \in H, y \in S \ H : ~Less(x, y)

\* While there is room the heap holds everything.
LEMMA OfferWithRoom ==
    ASSUME NEW S \in SUBSET Items, IsFiniteSet(S), NEW H, IsTop(H, S),
           NEW item \in Items, item \notin S, Cardinality(H) < TopSize
    PROVE  IsTop(Offer(H, item), S \cup {item})
<1>1. H = S
  BY FS_Subset, FS_CardinalityType, TopSizeAssumption DEF IsTop
<1>2. Cardinality(S \cup {item}) = Cardinality(S) + 1
  BY FS_AddElement
<1>3. Offer(H, item) = S \cup {item}
  BY <1>1 DEF Offer
<1>4. Cardinality(S \cup {item}) <= TopSize
  BY <1>1, <1>2, FS_CardinalityType, TopSizeAssumption
<1> QED BY <1>3, <1>4 DEF IsTop

\* A full heap gives up a least item for a greater one.
LEMMA OfferToFullHeap ==
    ASSUME NEW S \in SUBSET Items, IsFiniteSet(S), NEW H, IsTop(H, S),
           NEW item \in Items, item \notin S, ~(Cardinality(H) < TopSize)
    PROVE  IsTop(Offer(H, item), S \cup {item})
<1>1. H \subseteq S /\ H \in SUBSET Items /\ IsFiniteSet(H) /\ item \notin H
  BY FS_Subset DEF IsTop
<1>2. Cardinality(H) = TopSize
  BY <1>1, FS_CardinalityType, TopSizeAssumption DEF IsTop
<1>3. H # {}
  BY <1>2, FS_EmptySet, TopSizeAssumption
<1> DEFINE l == Least(H)
<1>4. l \in H /\ \A y \in H : ~Less(y, l)
  BY <1>1, <1>3, LeastIsLeast
<1>5. LeftOut(H, S)
  BY DEF IsTop, LeftOut
<1> HIDE DEF l
<1>6. CASE Less(l, item)
  <2> DEFINE K == (H \ {l}) \cup {item}
  <2>1. Offer(H, item) = K
    BY <1>6 DEF Offer, l
  <2>2. Cardinality(K) = TopSize
    <3>1. IsFiniteSet(H \ {l}) /\ Cardinality(H \ {l}) = Cardinality(H) - 1
      BY <1>1, <1>4, FS_RemoveElement
    <3>2. Cardinality(K) = Cardinality(H \ {l}) + 1
      BY <1>1, <3>1, FS_AddElement
    <3> QED BY <1>2, <3>1, <3>2, TopSizeAssumption
  <2>3. ASSUME NEW x \in K, NEW y \in (S \cup {item}) \ K
        PROVE  ~Less(x, y)
    <3>1. y = l \/ y \in S \ H
      OBVIOUS
    <3>2. x \in Items /\ y \in Items /\ l \in Items
      BY <1>1, <1>4
    <3>3. CASE x \in H
      BY <3>1, <3>3, <1>4, <1>5 DEF LeftOut
    <3>4. CASE x = item
      <4>1. ~Less(item, l)
        BY <1>6, <3>2, LessAsymmetric
      <4>2. CASE y = l
        BY <3>4, <4>1, <4>2
      <4>3. CASE y \in S \ H
        <5>1. ~Less(l, y)
          BY <4>3, <1>4, <1>5 DEF LeftOut
        <5> QED BY <3>4, <4>1, <5>1, <3>2, NotLessTransitive
      <4> QED BY <3>1, <4>2, <4>3
    <3> QED BY <3>3, <3>4
  <2>4. K \subseteq S \cup {item}
    BY <1>1
  <2> HIDE DEF K
  <2> QED BY <2>1, <2>2, <2>3, <2>4 DEF IsTop
<1>7. CASE ~Less(l, item)
  <2>1. Offer(H, item) = H
    BY <1>7 DEF Offer, l
  <2>2. ASSUME NEW x \in H, NEW y \in (S \cup {item}) \ H
        PROVE  ~Less(x, y)
    <3>1. x \in Items /\ l \in Items
      BY <1>1, <1>4
    <3>2. CASE y \in S \ H
      BY <3>2, <1>5 DEF LeftOut
    <3>3. CASE y = item
      <4>1. ~Less(x, l)
        BY <1>4
      <4> QED BY <3>1, <3>3, <4>1, <1>7, NotLessTransitive
    <3> QED BY <3>2, <3>3
  <2>3. H \subseteq S \cup {item}
    BY <1>1
  <2> QED BY <2>1, <2>2, <2>3, <1>2 DEF IsTop
<1> QED BY <1>6, <1>7

\* Offer keeps a top a top.
LEMMA OfferKeepsTop ==
    ASSUME NEW S \in SUBSET Items, IsFiniteSet(S), NEW H, IsTop(H, S),
           NEW item \in Items, item \notin S
    PROVE  IsTop(Offer(H, item), S \cup {item})
BY OfferWithRoom, OfferToFullHeap

-----------------------------------------------------------------------------
(* Heaps that are full.                                                    *)

\* A heap that is not all it was offered is full.
LEMMA PartialHeapIsFull ==
    ASSUME NEW S \in SUBSET Items, IsFiniteSet(S), NEW H, IsTop(H, S)
    PROVE  /\ H \subseteq S /\ IsFiniteSet(H)
           /\ Cardinality(H) \in Nat /\ Cardinality(H) <= TopSize
           /\ H # S => Cardinality(H) = TopSize
<1>1. H \subseteq S /\ IsFiniteSet(H)
  BY FS_Subset DEF IsTop
<1>2. Cardinality(H) \in Nat
  BY <1>1, FS_CardinalityType
<1> QED BY <1>1, <1>2, TopSizeAssumption DEF IsTop

\* A full heap inside another heap is the other heap.
LEMMA FullHeapInside ==
    ASSUME NEW G, NEW H, IsFiniteSet(H), G \subseteq H,
           Cardinality(G) = TopSize, Cardinality(H) <= TopSize
    PROVE  G = H
<1>1. IsFiniteSet(G) /\ Cardinality(G) <= Cardinality(H)
  BY FS_Subset
<1>2. Cardinality(G) = Cardinality(H)
  BY <1>1, FS_CardinalityType, TopSizeAssumption
<1> QED BY <1>2, FS_Subset

-----------------------------------------------------------------------------
(* A heap, and many items offered to it.                                   *)

OfferFolds(iter, H, S) ==
    iter = [s \in SUBSET S |->
               IF s = {} THEN H ELSE Offer(iter[s \ {AnyOf(s)}], AnyOf(s))]

\* The fold that OfferAll speaks of exists.
LEMMA OfferAllUnfolds ==
    ASSUME NEW S \in SUBSET Items, IsFiniteSet(S), NEW H \in SUBSET Items
    PROVE  \E iter : OfferFolds(iter, H, S) /\ OfferAll(H, S) = iter[S]
<1> DEFINE D == SUBSET Items
           F == [x \in D \X S |-> Offer(x[1], x[2])]
<1>1. F \in [D \X S -> D]
  <2> SUFFICES ASSUME NEW h \in D, NEW x \in S PROVE Offer(h, x) \in D
    OBVIOUS
  <2> QED BY DEF Offer
<1>2. ASSUME NEW h \in D, NEW x \in S PROVE F[<< h, x >>] = Offer(h, x)
  OBVIOUS
<1> HIDE DEF D, F
<1>3. H \in D
  BY DEF D
<1>4. PICK iter \in [SUBSET S -> D] : Folds(iter, F, H, S)
  BY <1>1, <1>3, FoldExists
<1>5. ASSUME NEW s \in SUBSET S
      PROVE  iter[s] = IF s = {} THEN H ELSE Offer(iter[s \ {AnyOf(s)}], AnyOf(s))
  <2>1. CASE s = {}
    BY <1>4, <2>1 DEF Folds
  <2>2. CASE s # {}
    <3>1. AnyOf(s) \in S /\ s \ {AnyOf(s)} \in SUBSET S
      BY <2>2 DEF AnyOf
    <3>2. iter[s] = F[<< iter[s \ {AnyOf(s)}], AnyOf(s) >>]
      BY <1>4, <2>2 DEF Folds
    <3> QED BY <1>2, <2>2, <3>1, <3>2
  <2> QED BY <2>1, <2>2
<1>6. OfferFolds(iter, H, S)
  BY <1>5 DEF OfferFolds
<1> DEFINE it == CHOOSE i : OfferFolds(i, H, S)
<1>7. OfferFolds(it, H, S)
  BY <1>6
<1>8. OfferAll(H, S) = it[S]
  BY DEF OfferAll, FoldSet, MapThenFoldSet, OfferFolds, AnyOf
<1> QED BY <1>7, <1>8

\* OfferAll, in whatever order it takes the items, turns a top of what was
\* offered before into a top of everything.
LEMMA OfferAllKeepsTop ==
    ASSUME NEW P \in SUBSET Items, IsFiniteSet(P), NEW H, IsTop(H, P),
           NEW S \in SUBSET Items, IsFiniteSet(S), P \cap S = {}
    PROVE  IsTop(OfferAll(H, S), P \cup S)
<1>1. H \in SUBSET Items
  BY DEF IsTop
<1>2. PICK iter : OfferFolds(iter, H, S) /\ OfferAll(H, S) = iter[S]
  BY <1>1, OfferAllUnfolds
<1> DEFINE Wrong == {s \in SUBSET S : ~IsTop(iter[s], P \cup s)}
<1>3. Wrong = {}
  <2> SUFFICES ASSUME Wrong # {} PROVE FALSE
    OBVIOUS
  <2>1. Wrong \in SUBSET (SUBSET S)
    OBVIOUS
  <2>2. PICK s \in Wrong : \A C \in Wrong : C \subseteq s => C = s
    <3> HIDE DEF Wrong
    <3> QED BY <2>1, LeastSubset
  <2>3. s \in SUBSET S /\ ~IsTop(iter[s], P \cup s)
    OBVIOUS
  <2>4. s # {}
    <3>1. iter[{}] = H
      BY <1>2 DEF OfferFolds
    <3>2. P \cup {} = P
      OBVIOUS
    <3> QED BY <2>3, <3>1, <3>2
  <2> DEFINE x == AnyOf(s)
             r == s \ {x}
  <2>5. x \in s /\ r \in SUBSET S /\ r \subseteq s /\ r # s /\ x \notin r
    BY <2>3, <2>4 DEF AnyOf
  <2>6. iter[s] = Offer(iter[r], x)
    BY <1>2, <2>3, <2>4 DEF OfferFolds
  <2> HIDE DEF x, r, Wrong
  <2>7. r \notin Wrong
    BY <2>2, <2>5
  <2>8. IsTop(iter[r], P \cup r)
    BY <2>5, <2>7 DEF Wrong
  <2>9. P \cup r \in SUBSET Items /\ IsFiniteSet(P \cup r) /\ x \in Items /\ x \notin P \cup r
    <3>1. IsFiniteSet(r)
      BY <2>5, FS_Subset
    <3>2. IsFiniteSet(P \cup r)
      BY <3>1, FS_Union
    <3> QED BY <2>3, <2>5, <3>2
  <2>10. IsTop(Offer(iter[r], x), (P \cup r) \cup {x})
    BY <2>8, <2>9, OfferKeepsTop
  <2>11. (P \cup r) \cup {x} = P \cup s
    BY <2>5 DEF r
  <2> QED BY <2>3, <2>6, <2>10, <2>11
<1> QED BY <1>2, <1>3

\* _find_top_fruits: whatever the order of the dictionary, a top of its items.
THEOREM OfferAllIsTop ==
    ASSUME NEW S \in SUBSET Items, IsFiniteSet(S)
    PROVE  IsTop(OfferAll({}, S), S)
<1>1. IsTop({}, {})
  BY FS_EmptySet, TopSizeAssumption DEF IsTop
<1>2. IsTop(OfferAll({}, S), {} \cup S)
  BY <1>1, FS_EmptySet, OfferAllKeepsTop
<1> QED BY <1>2

Small(H) == H \in SUBSET Items /\ IsFiniteSet(H) /\ Cardinality(H) <= TopSize

\* The heap never outgrows TOP_SIZE, also when the same items come twice.
LEMMA OfferKeepsSmall ==
    ASSUME NEW H, Small(H), NEW x \in Items
    PROVE  Small(Offer(H, x))
<1>1. Cardinality(H) \in Nat
  BY FS_CardinalityType DEF Small
<1>2. CASE Cardinality(H) < TopSize
  <2>1. IsFiniteSet(H \cup {x}) /\ Cardinality(H \cup {x}) <= Cardinality(H) + 1
    BY <1>1, FS_AddElement DEF Small
  <2>2. Cardinality(H \cup {x}) \in Nat
    BY <2>1, FS_CardinalityType
  <2>3. Cardinality(H \cup {x}) <= TopSize
    BY <1>1, <1>2, <2>1, <2>2, TopSizeAssumption
  <2> QED BY <1>2, <2>1, <2>3 DEF Offer, Small
<1>3. CASE ~(Cardinality(H) < TopSize) /\ Less(Least(H), x)
  <2>1. Cardinality(H) = TopSize
    BY <1>1, <1>3, TopSizeAssumption DEF Small
  <2>2. H # {}
    BY <2>1, FS_EmptySet, TopSizeAssumption
  <2>3. Least(H) \in H
    BY <2>2, LeastIsLeast DEF Small
  <2> DEFINE G == H \ {Least(H)}
  <2>4. IsFiniteSet(G) /\ Cardinality(G) = Cardinality(H) - 1
    BY <2>3, FS_RemoveElement DEF Small
  <2>5. IsFiniteSet(G \cup {x})
        /\ Cardinality(G \cup {x}) = IF x \in G THEN Cardinality(G) ELSE Cardinality(G) + 1
    BY <2>4, FS_AddElement
  <2>6. G \cup {x} \in SUBSET Items
    BY DEF Small
  <2>7. Offer(H, x) = G \cup {x}
    BY <1>3 DEF Offer
  <2> HIDE DEF G
  <2>8. Cardinality(G \cup {x}) <= TopSize
    BY <2>1, <2>4, <2>5, TopSizeAssumption
  <2> QED BY <2>5, <2>6, <2>7, <2>8 DEF Small
<1>4. CASE ~(Cardinality(H) < TopSize) /\ ~Less(Least(H), x)
  BY <1>4 DEF Offer
<1> QED BY <1>2, <1>3, <1>4

LEMMA OfferAllKeepsSmall ==
    ASSUME NEW H, Small(H), NEW S \in SUBSET Items, IsFiniteSet(S)
    PROVE  Small(OfferAll(H, S))
<1>1. H \in SUBSET Items
  BY DEF Small
<1>2. PICK iter : OfferFolds(iter, H, S) /\ OfferAll(H, S) = iter[S]
  BY <1>1, OfferAllUnfolds
<1> DEFINE Wrong == {s \in SUBSET S : ~Small(iter[s])}
<1>3. Wrong = {}
  <2> SUFFICES ASSUME Wrong # {} PROVE FALSE
    OBVIOUS
  <2>1. Wrong \in SUBSET (SUBSET S)
    OBVIOUS
  <2>2. PICK s \in Wrong : \A C \in Wrong : C \subseteq s => C = s
    <3> HIDE DEF Wrong
    <3> QED BY <2>1, LeastSubset
  <2>3. s \in SUBSET S /\ ~Small(iter[s])
    OBVIOUS
  <2>4. s # {}
    <3>1. iter[{}] = H
      BY <1>2 DEF OfferFolds
    <3> QED BY <2>3, <3>1
  <2> DEFINE x == AnyOf(s)
             r == s \ {x}
  <2>5. x \in s /\ r \in SUBSET S /\ r \subseteq s /\ r # s
    BY <2>3, <2>4 DEF AnyOf
  <2>6. iter[s] = Offer(iter[r], x)
    BY <1>2, <2>3, <2>4 DEF OfferFolds
  <2> HIDE DEF x, r, Wrong
  <2>7. r \notin Wrong
    BY <2>2, <2>5
  <2>8. Small(iter[r]) /\ x \in Items
    BY <2>3, <2>5, <2>7 DEF Wrong
  <2> QED BY <2>3, <2>6, <2>8, OfferKeepsSmall
<1> QED BY <1>2, <1>3

-----------------------------------------------------------------------------
(* Sums.                                                                   *)

\* The sum of g over S.
SumOver(g, S) == MapThenSumSet(LAMBDA x : g[x], S)

SumFolds(iter, g, S) ==
    iter = [s \in SUBSET S |-> IF s = {} THEN 0 ELSE g[AnyOf(s)] + iter[s \ {AnyOf(s)}]]

\* The fold that MapThenSumSet speaks of exists.
LEMMA SumFoldExists ==
    ASSUME NEW S, IsFiniteSet(S), NEW g, \A x \in S : g[x] \in Nat
    PROVE  \E iter : SumFolds(iter, g, S) /\ \A s \in SUBSET S : iter[s] \in Nat
<1> DEFINE F == [x \in Nat \X S |-> g[x[2]] + x[1]]
<1>1. F \in [Nat \X S -> Nat]
  OBVIOUS
<1>2. ASSUME NEW n \in Nat, NEW x \in S PROVE F[<< n, x >>] = g[x] + n
  OBVIOUS
<1> HIDE DEF F
<1>3. PICK iter \in [SUBSET S -> Nat] : Folds(iter, F, 0, S)
  BY <1>1, FoldExists
<1>4. ASSUME NEW s \in SUBSET S
      PROVE  iter[s] = IF s = {} THEN 0 ELSE g[AnyOf(s)] + iter[s \ {AnyOf(s)}]
  <2>1. CASE s = {}
    BY <1>3, <2>1 DEF Folds
  <2>2. CASE s # {}
    <3>1. AnyOf(s) \in S /\ s \ {AnyOf(s)} \in SUBSET S
      BY <2>2 DEF AnyOf
    <3>2. iter[s] = F[<< iter[s \ {AnyOf(s)}], AnyOf(s) >>]
      BY <1>3, <2>2 DEF Folds
    <3> QED BY <1>2, <2>2, <3>1, <3>2
  <2> QED BY <2>1, <2>2
<1> QED BY <1>4 DEF SumFolds

\* It is the only one, whatever set it is a fold over.
LEMMA SumFoldUnique ==
    ASSUME NEW U, NEW S \in SUBSET U, IsFiniteSet(S), NEW g, NEW i, NEW k,
           SumFolds(i, g, U), SumFolds(k, g, S)
    PROVE  i[S] = k[S]
<1> DEFINE Wrong == {s \in SUBSET S : i[s] # k[s]}
<1>1. Wrong = {}
  <2> SUFFICES ASSUME Wrong # {} PROVE FALSE
    OBVIOUS
  <2>1. Wrong \in SUBSET (SUBSET S)
    OBVIOUS
  <2>2. PICK s \in Wrong : \A C \in Wrong : C \subseteq s => C = s
    <3> HIDE DEF Wrong
    <3> QED BY <2>1, LeastSubset
  <2>3. s \in SUBSET S /\ s \in SUBSET U /\ i[s] # k[s]
    OBVIOUS
  <2>4. s # {}
    BY <2>3 DEF SumFolds
  <2>5. AnyOf(s) \in s
    BY <2>4 DEF AnyOf
  <2> DEFINE r == s \ {AnyOf(s)}
  <2>6. r \in SUBSET S /\ r \subseteq s /\ r # s
    BY <2>3, <2>5
  <2>7. i[s] = g[AnyOf(s)] + i[r]
    BY <2>3, <2>4 DEF SumFolds
  <2>8. k[s] = g[AnyOf(s)] + k[r]
    BY <2>3, <2>4 DEF SumFolds
  <2> HIDE DEF r
  <2>9. i[r] # k[r]
    BY <2>3, <2>7, <2>8
  <2> QED BY <2>2, <2>6, <2>9
<1> QED BY <1>1

LEMMA SumUnfolds ==
    ASSUME NEW S, IsFiniteSet(S), NEW g, \A x \in S : g[x] \in Nat
    PROVE  \E iter : SumFolds(iter, g, S) /\ SumOver(g, S) = iter[S]
                     /\ \A s \in SUBSET S : iter[s] \in Nat
<1>1. PICK i : SumFolds(i, g, S) /\ \A s \in SUBSET S : i[s] \in Nat
  BY SumFoldExists
<1> DEFINE it == CHOOSE k : SumFolds(k, g, S)
<1>2. SumFolds(it, g, S)
  BY <1>1
<1>3. SumOver(g, S) = it[S]
  BY DEF SumOver, MapThenSumSet, MapThenFoldSet, SumFolds, AnyOf
<1> HIDE DEF it
<1>4. it[S] = i[S]
  BY <1>1, <1>2, SumFoldUnique
<1> QED BY <1>1, <1>3, <1>4


\* What a sum is, without the fold.
LEMMA SumOverStep ==
    ASSUME NEW S, IsFiniteSet(S), NEW g, \A x \in S : g[x] \in Nat
    PROVE  /\ SumOver(g, {}) = 0
           /\ SumOver(g, S) \in Nat
           /\ S # {} => /\ AnyOf(S) \in S
                        /\ SumOver(g, S) = g[AnyOf(S)] + SumOver(g, S \ {AnyOf(S)})
<1>1. PICK i : SumFolds(i, g, S) /\ SumOver(g, S) = i[S] /\ \A s \in SUBSET S : i[s] \in Nat
  BY SumUnfolds
<1>2. SumOver(g, {}) = 0
  <2>1. PICK k : SumFolds(k, g, {}) /\ SumOver(g, {}) = k[{}]
    BY FS_EmptySet, SumUnfolds
  <2> QED BY <2>1 DEF SumFolds
<1>3. ASSUME S # {}
      PROVE  /\ AnyOf(S) \in S
             /\ SumOver(g, S) = g[AnyOf(S)] + SumOver(g, S \ {AnyOf(S)})
  <2> DEFINE r == S \ {AnyOf(S)}
  <2>1. AnyOf(S) \in S
    BY <1>3 DEF AnyOf
  <2>2. i[S] = g[AnyOf(S)] + i[r]
    BY <1>1, <1>3 DEF SumFolds
  <2>3. r \in SUBSET S /\ IsFiniteSet(r) /\ \A x \in r : g[x] \in Nat
    BY FS_RemoveElement
  <2> HIDE DEF r
  <2>4. PICK k : SumFolds(k, g, r) /\ SumOver(g, r) = k[r]
    BY <2>3, SumUnfolds
  <2>5. i[r] = k[r]
    BY <1>1, <2>3, <2>4, SumFoldUnique
  <2> QED BY <1>1, <2>1, <2>2, <2>4, <2>5 DEF r
<1> QED BY <1>1, <1>2, <1>3

\* It does not matter which element is added last.
LEMMA SumOverRemove ==
    ASSUME NEW S, IsFiniteSet(S), NEW g, \A x \in S : g[x] \in Nat, NEW y \in S
    PROVE  SumOver(g, S) = g[y] + SumOver(g, S \ {y})
<1> DEFINE Wrong == {s \in SUBSET S :
                        \E x \in s : SumOver(g, s) # g[x] + SumOver(g, s \ {x})}
<1>1. Wrong = {}
  <2> SUFFICES ASSUME Wrong # {} PROVE FALSE
    OBVIOUS
  <2>1. Wrong \in SUBSET (SUBSET S)
    OBVIOUS
  <2>2. PICK s \in Wrong : \A C \in Wrong : C \subseteq s => C = s
    <3> HIDE DEF Wrong
    <3> QED BY <2>1, LeastSubset
  <2>3. s \in SUBSET S
    OBVIOUS
  <2>4. PICK x \in s : SumOver(g, s) # g[x] + SumOver(g, s \ {x})
    OBVIOUS
  <2>5. ASSUME NEW t \in SUBSET S
        PROVE  IsFiniteSet(t) /\ (\A z \in t : g[z] \in Nat) /\ SumOver(g, t) \in Nat
    <3>1. IsFiniteSet(t) /\ \A z \in t : g[z] \in Nat
      BY FS_Subset
    <3> QED BY <3>1, SumOverStep
  <2>6. PICK a \in s : SumOver(g, s) = g[a] + SumOver(g, s \ {a})
    BY <2>3, <2>4, <2>5, SumOverStep
  <2>7. a # x
    BY <2>4, <2>6
  <2>8. s \ {a} \in SUBSET S /\ s \ {x} \in SUBSET S /\ (s \ {a}) \ {x} \in SUBSET S
    BY <2>3
  <2>9. s \ {a} \notin Wrong /\ s \ {x} \notin Wrong
    <3> HIDE DEF Wrong
    <3>1. s \ {a} \subseteq s /\ s \ {a} # s
      OBVIOUS
    <3>2. s \ {x} \subseteq s /\ s \ {x} # s
      OBVIOUS
    <3>3. s \ {a} \notin Wrong
      BY <2>2, <3>1
    <3>4. s \ {x} \notin Wrong
      BY <2>2, <3>2
    <3> QED BY <3>3, <3>4
  <2>10. SumOver(g, s \ {a}) = g[x] + SumOver(g, (s \ {a}) \ {x})
    BY <2>4, <2>7, <2>8, <2>9
  <2>11. SumOver(g, s \ {x}) = g[a] + SumOver(g, (s \ {x}) \ {a})
    BY <2>6, <2>7, <2>8, <2>9
  <2>12. (s \ {x}) \ {a} = (s \ {a}) \ {x}
    OBVIOUS
  <2>13. PICK m \in Nat : m = SumOver(g, (s \ {a}) \ {x})
    BY <2>5, <2>8
  <2>14. SumOver(g, s) = g[a] + (g[x] + m)
    BY <2>6, <2>10, <2>13
  <2>15. SumOver(g, s \ {x}) = g[a] + m
    BY <2>11, <2>12, <2>13
  <2>16. g[a] \in Nat /\ g[x] \in Nat
    BY <2>3, <2>5
  <2>17. SumOver(g, s) # g[x] + (g[a] + m)
    BY <2>4, <2>15
  <2> QED BY <2>14, <2>16, <2>17
<1> QED BY <1>1

LEMMA SumOverAdd ==
    ASSUME NEW S, IsFiniteSet(S), NEW g, NEW y, y \notin S,
           \A x \in S \cup {y} : g[x] \in Nat
    PROVE  SumOver(g, S \cup {y}) = SumOver(g, S) + g[y]
<1> DEFINE T == S \cup {y}
<1>1. IsFiniteSet(T) /\ y \in T /\ T \ {y} = S /\ \A x \in T : g[x] \in Nat
  BY FS_AddElement
<1>2. SumOver(g, S) \in Nat
  BY SumOverStep
<1> HIDE DEF T
<1>3. SumOver(g, T) = g[y] + SumOver(g, T \ {y})
  BY <1>1, SumOverRemove
<1>4. SumOver(g, T) = g[y] + SumOver(g, S) /\ g[y] \in Nat
  BY <1>1, <1>3
<1> QED BY <1>2, <1>4 DEF T

\* It depends on the numbers in the set only.
LEMMA SumOverSame ==
    ASSUME NEW S, IsFiniteSet(S), NEW g, NEW h, \A x \in S : g[x] \in Nat /\ h[x] = g[x]
    PROVE  SumOver(h, S) = SumOver(g, S)
<1>1. PICK i : SumFolds(i, g, S) /\ SumOver(g, S) = i[S]
  BY SumUnfolds
<1>2. PICK k : SumFolds(k, h, S) /\ SumOver(h, S) = k[S]
  BY SumUnfolds
<1>3. \A s \in SUBSET S : s # {} => h[AnyOf(s)] = g[AnyOf(s)]
  BY DEF AnyOf
<1>4. SumFolds(k, g, S)
  BY <1>2, <1>3 DEF SumFolds
<1> QED BY <1>1, <1>2, <1>4, SumFoldUnique

\* The sum over two parts,
LEMMA SumOverUnion ==
    ASSUME NEW A, IsFiniteSet(A), NEW B, IsFiniteSet(B), A \cap B = {},
           NEW g, \A x \in A \cup B : g[x] \in Nat
    PROVE  SumOver(g, A \cup B) = SumOver(g, A) + SumOver(g, B)
<1> DEFINE Wrong == {s \in SUBSET B : SumOver(g, A \cup s) # SumOver(g, A) + SumOver(g, s)}
<1>0. SumOver(g, {}) = 0
  BY SumOverStep
<1>1. Wrong = {}
  <2> SUFFICES ASSUME Wrong # {} PROVE FALSE
    OBVIOUS
  <2>1. Wrong \in SUBSET (SUBSET B)
    OBVIOUS
  <2>2. PICK s \in Wrong : \A C \in Wrong : C \subseteq s => C = s
    <3> HIDE DEF Wrong
    <3> QED BY <2>1, LeastSubset
  <2>3. s \in SUBSET B /\ SumOver(g, A \cup s) # SumOver(g, A) + SumOver(g, s)
    OBVIOUS
  <2>4. IsFiniteSet(s) /\ SumOver(g, A) \in Nat
    BY <2>3, FS_Subset, SumOverStep
  <2>5. PICK y : y \in s
    <3>1. CASE s = {}
      <4>1. A \cup s = A
        BY <3>1
      <4> QED BY <1>0, <2>3, <2>4, <3>1, <4>1
    <3> QED BY <3>1
  <2> DEFINE r == s \ {y}
  <2>6. r \in SUBSET B /\ r \subseteq s /\ r # s /\ IsFiniteSet(r)
    BY <2>3, <2>4, <2>5, FS_RemoveElement
  <2>7. SumOver(g, A \cup r) = SumOver(g, A) + SumOver(g, r)
    <3> HIDE DEF r
    <3>1. r \notin Wrong
      BY <2>2, <2>6
    <3> QED BY <2>6, <3>1 DEF Wrong
  <2>8. SumOver(g, r) \in Nat /\ g[y] \in Nat
    BY <2>3, <2>5, <2>6, SumOverStep
  <2>9. SumOver(g, s) = SumOver(g, r) + g[y]
    <3> HIDE DEF Wrong
    <3>1. IsFiniteSet(s) /\ \A x \in s : g[x] \in Nat
      BY <2>3, FS_Subset
    <3>2. SumOver(g, s) = g[y] + SumOver(g, s \ {y})
      BY <2>5, <3>1, SumOverRemove
    <3> HIDE DEF r
    <3> QED BY <2>8, <3>2 DEF r
  <2>10. SumOver(g, A \cup s) = SumOver(g, A \cup r) + g[y]
    <3> HIDE DEF Wrong
    <3> DEFINE u == A \cup s
    <3>1. y \in u /\ u \ {y} = A \cup r /\ \A x \in u : g[x] \in Nat
      BY <2>3, <2>5
    <3>2. IsFiniteSet(u) /\ IsFiniteSet(A \cup r)
      <4>1. IsFiniteSet(s)
        BY <2>3, FS_Subset
      <4> QED BY <2>6, <4>1, FS_Union
    <3> HIDE DEF u, r
    <3>3. SumOver(g, u) = g[y] + SumOver(g, u \ {y})
      BY <3>1, <3>2, SumOverRemove
    <3>4. SumOver(g, A \cup r) \in Nat
      <4>1. \A x \in A \cup r : g[x] \in Nat
        BY <3>1
      <4> QED BY <3>2, <4>1, SumOverStep
    <3>5. SumOver(g, u) = SumOver(g, A \cup r) + g[y]
      BY <2>8, <3>1, <3>3, <3>4
    <3> QED BY <3>5 DEF u
  <2> HIDE DEF r
  <2> QED BY <2>3, <2>4, <2>7, <2>8, <2>9, <2>10
<1>2. B \notin Wrong
  BY <1>1
<1> QED BY <1>2

\* and over any number of them, each with its own sum.
LEMMA SumOverParts ==
    ASSUME NEW S, IsFiniteSet(S), NEW part, NEW g, NEW h,
           \A s \in S : /\ IsFiniteSet(part[s]) /\ \A x \in part[s] : g[x] \in Nat
                        /\ h[s] = SumOver(g, part[s]),
           \A s, t \in S : s # t => part[s] \cap part[t] = {}
    PROVE  SumOver(h, S) = SumOver(g, UNION {part[s] : s \in S})
<1> DEFINE Whole(T) == UNION {part[s] : s \in T}
           Wrong == {T \in SUBSET S : SumOver(h, T) # SumOver(g, Whole(T))}
<1>1. ASSUME NEW s \in S PROVE h[s] \in Nat
  <2>1. SumOver(g, part[s]) \in Nat
    BY SumOverStep
  <2> QED BY <2>1
<1>2. ASSUME NEW T \in SUBSET S
      PROVE  IsFiniteSet(T) /\ IsFiniteSet(Whole(T)) /\ \A x \in Whole(T) : g[x] \in Nat
  <2>1. IsFiniteSet(T)
    BY FS_Subset
  <2>2. IsFiniteSet({part[s] : s \in T})
    <3> DEFINE R == {part[s] : s \in T}
               f == [s \in T |-> part[s]]
    <3>1. f \in [T -> R] /\ \A u \in R : \E s \in T : f[s] = u
      OBVIOUS
    <3>2. f \in Surjection(T, R)
      BY <3>1 DEF Surjection
    <3> HIDE DEF f, R
    <3> QED BY <2>1, <3>2, FS_Surjection DEF R
  <2>3. IsFiniteSet(Whole(T))
    BY <2>2, FS_UNION
  <2> QED BY <2>1, <2>3
<1>3. Wrong = {}
  <2> SUFFICES ASSUME Wrong # {} PROVE FALSE
    OBVIOUS
  <2>1. Wrong \in SUBSET (SUBSET S)
    OBVIOUS
  <2>2. PICK T \in Wrong : \A C \in Wrong : C \subseteq T => C = T
    <3> HIDE DEF Wrong
    <3> QED BY <2>1, LeastSubset
  <2>3. T \in SUBSET S /\ SumOver(h, T) # SumOver(g, Whole(T))
    OBVIOUS
  <2>4. PICK a : a \in T
    <3>1. CASE T = {}
      <4>1. Whole(T) = {}
        BY <3>1
      <4> HIDE DEF Whole
      <4>2. SumOver(h, {}) = 0 /\ SumOver(g, {}) = 0
        BY FS_EmptySet, SumOverStep
      <4> QED BY <2>3, <3>1, <4>1, <4>2
    <3> QED BY <3>1
  <2> DEFINE R == T \ {a}
  <2>5. R \in SUBSET S /\ R \subseteq T /\ R # T
    BY <2>3, <2>4
  <2>6. SumOver(h, R) = SumOver(g, Whole(R))
    <3> HIDE DEF R, Whole
    <3>1. R \notin Wrong
      BY <2>2, <2>5
    <3> QED BY <2>5, <3>1 DEF Wrong
  <2>7. SumOver(h, T) = h[a] + SumOver(h, R)
    BY <1>1, <1>2, <2>3, <2>4, SumOverRemove
  <2>8. Whole(T) = Whole(R) \cup part[a] /\ Whole(R) \cap part[a] = {}
    BY <2>3, <2>4
  <2>9. SumOver(g, Whole(T)) = SumOver(g, Whole(R)) + h[a]
    <3>1. /\ IsFiniteSet(Whole(R)) /\ IsFiniteSet(part[a])
          /\ \A x \in Whole(R) \cup part[a] : g[x] \in Nat
      BY <1>2, <2>3, <2>4, <2>5
    <3>2. h[a] = SumOver(g, part[a])
      BY <2>3, <2>4
    <3> HIDE DEF Whole, R
    <3>3. SumOver(g, Whole(R) \cup part[a]) = SumOver(g, Whole(R)) + SumOver(g, part[a])
      BY <2>8, <3>1, SumOverUnion
    <3> QED BY <2>8, <3>2, <3>3
  <2>10. SumOver(h, R) \in Nat /\ h[a] \in Nat
    BY <1>1, <1>2, <2>3, <2>4, <2>5, SumOverStep
  <2> HIDE DEF R, Whole
  <2> QED BY <2>3, <2>6, <2>7, <2>9, <2>10
<1>4. S \notin Wrong
  BY <1>3
<1> QED BY <1>4

-----------------------------------------------------------------------------
\* A finite set as a sequence.
LEMMA SetAsSequence ==
    ASSUME NEW S, IsFiniteSet(S)
    PROVE  /\ SetToSeq(S) \in Seq(S) /\ Len(SetToSeq(S)) = Cardinality(S)
           /\ \A i, j \in 1 .. Cardinality(S) :
                 SetToSeq(S)[i] = SetToSeq(S)[j] => i = j
           /\ \A x \in S : \E i \in 1 .. Cardinality(S) : SetToSeq(S)[i] = x
<1> DEFINE n == Cardinality(S)
           Inj(f) == \A a, b \in DOMAIN f : f[a] = f[b] => a = b
<1>1. n \in Nat /\ ExistsBijection(1 .. n, S)
  BY FS_CardinalityType
<1>2. \E f \in [1 .. n -> S] : IsInjective(f)
  BY <1>1 DEF ExistsBijection, Bijection, Injection, IsInjective
<1> DEFINE q == CHOOSE f \in [1 .. n -> S] : IsInjective(f)
<1>3. q \in [1 .. n -> S] /\ IsInjective(q)
  BY <1>2
<1>4. SetToSeq(S) = q
  BY DEF SetToSeq
<1> HIDE DEF q, n
<1>5. \A i, j \in 1 .. n : q[i] = q[j] => i = j
  BY <1>3 DEF IsInjective
<1>6. q \in Seq(S) /\ Len(q) = n
  BY <1>1, <1>3
<1>7. q \in Injection(1 .. n, S)
  BY <1>3, <1>5 DEF Injection
<1>8. q \in Surjection(1 .. n, S)
  <2>1. Cardinality(1 .. n) = n
    BY <1>1, FS_Interval
  <2> QED BY <1>7, <2>1, FS_Injection DEF n
<1>9. \A x \in S : \E i \in 1 .. n : q[i] = x
  BY <1>8 DEF Surjection
<1> QED BY <1>4, <1>5, <1>6, <1>9 DEF n

-----------------------------------------------------------------------------
(* A top of a top.                                                         *)

\* _update_client_top sees only the partial top T of an aggregator's items Q, and
\* what the aggregator left out is never missed.
THEOREM TopOfPartialTop ==
    ASSUME NEW P \in SUBSET Items, IsFiniteSet(P), NEW Q \in SUBSET Items, IsFiniteSet(Q),
           NEW T, IsTop(T, Q), NEW H, IsTop(H, P \cup T)
    PROVE  IsTop(H, P \cup Q)
<1>1. /\ T \subseteq Q /\ T \in SUBSET Items /\ IsFiniteSet(T)
      /\ T # Q => Cardinality(T) = TopSize
  BY PartialHeapIsFull
<1>2. P \cup T \in SUBSET Items /\ IsFiniteSet(P \cup T)
  BY <1>1, FS_Union
<1>3. /\ H \subseteq P \cup T /\ IsFiniteSet(H)
      /\ Cardinality(H) \in Nat /\ Cardinality(H) <= TopSize
      /\ H # P \cup T => Cardinality(H) = TopSize
  BY <1>2, PartialHeapIsFull
<1>4. ASSUME T # Q, T \subseteq H PROVE T = H
  BY <1>1, <1>3, <1>4, FullHeapInside
<1>5. H = P \cup Q \/ Cardinality(H) = TopSize
  <2> SUFFICES ASSUME H # P \cup Q, H = P \cup T PROVE Cardinality(H) = TopSize
    BY <1>3
  <2>1. T # Q /\ T \subseteq H
    OBVIOUS
  <2> QED BY <1>1, <1>4, <2>1
<1>6. ASSUME NEW x \in H, NEW y \in (P \cup Q) \ H PROVE ~Less(x, y)
  <2>1. \A z \in (P \cup T) \ H : ~Less(x, z)
    BY DEF IsTop
  <2>2. CASE y \in P \cup T
    BY <2>1, <2>2
  <2>3. CASE y \notin P \cup T
    <3>1. y \in Q \ T /\ \A z \in T : ~Less(z, y)
      BY <2>3 DEF IsTop
    <3>2. CASE T \subseteq H
      <4>1. T = H
        BY <1>4, <3>1, <3>2
      <4> QED BY <3>1, <4>1
    <3>3. CASE ~(T \subseteq H)
      <4>1. PICK z \in T : z \notin H
        BY <3>3
      <4>2. ~Less(x, z) /\ ~Less(z, y)
        BY <2>1, <3>1, <4>1
      <4>3. x \in Items /\ y \in Items /\ z \in Items
        BY <1>1, <1>2, <1>3
      <4> QED BY <4>2, <4>3, NotLessTransitive
    <3> QED BY <3>2, <3>3
  <2> QED BY <2>2, <2>3
<1>7. H \subseteq P \cup Q
  BY <1>1, <1>3
<1> QED BY <1>3, <1>5, <1>6, <1>7 DEF IsTop

-----------------------------------------------------------------------------
(* The part an item came in makes no difference to the order.              *)

InPart(x, p) == [x EXCEPT !.part = p]

\* The items of S, x in part p[x].
Parted(S, p) == {InPart(x, p[x]) : x \in S}

DistinctFruits(S) == \A x, y \in S : x.fruit = y.fruit => x = y

LEMMA InPartItem ==
    ASSUME NEW x \in Items, NEW n \in Nat
    PROVE  /\ InPart(x, n) \in Items
           /\ InPart(x, n).fruit = x.fruit /\ InPart(x, n).amount = x.amount
BY DEF InPart, Items

\* Which items of S are in heap H, when those of S came in some parts.
LEMMA PartedTop ==
    ASSUME NEW S \in SUBSET Items, IsFiniteSet(S), DistinctFruits(S),
           NEW p, \A x \in S : p[x] \in Nat
    PROVE  /\ Parted(S, p) \in SUBSET Items /\ IsFiniteSet(Parted(S, p))
           /\ \A T \in SUBSET S :
                 /\ Cardinality(Parted(T, p)) = Cardinality(T)
                 /\ IsTop(T, S) => IsTop(Parted(T, p), Parted(S, p))
           /\ \A H : IsTop(H, Parted(S, p)) =>
                 \E T \in SUBSET S : H = Parted(T, p) /\ IsTop(T, S)
<1>1. ASSUME NEW x \in S
      PROVE  /\ InPart(x, p[x]) \in Items
             /\ InPart(x, p[x]).fruit = x.fruit /\ InPart(x, p[x]).amount = x.amount
  BY InPartItem
<1>2. ASSUME NEW x \in S, NEW y \in S
      PROVE  /\ Less(InPart(x, p[x]), InPart(y, p[y])) <=> Less(x, y)
             /\ InPart(x, p[x]) = InPart(y, p[y]) => x = y
  BY <1>1 DEF Less, DistinctFruits
<1>3. ASSUME NEW T \in SUBSET S
      PROVE  IsFiniteSet(Parted(T, p)) /\ Cardinality(Parted(T, p)) = Cardinality(T)
  <2> DEFINE f == [x \in T |-> InPart(x, p[x])]
  <2>1. f \in Bijection(T, Parted(T, p))
    <3>1. f \in [T -> Parted(T, p)]
      BY DEF Parted
    <3>2. \A x, y \in T : f[x] = f[y] => x = y
      BY <1>2
    <3>3. \A z \in Parted(T, p) : \E x \in T : f[x] = z
      BY DEF Parted
    <3> HIDE DEF f
    <3> QED BY <3>1, <3>2, <3>3 DEF Bijection, Injection, Surjection, IsInjective
  <2>2. IsFiniteSet(T) /\ ExistsBijection(T, Parted(T, p))
    BY <2>1, FS_Subset DEF ExistsBijection
  <2> QED BY <2>2, FS_Bijection
<1>4. Parted(S, p) \in SUBSET Items
  BY <1>1 DEF Parted
<1>5. ASSUME NEW T \in SUBSET S
      PROVE  IsTop(T, S) <=> IsTop(Parted(T, p), Parted(S, p))
  <2>1. Parted(T, p) \subseteq Parted(S, p)
    BY DEF Parted
  <2>2. T = S <=> Parted(T, p) = Parted(S, p)
    BY <1>2 DEF Parted
  <2>3. Cardinality(Parted(T, p)) = Cardinality(T) /\ Cardinality(Parted(S, p)) = Cardinality(S)
    BY <1>3
  <2>4. (\A x \in T, y \in S \ T : ~Less(x, y))
        <=> \A x \in Parted(T, p), y \in Parted(S, p) \ Parted(T, p) : ~Less(x, y)
    <3>1. ASSUME \A x \in T, y \in S \ T : ~Less(x, y),
                 NEW x \in Parted(T, p), NEW y \in Parted(S, p) \ Parted(T, p)
          PROVE  ~Less(x, y)
      <4>1. PICK u \in T : x = InPart(u, p[u])
        BY DEF Parted
      <4>2. PICK v \in S : y = InPart(v, p[v])
        BY DEF Parted
      <4>3. v \notin T
        BY <4>2, <3>1 DEF Parted
      <4> QED BY <1>2, <3>1, <4>1, <4>2, <4>3
    <3>2. ASSUME \A x \in Parted(T, p), y \in Parted(S, p) \ Parted(T, p) : ~Less(x, y),
                 NEW x \in T, NEW y \in S \ T
          PROVE  ~Less(x, y)
      <4>1. InPart(x, p[x]) \in Parted(T, p) /\ InPart(y, p[y]) \in Parted(S, p)
        BY DEF Parted
      <4>2. InPart(y, p[y]) \notin Parted(T, p)
        BY <1>2 DEF Parted
      <4> QED BY <1>2, <3>2, <4>1, <4>2
    <3> QED BY <3>1, <3>2
  <2> QED BY <2>1, <2>2, <2>3, <2>4 DEF IsTop
<1>6. ASSUME NEW H, IsTop(H, Parted(S, p))
      PROVE  \E T \in SUBSET S : H = Parted(T, p) /\ IsTop(T, S)
  <2> DEFINE T == {x \in S : InPart(x, p[x]) \in H}
  <2>1. H = Parted(T, p)
    BY <1>6 DEF Parted, IsTop
  <2>2. T \in SUBSET S
    OBVIOUS
  <2> HIDE DEF T
  <2> QED BY <1>5, <1>6, <2>1, <2>2
<1> QED BY <1>3, <1>4, <1>5, <1>6

-----------------------------------------------------------------------------
(* The ranking.                                                            *)

\* Among different fruits nothing ties.
LEMMA BeatsIsLess ==
    ASSUME NEW x \in Items, NEW y \in Items, x.fruit # y.fruit
    PROVE  Beats(y, x) <=> Less(x, y)
<1>1. /\ x.amount \in Nat /\ y.amount \in Nat
      /\ x.fruit \in Nat /\ y.fruit \in Nat
  BY FruitsAssumption DEF Items
<1> QED BY <1>1 DEF Beats, Less

LEMMA NotBeatenByItself ==
    ASSUME NEW x \in Items
    PROVE  ~Beats(x, x) /\ ~Less(x, x)
<1>1. x.amount \in Nat /\ x.fruit \in Nat /\ x.part \in Nat
  BY FruitsAssumption DEF Items
<1> QED BY <1>1 DEF Beats, Less

Above(x, S) == {y \in S : Beats(y, x)}

LEMMA RankType ==
    ASSUME NEW S \in SUBSET Items, IsFiniteSet(S), NEW x \in S
    PROVE  Rank(x, S) \in Nat /\ Rank(x, S) < Cardinality(S) /\ Rank(x, S) = Cardinality(Above(x, S))
<1>1. Above(x, S) \in SUBSET S /\ x \notin Above(x, S)
  BY NotBeatenByItself DEF Above
<1>2. IsFiniteSet(Above(x, S)) /\ Cardinality(Above(x, S)) <= Cardinality(S)
      /\ (Cardinality(S) = Cardinality(Above(x, S)) => S = Above(x, S))
  BY <1>1, FS_Subset
<1>3. Cardinality(Above(x, S)) \in Nat /\ Cardinality(S) \in Nat
  BY <1>2, FS_CardinalityType
<1>4. Rank(x, S) = Cardinality(Above(x, S))
  BY DEF Rank, Above
<1> QED BY <1>1, <1>2, <1>3, <1>4

\* Two items of different fruits have different ranks.
LEMMA RankInjective ==
    ASSUME NEW S \in SUBSET Items, IsFiniteSet(S), DistinctFruits(S),
           NEW x \in S, NEW y \in S, Less(x, y)
    PROVE  Rank(y, S) < Rank(x, S)
<1>1. x \in Items /\ y \in Items
  OBVIOUS
<1>2. x # y /\ x.fruit # y.fruit
  BY NotBeatenByItself DEF DistinctFruits
<1>3. Beats(y, x) /\ ~Beats(y, y)
  BY <1>2, BeatsIsLess, NotBeatenByItself
<1>4. ASSUME NEW z \in Above(y, S) PROVE z \in Above(x, S)
  <2>1. z \in S /\ Beats(z, y) /\ z # y
    BY NotBeatenByItself DEF Above
  <2>2. Less(y, z)
    BY <2>1, BeatsIsLess DEF DistinctFruits
  <2>3. Less(x, z) /\ z # x
    BY <1>1, <2>1, <2>2, LessTransitive, NotBeatenByItself
  <2> QED BY <2>1, <2>3, BeatsIsLess DEF Above, DistinctFruits
<1>5. y \in Above(x, S) /\ y \notin Above(y, S) /\ Above(y, S) \subseteq Above(x, S)
  BY <1>3, <1>4 DEF Above
<1>6. IsFiniteSet(Above(x, S))
  BY FS_Subset DEF Above
<1>7. /\ Cardinality(Above(y, S)) <= Cardinality(Above(x, S))
      /\ Cardinality(Above(y, S)) # Cardinality(Above(x, S))
  BY <1>5, <1>6, FS_Subset
<1> QED BY <1>7, RankType

LEMMA RankUnique ==
    ASSUME NEW S \in SUBSET Items, IsFiniteSet(S), DistinctFruits(S),
           NEW x \in S, NEW y \in S, Rank(x, S) = Rank(y, S)
    PROVE  x = y
<1> SUFFICES ASSUME x # y PROVE FALSE
  OBVIOUS
<1>1. x.fruit # y.fruit
  BY DEF DistinctFruits
<1>2. Less(x, y) \/ Less(y, x)
  <2>1. /\ x.amount \in Nat /\ y.amount \in Nat
        /\ x.fruit \in Nat /\ y.fruit \in Nat
    BY FruitsAssumption DEF Items
  <2> QED BY <1>1, <2>1 DEF Less
<1>3. Rank(x, S) \in Nat /\ Rank(y, S) \in Nat
  BY RankType
<1> QED BY <1>2, <1>3, RankInjective

\* Every position of the ranking is taken.
LEMMA RankExists ==
    ASSUME NEW S \in SUBSET Items, IsFiniteSet(S), DistinctFruits(S),
           NEW i \in 1 .. Cardinality(S)
    PROVE  \E x \in S : Rank(x, S) = i - 1
<1> DEFINE n == Cardinality(S)
           T == 0 .. n - 1
           f == [x \in S |-> Rank(x, S)]
<1>1. n \in Nat
  BY FS_CardinalityType
<1>2. f \in [S -> T]
  BY <1>1, RankType
<1>3. \A x, y \in S : f[x] = f[y] => x = y
  BY RankUnique
<1>4. IsFiniteSet(T) /\ Cardinality(T) = n
  <2> HIDE DEF n
  <2>1. 0 \in Int /\ n - 1 \in Int
    BY <1>1
  <2>2. IsFiniteSet(T) /\ Cardinality(T) = IF 0 > n - 1 THEN 0 ELSE (n - 1) - 0 + 1
    BY <2>1, FS_Interval
  <2> QED BY <1>1, <2>2
<1> HIDE DEF f, T
<1>5. f \in Injection(S, T)
  BY <1>2, <1>3 DEF Injection, IsInjective
<1>6. f \in Surjection(S, T)
  BY <1>4, <1>5, FS_Injection
<1>7. i - 1 \in T
  BY <1>1 DEF T
<1>8. PICK x \in S : f[x] = i - 1
  BY <1>6, <1>7 DEF Surjection
<1> QED BY <1>8 DEF f

\* The item at position i.
LEMMA RankedAt ==
    ASSUME NEW S \in SUBSET Items, IsFiniteSet(S), DistinctFruits(S),
           NEW i \in 1 .. Cardinality(S), NEW x \in S, Rank(x, S) = i - 1
    PROVE  Ranked(S)[i] = << x.fruit, x.amount >>
<1> DEFINE y == CHOOSE z \in S : Rank(z, S) = i - 1
<1>1. y \in S /\ Rank(y, S) = i - 1
  OBVIOUS
<1>2. Ranked(S)[i] = << y.fruit, y.amount >>
  BY DEF Ranked
<1> HIDE DEF y
<1>3. y = x
  BY <1>1, RankUnique
<1> QED BY <1>2, <1>3

LEMMA RankedType ==
    ASSUME NEW S \in SUBSET Items, IsFiniteSet(S), DistinctFruits(S)
    PROVE  Ranked(S) \in Seq(Fruits \X Nat) /\ Len(Ranked(S)) = Cardinality(S)
<1>1. Cardinality(S) \in Nat
  BY FS_CardinalityType
<1> DEFINE item(i) == CHOOSE x \in S : Rank(x, S) = i - 1
<1>2. Ranked(S) = [i \in 1 .. Cardinality(S) |-> << item(i).fruit, item(i).amount >>]
  BY DEF Ranked
<1>3. ASSUME NEW i \in 1 .. Cardinality(S)
      PROVE  << item(i).fruit, item(i).amount >> \in Fruits \X Nat
  <2>1. item(i) \in S
    BY RankExists
  <2> HIDE DEF item
  <2> QED BY <2>1 DEF Items
<1> HIDE DEF item
<1>4. Ranked(S) \in [1 .. Cardinality(S) -> Fruits \X Nat]
  BY <1>2, <1>3
<1> HIDE DEF Ranked
<1> QED BY <1>1, <1>4

\* The ranking of a top is the beginning of the ranking of everything, whatever
\* parts the items came in.
THEOREM RankingOfTop ==
    ASSUME NEW S \in SUBSET Items, IsFiniteSet(S), DistinctFruits(S),
           NEW p, \A x \in S : p[x] \in Nat,
           NEW H, IsTop(H, Parted(S, p)),
           NEW k, k = IF Cardinality(S) < TopSize THEN Cardinality(S) ELSE TopSize
    PROVE  Ranked(H) = SubSeq(Ranked(S), 1, k)
<1>1. PICK T \in SUBSET S : H = Parted(T, p) /\ IsTop(T, S)
  BY PartedTop
<1>2. /\ Parted(S, p) \in SUBSET Items /\ IsFiniteSet(Parted(S, p))
      /\ Cardinality(H) = Cardinality(T)
  BY <1>1, PartedTop
<1>3. /\ H \in SUBSET Items /\ IsFiniteSet(H) /\ IsFiniteSet(T)
      /\ Cardinality(T) \in Nat /\ Cardinality(S) \in Nat /\ k \in Nat /\ k <= Cardinality(S)
      /\ Cardinality(T) = k
  <2>1. H \subseteq Parted(S, p) /\ IsFiniteSet(H)
    BY <1>2, PartialHeapIsFull
  <2>2. IsFiniteSet(T) /\ Cardinality(T) <= Cardinality(S) /\ (Cardinality(S) = Cardinality(T) => S = T)
    BY FS_Subset
  <2>3. Cardinality(T) \in Nat /\ Cardinality(S) \in Nat
    BY <2>2, FS_CardinalityType
  <2>4. (T = S /\ Cardinality(S) <= TopSize) \/ Cardinality(T) = TopSize
    BY <1>1 DEF IsTop
  <2> QED BY <1>2, <2>1, <2>2, <2>3, <2>4, TopSizeAssumption
<1>4. ASSUME NEW x \in S
      PROVE  /\ InPart(x, p[x]) \in Items /\ x \in Items
             /\ InPart(x, p[x]).fruit = x.fruit /\ InPart(x, p[x]).amount = x.amount
  BY InPartItem
<1>5. DistinctFruits(H)
  <2> SUFFICES ASSUME NEW x \in H, NEW y \in H, x.fruit = y.fruit PROVE x = y
    BY DEF DistinctFruits
  <2>1. PICK u \in T : x = InPart(u, p[u])
    BY <1>1 DEF Parted
  <2>2. PICK v \in T : y = InPart(v, p[v])
    BY <1>1 DEF Parted
  <2>3. u = v
    BY <1>4, <2>1, <2>2 DEF DistinctFruits
  <2> QED BY <2>1, <2>2, <2>3
\* An item of the top has the same rank in the heap and among all.
<1>6. ASSUME NEW x \in T
      PROVE  Rank(InPart(x, p[x]), H) = Rank(x, S)
  <2> DEFINE z == InPart(x, p[x])
  <2>1. Above(x, S) \subseteq T
    <3> SUFFICES ASSUME NEW y \in Above(x, S), y \notin T PROVE FALSE
      OBVIOUS
    <3>1. y \in S /\ Beats(y, x) /\ y # x
      BY DEF Above
    <3>2. y.fruit # x.fruit
      BY <3>1 DEF DistinctFruits
    <3>3. Less(x, y)
      BY <1>4, <3>1, <3>2, BeatsIsLess
    <3>4. ~Less(x, y)
      BY <1>1, <3>1 DEF IsTop
    <3> QED BY <3>3, <3>4
  <2>2. ASSUME NEW y \in T
        PROVE  Beats(InPart(y, p[y]), z) <=> Beats(y, x)
    <3>1. CASE y = x
      BY <3>1, <1>4, NotBeatenByItself
    <3>2. CASE y # x
      <4>1. y.fruit # x.fruit
        BY <3>2 DEF DistinctFruits
      <4>2. (Beats(y, x) <=> Less(x, y)) /\ (Beats(InPart(y, p[y]), z) <=> Less(z, InPart(y, p[y])))
        BY <1>4, <4>1, BeatsIsLess
      <4>3. Less(z, InPart(y, p[y])) <=> Less(x, y)
        BY <1>4 DEF Less
      <4> QED BY <4>2, <4>3
    <3> QED BY <3>1, <3>2
  <2>3. z \in H
    BY <1>1 DEF Parted
  <2> HIDE DEF z
  <2>4. Above(z, H) = Parted(Above(x, S), p)
    <3>1. ASSUME NEW y \in Above(z, H) PROVE y \in Parted(Above(x, S), p)
      <4>1. PICK v \in T : y = InPart(v, p[v])
        BY <1>1 DEF Parted, Above
      <4>2. v \in Above(x, S)
        BY <2>2, <4>1 DEF Above
      <4> QED BY <4>1, <4>2 DEF Parted
    <3>2. ASSUME NEW y \in Parted(Above(x, S), p) PROVE y \in Above(z, H)
      <4>1. PICK v \in Above(x, S) : y = InPart(v, p[v])
        BY DEF Parted
      <4>2. v \in T /\ Beats(v, x)
        BY <2>1 DEF Above
      <4>3. Beats(y, z) /\ y \in H
        BY <1>1, <2>2, <4>1, <4>2 DEF Parted
      <4> QED BY <4>3 DEF Above
    <3> QED BY <3>1, <3>2
  <2>5. Cardinality(Parted(Above(x, S), p)) = Cardinality(Above(x, S))
    <3>1. Above(x, S) \in SUBSET S
      BY DEF Above
    <3> QED BY <3>1, PartedTop
  <2>6. Rank(z, H) = Cardinality(Above(z, H)) /\ Rank(x, S) = Cardinality(Above(x, S))
    BY DEF Rank, Above
  <2> QED BY <2>4, <2>5, <2>6 DEF z
<1>7. ASSUME NEW i \in 1 .. k
      PROVE  Ranked(H)[i] = Ranked(S)[i]
  <2>1. i \in 1 .. Cardinality(H) /\ i \in 1 .. Cardinality(S)
    BY <1>2, <1>3
  <2>2. PICK z \in H : Rank(z, H) = i - 1
    BY <1>3, <1>5, <2>1, RankExists
  <2>3. PICK x \in T : z = InPart(x, p[x])
    BY <1>1 DEF Parted
  <2>4. x \in S /\ Rank(x, S) = i - 1
    BY <1>6, <2>2, <2>3
  <2>5. Ranked(H)[i] = << z.fruit, z.amount >>
    BY <1>3, <1>5, <2>1, <2>2, RankedAt
  <2>6. Ranked(S)[i] = << x.fruit, x.amount >>
    BY <2>1, <2>4, RankedAt
  <2> QED BY <1>4, <2>3, <2>4, <2>5, <2>6
<1>8. /\ Ranked(H) \in Seq(Fruits \X Nat) /\ Len(Ranked(H)) = k
      /\ Ranked(S) \in Seq(Fruits \X Nat) /\ Len(Ranked(S)) = Cardinality(S)
  BY <1>2, <1>3, <1>5, RankedType
<1> HIDE DEF Ranked
<1>9. /\ SubSeq(Ranked(S), 1, k) \in Seq(Fruits \X Nat)
      /\ Len(SubSeq(Ranked(S), 1, k)) = k
      /\ \A i \in 1 .. k : SubSeq(Ranked(S), 1, k)[i] = Ranked(S)[i]
  <2>1. 1 \in 1 .. Len(Ranked(S)) + 1 /\ k \in (1 - 1) .. Len(Ranked(S))
    BY <1>3, <1>8
  <2>2. /\ SubSeq(Ranked(S), 1, k) \in Seq(Fruits \X Nat)
        /\ Len(SubSeq(Ranked(S), 1, k)) = (k - 1) + 1
        /\ \A i \in 1 .. (k - 1) + 1 : SubSeq(Ranked(S), 1, k)[i] = Ranked(S)[1 + i - 1]
    BY <1>8, <2>1, SubSeqProperties
  <2>3. (k - 1) + 1 = k /\ \A i \in 1 .. k : 1 + i - 1 = i
    BY <1>3
  <2> QED BY <2>2, <2>3
<1> QED BY <1>7, <1>8, <1>9, SeqEqual
================================================================================

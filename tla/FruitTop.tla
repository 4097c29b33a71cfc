------------------------------- MODULE FruitTop -------------------------------
(***************************************************************************)
(* The order of FruitItem and the bounded heap that Aggregation            *)
(* (_find_top_fruits) and Join (_update_client_top) both keep.             *)
(*                                                                         *)
(* An item is a fruit and its amount.  Fruits are numbers: their rank in   *)
(* the order of their names.  A heapq list is the set of what it holds,    *)
(* its first element a least one; "part" tells equal items of a list apart *)
(* (Join can be given the same fruit and amount twice).                    *)
(***************************************************************************)
EXTENDS Naturals, FiniteSets, SequencesExt

CONSTANTS Fruits, TopSize

ASSUME FruitsAssumption  == Fruits \subseteq Nat
ASSUME TopSizeAssumption == TopSize \in Nat \ {0}

Item(f, n, p) == [fruit |-> f, amount |-> n, part |-> p]
Items == [fruit : Fruits, amount : Nat, part : Nat]

\* FruitItem.__lt__
Less(x, y) ==
    \/ x.amount < y.amount
    \/ x.amount = y.amount /\ x.fruit < y.fruit

\* heap[0]
Least(heap) == CHOOSE x \in heap : \A y \in heap : ~Less(y, x)

\* Mutant: a full heap grows, the least item is pushed out of nothing.
OfferOneMore(heap, item) ==
    IF Cardinality(heap) <= TopSize THEN heap \cup {item}
    ELSE IF Less(Least(heap), item) THEN (heap \ {Least(heap)}) \cup {item}
    ELSE heap

\* Mutant: the comparison with the least item the other way round.
OfferLesser(heap, item) ==
    IF Cardinality(heap) < TopSize THEN heap \cup {item}
    ELSE IF Less(item, Least(heap)) THEN (heap \ {Least(heap)}) \cup {item}
    ELSE heap

\* heappush while there is room, heapreplace when the item beats the least.
Offer(heap, item) ==
    IF Cardinality(heap) < TopSize THEN heap \cup {item}
    ELSE IF Less(Least(heap), item) THEN (heap \ {Least(heap)}) \cup {item}
    ELSE heap

\* The loop: items offered one by one.
OfferAll(heap, items) == FoldSet(LAMBDA item, h : Offer(h, item), heap, items)

\* Sorted in reverse.  Which of two equal items comes first makes no difference
\* to the list of pairs; here it is the one of the earlier part.
Beats(x, y) == Less(y, x) \/ (~Less(x, y) /\ x.part < y.part)

Rank(x, items) == Cardinality({y \in items : Beats(y, x)})

\* sorted(heap, reverse=True), then the list of pairs
Ranked(items) ==
    [i \in 1 .. Cardinality(items) |->
        LET item == CHOOSE x \in items : Rank(x, items) = i - 1
        IN << item.fruit, item.amount >>]

\* A client's final top, as Join publishes it.
Result(c, top) == [client |-> c, top |-> top]

\* What the heap is for, said of any order of arrival: as many items as fit,
\* none of those left out greater than one that is in.
IsTop(heap, items) ==
    /\ heap \subseteq items
    /\ \/ heap = items /\ Cardinality(items) <= TopSize
       \/ Cardinality(heap) = TopSize
    /\ \A x \in heap, y \in items \ heap : ~Less(x, y)
===============================================================================

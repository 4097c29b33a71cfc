------------------------------- MODULE StreamTop -------------------------------
(***************************************************************************)
(* The loop of _find_top_fruits and _update_client_top as steps: items     *)
(* come in any order, one at a time, each at most once, and the heap never *)
(* sees the whole.                                                         *)
(***************************************************************************)
EXTENDS FruitTop

CONSTANT Stream    \* the items that may come

ASSUME StreamAssumption == Stream \subseteq Items

VARIABLES offered, heap

vars == << offered, heap >>

Init == offered = {} /\ heap = {}

Take(item) ==
    /\ item \notin offered
    /\ offered' = offered \cup {item}
    /\ heap' = Offer(heap, item)

Next == \E item \in Stream : Take(item)

Spec == Init /\ [][Next]_vars

\* The heap never outgrows TOP_SIZE.
TypeOK ==
    /\ offered \in SUBSET Stream /\ heap \in SUBSET offered
    /\ IsFiniteSet(heap) /\ Cardinality(heap) <= TopSize

\* At every point of the loop, in every order of arrival and with equal items
\* about, the bounded heap is a top of all that was offered so far.
HeapIsTop == IsTop(heap, offered)
================================================================================

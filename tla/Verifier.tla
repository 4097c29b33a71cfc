-------------------------------- MODULE Verifier --------------------------------
(***************************************************************************)
(* verify_output.py: when it accepts what a client has written, with       *)
(* FruitItem's order from FruitTop.                                        *)
(***************************************************************************)
EXTENDS FruitTop

CONSTANT MaxTotal     \* bound on a fruit's total

ASSUME MaxTotalAssumption == MaxTotal \in Nat

VARIABLE inputTotal   \* the case looked at: the totals of a client's fruits

\* build_input_fruit_top: every fruit of the input, the greatest first.
ExpectedTop(total) == Ranked({Item(f, total[f], 0) : f \in DOMAIN total})

\* Mutant: the last position is not compared.
DiffersBeforeLast(expected, received) == \E i \in 1 .. TopSize - 1 : expected[i] # received[i]

Differs(expected, received) == \E i \in 1 .. TopSize : expected[i] # received[i]

\* An IndexError, when either list ends before the loop does.
OutOfRange(expected, received) == Len(expected) < TopSize \/ Len(received) < TopSize

\* verify_client_output
Accepts(expected, received) ==
    /\ ~OutOfRange(expected, received)
    /\ ~Differs(expected, received)
    /\ Len(received) = TopSize

-----------------------------------------------------------------------------
\* The totals of a client's input, any set of fruits.
Inputs == UNION {[fs -> 0 .. MaxTotal] : fs \in SUBSET Fruits}

\* What the system answers, by FruitTop's reference definition.
ExactTops(total) ==
    LET items == {Item(f, total[f], 0) : f \in DOMAIN total}
    IN {Ranked(heap) : heap \in {h \in SUBSET items : IsTop(h, items)}}

Outputs == UNION {[1 .. n -> Fruits \X (0 .. MaxTotal)] : n \in 0 .. TopSize}

\* The verifier accepts the exact top and nothing else, and not even that of an
\* input with fewer fruits than TOP_SIZE, on which it runs out of its own list.
AcceptsExactTop ==
    {output \in Outputs : Accepts(ExpectedTop(inputTotal), output)} =
        IF Cardinality(DOMAIN inputTotal) >= TopSize THEN ExactTops(inputTotal) ELSE {}
================================================================================

------------------------------ MODULE MCStreamTop ------------------------------
(* The pure functions.  StreamTop: three fruits with amounts that tie, one  *)
(* fruit twice with equal amounts, as Join receives it when an aggregator   *)
(* answers twice.  ExternalProtocol: characters of one, two and three bytes, *)
(* numbers on both sides of the two bytes they take here.                   *)
(*                                                                         *)
(* From the first state, either the stream comes or one case is looked at. *)
EXTENDS StreamTop, ExternalProtocol, Verifier

MCStream == {Item(f, n, 0) : f \in Fruits, n \in 0 .. 1} \cup {Item(1, 1, 1), Item(2, 1, 1)}

MCCharacters == {<< 97 >>, << 195, 177 >>, << 226, 130, 172 >>}
MCAmounts == {-1, 0, 97, 255, 65535, 65536}

cases == << message, inputTotal >>

FirstCases == /\ message = <<>>
              /\ inputTotal = (CHOOSE t \in Inputs : TRUE)

MCInit == Init /\ FirstCases

OneCase ==
    /\ offered = {} /\ FirstCases
    /\ \/ message' \in BoundedSeq(Records, 2) /\ UNCHANGED inputTotal
       \/ inputTotal' \in Inputs /\ UNCHANGED message
    /\ UNCHANGED vars

MCNext ==
    \/ FirstCases /\ Next /\ UNCHANGED cases
    \/ OneCase

MCSpec == MCInit /\ [][MCNext]_<< vars, cases >>
================================================================================

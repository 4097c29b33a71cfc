------------------------------- MODULE MCRouting -------------------------------
(* The partition key on fruits of one letter and client ids that end in    *)
(* different hexadecimal digits, as the ends of the code's uuids do.       *)
EXTENDS Routing

MCFruitNames == {<< letter >> : letter \in 97 .. 122}
MCClientIds == {<< 49, byte >> : byte \in {48, 49, 50, 55, 97, 102}}

MCInit == routed \in Routings /\ routed[2] = 1

\* One case is looked at.
MCNext == routed[2] = 1 /\ routed' \in Routings

MCSpec == MCInit /\ [][MCNext]_routed
================================================================================

----------------------------- MODULE MCTopPipeline -----------------------------
(* Two Sums, two aggregators, three fruits, two clients.  The first client  *)
(* varies: amounts tie, fruits are in one Sum or in both, a Sum has none,   *)
(* and every partition of the fruits; the second has one fruit.             *)
EXTENDS TopPipeline

CONSTANTS s1, s2, c1, c2

Digest(n1, n2, n3) ==
    LET n == << n1, n2, n3 >>
    IN [f \in {f \in Fruits : n[f] > 0} |-> n[f]]

\* What s1 and s2 digested of the first client.
MCPairs == {<< Digest(1, 2, 0), Digest(0, 2, 2) >>,
            << Digest(1, 1, 1), Digest(1, 0, 0) >>,
            << Digest(1, 1, 0), Digest(0, 1, 2) >>,
            << Digest(2, 1, 1), Digest(0, 0, 0) >>,
            << Digest(0, 0, 0), Digest(0, 0, 0) >>}

\* Fruit 1 fixes which aggregator is which.
MCParts == {p \in [Fruits -> Aggregators] : p[1] = 0}

Share(pair) ==
    [s \in Sums |-> [c \in Clients |->
        IF c = c1 THEN pair[IF s = s1 THEN 1 ELSE 2]
        ELSE IF s = s1 THEN Digest(1, 0, 0) ELSE Digest(0, 0, 0)]]

Route(part) ==
    [x \in Clients \X Fruits |-> IF x[1] = c1 THEN part[x[2]] ELSE 1]

\* Every pair and partition on connections that work, and one pair and
\* partition with a connection, any one, that breaks at any point.
MCInputs ==
    {[share |-> Share(pair), route |-> Route(part), breaks |-> 0] :
        pair \in MCPairs, part \in MCParts}
    \cup {[share |-> Share(<< Digest(1, 1, 0), Digest(0, 0, 0) >>),
           route |-> Route([f \in Fruits |-> IF f = 2 THEN 1 ELSE 0]), breaks |-> 1]}
================================================================================

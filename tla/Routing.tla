-------------------------------- MODULE Routing --------------------------------
(***************************************************************************)
(* Which aggregator a Sum worker sends a client's fruit to:                *)
(* _calculate_routing_key, for every AGGREGATION_AMOUNT up to a bound.     *)
(* Names are sequences of bytes.                                           *)
(***************************************************************************)
EXTENDS Naturals, FiniteSets, SequencesExt

CONSTANTS
    FruitNames,      \* fruits, as they come in the records
    ClientIds,       \* client ids; the code's are uuids of 36 characters
    MaxAggregators   \* bound on AGGREGATION_AMOUNT

VARIABLE routed      \* the case looked at: a client id, an AGGREGATION_AMOUNT

Routings == ClientIds \X (1 .. MaxAggregators)

Colon == 58

\* f"{fruit_name}:{client_id}"
RoutingText(fruit, id) == fruit \o << Colon >> \o id

\* int.from_bytes, byteorder="big"
BigEndian(bytes) == FoldLeft(LAMBDA n, b : 256 * n + b, 0, bytes)

\* _calculate_routing_key
CalculateRoutingKey(fruit, id, amount) == BigEndian(RoutingText(fruit, id)) % amount

-----------------------------------------------------------------------------
\* The aggregators that get some fruit of client id.
Reached(id, amount) == {CalculateRoutingKey(fruit, id, amount) : fruit \in FruitNames}

\* README.md, section 3: the partition is by (client, fruit) because one by
\* client alone risks overloading a node with a large client.  So the fruits
\* of a client must not all go to one aggregator when there are several.
\* (In the key every byte but the last, the client id's, is a multiple of 256
\* and vanishes modulo 2, 4, 8 or 16: the fruit takes no part.)
FruitsSpread ==
    LET id == routed[1]
        amount == routed[2]
    IN amount > 1 => Cardinality(Reached(id, amount)) > 1
================================================================================

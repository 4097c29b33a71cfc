-------------------------------- MODULE MCSystem --------------------------------
(* One client uploads three records of two fruits: r1 and r2 of the fruit   *)
(* that only leads when they are added up, r3 of the other.                 *)
EXTENDS System

CONSTANTS c1, r1, r2, r3

OneClient == [r \in Records |-> c1]
MCFruitOf == [r \in Records |-> IF r = r3 THEN 2 ELSE 1]
MCAmountOf == [r \in Records |-> IF r = r3 THEN 3 ELSE 2]
MCRoute == [x \in Clients \X Fruits |-> x[2] % 2]
=================================================================================

------------------------------- MODULE MCGateway -------------------------------
(* Uploads of different lengths; in MCEmptyUpload, c1 has no records.       *)
EXTENDS Gateway

CONSTANTS c1, c2, c3

MCUploads == [c \in Clients |-> IF c = c1 THEN 2 ELSE 1]

MCEmptyUpload == [c \in Clients |-> IF c = c1 THEN 0 ELSE IF c = c2 THEN 2 ELSE 1]
================================================================================

------------------------------ MODULE MCJobApi ------------------------------
(* Values for the constants of JobApi. *)
EXTENDS JobApi

CONSTANTS j1, j2, r1, r2

MCPriority == [j \in Jobs |-> 5]
MCBackoff == [n \in 0 .. MaxRetries + 1 |-> 0]
MCCreatedAt == [j \in Jobs |-> IF j = j1 THEN 1 ELSE 2]
=============================================================================

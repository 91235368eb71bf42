-------------------------- MODULE MCPoolLifecycle ---------------------------
(* Values for the constants of PoolLifecycle. *)
EXTENDS PoolLifecycle

CONSTANTS j1, j2, g1, g2

MCTimeout == [j \in Jobs |-> IF j = j1 THEN 2 ELSE 1]
=============================================================================

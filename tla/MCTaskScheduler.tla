--------------------------- MODULE MCTaskScheduler --------------------------
(* Values for the constants of TaskScheduler that are functions or sets of   *)
(* numbers; the configurations pick among them.                              *)
EXTENDS DeliveryRefinement, TLC

CONSTANTS j1, j2, w1, w2, g1, g2, s1, s2, r1, r2

MCSamePriority == [j \in Jobs |-> 5]
MCTwoPriorities == [j \in Jobs |-> IF j = j1 THEN 0 ELSE 9]
MCNoBackoff == [n \in 0 .. MaxRetries + 1 |-> 0]
MCBackoff == [n \in 0 .. MaxRetries + 1 |-> 2 ^ n]
MCShort == [j \in Jobs |-> 1]
MCOnePoolEach == [g \in Goroutines |-> IF g = g1 THEN w1 ELSE w2]
MCOnePool == [g \in Goroutines |-> w1]
MCOneHost == [r \in Requests |-> s1]

\* With MCOnePoolEach the two pools are interchangeable, goroutine and all.
MCSwapPools == {(g1 :> g2) @@ (g2 :> g1) @@ (w1 :> w2) @@ (w2 :> w1)}
=============================================================================

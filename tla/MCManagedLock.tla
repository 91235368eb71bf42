--------------------------- MODULE MCManagedLock ----------------------------
(* Clients of ManagedLock for TLC. *)
EXTENDS ManagedLock

CONSTANTS m1, p1
=============================================================================

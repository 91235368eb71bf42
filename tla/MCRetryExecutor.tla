-------------------------- MODULE MCRetryExecutor ---------------------------
(* Callers of RetryExecutor for TLC. *)
EXTENDS RetryExecutor

CONSTANTS c1, c2
=============================================================================

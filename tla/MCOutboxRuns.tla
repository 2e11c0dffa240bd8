---------------------------- MODULE MCOutboxRuns ----------------------------
(* Small instances of OutboxRuns for TLC. *)
EXTENDS OutboxRuns, TLC

Sym == Permutations(Replicas)
=============================================================================

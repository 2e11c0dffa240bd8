---------------------------- MODULE MCAnnouncing ----------------------------
(* Small instances of Announcing for TLC. *)
EXTENDS Announcing, TLC

Sym == Permutations(Replicas)
=============================================================================

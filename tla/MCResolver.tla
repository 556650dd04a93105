----------------------------- MODULE MCResolver -----------------------------
(* A small instance of Resolver for TLC. *)
EXTENDS Resolver, TLC

Symmetry == Permutations(Threads) \cup Permutations(Reqs)
=============================================================================

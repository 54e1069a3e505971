---------------------------- MODULE MCHandshake ----------------------------
(* Instances of Handshake for TLC. *)
EXTENDS Handshake, TLC

Symmetry == Permutations(Procs) \cup Permutations(Nonces) \cup Permutations(Tokens)

=============================================================================

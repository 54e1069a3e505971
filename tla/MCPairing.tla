----------------------------- MODULE MCPairing -----------------------------
(* Instances of Pairing for TLC. *)
EXTENDS Pairing, TLC

Symmetry == Permutations(Procs) \cup Permutations(Peers)
                \cup Permutations(SessionIds) \cup Permutations(Handles)

=============================================================================

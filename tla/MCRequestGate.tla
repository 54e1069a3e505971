--------------------------- MODULE MCRequestGate ---------------------------
(* An instance of RequestGate for TLC. *)
EXTENDS RequestGate, TLC

Symmetry == Permutations(Nonces) \cup Permutations(Ids) \cup Permutations(Subjects) \cup Permutations(Providers)

=============================================================================

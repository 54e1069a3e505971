--------------------------- MODULE MCIdempotency ---------------------------
(* Instances of Idempotency for TLC. *)
EXTENDS Idempotency, TLC

Symmetry == Permutations(Procs) \cup Permutations(Ids) \cup Permutations(Prints)

=============================================================================

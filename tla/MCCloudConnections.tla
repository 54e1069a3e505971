------------------------- MODULE MCCloudConnections -------------------------
(* An instance of CloudConnections for TLC. *)
EXTENDS CloudConnections, TLC

Symmetry == Permutations(Handles)

=============================================================================

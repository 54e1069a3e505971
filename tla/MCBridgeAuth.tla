---------------------------- MODULE MCBridgeAuth ---------------------------
(* Instances of BridgeAuth for TLC. *)
EXTENDS BridgeAuth, TLC

Symmetry == Permutations(Peers) \cup Permutations(SessionIds)
                \cup Permutations(Handles) \cup Permutations(Nonces) \cup Permutations(Tokens)

=============================================================================

------------------------------ MODULE MCVault ------------------------------
(* Instances of Vault for TLC. *)
EXTENDS Vault, TLC

\* Two of the three tiers of computeLockoutSeconds, scaled down.
TwoTiers == {[failures |-> 2, pause |-> 1], [failures |-> 3, pause |-> 3]}

OneTier == {[failures |-> 2, pause |-> 1]}

Symmetry == Permutations(Items) \cup Permutations(Passwords) \cup Permutations(KeychainKeys)

=============================================================================

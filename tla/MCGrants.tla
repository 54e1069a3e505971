------------------------------ MODULE MCGrants ------------------------------
(* An instance of Grants for TLC: two requests share a target. *)
EXTENDS Grants, TLC

CONSTANTS r1, r2, r3, t1, t2, o1, o2

TwoTargets == r1 :> t1 @@ r2 :> t1 @@ r3 :> t2

TwoOrigins == t1 :> o1 @@ t2 :> o2

Symmetry == Permutations(Ids) \cup Permutations({r1, r2})

=============================================================================

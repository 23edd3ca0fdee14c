----------------------------- MODULE MCRoleSync -----------------------------
(***************************************************************************)
(* Instances of RoleSync for TLC.                                          *)
(***************************************************************************)
EXTENDS RoleSync, TLC

CONSTANTS r1, r2, w1, w2, t1

\* Nothing tells one of the workers from another.
Symmetry == Permutations({w1, w2})

=============================================================================

------------------------- MODULE MCRoleProvisioning -------------------------
(***************************************************************************)
(* Instances of RoleProvisioning for TLC.                                  *)
(***************************************************************************)
EXTENDS RoleProvisioning, TLC

CONSTANTS u1, u2, r1, r2, t1, t2

\* Nothing tells one of the tasks from another.
Symmetry == Permutations({t1, t2})

=============================================================================

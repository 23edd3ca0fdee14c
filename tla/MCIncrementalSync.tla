------------------------- MODULE MCIncrementalSync -------------------------
(***************************************************************************)
(* Instances of IncrementalSync for TLC.                                   *)
(***************************************************************************)
EXTENDS IncrementalSync, TLC

CONSTANTS alice, r1, r2

Symmetry == Permutations({r1, r2})
=============================================================================

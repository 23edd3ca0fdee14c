------------------------- MODULE MCResourceListing -------------------------
(***************************************************************************)
(* Instances of ResourceListing for TLC.                                   *)
(***************************************************************************)
EXTENDS ResourceListing

CONSTANT app

=============================================================================

----------------------- MODULE MCAccountProvisioning -----------------------
(***************************************************************************)
(* Instances of AccountProvisioning for TLC: a name that becomes equal to  *)
(* another when cleaned, and one of which nothing remains.                 *)
(***************************************************************************)
EXTENDS AccountProvisioning

CONSTANTS Bob, bob, unnamable, t1, t2, t3

MCCleanName ==
    [n \in Name |-> IF n = unnamable THEN NoName ELSE bob]
=============================================================================

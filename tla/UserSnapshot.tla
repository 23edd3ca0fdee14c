---------------------------- MODULE UserSnapshot ----------------------------
(***************************************************************************)
(* What a full sync promises of the members of roles, with no cache, calls *)
(* or workers in it: at one moment after it listed the roles it takes the  *)
(* users that Teleport has, and whatever it reports is of those users.     *)
(*                                                                         *)
(* The promise may be withdrawn at any moment, and everything with it: the *)
(* sync is over, or something happened that the connector does not guard   *)
(* itself against.                                                         *)
(***************************************************************************)
EXTENDS Naturals

VARIABLES
    version,    \* Teleport: the version of the list of users
    listedAt,   \* the version at which the roles were listed, 0 if no promise holds
    taken,      \* the version the sync took, once it has
    reported    \* the version the sync reported something of, once it has

vars == <<version, listedAt, taken, reported>>

Init ==
    /\ version = 1
    /\ listedAt = 0
    /\ taken = {}
    /\ reported = {}

ChangeUsers ==
    /\ version' = version + 1
    /\ UNCHANGED <<listedAt, taken, reported>>

ListRoles ==
    /\ listedAt = 0
    /\ listedAt' = version
    /\ UNCHANGED <<version, taken, reported>>

TakeUsers ==
    /\ listedAt # 0
    /\ taken = {}
    /\ taken' = {version}
    /\ UNCHANGED <<version, listedAt, reported>>

Report ==
    /\ taken # {}
    /\ reported' = taken
    /\ UNCHANGED <<version, listedAt, taken>>

End ==
    /\ listedAt' = 0
    /\ taken' = {}
    /\ reported' = {}
    /\ UNCHANGED version

Next == ChangeUsers \/ ListRoles \/ TakeUsers \/ Report \/ End

Spec == Init /\ [][Next]_vars
=============================================================================

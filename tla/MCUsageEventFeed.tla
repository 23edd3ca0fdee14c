-------------------------- MODULE MCUsageEventFeed --------------------------
(***************************************************************************)
(* An instance of UsageEventFeed for TLC: logins that tie, one that        *)
(* failed, one of a cluster without a name, and an event of another type.  *)
(***************************************************************************)
EXTENDS UsageEventFeed, Sequences

CONSTANTS alice, bob, main

Login(t, user, success, cluster) ==
    [gotype |-> "UserLogin", time |-> t, user |-> user, success |-> success,
     cluster |-> cluster]

MCLog ==
    << Login(1, alice, TRUE, main),
       Login(2, bob, FALSE, main),
       [Login(2, alice, TRUE, main) EXCEPT !.gotype = "Other"],
       Login(2, bob, TRUE, NoName),
       Login(3, alice, FALSE, main) >>
=============================================================================

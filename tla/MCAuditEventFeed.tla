-------------------------- MODULE MCAuditEventFeed --------------------------
(***************************************************************************)
(* Instances of AuditEventFeed for TLC: small audit logs in which times    *)
(* tie, pages split ties, some events are skipped and some need a lookup.  *)
(***************************************************************************)
EXTENDS AuditEventFeed, Sequences

CONSTANTS alice, access, editor, r1, r2

Blank == [gotype |-> "LockCreate", time |-> NoTime, name |-> NoName, roles |-> {},
          user |-> NoName, request |-> NoName, state |-> NoName]

UserEvent(gotype, t, roles) ==
    [Blank EXCEPT !.gotype = gotype, !.time = t, !.name = alice, !.roles = roles]
Approved(t, r) ==
    [Blank EXCEPT !.gotype = "AccessRequestCreate", !.time = t,
                  !.request = r, !.state = "APPROVED"]
LockOnRole(t) == [Blank EXCEPT !.time = t]

\* A tie at 2 of three events, a lookup in the middle of it and a skipped event
\* at its end, that pages of two split after another lookup.
MCLog ==
    << Approved(1, r1),
       UserEvent("UserUpdate", 2, {access, editor}),
       Approved(2, r2),
       LockOnRole(2) >>

\* A tie of a lookup and a user event, then another lookup.
MCShortLog ==
    << Approved(2, r1), UserEvent("UserUpdate", 2, {editor}), Approved(3, r2) >>

\* The life of a temporary grant: approved, then expired.
MCExpiryLog ==
    << Approved(1, r1),
       [Blank EXCEPT !.gotype = "AccessRequestExpire", !.time = 2, !.request = r1] >>

MCRequest == {r1, r2}
MCRequestUser == [r \in MCRequest |-> alice]
MCRequestRoles == [r \in MCRequest |-> {editor}]
=============================================================================

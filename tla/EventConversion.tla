-------------------------- MODULE EventConversion --------------------------
(***************************************************************************)
(* What one Teleport audit event becomes for ConductorOne: the pure part   *)
(* of audit_event_feed.go.                                                 *)
(*                                                                         *)
(* An audit event is a record whose gotype is the Go type the client       *)
(* library decodes it to.  Fields an event does not use hold NoName or {}; *)
(* a list of roles is the set of its members, for one event is emitted per *)
(* role and nothing depends on their order.                                *)
(***************************************************************************)
EXTENDS EventCursor

CONSTANT NoName     \* the empty string, in a name or an identifier

GoType ==
    {"UserCreate", "UserUpdate", "RoleCreate", "RoleUpdate",
     "LockCreate", "LockDelete", "AccessRequestCreate", "AccessRequestExpire"}

ResourceChange(type, name) ==
    [kind |-> "ResourceChange", type |-> type, name |-> name]
CreateGrant(role, user) ==
    [kind |-> "CreateGrant", role |-> role, user |-> user]
CreateRevoke(role, user) ==
    [kind |-> "CreateRevoke", role |-> role, user |-> user]

ConvertUserEvent(user, roles) ==
    IF user = NoName
    THEN {}
    ELSE {ResourceChange("user", user)}
            \cup {CreateGrant(r, user) : r \in roles \ {NoName}}

SingleResourceChange(type, name) ==
    IF name = NoName THEN {} ELSE {ResourceChange(type, name)}

\* Mistake: a lock is taken not to concern the user.
ConvertLockEventIgnored(targetUser) == SingleResourceChange("lock", targetUser)

ConvertLockEvent(targetUser) == SingleResourceChange("user", targetUser)

\* Role removals are not among the results: an event holds only the roles a
\* user has after the change.
ConvertAuditEvent(e) ==
    CASE e.gotype \in {"UserCreate", "UserUpdate"} -> ConvertUserEvent(e.name, e.roles)
      [] e.gotype \in {"RoleCreate", "RoleUpdate"} -> SingleResourceChange("role", e.name)
      [] e.gotype \in {"LockCreate", "LockDelete"} -> ConvertLockEvent(e.user)
      [] OTHER -> {}

\* A change of an access request, told from its submission by the empty user.
IsStateChange(e) == e.gotype = "AccessRequestCreate" /\ e.user = NoName

NeedsLookup(e) == IsStateChange(e) /\ e.request # NoName

\* The events of a state change whose request names this user and these roles.
StateChangeEvents(e, user, roles) ==
    CASE user = NoName -> {}
      [] user # NoName /\ e.state = "APPROVED" ->
            {CreateGrant(r, user) : r \in roles \ {NoName}}
      [] user # NoName /\ e.state = "EXPIRED" ->
            {CreateRevoke(r, user) : r \in roles \ {NoName}}
      [] OTHER -> {}

\* The time the conversion reports to the cursor.  An event that the
\* connector skips reports the zero time; a state change reports its own
\* even when it yields nothing.
ReportedTime(e) ==
    IF IsStateChange(e) \/ ConvertAuditEvent(e) # {} THEN e.time ELSE NoTime
=============================================================================

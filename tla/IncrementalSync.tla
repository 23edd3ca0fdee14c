-------------------------- MODULE IncrementalSync --------------------------
(***************************************************************************)
(* What ConductorOne knows of Teleport's users and their roles, told by    *)
(* full syncs (users.go, roles.go) and, between them, by the audit feed    *)
(* (audit_event_feed.go).                                                  *)
(*                                                                         *)
(* A full sync replaces all ConductorOne knows by what it read on its way. *)
(* The feed adds to it: an event about a user makes ConductorOne read that *)
(* user, and grants it the roles the event names.  Nothing in the          *)
(* connector orders the two, so an event may be told before, during or     *)
(* after the full sync that read what it speaks of.  ConductorOne is taken *)
(* to handle the events it is told during a full sync again after it.      *)
(*                                                                         *)
(* The grants of all roles come from one list of users: RoleSync shows     *)
(* when.  A call of ListEvents is one step, because a call that fails, or  *)
(* is not answered, leaves nothing behind: AuditEventFeed has its parts.   *)
(* Access requests are left out: they change no user.                      *)
(***************************************************************************)
EXTENDS EventConversion, Sequences

CONSTANTS
    User, Role,
    VersionBound    \* bound: Teleport's users change no more after it

\* ConductorOne sends a start time, and what happens here happens after it.
ASSUME StartAssumption == EarliestEvent # NoTime
ASSUME NameAssumption ==
    NoName \notin User /\ NoName \notin Role /\ VersionBound \in Nat

VARIABLES
    users,      \* Teleport: the users at each version, the last being now
    log,        \* Teleport: the audit events, the p-th led to version p + 1
    sync,       \* the full sync: its phase and what it read
    stored,     \* ConductorOne: the cursor of the feed
    status,     \* ConductorOne: the status of each user
    granted,    \* ConductorOne: pairs of a role and a user that has it
    toGet,      \* ConductorOne: users it was told to read
    recent,     \* ConductorOne: what it was told since the full sync started
    last        \* history: the start of the last full sync that was complete

teleport == <<users, log>>
conductor == <<stored, status, granted, toGet, recent, last>>
vars == <<teleport, sync, conductor>>

NoOne == [roles |-> {}, status |-> "none"]
Account == [roles : SUBSET Role, status : {"enabled", "disabled"}]
AuditEvent ==
    [gotype : {"UserCreate", "UserUpdate", "UserDelete", "LockCreate", "LockDelete"},
     time : Nat, roles : SUBSET Role, name : User, user : User]

Version == Len(users)
Now == users[Version]

\* listing and taken are the versions the users and the grants were read at.
NoSync == [phase |-> "idle", start |-> 0, mark |-> 0, listing |-> 0, taken |-> 0]

Init ==
    /\ users \in {<<us>> : us \in [User -> Account \cup {NoOne}]}
    /\ log = <<>>
    /\ sync = NoSync
    /\ stored = EmptyCursor
    /\ status = [u \in User |-> "none"]
    /\ granted = {}
    /\ toGet = {}
    /\ recent = {}
    /\ last = [start |-> 0, mark |-> 0]
-----------------------------------------------------------------------------
(* Teleport. *)

\* The time of the latest event, or of the start of the feed.
LastTime == IF log = <<>> THEN EarliestEvent ELSE log[Len(log)].time

\* A user becomes a, and the log says so by an event of this type.
Change(u, a, gotype) ==
    /\ Version < VersionBound
    /\ a # Now[u]
    /\ users' = Append(users, [Now EXCEPT ![u] = a])
    /\ \E t \in {LastTime, LastTime + 1} :
          log' = Append(log, [gotype |-> gotype, time |-> t, roles |-> a.roles,
                              name |-> u, user |-> u])
    /\ UNCHANGED <<sync, conductor>>

CreateUser(u, roles) ==
    Now[u] = NoOne /\ Change(u, [roles |-> roles, status |-> "enabled"], "UserCreate")
UpdateUser(u, roles) ==
    Now[u] # NoOne /\ Change(u, [Now[u] EXCEPT !.roles = roles], "UserUpdate")
LockUser(u) ==
    Now[u] # NoOne /\ Change(u, [Now[u] EXCEPT !.status = "disabled"], "LockCreate")
UnlockUser(u) ==
    Now[u] # NoOne /\ Change(u, [Now[u] EXCEPT !.status = "enabled"], "LockDelete")
DeleteUser(u) == Change(u, NoOne, "UserDelete")
-----------------------------------------------------------------------------
(* The full sync. *)

StartSync ==
    /\ sync.phase = "idle"
    /\ sync' = [NoSync EXCEPT !.phase = "users", !.start = Version, !.mark = stored.startAt]
    /\ recent' = {}
    /\ UNCHANGED <<teleport, stored, status, granted, toGet, last>>

\* userBuilder.List
ListUsers ==
    /\ sync.phase = "users"
    /\ sync' = [sync EXCEPT !.phase = "roles", !.listing = Version]
    /\ UNCHANGED <<teleport, conductor>>

\* Mistake: List of roles leaves the users of an earlier sync in the cache.
GrantsOfEarlierUsers ==
    /\ sync.phase = "roles"
    /\ \E v \in 1..Version :
          sync' = [sync EXCEPT !.phase = "grants", !.taken = v]
    /\ UNCHANGED <<teleport, conductor>>

\* roleBuilder.Grants of all roles
Grants ==
    /\ sync.phase = "roles"
    /\ sync' = [sync EXCEPT !.phase = "grants", !.taken = Version]
    /\ UNCHANGED <<teleport, conductor>>

\* A role is granted to the users whose record names it.
RoleGrants(us) == {g \in Role \X User : g[1] \in us[g[2]].roles}

GrantsOf(events) ==
    {<<e.role, e.user>> : e \in {f \in events : f.kind = "CreateGrant"}}
UsersOf(events) ==
    {e.name : e \in {f \in events : f.kind = "ResourceChange" /\ f.type = "user"}}

\* The sync is complete, and ConductorOne has its result.
FinishSync ==
    /\ sync.phase = "grants"
    /\ status' = [u \in User |-> users[sync.listing][u].status]
    /\ granted' = RoleGrants(users[sync.taken]) \cup GrantsOf(recent)
    /\ toGet' = toGet \cup UsersOf(recent)
    /\ last' = [start |-> sync.start, mark |-> sync.mark]
    /\ sync' = NoSync
    /\ recent' = {}
    /\ UNCHANGED <<teleport, stored>>

\* A call of the sync fails, the process restarts, or the result is lost.
AbandonSync ==
    /\ sync.phase # "idle"
    /\ sync' = NoSync
    /\ recent' = {}
    /\ UNCHANGED <<teleport, stored, status, granted, toGet, last>>
-----------------------------------------------------------------------------
(* The audit feed. *)

Cursor == UnmarshalEventPageCursor(stored, LastTime)

\* The events a search from this cursor returns, up to a position: those of
\* resourceChangeEventTypes.
SearchEvents(c, to) ==
    {p \in DOMAIN log : /\ log[p].gotype \in GoType
                        /\ c.startAt <= log[p].time
                        /\ c.lastKey < p /\ p <= to}

\* The search sees the log up to some position, and has a key or is through.
ListEvents(to, hasMore) ==
    LET page == SearchEvents(Cursor, to)
        times == {NoTime} \cup {ReportedTime(log[p]) : p \in page}
        events == UNION {ConvertAuditEvent(log[p]) : p \in page}
    IN  /\ hasMore => to \in page
        /\ \E latest \in times :
              LET moved == UpdateLatestEvent(Cursor, latest)
              IN  /\ \A t \in times : t <= latest
                  /\ stored' = IF hasMore THEN [moved EXCEPT !.lastKey = to]
                                          ELSE PrepareNextSync(moved)
        /\ granted' = granted \cup GrantsOf(events)
        /\ toGet' = toGet \cup UsersOf(events)
        /\ recent' = IF sync.phase = "idle" THEN recent ELSE recent \cup events
        /\ UNCHANGED <<teleport, sync, status, last>>

\* userBuilder.Get, which fails for a user that is gone.
Get(u) ==
    /\ u \in toGet
    /\ toGet' = toGet \ {u}
    /\ status' = IF Now[u] = NoOne THEN status ELSE [status EXCEPT ![u] = Now[u].status]
    /\ UNCHANGED <<teleport, sync, stored, granted, recent, last>>

Next ==
    \/ \E u \in User, roles \in SUBSET Role :
          CreateUser(u, roles) \/ UpdateUser(u, roles)
    \/ \E u \in User : LockUser(u) \/ UnlockUser(u)
    \/ \E u \in User : DeleteUser(u)
    \/ StartSync
    \/ ListUsers
    \/ Grants
    \/ FinishSync
    \/ AbandonSync
    \/ \E to \in 0..Len(log), hasMore \in BOOLEAN : ListEvents(to, hasMore)
    \/ \E u \in User : Get(u)

Spec == Init /\ [][Next]_vars
-----------------------------------------------------------------------------
TypeOK ==
    /\ users \in Seq([User -> Account \cup {NoOne}])
    /\ log \in Seq(AuditEvent)
    /\ Version = Len(log) + 1
    /\ sync \in [phase : {"idle", "users", "roles", "grants"}, start : Nat,
                 mark : Nat, listing : Nat, taken : Nat]
    /\ stored \in EventPageCursor
    /\ status \in [User -> {"none", "enabled", "disabled"}]
    /\ granted \subseteq Role \X User
    /\ toGet \subseteq User
    /\ GrantsOf(recent) \subseteq Role \X User
    /\ UsersOf(recent) \subseteq User
    /\ last \in [start : Nat, mark : Nat]

\* The events the feed has yet to tell, where it stands.
Ahead == SearchEvents(Cursor, Len(log))
Tells(p) == GrantsOf(ConvertAuditEvent(log[p]))
TellsOf(p) == UsersOf(ConvertAuditEvent(log[p]))

Told == UNION {Tells(p) : p \in Ahead}
ToldOf == UNION {TellsOf(p) : p \in Ahead}

\* Whoever has a role is in grants, or an event that says so is ahead.
Reports(grants) == RoleGrants(Now) \subseteq grants \cup Told

\* No membership falls between a full sync and the feed: from the first full sync
\* on, whoever has a role in Teleport has it in ConductorOne, or an event that
\* names the role is still ahead of the feed's cursor (ListEvents), however
\* convertUserEvent, userBuilder.List and Grants were interleaved.
MembershipsAreReported == last.start # 0 => Reports(granted)

ReportsUsers(statuses, toRead) ==
    \A u \in User :
        \/ Now[u] = NoOne
        \/ statuses[u] = Now[u].status
        \/ u \in toRead \cup ToldOf

\* The same of users and their locks, which userResource reports as a status.
UsersAreReported == last.start # 0 => ReportsUsers(status, toGet)

Held(g, v) == g[1] \in users[v][g[2]].roles

\* The grants are of users since a sync began, or named by an event that was not
\* behind the cursor then.
RecentSince(grants, s) ==
    \A g \in grants :
        \/ \E v \in s.start..Version : Held(g, v)
        \/ \E p \in DOMAIN log : s.mark <= log[p].time /\ g \in Tells(p)

\* What is reported is not older than the last full sync, but for what an event
\* says that was at or past the cursor when that sync started: how long
\* ConductorOne may show a role whose removal no event tells
\* (audit_event_feed.go, convertUserEvent).
GrantsAreRecent == last.start # 0 => RecentSince(granted, last)

\* Why.  Events are in the order of their times, and the cursor stands at one,
LogInv ==
    /\ \A p \in DOMAIN log : EarliestEvent <= log[p].time
    /\ \A p, q \in DOMAIN log : p <= q => log[p].time <= log[q].time
CursorInv ==
    LET c == Cursor
    IN  /\ c.startAt <= c.latestEventSeen /\ c.startAt <= LastTime
        /\ c.lastKey = NoKey => c.latestEventSeen = c.startAt
        /\ c.lastKey # NoKey =>
              c.lastKey \in DOMAIN log /\ c.latestEventSeen <= log[c.lastKey].time

\* and what a sync has read, with what it was told meanwhile, would do.
SyncInv ==
    /\ last.mark <= stored.startAt
    /\ sync.phase # "idle" =>
          /\ sync.start \in 1..Version /\ sync.mark <= stored.startAt
          /\ RecentSince(GrantsOf(recent), sync)
    /\ sync.phase \in {"roles", "grants"} =>
          /\ sync.listing \in sync.start..Version
          /\ ReportsUsers([u \in User |-> users[sync.listing][u].status], UsersOf(recent))
    /\ sync.phase = "grants" =>
          /\ sync.taken \in sync.start..Version
          /\ Reports(RoleGrants(users[sync.taken]) \cup GrantsOf(recent))

\* The inductive invariant.
IncrementalInvariant ==
    /\ TypeOK
    /\ LogInv
    /\ CursorInv
    /\ SyncInv
    /\ MembershipsAreReported
    /\ UsersAreReported
    /\ GrantsAreRecent
-----------------------------------------------------------------------------
(* A claim that the code does not keep. *)

\* audit_event_feed.go, of roles that are removed: "they are reconciled during the
\* next full sync cycle".  So after a full sync nobody is reported in a role he
\* has not had since it started.
RemovalsAreReconciled ==
    last.start # 0 =>
        \A g \in granted :
            (\A v \in last.start..Version : users[v][g[2]] # NoOne) =>
                \E v \in last.start..Version : Held(g, v)

\* The feed had told all but the last event before the last full sync started:
\* what an event at or past the cursor's startAt speaks of, was so at that start.
CaughtUp ==
    \A p \in DOMAIN log : last.mark <= log[p].time => last.start <= p + 1

\* When the claim holds: a full sync that starts when the feed has caught up does
\* reconcile removals, whatever ConductorOne is told while it runs and after it.
\* Only an event from before the sync that the feed has yet to tell breaks it.
CaughtUpSyncReconciles == CaughtUp => RemovalsAreReconciled
=============================================================================

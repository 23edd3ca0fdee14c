------------------------------ MODULE RoleSync ------------------------------
(***************************************************************************)
(* The cache of users in roleBuilder, and the syncs that read the members  *)
(* of roles through it (roles.go: List, GetUsers, Grants).                 *)
(*                                                                         *)
(* A full sync lists the roles, which clears the cache, and then asks for  *)
(* the grants of each role; the first of these calls fetches the users and *)
(* fills the cache for the others.  A targeted sync of one role asks for   *)
(* its grants without listing roles.  The SDK runs several tasks at once   *)
(* on one roleBuilder, and may run the calls of one sync on several        *)
(* workers.  No lock guards the cache: its slice header is read and        *)
(* written word by word.                                                   *)
(*                                                                         *)
(* Teleport's list of users is represented by its version, and the words   *)
(* of a slice by the versions of the array it points to (list) and of the  *)
(* length it has (size); 0 is the empty slice.  The list is taken never to *)
(* be empty, since the connector acts as one of the users; an empty list   *)
(* would not be cached.                                                    *)
(***************************************************************************)
EXTENDS Naturals

CONSTANTS
    Role,
    Worker,       \* the workers of a full sync
    Targeted,     \* tasks that sync one role
    VersionBound  \* bound: Teleport's users change no more after it

ASSUME TaskAssumption ==
    Worker \cap Targeted = {} /\ Role # {} /\ VersionBound \in Nat \ {0}

Thread == Worker \cup Targeted
Word == {"list", "size"}
Slice == [Word -> Nat]
Empty == [w \in Word |-> 0]

VARIABLES
    version,    \* Teleport: the version of the list of users
    cache,      \* userCache
    phase,      \* the full sync: "idle", "resources", "clearing", "grants"
    pending,    \* the full sync: roles whose grants no worker has asked for
    recorded,   \* the full sync: the users each role's grants were taken from
    synced,     \* the full sync: roles recorded
    listedAt,   \* history: the version at which List began to clear the cache
    disturbed,  \* history: a targeted sync was in GetUsers meanwhile
    raced       \* history: two calls have filled the cache at a time since

VARIABLES
    pc,         \* where each thread is, in GetUsers or in List
    role,       \* the role whose grants a worker was asked for
    got,        \* users: what a thread has read, and stores into the cache
    left        \* the words of userCache it has yet to read or to store

sync == <<phase, pending, recorded, synced, listedAt, disturbed, raced>>
threads == <<pc, role, got, left>>
vars == <<version, cache, sync, threads>>

AllIdle == [c \in Thread |-> "idle"]
NothingLeft == [c \in Thread |-> {}]

Init ==
    /\ version = 1
    /\ cache = Empty
    /\ phase = "idle"
    /\ pending = {}
    /\ recorded = [r \in Role |-> Empty]
    /\ synced = {}
    /\ listedAt = 0
    /\ disturbed = FALSE
    /\ raced = FALSE
    /\ pc = AllIdle
    /\ role = [c \in Worker |-> CHOOSE r \in Role : TRUE]
    /\ got = [c \in Thread |-> Empty]
    /\ left = NothingLeft

Goto(c, from, to) == pc[c] = from /\ pc' = [pc EXCEPT ![c] = to]
-----------------------------------------------------------------------------
(* GetUsers, called for a role of the full sync or of a targeted sync. *)

\* The calls that fetch the users or store them.
Filling == {c \in Thread : pc[c] \in {"fetching", "storing"}}

\* if len(r.userCache) != 0, where what follows may read the length again.
CheckCache(c) ==
    /\ Goto(c, "checking", IF cache["size"] # 0 THEN "loading" ELSE "fetching")
    /\ got' = [got EXCEPT ![c] = [@ EXCEPT !["size"] = cache["size"]]]
    /\ \E words \in IF cache["size"] # 0 THEN {{"list"}, Word} ELSE {{}} :
          left' = [left EXCEPT ![c] = words]
    /\ raced' = (raced \/ Filling \ {c} # {})
    /\ UNCHANGED <<version, cache, phase, pending, recorded, synced, listedAt, disturbed,
                   role>>

\* One word less to go; after the last, the call returns.
WordDone(c, w) ==
    /\ w \in left[c]
    /\ left' = [left EXCEPT ![c] = @ \ {w}]
    /\ pc' = IF left[c] = {w} THEN [pc EXCEPT ![c] = "returning"] ELSE pc

\* return r.userCache
LoadWord(c, w) ==
    /\ pc[c] = "loading"
    /\ WordDone(c, w)
    /\ got' = [got EXCEPT ![c] = [@ EXCEPT ![w] = cache[w]]]
    /\ UNCHANGED <<version, cache, sync, role>>

\* Mistake: the users are not kept.
FetchUsersUnkept(c) ==
    /\ Goto(c, "fetching", "returning")
    /\ got' = [got EXCEPT ![c] = [w \in Word |-> version]]
    /\ UNCHANGED <<version, cache, sync, role, left>>

FetchUsers(c) ==
    /\ Goto(c, "fetching", "storing")
    /\ got' = [got EXCEPT ![c] = [w \in Word |-> version]]
    /\ left' = [left EXCEPT ![c] = Word]
    /\ UNCHANGED <<version, cache, sync, role>>

\* Mistake: nobody takes up a call that failed.
FetchUsersFailsUnhandled(c) ==
    /\ Goto(c, "fetching", "failed")
    /\ UNCHANGED <<version, cache, sync, role, got, left>>

\* The client's GetUsers fails.  The SDK repeats the call, or ends the sync.
FetchUsersFails(c) ==
    /\ Goto(c, "fetching", "idle")
    /\ pending' = IF c \in Worker THEN pending \cup {role[c]} ELSE pending
    /\ UNCHANGED <<version, cache, phase, recorded, synced, listedAt, disturbed, raced,
                   role, got, left>>

\* r.userCache = users, and r.userCache = []types.User{} in List.  A thread
\* writes the words in either order.
StoreWord(c, w) ==
    /\ pc[c] = "storing"
    /\ WordDone(c, w)
    /\ cache' = [cache EXCEPT ![w] = got[c][w]]
    /\ UNCHANGED <<version, sync, role, got>>
-----------------------------------------------------------------------------
(* The full sync, one at a time. *)

StartSync ==
    /\ phase = "idle"
    /\ phase' = "resources"
    /\ recorded' = [r \in Role |-> Empty]
    /\ synced' = {}
    /\ listedAt' = 0
    /\ disturbed' = FALSE
    /\ UNCHANGED <<version, cache, pending, raced, threads>>

\* Mistake: List does not clear the cache.
ListRolesKeepingTheCache(c) ==
    /\ phase = "resources"
    /\ Goto(c, "idle", "returning")
    /\ phase' = "clearing"
    /\ listedAt' = version
    /\ disturbed' = \E o \in Targeted : pc[o] # "idle"
    /\ raced' = FALSE
    /\ UNCHANGED <<version, cache, pending, recorded, synced, role, got, left>>

\* GetRoles has answered, and List is about to clear the cache.
ListRoles(c) ==
    /\ phase = "resources"
    /\ Goto(c, "idle", "storing")
    /\ got' = [got EXCEPT ![c] = Empty]
    /\ left' = [left EXCEPT ![c] = Word]
    /\ phase' = "clearing"
    /\ listedAt' = version
    /\ disturbed' = \E o \in Targeted : pc[o] # "idle"
    /\ raced' = FALSE
    /\ UNCHANGED <<version, cache, pending, recorded, synced, role>>

ListRolesReturns(c) ==
    /\ phase = "clearing"
    /\ Goto(c, "returning", "idle")
    /\ phase' = "grants"
    /\ pending' = Role
    /\ UNCHANGED <<version, cache, recorded, synced, listedAt, disturbed, raced,
                   role, got, left>>

Grants(c, r) ==
    /\ phase = "grants"
    /\ r \in pending
    /\ Goto(c, "idle", "checking")
    /\ role' = [role EXCEPT ![c] = r]
    /\ pending' = pending \ {r}
    /\ UNCHANGED <<version, cache, phase, recorded, synced, listedAt, disturbed, raced,
                   got, left>>

GrantsReturns(c) ==
    /\ phase = "grants"
    /\ Goto(c, "returning", "idle")
    /\ recorded' = [recorded EXCEPT ![role[c]] = got[c]]
    /\ synced' = synced \cup {role[c]}
    /\ UNCHANGED <<version, cache, phase, pending, listedAt, disturbed, raced,
                   role, got, left>>

\* The sync is complete, or it gave up: GetRoles or a call of Grants failed.
EndSync ==
    /\ phase # "idle"
    /\ \A c \in Worker : pc[c] = "idle"
    /\ phase' = "idle"
    /\ pending' = {}
    /\ UNCHANGED <<version, cache, recorded, synced, listedAt, disturbed, raced, threads>>
-----------------------------------------------------------------------------
(* Targeted syncs, the process, and Teleport. *)

TargetedGrants(o) ==
    /\ Goto(o, "idle", "checking")
    /\ disturbed' = (disturbed \/ phase = "clearing")
    /\ UNCHANGED <<version, cache, phase, pending, recorded, synced, listedAt, raced,
                   role, got, left>>

TargetedGrantsReturns(o) ==
    /\ Goto(o, "returning", "idle")
    /\ UNCHANGED <<version, cache, sync, role, got, left>>

\* The process restarts, and the sync with it.
Restart ==
    /\ cache' = Empty
    /\ phase' = "idle"
    /\ pending' = {}
    /\ pc' = AllIdle
    /\ left' = NothingLeft
    /\ UNCHANGED <<version, recorded, synced, listedAt, disturbed, raced, role, got>>

ChangeUsers ==
    /\ version < VersionBound
    /\ version' = version + 1
    /\ UNCHANGED <<cache, sync, threads>>

Next ==
    \/ ChangeUsers
    \/ Restart
    \/ StartSync
    \/ EndSync
    \/ \E c \in Worker : ListRoles(c) \/ ListRolesReturns(c) \/ GrantsReturns(c)
    \/ \E c \in Worker, r \in Role : Grants(c, r)
    \/ \E o \in Targeted : TargetedGrants(o) \/ TargetedGrantsReturns(o)
    \/ \E c \in Thread : CheckCache(c) \/ FetchUsers(c) \/ FetchUsersFails(c)
    \/ \E c \in Thread, w \in Word : LoadWord(c, w) \/ StoreWord(c, w)

Spec == Init /\ [][Next]_vars
-----------------------------------------------------------------------------
TypeOK ==
    /\ version \in Nat \ {0}
    /\ cache \in Slice
    /\ phase \in {"idle", "resources", "clearing", "grants"}
    /\ pending \subseteq Role
    /\ recorded \in [Role -> Slice]
    /\ synced \subseteq Role
    /\ listedAt \in Nat
    /\ disturbed \in BOOLEAN
    /\ raced \in BOOLEAN
    /\ pc \in [Thread -> {"idle", "checking", "loading", "fetching", "storing",
                          "returning"}]
    /\ role \in [Worker -> Role]
    /\ got \in [Thread -> Slice]
    /\ left \in [Thread -> SUBSET Word]

\* A slice of one of the lists Teleport had since the sync listed the roles.
Recent(slice) == \E v \in listedAt..version : slice = [w \in Word |-> v]

\* A full sync takes the grants of all roles from one list of users, and from one
\* that is not older than its list of roles, so a user who changes roles
\* meanwhile is not reported in both or in neither: if no two calls of GetUsers
\* fill the cache at a time, and no targeted sync is in one while List clears it.
UncontendedSyncIsOneSnapshot ==
    ~disturbed /\ ~raced =>
        /\ \A r \in synced : Recent(recorded[r])
        /\ \A r, s \in synced : recorded[r] = recorded[s]

NotStale(slice, w) == slice[w] = 0 \/ slice[w] >= listedAt

\* However the calls of workers and targeted syncs race for the cache, a full
\* sync takes no word of a slice from before it listed the roles, unless a
\* targeted sync was inside GetUsers while List cleared the cache.  (A word may
\* be the empty slice's: that is the race of two workers that fill it.)
UndisturbedSyncIsNotStale ==
    ~disturbed => \A r \in synced, w \in Word : NotStale(recorded[r], w)
\* Why.  While List clears the cache, nobody but its caller is at work,
ClearingInv ==
    \E c \in Worker :
        /\ \A d \in Worker \ {c} : pc[d] = "idle"
        /\ pc[c] \in {"storing", "returning"} /\ got[c] = Empty
        /\ ~disturbed => /\ \A o \in Targeted : pc[o] = "idle"
                         /\ \A w \in Word : w \in left[c] \/ cache[w] = 0

\* and afterwards neither the cache nor what is stored into it is older.
GrantsInv ==
    ~disturbed =>
        /\ \A w \in Word : NotStale(cache, w)
        /\ \A c \in Thread, w \in Word : pc[c] = "storing" => NotStale(got[c], w)
        /\ \A c \in Worker, w \in Word : pc[c] = "returning" => NotStale(got[c], w)
        /\ \A c \in Worker, w \in Word :
              pc[c] = "loading" /\ (w = "size" \/ w \notin left[c]) => NotStale(got[c], w)

\* Calls fill an empty cache one after the other: only the first of them does,
\* and every call finds or leaves what that one stored.
Filled == cache # Empty /\ Filling = {}
FillInv ==
    ~disturbed /\ ~raced =>
        /\ \A c, d \in Filling : c = d
        /\ Filled => Recent(cache)
        /\ \A c \in Thread :
              /\ pc[c] = "fetching" => cache = Empty
              /\ pc[c] = "storing" =>
                    /\ Recent(got[c]) /\ left[c] # {}
                    /\ cache = [w \in Word |-> IF w \in left[c] THEN 0 ELSE got[c][w]]
              /\ pc[c] = "loading" =>
                    /\ Filled /\ left[c] # {} /\ got[c]["size"] = cache["size"]
                    /\ "list" \in left[c] \/ got[c]["list"] = cache["list"]
              /\ pc[c] = "returning" => Filled /\ got[c] = cache
        /\ \A r \in synced : Filled /\ recorded[r] = cache

\* The inductive invariant: the phases of a full sync, what its workers may be
\* doing in each, that nothing from before List survives it, and that it is filled
\* once.
SyncInvariant ==
    /\ TypeOK
    /\ listedAt <= version
    /\ \A c \in Thread : left[c] # {} => pc[c] \in {"loading", "storing"}
    /\ phase \in {"idle", "resources"} => \A c \in Worker : pc[c] = "idle"
    /\ phase \in {"resources", "clearing"} => synced = {}
    /\ phase = "clearing" => ClearingInv
    /\ phase = "grants" => GrantsInv /\ FillInv
    /\ phase \in {"clearing", "grants"} => listedAt # 0
    /\ UndisturbedSyncIsNotStale
    /\ UncontendedSyncIsOneSnapshot
-----------------------------------------------------------------------------
(* What a full sync promises, without the cache. *)

\* No targeted sync was in GetUsers while List cleared the cache, and no two
\* calls have filled it at a time.
Kept == phase \in {"clearing", "grants"} /\ ~disturbed /\ ~raced

Words(slice) == {slice[w] : w \in Word}

\* The users that are being stored into the cache, or are in it.
InCache ==
    (UNION {Words(got[c]) : c \in {d \in Thread : pc[d] = "storing"}})
        \cup IF Filled THEN Words(cache) ELSE {}

\* The users whose grants the sync has recorded.
InReport == UNION {Words(recorded[r]) : r \in synced}

Snapshot ==
    INSTANCE UserSnapshot WITH
        listedAt <- IF Kept THEN listedAt ELSE 0,
        taken <- IF Kept /\ phase = "grants" THEN InCache ELSE {},
        reported <- IF Kept THEN InReport ELSE {}

\* As long as the cache is not contended, the calls of GetUsers of all workers and
\* targeted syncs, word by word, do what one reading of Teleport's users would:
\* nothing that List left behind, nothing stored in between, and no failed call
\* changes what the sync takes, once it has taken it.
ImplementsSnapshot == Snapshot!Spec
-----------------------------------------------------------------------------
(* A claim that the code does not keep. *)

\* roles.go, at the end of List: "clear the cache"; docs/teleport-events.md, of
\* a role that was removed from a user: the grant "remains visible in
\* ConductorOne until the next full sync reconciles it".  So a full sync never
\* takes the members of a role from a list that Teleport had before.
FullSyncReconciles ==
    \A r \in synced :
        recorded[r]["list"] = recorded[r]["size"] => recorded[r]["size"] >= listedAt

\* When the claim holds: however the calls of GetUsers race for the cache
\* afterwards, a full sync takes no whole list from before it listed the roles,
\* and no empty one, if no targeted sync was in GetUsers while List cleared it.
UndisturbedSyncReconciles == ~disturbed => FullSyncReconciles
=============================================================================

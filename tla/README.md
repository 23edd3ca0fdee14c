# A specification of baton-teleport

baton-teleport connects ConductorOne to a Teleport cluster: it reports users,
roles, nodes, apps and databases and who has which role (sync), follows
Teleport's audit log (event feeds), and creates accounts and grants or revokes
roles (provisioning). These modules model the parts of it in which steps can
fail, repeat or interleave, check them with TLC on small instances, and prove
the most important properties with TLAPS for instances of any size.

The reference is the code under `src/pkg`. The SDK (`baton-sdk`), Teleport and
ConductorOne are modelled only as far as the connector's code meets them.

## The system

| Part | State it keeps | Operations | What is hard about it |
|---|---|---|---|
| Event cursor (`event_pagination.go`) | none; a string ConductorOne keeps: start, latest event seen, continuation key | decode, update latest, next cycle | ties of timestamps at the ends of pages and cycles; three fields that move at different calls |
| Audit feed (`audit_event_feed.go`) | none between calls | `ListEvents`: search a page, convert each event, some with a lookup of an access request | a lookup that fails half way, a lost answer, late events, two clocks, requests that are gone |
| Usage feed (`usage_event_feed.go`) | none between calls | `ListEvents` over logins | the same without lookups; failed logins move the cursor |
| Role builder, sync (`roles.go`) | `userCache`, in memory, no lock | `List` clears it, `Grants` reads it through `GetUsers`, which fills it | stale cache; calls of several workers and tasks at once |
| Role builder, provisioning (`roles.go`) | none | `Grant`, `Revoke`: read the user, change the copy, write it back | lost updates; a write that takes effect without an answer, perhaps long after its task failed |
| User builder (`users.go`) | none | `List`, `Get`; `CreateAccount`: create, then request a reset token; `Delete`: read, check, delete | one of several requests fails; the user changes between two; names that become equal; retries |
| Node, app and database builders | none | `List`, with pages for nodes | the cluster changes between two pages; resources identified by their revision |
| Client and configuration (`client.go`, `schema.go`) | the connection | connect with a key file or a key | little: start-up only |
| Connector (`connector.go`) | one instance of each builder and feed | wiring | makes the cache shared by all tasks |
| SDK runner and syncer (vendored) | tasks, sync progress | runs up to three tasks at once (`connectorrunner/runner.go:39`); a full sync lists resources, then entitlements, then grants, on one or several workers | concurrency the connector has to stand |

ConductorOne calls `ListEvents` of each feed with the cursor the last
successful call returned, and applies the events. A full sync replaces all it
knows of users and grants, the feed adds to it, and nothing in the connector
orders the two. Tasks for syncs and
provisioning reach the same process through the runner, and share the builders.
Everything the connector knows comes from Teleport's API, one request at a time.

What makes each part correct:

* **Feeds.** No event is skipped, whatever fails; an event counts as processed
  only if everything it stands for was delivered; pages go forward in time;
  every event is delivered eventually.
* **Role sync.** A full sync reports memberships as they were after it began,
  and those of one moment for all roles.
* **Full sync and feed together.** From the first full sync on no user and no
  membership is missed: ConductorOne has it, or an event that says so is still
  to come; and what it has is not older than the last full sync and the events
  since.
* **Role provisioning.** What a task reported as done stays done until someone
  changes it, and a task changes nothing else.
* **Accounts.** A link opens the account its own task created; no two tasks are
  answered with one user; what was reported as deleted is gone; no federated user
  is deleted.
* **Nodes, apps and databases.** What is there throughout a sync is reported,
  nothing twice and nothing from before, and a sync gets to its end.

## Modules

| Module | Models | State and actions |
|---|---|---|
| `EventCursor` | `event_pagination.go` | operators on the cursor record |
| `EventSubscription` | the promise of a feed | `Publish`, `Deliver`: batches and a watermark, no pages |
| `AtomicEventFeed` | a feed whose calls take no time | `ListEvents` in one step; extends `EventCursor` |
| `EventFeed` | the body of both `ListEvents`, the audit log, ConductorOne's side | one action per step of a call |
| `EventConversion` | the pure conversions of `audit_event_feed.go` | operators on audit events |
| `AuditEventFeed` | the audit feed, with the lookups of access requests | extends `EventFeed` |
| `UsageEventFeed` | the usage feed | extends `EventFeed` |
| `RoleProvisioning` | `Grant` and `Revoke` | tasks with a copy of the user |
| `RoleSync` | `List`, `GetUsers`, `Grants` and `userCache` | threads, and the words of the cached slice |
| `UserSnapshot` | the promise of a full sync about the members of roles | `ListRoles`, `TakeUsers`, `Report`, `End`: one reading of the users, no cache and no calls |
| `AccountProvisioning` | `CreateAccount` and `Delete` | tasks, one request of theirs per action |
| `IncrementalSync` | full syncs and the audit feed together, and what ConductorOne knows | extends `EventConversion` and `EventCursor` |
| `ResourceListing` | `List` of nodes, apps and databases | pages and keys, while items come, change and go |
| `MC*` | | instances for TLC |
| `*Proofs` | | theorems and proofs of the module they are named after |

### The feeds

`published` is the audit log as a search sees it. Positions of the constant
`Log` order events as a search returns them; times never decrease along it and
may tie. Events become visible in any order (`Publish`), at most `ClockSkew`
ahead of the connector's clock. `prompt` remembers which of them appeared after
every event that was already visible: only for these can a feed that reads
forward promise anything, and the properties speak of them.

A call of `ListEvents` is `StartListEvents` (decode the cursor, search one
page), one conversion per event (`ConvertLocally`, `ResolveRequest` with the
lookup, or `ResolveFails`, which ends the call with an error), and `Return`
(move and encode the cursor). `cursor`, `from`, `lastKey`, `todo` and `done`
(the page before and behind the loop's position) and `result` are the call's
locals. A failed search leaves nothing behind, and is a call that never
started. ConductorOne then takes the answer (`AcceptReply`) or does not get it
(`LoseReply`); the answer to a call that failed is neither events nor a cursor
(`Abandon`). `IsPage` leaves open where a page ends and whether the last page
carries a key, which Teleport's interface leaves open too.

The cursor string is JSON in base64, with times in UTC to the nanosecond: it
decodes to what was encoded, so the record stands for the string. A list of
roles is a set. The roles of a request are a constant: only an approval can narrow
them (`AccessRequestUpdate` in the client library, `access_request.go:731-750`),
so every lookup that follows a state change finds the same ones. Identifiers of events, display names and logging are left out.

`EventSubscription` says what this is for, without pages or requests: batches
of events and a watermark that never goes back; a batch has nothing older than
the watermark; the watermark passes a prompt event only when it was delivered.
Both feeds implement it with the watermark mapped to `LatestEventSeen` while a
cycle runs and to `StartAt` between cycles.

`AtomicEventFeed` says what a call is: one step, in which ConductorOne gets a page,
a cursor and, for each event, something its conversion may yield; a call that fails
or goes unanswered is no step. The feeds implement it, with `received` mapped to
what ConductorOne was told of each position and `yields` to what a conversion may
yield: nothing, for an approved request, only once the request is gone. The one
step is `AcceptReply`; everything before it stutters, although the clock, the log
and the requests change meanwhile. Two traces of that stay in the abstract feed: the
call may have read the clock earlier (`at`), which matters only when it computes the
default start, and its page may lack an event that has appeared since, if that is
past the page's last or was not prompt.

### Provisioning

A task reads a user (`ReadUser`) and later writes the changed copy back
(`UpdateUser`). If no answer arrives the task fails (`UpdateUserTimesOut`), and
the write may take effect at any later time (`UpdateUserUnanswered`), after other
tasks and edits, or never (`UpdateUserRefused`, which is also the write that
Teleport refuses). Until then it counts as a task between its read and its write,
so a repeated task overlaps it. `EditUser` is an administrator. `answered` is what the last task said
about a membership, and becomes unknown when an administrator changes it.
`clean` are the users that nobody wrote between the read and the write of
another. `Grant` and `Revoke` reject a principal that is not a user before they
read anything; such tasks do nothing and are left out.

### Role sync

The list of users is represented by its version. The cache is a Go slice that
several goroutines read and write without a lock, so its words (the array and
the length) are read and written one by one, in either order: `CheckCache`
reads the length, `LoadWord` the array and, if the build reads it twice, the
length again, `StoreWord` writes one word; each is a step of its own. A thread is a worker of the full sync or a task
that syncs one role, which calls `Grants` without `List`. Teleport is taken to
have a user at all times (the connector itself acts as one); an empty list would
not be cached. One full sync runs at a time. A call of the client that fails is
repeated, or ends the sync. `disturbed` records that a targeted sync was inside
`GetUsers` while `List` cleared the cache, and `raced` that a call found another
one fetching or storing: the two ways in which a sync takes its grants from more
than one list of users.

`UserSnapshot` says what this is for: after it listed the roles a sync takes the
users that Teleport has at one moment, and reports nothing else. `RoleSync`
implements it, with `taken` mapped to what is in the cache or being stored into
it, and `reported` to what was recorded for the roles. The step that takes the
users is the `FetchUsers` of the first call that misses the cache, whether a
worker or a targeted sync makes it; all other steps of `GetUsers` stutter, and
so does a failed call. The promise is withdrawn (`End`) when the sync is over,
and when it becomes disturbed or raced: the code has no lock that would keep it.

### Accounts

A task is one action per request. The first creates the user or reads it, and
may be refused or fail (`RequestFails`); the second asks for the link or deletes.
A write that took effect without an answer is an action of its own
(`UserCreatedUnanswered`, `UserDeletedUnanswered`). The SDK does not repeat a
task that failed, so each runs once and a retry is another task; since tasks end,
the system may stop, and its run does not check for deadlock. `CleanName` is
`cleanResourceName`: any function on names, so that names may become equal or
empty. Users are numbered in the order they appear, and `known` is the one a task
created or read. Between two requests an administrator, a single sign-on or
another task may remove the user, and put another in its place; `disturbed` are
the tasks this happened to. The role, the traits and the profile are left out.

### Full sync and feed

`users` is the history of Teleport's users and `log` the audit events that led
from one version to the next, with times that may tie. A full sync lists the
users (`ListUsers`), then takes the grants (`Grants`), and ConductorOne replaces
what it knows by the result (`FinishSync`), unless the sync fails or the result
is lost (`AbandonSync`). A call of `ListEvents` is one step here, with the same
cursor and the same conversions as in `AuditEventFeed`, which has its parts. That
it may be one is what `AuditEventFeed` shows by implementing `AtomicEventFeed`:
`SearchEvents` up to `to` is a page of it, when all events are prompt. An event about a user
adds grants and makes ConductorOne read that user later (`Get`).

Taken for granted are: ConductorOne handles what it is told during a full sync
again when that is complete; it sends a start time, which is not after the
changes modelled here; events appear in their order (`AuditEventFeed` has late
ones); a lock on a user shows as the status `Get` and `List` report, as
`docs/teleport-events.md:210` says, and that status changes only when a lock is
created or deleted: one that Teleport changes on its own, without an event, would
wait for the next full sync; the grants of all roles come from one list of
users, taken after the sync began: `Grants` is the `TakeUsers` of `UserSnapshot`,
which `RoleSync` implements as long as its cache is not contended. Access requests
change no user and are left out; so are events without a name, which the conversion
skips.

### Nodes, apps and databases

Nodes are numbered in the order Teleport lists them in; a key is the number of
the node the next page starts at. `Page` and `NextKey` leave open where a page
ends, but not that the key is that of the next node there is. An identifier is a
pair of an item and a revision, which stands for the revision's text: Teleport
gives no two the same. The three kinds are listed in any order, and items come,
change (`Upsert`) and go (`Remove`) between any two steps. A sync that fails is ended
like one that is complete, and the next begins anew.

## Runs

All bounds are constants of the instances: `ClockBound` and the length of `Log`
for the feeds, `VersionBound` for the users Teleport has, `BirthBound` for the
users that Teleport itself adds, `RevisionBound` for the changes of an item;
role provisioning is finite by itself.

| Run | Shows | Instance |
|---|---|---|
| `audit_feed` | types, the inductive invariant, no event skipped, nothing left out, order of time, the subscription, calls that are one step, and that every prompt event is delivered | four events, a tie of three that pages of two split, one skipped event, two lookups; skew 1; under `FairSpec` |
| `usage_feed` | the same for logins without liveness, and that exactly the successful ones arrive | five events; no start time, so the window slides with the clock |
| `role_provisioning` | answers about clean users hold; nothing else changes | one user, two roles, two logins, two tasks (interchangeable) |
| `role_sync_races` | the inductive invariant; races bring nothing stale into an undisturbed sync, which reconciles; without them it is one snapshot, and implements `UserSnapshot` | two workers (interchangeable) and a targeted sync, two roles, three versions |
| `account_provisioning` | links, created and deleted users are those of the task; federated users stay | three tasks; two names that are equal when cleaned and one that is empty; Teleport adds two users |
| `incremental_sync` | no user and no membership falls between full syncs and the feed; how old a grant may be; a sync that starts when the feed has caught up reconciles removals | one user, two roles (interchangeable), three versions |
| `resource_listing` | what lasts is reported, nothing twice, nothing old; the sync ends | three nodes, one app, each with one change; under `FairSpec` |
| `audit_feed_expiry` | **violated**: an expired request is revoked | |
| `audit_feed_lookup` | **violated**: every event is delivered though one request cannot be looked up | |
| `role_provisioning_answers` | **violated**: every answer holds | |
| `role_sync_stale` | **violated**: a full sync reconciles | one worker and a targeted sync |
| `incremental_sync_removals` | **violated**: removals are reconciled by the next full sync | as `incremental_sync` |

The bounds are enough for what they are for: a tie needs two events, a tie split
by a page a third; a page that ends with a skipped event, an event that appears
late, and a lookup on either side of a page's end all occur. A lost update needs
two tasks. A cache that is stale needs two versions, and three let a sync see two
of its own. Two accounts with one name, and one that is deleted meanwhile, are
three tasks; a user that is replaced by one of another type needs Teleport to add
two. Between a user's creation and the end of a full sync two changes let the
users and the grants be read at different versions, with an event before, between
and after them. Users do not interact in `IncrementalSync`, and roles are
interchangeable there. Three nodes give pages before and after a change; `dbBuilder.List`
is the code of `appBuilder.List`, so the run leaves databases out, and the
theorems do not. The feeds' and the accounts' runs switch the deadlock check off:
clock and log are bounded, tasks end, and a system in which everything happened
may stop; the other systems never stop.

**Fairness** (`AuditEventFeed!Fairness`). Time passes; ConductorOne calls again
after every call; a call goes on. The answer of a call, and a lookup of a
request that is not `Unresolvable`, succeed if they are tried for ever (strong
fairness), since each is an independent request over the network. Nothing is
assumed about when events appear or requests are deleted.

`ResourceListing!Fairness` is weak fairness of the three listings and of the end
of a sync that has listed everything: the SDK goes on with a sync for as long as
there are pages to ask for. Nothing is assumed of the cluster, which may change
for ever.

### What the violated properties say

* `ExpiredRequestsAreRevoked`: comments and documentation expect
  `access_request.expire` as an `AccessRequestCreate` with a state; the client
  library decodes it to `AccessRequestExpire`, which the conversion does not know.
* `EveryPromptEventDelivered` with an unresolvable request: the documentation
  says the event is skipped; the code returns the error and the feed stays at
  that page.
* `AllAnswersHold`: two tasks on one user, both report success, one is undone.
* `FullSyncReconciles`: a targeted sync that was fetching users when `List`
  cleared the cache fills it with users from before.
* `RemovalsAreReconciled`: a role is removed and a full sync reports so; then the
  feed, which is behind or repeats its last events, tells an older event of that
  user, and the grant is back. `GrantsAreRecent` is what holds instead.

### When the violated claims do hold

Three of the five runs show a claim the code does not keep at all times, because
of one interleaving. That nothing else breaks the claim is proved:

* `AllAnswersHold` holds as long as no two tasks are between `GetUser` and
  `UpdateUser` of one user (`OrderedTasksAnswerTrue`), where a write that went
  unanswered lasts until it takes effect or never can: failed and late writes,
  repeated tasks and administrators undo no answer.
* `FullSyncReconciles` holds of every sync in which no targeted sync was in
  `GetUsers` while `List` cleared the cache (`UndisturbedSyncReconciles`): any
  number of workers may race for the cache afterwards.
* `RemovalsAreReconciled` holds of every sync that starts when the feed has
  caught up (`CaughtUpSyncReconciles`), whatever is told during it and after.
  `CaughtUp` says so of the cursor ConductorOne held then: of the events that a
  search from its `StartAt` may tell, none is from before the sync but the one
  whose result the sync started from.

The other two need no interleaving: the conversion of an expired request is
wrong whenever it happens, and an error that stays stops the feed.

Three more sentences disagree with the code, but no run is needed to see it:

* `event_pagination.go:85-87` says of a new cycle that "the next call only fetches
  events that occurred after the last one we processed". The lower bound of a
  search includes its time, so the last events are delivered again in every
  cycle. Skipping them instead would lose the rest of a tie
  (`PrepareNextSyncPastLatest` below): the comment is what is wrong.
* `docs/connector.mdx:23` says "This connector does not support account
  deprovisioning"; `users.go:184` is `Delete`, which the SDK takes for account deletion.
* `docs/connector.mdx:21` says that the link of a new account is sent to a vault;
  it is, if the second request succeeds. If not, the account exists without one,
  and a retry is refused (`AccountsAreNotShared`).

### Mistakes the properties reject

Each property of a passing run was tried against a variant of a definition with
a mistake this code could contain; TLC refutes the property for each.

| Variant | Mistake | Rejected by |
|---|---|---|
| `PrepareNextSyncPastLatest` | the next cycle starts after the latest event | `NoPromptEventSkipped`; `FeedInvariant`, `ImplementsSubscription` (usage) |
| `PrepareNextSyncInPlace` | the cursor does not advance | `DeliveryInTimeOrder` |
| `PrepareNextSyncNoKey` | a field is missing | `TypeOK` |
| `ReturnAtWindowEnd` | the next cycle starts at the end of the window | `FeedInvariant`, `ImplementsSubscription` (audit), `EveryPromptEventDelivered` |
| `ResolveFailsSkipping` | a failed lookup skips the event | `ProcessedEventsAreComplete`, `ImplementsAtomicFeed` |
| `ConvertAnyLogin` | failed logins count | `UsageIsTheSuccessfulLogins` |
| `ChangedToTheOpposite` | `Revoke` filters the wrong way round | `CleanAnswersHold`, `ProvisioningInvariant` |
| `ChangedWithOneLogin` | logins are replaced | `OnlyTheRequestChanges` |
| `ChangedRolesOnly` | traits are dropped | `TypeOK` |
| `ListRolesKeepingTheCache` | `List` does not clear the cache | `SyncInvariant`, `UndisturbedSyncIsNotStale`, `UndisturbedSyncReconciles` |
| `FetchUsersUnkept` | `GetUsers` does not fill the cache | `UncontendedSyncIsOneSnapshot`, `ImplementsSnapshot` |
| `FetchUsersFailsUnhandled` | a failed call is forgotten | `TypeOK` |
| `CreateUserOrAdopt` | a user that exists is as good as a new one | `AccountInvariant`, `AccountsAreNotShared` |
| `CreateResetPasswordTokenUncleaned` | the link is for the name as given | `LinkOpensOwnAccount` |
| `GetAnyUser` | `Delete` does not look at the type | `FederatedUsersStay` |
| `DeleteUserFailsUnnoticed` | the error of the delete is not returned | `DeletedAccountsAreGone` |
| `RemoveUserMarking` | a deleted user leaves its number behind | `TypeOK` |
| `PrepareNextSyncPastLatest` | as above | `MembershipsAreReported`, `IncrementalInvariant` |
| `ConvertLockEventIgnored` | locks are not told | `UsersAreReported` |
| `GrantsOfEarlierUsers` | a full sync uses users of an earlier one | `GrantsAreRecent`, `CaughtUpSyncReconciles` |
| `ListNodesFromTheFirst` | the key is not handed to Teleport | `ReportedOnce`, `ListingInvariant`, `SyncEnds` |
| `ListNodesOnce` | the key is not handed to the SDK | `LastingIsReported` |
| `ListNodesAfterTheKey` | a page starts after its key | `TypeOK` |
| `ListAppsAndEarlierOnes` | `List` keeps what it found before | `ReportedExisted` |

## Theorems

For every log, page size, clock skew, start time, and set of requests (the feeds),
for all users, roles and tasks (provisioning), for all roles, workers, targeted
syncs and versions of the list of users (role sync), for all names and every way
of cleaning them (accounts), for all users and roles (incremental sync), and for
any number of nodes and all apps and databases (listing):

| Theorem | States |
|---|---|
| `InvariantHolds`, `TypeCorrect` | the inductive invariant of the audit feed, and its types |
| `NothingSkipped` | `NoPromptEventSkipped` |
| `DeliveredInOrder` | `DeliveryInTimeOrder` |
| `NothingLeftOut` | `ProcessedEventsAreComplete` |
| `NothingInvented` | ConductorOne is told only what the events passed by the cursor say |
| `Implements`, `UsageImplements` | either feed implements `EventSubscription` |
| `CallsAreAtomic`, `UsageCallsAreAtomic` | either feed implements `AtomicEventFeed`: its calls are one step |
| `PagesAdvance`, `UsagePagesAdvance` | every answer moves the cursor forward |
| `UsageInvariantHolds`, `UsageTypesHold`, `NoLoginSkipped`, `UsageIsExact` | the same invariant for the usage feed, its types, and what ConductorOne knows of logins |
| `ProvisioningInvariantHolds`, `ProvisioningTypesHold`, `AnswersStayTrue`, `OnlyTheRequest` | the invariant of provisioning, `CleanAnswersHold` and `OnlyTheRequestChanges` |
| `OrderedTasksAnswerTrue` | `AllAnswersHold`, of tasks that do not overlap on a user |
| `SyncInvariantHolds`, `SyncTypesHold`, `NothingStale`, `OneSnapshot` | the inductive invariant of the cache of users, `UndisturbedSyncIsNotStale` and `UncontendedSyncIsOneSnapshot` |
| `UndisturbedListReconciles` | `UndisturbedSyncReconciles` |
| `OneWorkerTakesOneSnapshot` | with one worker and no targeted sync, one recent list of users, without a condition |
| `SyncIsASnapshot` | `RoleSync` implements `UserSnapshot` |
| `AccountInvariantHolds`, `AccountTypesHold`, `LinksOpenOwnAccounts`, `NoSharedAccounts`, `DeletedStayDeleted`, `NoFederatedUserDeleted` | the inductive invariant of accounts, and the four properties |
| `IncrementalInvariantHolds`, `IncrementalTypesHold`, `NoMembershipIsMissed`, `NoUserIsMissed`, `NoGrantIsOlder` | the inductive invariant of full syncs and feed, `MembershipsAreReported`, `UsersAreReported`, `GrantsAreRecent` |
| `NoGrantIsInvented` | nobody is reported in a role he never had |
| `CaughtUpRemovalsAreReconciled` | `CaughtUpSyncReconciles` |
| `ListingInvariantHolds`, `ListingTypesHold`, `NothingReportedTwice`, `NothingLastingIsMissed`, `NothingOldIsReported` | the inductive invariant of a listing, `ReportedOnce`, `LastingIsReported`, `ReportedExisted` |
| `ListingAdvances` | a sync has at most a call per node and three to make, and every call leaves fewer |

The assumptions are those the modules state: times are positive and do not
decrease along the log (`LogAssumption`), the bounds are numbers, a state change
that is looked up names a request (`RequestAssumption`), a user's name is a
login and there are a user and a role (`UserAssumption`), workers are not
targeted syncs and there is a role (`TaskAssumption`), there is a name and none
is the empty one (`NameAssumption`), the feed has a start time
(`StartAssumption`), and an item is of one kind (`ListingAssumption`).

**Feeds.** That no event is skipped is not inductive: it relates the log to the
cursor ConductorOne holds, and a call in progress has a cursor of its own.
`FeedInv` says, besides types: between calls, the latest event seen lies between
`StartAt` and the event the continuation key stands at, and no event that has
yet to appear in order is older than `StartAt` (`ConductorInv`); during a call,
the page holds every prompt event ahead of the cursor up to the page's last
(`PageInv`), and the latest event seen is as late as everything processed and
not later than anything still to come (`LatestInv`). The last two conjuncts are
what makes an inclusive lower bound both safe and as late as possible.
`EventFeedProofs` proves, for any set `S` of positions whose events move the
cursor, that each action of `EventFeed` preserves `FeedInv(S)`; the modules of
the two feeds only add their conversions. The refinement follows from the same
invariant: `AcceptReply` is a `Deliver`, `Publish` is `Publish`, all else
stutters. So does `CursorAdvances`: `StartAt` never goes back, and within a cycle
it stays and the continuation key grows, so that a cycle ends; it is why the
feed makes progress whenever calls succeed. `NothingInvented` is the other half
of `ProcessedEventsAreComplete`, and inductive once it also speaks of the `result`
of a call in progress.

That calls are atomic rests on `FeedInv` and on two facts about a call in progress.
`AtOnce` says that its cursor is what the latest time reported so far makes of the
cursor it decoded, for which updates one by one and an update by the latest are the
same (`UpdateTwice`), and that some moment up to now would have decoded the same.
`CallYields` says that what it holds of each event is what a conversion may yield
even now: a lookup that found no request stays right, and one that found it does too,
as the event was in time. Both are kept by every step, and at `AcceptReply` they are
what one step of `AtomicEventFeed` does (`AcceptIsCall`). For the usage feed it is
only proved; no run has it.

**Provisioning.** Answers about a clean user are inductive together with
`CopiesAreCurrent`: the copy a task holds of a clean user is that user. A write
then changes one membership of what is really there, and makes the user unclean
if another task holds a copy that has just become old. A late write answers
nothing, so `LateWritesAreOpen` adds that the membership it will change is one of
which nothing is answered.

For tasks that do not overlap the invariant is another one, since an administrator
may edit a user between a read and a write, and the user is then not clean:
`CopiesBearAnswers`, a copy agrees with every answer about its user that is still
known. An edit makes the answers it contradicts unknown, so it disturbs neither
the copies nor the answers; writing an old copy back may undo the edit, but no
answer. Only a second task could answer while a copy is held, and while a write
is late there is none (`NothingAnsweredYet`).

**Role sync.** What was recorded is as new as what workers hold, and that as new
as the cache or as what another thread stores into it. So `GrantsInv` bounds all
of these by `listedAt`, word by word, as a slice may be put together from two.
`ClearingInv` makes it true when the phase begins: only the thread that clears
is at work, and the words it has no longer to clear are those of the empty
slice. A targeted sync inside `GetUsers` at that time breaks the latter, which
is why the invariant excludes it.

That it is one list needs more: until a call raced, at most one thread fills the
cache, and the cache then is the part of that thread's slice it has stored; once
filled, it is what every returning call holds and every role was recorded from
(`FillInv`). The refinement of `UserSnapshot` rests on it: the first `FetchUsers`
after the clear takes the users, and each later step of `GetUsers` leaves the set
of versions in the cache and in what is being stored as it is.

`UndisturbedSyncReconciles` adds to the bound that what was recorded is not
empty (`PresentInv`). A slice that was torn from two lists is not a list Teleport
ever had, and the claim does not speak of it; that every word of it is recent is
`UndisturbedSyncIsNotStale`. With one worker and no targeted sync nothing races or
disturbs (`OneWorkerTakesOneSnapshot`), so what the code needs is that schedule.

**Accounts.** A property such as `LinkOpensOwnAccount` is about the end of a task
and not inductive. `KnownUser` says what holds on the way: between the requests
the user a task knows is local and still has the name, or the task is disturbed,
and a user with a known number never has another name. `NumberedOnce` makes a
number stand for one user.

**Incremental sync.** That no membership is missed is inductive only together
with what the full sync that is under way will do: `SyncInv` says that the users
it listed, with what the feed told since, would report everyone, and likewise the
grants. A change of a user adds an event that is ahead of any cursor
(`CursorInv`: the cursor stands at or before the last event); a call of the feed
moves what was ahead into what is known and into what was told since the sync
began; the end of the sync replaces one by the other. `mark` is the lower bound of
the feed when the sync began, so what was told since is not older.

What a sync or an event tells was so at some version (`LogIsHistory`, `EverHeld`):
each event of the log tells roles of the version it led to. With
`GrantsAreRecent` this places every grant either at or after the start of the last
sync, or at the version of an event not older than `mark`; if the feed had caught
up, that version is not before the sync either.

**Listing.** `PagesInvariant`: the nodes before the key are reported if they
lasted, those from the key on are not reported at all. The second half is what
makes a node that changes between two pages appear once, and it needs the key to
advance. The same fact bounds a sync: `Left` counts the calls it may still make.

Only model-checked: liveness (`EveryPromptEventDelivered`, `SyncEnds`), which is
out of the prover's reach, as are fairness and `ENABLED`. Of both, the safety half
is proved: every answer takes the cursor forward (`PagesAdvance`), every call a
sync nearer to its end (`ListingAdvances`); that the calls are made and succeed is
what fairness adds. Every invariant and every action property of a passing
run is proved. The pure conversions are not recursive; their properties are part
of the feeds'.

## Not modelled

* Start-up: which credentials are used and the port that is added to an address.
  It is pure code that runs once, without steps between which anything happens;
  nor do the two test tools under `src/cmd` keep state or run beside anything.
* `connectorbuilder`, the syncer and the runner of the SDK beyond the calls they
  make, and Teleport's own services.
* The grants of approved access requests in a full sync: they are in no user
  record, and what ConductorOne does with a grant that a full sync does not repeat
  is not in this repository.
* Sizes of messages: `GetNodes` asks for no limit (`client.go:65`).
* Events that appear behind one already processed, and, without a start time,
  events that leave the window before the first call succeeds. The code does not
  see them and no property covers them.
* What ConductorOne does with events; requests of Teleport that are slow without
  failing; the content of resources, entitlements and display names.

## Plan

1. Access requests in `IncrementalSync`, once it is known how ConductorOne treats
   grants that only events told.
2. `RoleSync` and `IncrementalSync` in one module, with what a contended cache does
   to what ConductorOne knows; today `UserSnapshot` stands between the two.
3. Several nodes of the connector, if it is ever run so: the cache is per process.

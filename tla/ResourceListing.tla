-------------------------- MODULE ResourceListing --------------------------
(***************************************************************************)
(* The nodes, applications and databases of a full sync (nodes.go,         *)
(* apps.go, databases.go).                                                 *)
(*                                                                         *)
(* A full sync asks for the nodes page by page, each request starting at   *)
(* the key the last answer gave, and for the applications and for the      *)
(* databases in one call each.  Meanwhile they come, change and go.  What  *)
(* is reported of each is a resource whose identifier is its revision,     *)
(* which Teleport renews with every change.                                *)
(*                                                                         *)
(* Nodes are numbered in the order Teleport lists them in; a key is the    *)
(* number of a node, and 0 stands for the empty string.  The revisions of  *)
(* an item are counted; an identifier is that of an item at a revision,    *)
(* for no two revisions in Teleport are the same.                          *)
(***************************************************************************)
EXTENDS Naturals

CONSTANTS
    NodeCount,
    App,
    Database,
    RevisionBound   \* bound: an item changes no more after so many revisions

Node == 1..NodeCount
Item == Node \cup App \cup Database

ASSUME ListingAssumption ==
    /\ NodeCount \in Nat /\ RevisionBound \in Nat
    /\ Node \cap App = {} /\ Node \cap Database = {} /\ App \cap Database = {}

VARIABLES
    present,    \* Teleport: the items that are there
    revision,   \* Teleport: the revision of each item, or the last it had
    pending,    \* the full sync: the kinds it has not listed to the end
    token,      \* the full sync: the key the next page of nodes starts at
    resources,  \* the full sync: the identifiers of what was reported
    existed,    \* history: identifiers that items have had since the sync began
    lasting     \* history: identifiers that items have had all that time

teleport == <<present, revision>>
history == <<existed, lasting>>
vars == <<teleport, pending, token, resources, history>>

Kind == {"nodes", "apps", "databases"}
NoSync == {"none"}
Syncing == pending # NoSync

\* getNodeResource, getAppResource and getDatabaseResource: the identifier of a
\* resource is the revision.
Id(i) == <<i, revision[i]>>
Ids(items) == {Id(i) : i \in items \cap present}

Init ==
    /\ present \in SUBSET Item
    /\ revision = [i \in Item |-> 0]
    /\ pending = NoSync
    /\ token = 0
    /\ resources = {}
    /\ existed = {}
    /\ lasting = {}
-----------------------------------------------------------------------------
(* Teleport. *)

\* An item comes, or changes.
Upsert(i) ==
    /\ revision[i] < RevisionBound
    /\ present' = present \cup {i}
    /\ revision' = [revision EXCEPT ![i] = @ + 1]
    /\ existed' = IF Syncing THEN existed \cup {<<i, revision[i] + 1>>} ELSE existed
    /\ lasting' = lasting \ {Id(i)}
    /\ UNCHANGED <<pending, token, resources>>

Remove(i) ==
    /\ present' = present \ {i}
    /\ lasting' = lasting \ {Id(i)}
    /\ UNCHANGED <<revision, pending, token, resources, existed>>

\* ListResources: the nodes from the key on, up to some node, and the key of the
\* next node or none.  A page that another follows is not empty.
Page(startKey, to) == {n \in Node \cap present : startKey <= n /\ n <= to}
NextKey(next, startKey, to) ==
    /\ \A n \in Node \cap present : n > to => next # 0 /\ next <= n
    /\ next # 0 => next \in present /\ next > to /\ Page(startKey, to) # {}
-----------------------------------------------------------------------------
(* The full sync. *)

StartSync ==
    /\ ~Syncing
    /\ pending' = Kind
    /\ existed' = Ids(Item)
    /\ lasting' = Ids(Item)
    /\ UNCHANGED <<teleport, token, resources>>

Report(items) == resources' = resources \cup Ids(items)

\* Mistake: GetNodes asks for the first page each time.
ListNodesFromTheFirst(to, next) ==
    /\ "nodes" \in pending
    /\ NextKey(next, 0, to)
    /\ Report(Page(0, to))
    /\ token' = next
    /\ pending' = IF next = 0 THEN pending \ {"nodes"} ELSE pending
    /\ UNCHANGED <<teleport, history>>

\* Mistake: List does not hand on the key of the next page.
ListNodesOnce(to, next) ==
    /\ "nodes" \in pending
    /\ NextKey(next, token, to)
    /\ Report(Page(token, to))
    /\ token' = 0
    /\ pending' = pending \ {"nodes"}
    /\ UNCHANGED <<teleport, history>>

\* Mistake: the next page starts after the node whose key was given.
ListNodesAfterTheKey(to, next) ==
    /\ "nodes" \in pending
    /\ NextKey(next, token, to)
    /\ Report(Page(token, to))
    /\ token' = next + 1
    /\ pending' = IF next = 0 THEN pending \ {"nodes"} ELSE pending
    /\ UNCHANGED <<teleport, history>>

\* nodeBuilder.List
ListNodes(to, next) ==
    /\ "nodes" \in pending
    /\ NextKey(next, token, to)
    /\ Report(Page(token, to))
    /\ token' = next
    /\ pending' = IF next = 0 THEN pending \ {"nodes"} ELSE pending
    /\ UNCHANGED <<teleport, history>>

\* Mistake: List remembers what it found in an earlier sync, as that of roles does.
ListAppsAndEarlierOnes ==
    /\ "apps" \in pending
    /\ resources' = resources \cup UNION {{i} \X (0..revision[i]) : i \in App}
    /\ pending' = pending \ {"apps"}
    /\ UNCHANGED <<teleport, token, history>>

\* appBuilder.List
ListApps ==
    /\ "apps" \in pending
    /\ Report(App)
    /\ pending' = pending \ {"apps"}
    /\ UNCHANGED <<teleport, token, history>>

\* dbBuilder.List
ListDatabases ==
    /\ "databases" \in pending
    /\ Report(Database)
    /\ pending' = pending \ {"databases"}
    /\ UNCHANGED <<teleport, token, history>>

\* The sync is complete, or gives up because a call failed.
EndSync ==
    /\ Syncing
    /\ pending' = NoSync
    /\ token' = 0
    /\ resources' = {}
    /\ existed' = {}
    /\ lasting' = {}
    /\ UNCHANGED teleport

FinishSync == pending = {} /\ EndSync

Next ==
    \/ \E i \in Item : Upsert(i) \/ Remove(i)
    \/ StartSync
    \/ \E to, next \in 0..NodeCount : ListNodes(to, next)
    \/ ListApps
    \/ ListDatabases
    \/ EndSync

Spec == Init /\ [][Next]_vars

\* The SDK goes on with a sync: it asks for the next page, and for each kind.
Fairness ==
    /\ WF_vars(\E to, next \in 0..NodeCount : ListNodes(to, next))
    /\ WF_vars(ListApps)
    /\ WF_vars(ListDatabases)
    /\ WF_vars(FinishSync)

FairSpec == Spec /\ Fairness
-----------------------------------------------------------------------------
TypeOK ==
    /\ present \subseteq Item
    /\ revision \in [Item -> Nat]
    /\ pending \subseteq Kind \/ pending = NoSync
    /\ token \in 0..NodeCount
    /\ resources \subseteq Item \X Nat
    /\ existed \subseteq Item \X Nat
    /\ lasting \subseteq Item \X Nat

\* A sync reports no item twice, although an item that changes between two pages
\* changes its identifier (getNodeResource).
ReportedOnce ==
    \A r, s \in resources : r[1] = s[1] => r = s

Listed(kind, items) ==
    Syncing /\ kind \notin pending => \A r \in lasting : r[1] \in items => r \in resources

\* What is there throughout a sync is reported by the end of it, whatever comes
\* and goes between two pages (nodes.go, apps.go, databases.go: List).
LastingIsReported ==
    Listed("nodes", Node) /\ Listed("apps", App) /\ Listed("databases", Database)

\* A sync reports nothing from before it began (List keeps nothing, unlike that
\* of roleBuilder).
ReportedExisted == resources \subseteq existed

\* A sync gets to its end: the key a page is asked from advances (NextPageToken of
\* nodeBuilder.List), however the nodes change meanwhile.
SyncEnds == Syncing ~> ~Syncing

\* Why.  While nodes are pending, those before the key were reported if they
\* lasted, and none was from the key on;
PagesInvariant ==
    "nodes" \in pending =>
        /\ \A r \in resources : r[1] \in Node => r[1] < token
        /\ \A r \in lasting : r[1] \in Node /\ r[1] < token => r \in resources

\* of the other kinds nothing is reported before their one call.
OnceInvariant ==
    /\ "apps" \in pending => \A r \in resources : r[1] \notin App
    /\ "databases" \in pending => \A r \in resources : r[1] \notin Database

\* The inductive invariant.
ListingInvariant ==
    /\ TypeOK
    /\ Syncing => lasting \subseteq Ids(Item) /\ Ids(Item) \subseteq existed
    /\ ~Syncing => token = 0 /\ resources = {}
    /\ PagesInvariant
    /\ OnceInvariant
    /\ ReportedOnce
    /\ LastingIsReported
    /\ ReportedExisted
=============================================================================

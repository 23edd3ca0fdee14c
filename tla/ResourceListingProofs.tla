----------------------- MODULE ResourceListingProofs -----------------------
(***************************************************************************)
(* Proofs about the nodes, applications and databases of a full sync: for  *)
(* any of them, however they change meanwhile and wherever a page ends.    *)
(***************************************************************************)
EXTENDS ResourceListing, TLAPS

\* What listing some items adds to the report.
LEMMA ReportAdds ==
    ASSUME TypeOK, NEW items, items \subseteq Item, Report(items)
    PROVE  /\ resources' \subseteq Item \X Nat
           /\ resources \subseteq resources'
           /\ \A r \in resources' : r \in resources
                                    \/ \E i \in items \cap present : r = <<i, revision[i]>>
           /\ \A i \in items \cap present : <<i, revision[i]>> \in resources'
  BY DEF TypeOK, Report, Ids, Id

\* Nobody syncs when the process starts.
LEMMA InitEstablishesListing == Init => ListingInvariant
  BY ListingAssumption
     DEF Init, ListingInvariant, TypeOK, Syncing, NoSync, PagesInvariant, OnceInvariant,
         ReportedOnce, LastingIsReported, Listed, ReportedExisted

\* An item that comes, changes or goes touches nothing that was reported.
LEMMA TeleportKeepsListing ==
    ASSUME ListingInvariant, NEW i \in Item, Upsert(i) \/ Remove(i)
    PROVE  ListingInvariant'
  <1> USE DEF ListingInvariant
  <1>1. /\ UNCHANGED <<pending, token, resources>>
        /\ lasting' = lasting \ {<<i, revision[i]>>}
        /\ existed \subseteq existed'
    BY DEF Upsert, Remove, Id
  <1>2. TypeOK'
    <2>1. CASE Upsert(i)
      <3>1. revision[i] + 1 \in Nat
        BY DEF TypeOK
      <3> QED BY <1>1, <2>1, <3>1 DEF Upsert, TypeOK
    <2>2. CASE Remove(i)
      BY <1>1, <2>2 DEF Remove, TypeOK
    <2> QED BY <2>1, <2>2
  <1>3. ASSUME Syncing'
        PROVE  lasting' \subseteq Ids(Item)' /\ Ids(Item)' \subseteq existed'
    <2>1. lasting \subseteq Ids(Item) /\ Ids(Item) \subseteq existed /\ Syncing
      BY <1>1, <1>3 DEF Syncing
    <2>2. \A j \in Item \ {i} : revision'[j] = revision[j] /\ (j \in present' <=> j \in present)
      BY DEF Upsert, Remove, TypeOK
    <2>3. ASSUME NEW r \in lasting' PROVE r \in Ids(Item)'
      <3>1. PICK j \in Item \cap present : r = <<j, revision[j]>>
        BY <1>1, <2>1, <2>3 DEF Ids, Id
      <3>2. j # i
        BY <1>1, <2>3, <3>1
      <3> QED BY <2>2, <3>1, <3>2 DEF Ids, Id
    <2>4. ASSUME NEW j \in Item \cap present' PROVE <<j, revision'[j]>> \in existed'
      <3>1. CASE j # i
        BY <1>1, <2>1, <2>2, <2>4, <3>1 DEF Ids, Id
      <3>2. CASE j = i
        BY <2>1, <2>4, <3>2 DEF Upsert, Remove, TypeOK
      <3> QED BY <3>1, <3>2
    <2> QED BY <2>3, <2>4 DEF Ids, Id
  <1>4. ~Syncing' => token' = 0 /\ resources' = {}
    BY <1>1 DEF Syncing
  <1>5. PagesInvariant' /\ OnceInvariant' /\ ReportedOnce'
    BY <1>1 DEF PagesInvariant, OnceInvariant, ReportedOnce
  <1>6. LastingIsReported' /\ ReportedExisted'
    BY <1>1 DEF LastingIsReported, Listed, Syncing, ReportedExisted
  <1> QED BY <1>2, <1>3, <1>4, <1>5, <1>6

\* A page of nodes takes up where the one before ended.
LEMMA ListNodesKeeps ==
    ASSUME ListingInvariant, NEW to \in 0..NodeCount, NEW next \in 0..NodeCount,
           ListNodes(to, next)
    PROVE  ListingInvariant'
  <1> USE DEF ListingInvariant
  <1> DEFINE page == Page(token, to)
  <1>1. /\ "nodes" \in pending /\ token' = next
        /\ pending' = IF next = 0 THEN pending \ {"nodes"} ELSE pending
        /\ UNCHANGED <<present, revision, existed, lasting>>
    BY DEF ListNodes, teleport, history
  <1>2. pending \subseteq Kind /\ pending' \subseteq Kind /\ Syncing /\ Syncing'
    BY <1>1 DEF TypeOK, Syncing, NoSync, Kind
  <1>3. page \subseteq Node \cap present
    BY DEF Page
  <1>4. /\ resources' \subseteq Item \X Nat
        /\ resources \subseteq resources'
        /\ \A r \in resources' : r \in resources \/ \E n \in page : r = <<n, revision[n]>>
        /\ \A n \in page : <<n, revision[n]>> \in resources'
    <2>1. Report(page) /\ page \subseteq Item /\ page \cap present = page
      BY <1>3 DEF ListNodes, Item
    <2> HIDE DEF page
    <2> QED BY <2>1, ReportAdds
  <1>5. TypeOK'
    BY <1>1, <1>2, <1>4 DEF TypeOK
  <1>6. /\ token \in Nat /\ to \in Nat /\ next \in Nat /\ Node \subseteq Nat
        /\ \A n \in page : n \in Nat /\ n \in Node /\ token <= n /\ n <= to
        /\ \A n \in Node \cap present : n > to => next # 0 /\ next <= n
        /\ next # 0 => next > to /\ page # {}
    BY ListingAssumption DEF TypeOK, Node, ListNodes, NextKey, Page
  <1>7. /\ \A r \in resources : r[1] \in Node => r[1] < token
        /\ \A r \in lasting : r[1] \in Node /\ r[1] < token => r \in resources
    BY <1>1 DEF PagesInvariant
  <1>8. ASSUME NEW r \in lasting, r[1] \in Node, next # 0 => r[1] < next
        PROVE  r \in resources'
    <2>1. PICK i \in Item \cap present : r = <<i, revision[i]>>
      BY <1>2, <1>8 DEF Ids, Id
    <2>2. i \in Node \cap present /\ i \in Nat
      BY <1>6, <1>8, <2>1
    <2>3. i <= to
      BY <1>6, <1>8, <2>1, <2>2
    <2>4. CASE i < token
      BY <1>4, <1>7, <1>8, <2>1, <2>4
    <2>5. CASE token <= i
      <3>1. i \in page
        BY <2>2, <2>3, <2>5 DEF Page
      <3> QED BY <1>4, <2>1, <3>1
    <2> QED BY <1>6, <2>2, <2>4, <2>5
  <1>9. PagesInvariant'
    <2> SUFFICES ASSUME "nodes" \in pending' PROVE PagesInvariant'
      BY DEF PagesInvariant
    <2>1. next # 0
      BY <1>1
    <2>2. PICK first \in page : TRUE
      BY <1>6, <2>1
    <2>3. \A r \in resources' : r[1] \in Node => r[1] < next
      <3>1. \A n \in page : n < next
        <4> HIDE DEF page
        <4> QED BY <1>6, <2>1
      <3>2. token < next
        <4>1. first \in Nat /\ token <= first /\ first < next
          BY <1>6, <3>1
        <4> QED BY <1>6, <4>1
      <3>3. ASSUME NEW r \in resources, r[1] \in Node PROVE r[1] < next
        <4>1. r[1] \in Nat /\ r[1] < token
          BY <1>6, <1>7, <3>3
        <4> QED BY <1>6, <3>2, <4>1
      <3> HIDE DEF page
      <3> QED BY <1>4, <3>1, <3>3
    <2>4. \A r \in lasting' : r[1] \in Node /\ r[1] < next => r \in resources'
      BY <1>1, <1>8
    <2> QED BY <1>1, <2>3, <2>4 DEF PagesInvariant
  <1>10. OnceInvariant'
    <2>1. \A n \in page : n \notin App /\ n \notin Database
      <3> HIDE DEF page
      <3> QED BY <1>3, ListingAssumption
    <2>2. \A r \in resources' : r \in resources \/ (r[1] \notin App /\ r[1] \notin Database)
      <3> HIDE DEF page
      <3> QED BY <1>4, <2>1
    <2>3. \A kind \in {"apps", "databases"} : kind \in pending' => kind \in pending
      BY <1>1
    <2> QED BY <2>2, <2>3 DEF OnceInvariant
  <1>11. ReportedOnce'
    <2> SUFFICES ASSUME NEW r \in resources', NEW s \in resources', r[1] = s[1] PROVE r = s
      BY DEF ReportedOnce
    <2>1. CASE r \in resources /\ s \in resources
      BY <2>1 DEF ReportedOnce
    <2>2. ASSUME NEW p \in resources, NEW n \in page PROVE p[1] # n
      <3>1. n \in Nat /\ n \in Node /\ token <= n
        BY <1>6
      <3> QED BY <1>6, <1>7, <3>1
    <2> QED BY <1>4, <2>1, <2>2
  <1>12. LastingIsReported'
    <2>1. Listed("nodes", Node)'
      BY <1>1, <1>8 DEF Listed
    <2>2. Listed("apps", App)' /\ Listed("databases", Database)'
      BY <1>1, <1>2, <1>4 DEF LastingIsReported, Listed
    <2> QED BY <2>1, <2>2 DEF LastingIsReported
  <1>13. ReportedExisted'
    <2>1. \A n \in page : <<n, revision[n]>> \in existed
      BY <1>2, <1>3 DEF Ids, Id, Item
    <2>2. resources' \subseteq existed
      <3> HIDE DEF page
      <3> QED BY <1>4, <2>1 DEF ReportedExisted
    <2> QED BY <1>1, <2>2 DEF ReportedExisted
  <1>14. Syncing' => lasting' \subseteq Ids(Item)' /\ Ids(Item)' \subseteq existed'
    BY <1>1, <1>2 DEF Ids, Id
  <1> QED BY <1>2, <1>5, <1>9, <1>10, <1>11, <1>12, <1>13, <1>14

\* One call lists all of a kind that was not listed before.
LEMMA ListAllKeeps ==
    ASSUME ListingInvariant, NEW kind \in {"apps", "databases"},
           kind \in pending, pending' = pending \ {kind},
           Report(IF kind = "apps" THEN App ELSE Database),
           UNCHANGED <<present, revision, token, existed, lasting>>
    PROVE  ListingInvariant'
  <1> DEFINE items == IF kind = "apps" THEN App ELSE Database
  <1> USE DEF ListingInvariant
  <1>1. pending \subseteq Kind /\ pending' \subseteq Kind /\ Syncing /\ Syncing'
    BY DEF TypeOK, Syncing, NoSync, Kind
  <1>2. items \subseteq Item /\ items \cap Node = {}
    BY ListingAssumption DEF Item
  <1>3. /\ resources' \subseteq Item \X Nat
        /\ resources \subseteq resources'
        /\ \A r \in resources' : r \in resources
                                 \/ \E i \in items \cap present : r = <<i, revision[i]>>
        /\ \A i \in items \cap present : <<i, revision[i]>> \in resources'
    BY <1>2, ReportAdds
  <1>4. TypeOK'
    BY <1>1, <1>3 DEF TypeOK
  <1>5. \A r \in resources : r[1] \notin items
    BY DEF OnceInvariant
  <1>6. \A r \in resources' : r \in resources \/ r[1] \in items
    BY <1>3
  <1>7. PagesInvariant'
    BY <1>2, <1>3, <1>6 DEF PagesInvariant
  <1>8. OnceInvariant'
    BY <1>6, ListingAssumption DEF OnceInvariant
  <1>9. ReportedOnce'
    <2> SUFFICES ASSUME NEW r \in resources', NEW s \in resources', r[1] = s[1] PROVE r = s
      BY DEF ReportedOnce
    <2>1. CASE r \in resources /\ s \in resources
      BY <2>1 DEF ReportedOnce
    <2> QED BY <1>3, <1>5, <2>1
  <1>10. LastingIsReported'
    <2>1. ASSUME NEW r \in lasting, r[1] \in items PROVE r \in resources'
      BY <1>1, <1>3, <2>1 DEF Ids, Id
    <2> QED BY <1>1, <1>3, <2>1 DEF LastingIsReported, Listed
  <1>11. ReportedExisted'
    <2>1. \A i \in items \cap present : <<i, revision[i]>> \in existed
      BY <1>1, <1>2 DEF Ids, Id
    <2> QED BY <1>3, <2>1 DEF ReportedExisted
  <1>12. lasting' \subseteq Ids(Item)' /\ Ids(Item)' \subseteq existed'
    BY <1>1 DEF Ids, Id
  <1> QED BY <1>1, <1>4, <1>7, <1>8, <1>9, <1>10, <1>11, <1>12

\* A sync begins with nothing reported, and ends.
LEMMA SyncKeepsListing ==
    ASSUME ListingInvariant, StartSync \/ EndSync \/ UNCHANGED vars
    PROVE  ListingInvariant'
  <1> USE DEF ListingInvariant
  <1>1. CASE StartSync
    <2>1. /\ ~Syncing /\ pending' = Kind /\ token' = 0 /\ resources' = {}
          /\ existed' = Ids(Item) /\ lasting' = Ids(Item)
          /\ UNCHANGED <<present, revision>>
      BY <1>1 DEF StartSync, teleport
    <2>2. Ids(Item) \subseteq Item \X Nat
      BY DEF Ids, Id, TypeOK
    <2>3. TypeOK'
      BY <2>1, <2>2 DEF TypeOK
    <2>4. Syncing'
      BY <2>1 DEF Syncing, Kind, NoSync
    <2>5. Ids(Item)' = Ids(Item)
      BY <2>1 DEF Ids, Id
    <2>6. PagesInvariant'
      <3>1. \A r \in lasting' : r[1] \in Node => r[1] \in Nat /\ r[1] # 0
        BY <2>1, <2>2, ListingAssumption DEF Node
      <3>2. \A r \in lasting' : r[1] \in Node => ~(r[1] < token')
        BY <2>1, <3>1
      <3> QED BY <2>1, <3>2 DEF PagesInvariant
    <2>7. OnceInvariant' /\ ReportedOnce' /\ ReportedExisted'
      BY <2>1 DEF OnceInvariant, ReportedOnce, ReportedExisted
    <2>8. LastingIsReported'
      BY <2>1 DEF LastingIsReported, Listed, Kind
    <2> QED BY <2>1, <2>3, <2>4, <2>5, <2>6, <2>7, <2>8
  <1>2. CASE EndSync
    <2>1. /\ pending' = NoSync /\ token' = 0 /\ resources' = {}
          /\ existed' = {} /\ lasting' = {} /\ UNCHANGED <<present, revision>>
      BY <1>2 DEF EndSync, teleport
    <2>2. TypeOK'
      BY <2>1, ListingAssumption DEF TypeOK
    <2> QED BY <2>1, <2>2
            DEF Syncing, NoSync, PagesInvariant, OnceInvariant, ReportedOnce,
                LastingIsReported, Listed, ReportedExisted
  <1>3. CASE UNCHANGED vars
    BY <1>3 DEF vars, teleport, history, TypeOK, Syncing, Ids, Id, PagesInvariant, OnceInvariant,
                ReportedOnce, LastingIsReported, Listed, ReportedExisted
  <1> QED BY <1>1, <1>2, <1>3

\* Every step keeps the invariant.
LEMMA NextKeepsListing == ListingInvariant /\ [Next]_vars => ListingInvariant'
  <1> SUFFICES ASSUME ListingInvariant, [Next]_vars PROVE ListingInvariant'
    OBVIOUS
  <1>1. ASSUME NEW i \in Item, Upsert(i) \/ Remove(i) PROVE ListingInvariant'
    BY <1>1, TeleportKeepsListing
  <1>2. ASSUME NEW to \in 0..NodeCount, NEW next \in 0..NodeCount, ListNodes(to, next)
        PROVE  ListingInvariant'
    BY <1>2, ListNodesKeeps
  <1>3. CASE ListApps
    <2>1. /\ "apps" \in pending /\ pending' = pending \ {"apps"}
          /\ Report(App)
          /\ UNCHANGED <<present, revision, token, existed, lasting>>
      BY <1>3 DEF ListApps, teleport, history
    <2> QED BY <2>1, ListAllKeeps
  <1>4. CASE ListDatabases
    <2>1. /\ "databases" \in pending /\ pending' = pending \ {"databases"}
          /\ Report(Database)
          /\ UNCHANGED <<present, revision, token, existed, lasting>>
      BY <1>4 DEF ListDatabases, teleport, history
    <2> QED BY <2>1, ListAllKeeps
  <1>5. CASE StartSync \/ EndSync \/ UNCHANGED vars
    BY <1>5, SyncKeepsListing
  <1> QED BY <1>1, <1>2, <1>3, <1>4, <1>5 DEF Next

\* The inductive invariant of a sync of nodes, applications and databases: what was
\* reported is what List of nodes.go, apps.go and databases.go have passed.
THEOREM ListingInvariantHolds == Spec => []ListingInvariant
  BY InitEstablishesListing, NextKeepsListing, PTL DEF Spec

\* The token List (nodes.go) hands on is always one it can be asked with again.
THEOREM ListingTypesHold == Spec => []TypeOK
  <1>1. ListingInvariant => TypeOK
    BY DEF ListingInvariant
  <1> QED BY <1>1, ListingInvariantHolds, PTL

\* However nodes change between two pages, which changes the identifier that
\* getNodeResource gives them, a sync reports none twice.
THEOREM NothingReportedTwice == Spec => []ReportedOnce
  <1>1. ListingInvariant => ReportedOnce
    BY DEF ListingInvariant
  <1> QED BY <1>1, ListingInvariantHolds, PTL

\* What is there throughout a sync is in its report, whatever comes and goes while
\* List (nodes.go) is asked for page after page.
THEOREM NothingLastingIsMissed == Spec => []LastingIsReported
  <1>1. ListingInvariant => LastingIsReported
    BY DEF ListingInvariant
  <1> QED BY <1>1, ListingInvariantHolds, PTL

\* What List (nodes.go, apps.go, databases.go) reports existed during the sync.
THEOREM NothingOldIsReported == Spec => []ReportedExisted
  <1>1. ListingInvariant => ReportedExisted
    BY DEF ListingInvariant
  <1> QED BY <1>1, ListingInvariantHolds, PTL
-----------------------------------------------------------------------------
(* Why a sync ends: what is left of it shrinks with every call. *)

\* The calls a sync may still make: a page for each node from the key on and one
\* that finds none, and one call for each other kind.
Left ==
    (IF "nodes" \in pending THEN 1 + NodeCount - token ELSE 0)
        + (IF "apps" \in pending THEN 1 ELSE 0)
        + (IF "databases" \in pending THEN 1 ELSE 0)

ListingCall ==
    (\E to, next \in 0..NodeCount : ListNodes(to, next)) \/ ListApps \/ ListDatabases

\* A page takes the key, or the list of kinds, further.
LEMMA ListNodesAdvances ==
    ASSUME TypeOK, NEW to \in 0..NodeCount, NEW next \in 0..NodeCount, ListNodes(to, next)
    PROVE  Left' < Left
  <1>1. /\ "nodes" \in pending /\ token' = next
        /\ pending' = IF next = 0 THEN pending \ {"nodes"} ELSE pending
    BY DEF ListNodes
  <1>2. token \in 0..NodeCount /\ NodeCount \in Nat
    BY ListingAssumption DEF TypeOK
  <1>3. /\ "apps" \in pending' <=> "apps" \in pending
        /\ "databases" \in pending' <=> "databases" \in pending
        /\ "nodes" \in pending' <=> next # 0
    BY <1>1
  <1>4. next # 0 => token < next
    <2>1. ASSUME next # 0 PROVE next > to /\ \E n \in Node : token <= n /\ n <= to
      BY <2>1 DEF ListNodes, NextKey, Page
    <2> QED BY <1>2, <2>1 DEF Node
  <1> QED BY <1>1, <1>2, <1>3, <1>4 DEF Left

\* Every call of List (nodes.go, apps.go, databases.go) leaves less of the sync to
\* do, and nothing that happens in Teleport leaves more: a sync that is not given
\* up makes at most as many calls as there are nodes, and three.
THEOREM ListingAdvances ==
    Spec => /\ [](Syncing => Left \in 0..(NodeCount + 3))
            /\ [][/\ ListingCall => Left' < Left
                  /\ Syncing /\ Syncing' /\ ~ListingCall => Left' = Left]_vars
  <1>1. TypeOK => (Syncing => Left \in 0..(NodeCount + 3))
    BY ListingAssumption DEF TypeOK, Left
  <1>2. TypeOK /\ [Next]_vars
          => [/\ ListingCall => Left' < Left
              /\ Syncing /\ Syncing' /\ ~ListingCall => Left' = Left]_vars
    <2> SUFFICES ASSUME TypeOK, Next
                 PROVE  /\ ListingCall => Left' < Left
                        /\ Syncing /\ Syncing' /\ ~ListingCall => Left' = Left
      OBVIOUS
    <2>1. ASSUME ListApps PROVE Left' < Left
      <3>1. /\ "apps" \in pending /\ pending' = pending \ {"apps"} /\ token' = token
        BY <2>1 DEF ListApps
      <3>2. /\ "nodes" \in pending' <=> "nodes" \in pending
            /\ "databases" \in pending' <=> "databases" \in pending
            /\ "apps" \notin pending'
        BY <3>1
      <3> QED BY <3>1, <3>2, ListingAssumption DEF Left, TypeOK
    <2>2. ASSUME ListDatabases PROVE Left' < Left
      <3>1. /\ "databases" \in pending /\ pending' = pending \ {"databases"}
            /\ token' = token
        BY <2>2 DEF ListDatabases
      <3>2. /\ "nodes" \in pending' <=> "nodes" \in pending
            /\ "apps" \in pending' <=> "apps" \in pending
            /\ "databases" \notin pending'
        BY <3>1
      <3> QED BY <3>1, <3>2, ListingAssumption DEF Left, TypeOK
    <2>3. ListingCall => Left' < Left
      BY <2>1, <2>2, ListNodesAdvances DEF ListingCall
    <2>4. ASSUME Syncing, Syncing', ~ListingCall PROVE Left' = Left
      <3>1. \E i \in Item : Upsert(i) \/ Remove(i)
        BY <2>4 DEF Next, ListingCall, StartSync, EndSync, Syncing
      <3>2. UNCHANGED <<pending, token>>
        BY <3>1 DEF Upsert, Remove
      <3> QED BY <3>2 DEF Left
    <2> QED BY <2>3, <2>4
  <1> QED BY <1>1, <1>2, ListingTypesHold, PTL DEF Spec
=============================================================================

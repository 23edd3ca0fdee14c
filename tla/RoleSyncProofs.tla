--------------------------- MODULE RoleSyncProofs ---------------------------
(***************************************************************************)
(* Proofs about the cache of users: for any roles, workers, targeted syncs *)
(* and versions, an undisturbed full sync takes nothing from before it     *)
(* listed the roles, although nothing guards the cache, and takes all from *)
(* one list of users if no two calls fill the cache at a time.             *)
(***************************************************************************)
EXTENDS RoleSync, TLAPS

\* The process starts with an empty cache and no sync.
LEMMA InitEstablishesSync == Init => SyncInvariant
  <1> SUFFICES ASSUME Init PROVE SyncInvariant
    OBVIOUS
  <1>1. \E r \in Role : TRUE
    BY TaskAssumption
  <1> DEFINE first == CHOOSE r \in Role : TRUE
  <1>2. role \in [Worker -> Role]
    <2>1. first \in Role
      BY <1>1
    <2>2. role = [c \in Worker |-> first]
      BY DEF Init
    <2> HIDE DEF first
    <2> QED BY <2>1, <2>2
  <1>3. TypeOK
    <2>1. version = 1 /\ phase = "idle" /\ pending = {} /\ synced = {} /\ listedAt = 0
          /\ disturbed = FALSE /\ raced = FALSE
      BY DEF Init
    <2>2. cache = Empty /\ recorded = [r \in Role |-> Empty] /\ got = [c \in Thread |-> Empty]
      BY DEF Init
    <2>3. pc = AllIdle /\ left = NothingLeft
      BY DEF Init
    <2>4. cache \in Slice /\ recorded \in [Role -> Slice] /\ got \in [Thread -> Slice]
      BY <2>2 DEF Slice, Empty
    <2>5. /\ pc \in [Thread -> {"idle", "checking", "loading", "fetching", "storing",
                               "returning"}]
          /\ left \in [Thread -> SUBSET Word]
      BY <2>3 DEF AllIdle, NothingLeft
    <2>6. /\ version \in Nat \ {0} /\ listedAt \in Nat
          /\ phase \in {"idle", "resources", "clearing", "grants"}
      BY <2>1
    <2>7. pending \subseteq Role /\ synced \subseteq Role
      BY <2>1
    <2>8. disturbed \in BOOLEAN /\ raced \in BOOLEAN
      BY <2>1, Zenon
    <2> QED BY <1>2, <2>4, <2>5, <2>6, <2>7, <2>8 DEF TypeOK
  <1>4. \A c \in Thread : pc[c] = "idle" /\ left[c] = {}
    BY DEF Init, AllIdle, NothingLeft
  <1>5. phase = "idle" /\ synced = {} /\ listedAt <= version
    BY DEF Init
  <1>6. UndisturbedSyncIsNotStale /\ UncontendedSyncIsOneSnapshot
    BY <1>5 DEF UndisturbedSyncIsNotStale, UncontendedSyncIsOneSnapshot
  <1> QED
    BY <1>3, <1>4, <1>5, <1>6 DEF SyncInvariant, Thread

\* Types: the actions of GetUsers.
LEMMA GetUsersType ==
    ASSUME TypeOK, NEW c \in Thread,
           \/ CheckCache(c) \/ FetchUsers(c) \/ FetchUsersFails(c)
           \/ \E w \in Word : LoadWord(c, w) \/ StoreWord(c, w)
    PROVE  TypeOK'
  <1> USE DEF TypeOK, Slice
  <1>1. CASE CheckCache(c)
    <2>1. left' \in [Thread -> SUBSET Word]
      <3>1. PICK words \in SUBSET Word : left' = [left EXCEPT ![c] = words]
        BY <1>1 DEF CheckCache, Word
      <3> QED BY <3>1
    <2>2. got' \in [Thread -> Slice]
      BY <1>1 DEF CheckCache, Word
    <2> QED BY <1>1, <2>1, <2>2 DEF CheckCache, Goto
  <1>2. ASSUME NEW w \in Word, LoadWord(c, w) PROVE TypeOK'
    <2>1. got' \in [Thread -> Slice]
      BY <1>2 DEF LoadWord
    <2>2. left' \in [Thread -> SUBSET Word]
      BY <1>2 DEF LoadWord, WordDone
    <2>3. pc' \in [Thread -> {"idle", "checking", "loading", "fetching", "storing",
                              "returning"}]
      BY <1>2 DEF LoadWord, WordDone
    <2> QED BY <1>2, <2>1, <2>2, <2>3 DEF LoadWord, sync
  <1>3. CASE FetchUsers(c)
    BY <1>3 DEF FetchUsers, Goto, sync
  <1>4. CASE FetchUsersFails(c)
    BY <1>4 DEF FetchUsersFails, Goto
  <1>5. ASSUME NEW w \in Word, StoreWord(c, w) PROVE TypeOK'
    <2>1. cache' \in Slice
      BY <1>5 DEF StoreWord
    <2>2. left' \in [Thread -> SUBSET Word]
      BY <1>5 DEF StoreWord, WordDone
    <2>3. pc' \in [Thread -> {"idle", "checking", "loading", "fetching", "storing",
                              "returning"}]
      BY <1>5 DEF StoreWord, WordDone
    <2> QED BY <1>5, <2>1, <2>2, <2>3 DEF StoreWord, sync
  <1> QED BY <1>1, <1>2, <1>3, <1>4, <1>5

\* Types: the actions of the syncs, of the process and of Teleport.
LEMMA SyncType ==
    ASSUME TypeOK,
           \/ ChangeUsers \/ Restart \/ StartSync \/ EndSync
           \/ \E c \in Worker : ListRoles(c) \/ ListRolesReturns(c) \/ GrantsReturns(c)
           \/ \E c \in Worker, r \in Role : Grants(c, r)
           \/ \E o \in Targeted : TargetedGrants(o) \/ TargetedGrantsReturns(o)
    PROVE  TypeOK'
  <1> USE DEF TypeOK, Slice
  <1>1. CASE ChangeUsers
    BY <1>1 DEF ChangeUsers, sync, threads
  <1>2. CASE Restart
    BY <1>2 DEF Restart, Empty, AllIdle, NothingLeft
  <1>3. CASE StartSync
    BY <1>3 DEF StartSync, Empty, threads
  <1>4. CASE EndSync
    BY <1>4 DEF EndSync, threads
  <1>5. ASSUME NEW c \in Worker, ListRoles(c) PROVE TypeOK'
    BY <1>5 DEF ListRoles, Goto, Empty, Thread
  <1>6. ASSUME NEW c \in Worker, ListRolesReturns(c) PROVE TypeOK'
    BY <1>6 DEF ListRolesReturns, Goto, Thread
  <1>7. ASSUME NEW c \in Worker, GrantsReturns(c) PROVE TypeOK'
    BY <1>7 DEF GrantsReturns, Goto, Thread
  <1>8. ASSUME NEW c \in Worker, NEW r \in Role, Grants(c, r) PROVE TypeOK'
    BY <1>8 DEF Grants, Goto, Thread
  <1>9. ASSUME NEW o \in Targeted, TargetedGrants(o) \/ TargetedGrantsReturns(o)
        PROVE  TypeOK'
    BY <1>9 DEF TargetedGrants, TargetedGrantsReturns, Goto, Thread, sync
  <1> QED BY <1>1, <1>2, <1>3, <1>4, <1>5, <1>6, <1>7, <1>8, <1>9

\* A call of GetUsers keeps to the filling of the cache, if it starts none while
\* another is at it.
LEMMA GetUsersFills ==
    ASSUME SyncInvariant, phase = "grants", NEW c \in Thread,
           \/ CheckCache(c) \/ FetchUsers(c) \/ FetchUsersFails(c)
           \/ \E w \in Word : LoadWord(c, w) \/ StoreWord(c, w)
    PROVE  FillInv'
  <1> USE DEF SyncInvariant
  <1>1. /\ synced' = synced /\ recorded' = recorded /\ listedAt' = listedAt
        /\ disturbed' = disturbed /\ version' = version /\ (raced => raced')
        /\ listedAt \in Nat /\ version \in Nat /\ listedAt # 0 /\ listedAt <= version
    BY DEF CheckCache, LoadWord, FetchUsers, FetchUsersFails, StoreWord, sync, TypeOK
  <1>2. \A d \in Thread \ {c} : /\ pc'[d] = pc[d] /\ got'[d] = got[d]
                               /\ left'[d] = left[d]
    BY DEF CheckCache, LoadWord, FetchUsers, FetchUsersFails, StoreWord, WordDone,
           Goto, TypeOK
  <1> SUFFICES ASSUME ~disturbed, ~raced, ~raced' PROVE FillInv'
    BY <1>1 DEF FillInv
  <1>3. /\ \A d, e \in Filling : d = e
        /\ Filled => Recent(cache)
        /\ \A r \in synced : Filled /\ recorded[r] = cache
        /\ \A d \in Thread :
              /\ pc[d] = "fetching" => cache = Empty
              /\ pc[d] = "storing" =>
                    /\ Recent(got[d]) /\ left[d] # {}
                    /\ cache = [w \in Word |-> IF w \in left[d] THEN 0 ELSE got[d][w]]
              /\ pc[d] = "loading" =>
                    /\ Filled /\ left[d] # {} /\ got[d]["size"] = cache["size"]
                    /\ "list" \in left[d] \/ got[d]["list"] = cache["list"]
              /\ pc[d] = "returning" => Filled /\ got[d] = cache
    BY <1>1 DEF FillInv
  <1>4. ASSUME NEW slice, Recent(slice) PROVE slice # Empty /\ slice["size"] # 0
    BY <1>1, <1>4 DEF Recent, Empty, Word
  <1>5. \A slice : Recent(slice)' <=> Recent(slice)
    BY <1>1 DEF Recent
  <1>6. CASE CheckCache(c)
    <2>1. /\ pc[c] = "checking" /\ cache' = cache /\ Filling = {}
          /\ pc'[c] = IF cache["size"] # 0 THEN "loading" ELSE "fetching"
      BY <1>6 DEF CheckCache, Goto, TypeOK, Filling
    <2>2. CASE cache["size"] # 0
      <3>1. Filling' = {}
        BY <1>2, <2>1, <2>2 DEF Filling
      <3>2. Filled /\ Filled'
        BY <2>1, <2>2, <3>1 DEF Filled, Empty, Word
      <3>3. pc'[c] = "loading" /\ got'[c]["size"] = cache["size"] /\ "list" \in left'[c]
        BY <1>6, <2>1, <2>2 DEF CheckCache, TypeOK, Slice, Word
      <3> QED BY <1>1, <1>2, <1>3, <1>5, <2>1, <3>1, <3>2, <3>3 DEF FillInv, Filling
    <2>3. CASE cache["size"] = 0
      <3>1. cache = Empty
        BY <1>3, <1>4, <2>1, <2>3 DEF Filled
      <3>2. synced = {} /\ \A d \in Thread : pc[d] \notin {"loading", "returning"}
        BY <1>3, <3>1 DEF Filled
      <3>3. Filling' = {c} /\ pc'[c] = "fetching"
        BY <1>2, <2>1, <2>3 DEF Filling
      <3> QED BY <1>1, <1>2, <2>1, <3>1, <3>2, <3>3 DEF FillInv, Filled, Filling
    <2> QED BY <2>2, <2>3
  <1>7. ASSUME NEW w \in Word, LoadWord(c, w) PROVE FillInv'
    <2>1. /\ pc[c] = "loading" /\ w \in left[c] /\ cache' = cache
          /\ got[c]["size"] = cache["size"] /\ Filled
          /\ "list" \in left[c] \/ got[c]["list"] = cache["list"]
      BY <1>3, <1>7 DEF LoadWord, WordDone
    <2>2. /\ left'[c] = left[c] \ {w}
          /\ pc'[c] = IF left[c] = {w} THEN "returning" ELSE "loading"
          /\ got'[c] = [got[c] EXCEPT ![w] = cache[w]]
      BY <1>7, <2>1 DEF LoadWord, WordDone, TypeOK
    <2>3. /\ got'[c]["size"] = cache["size"]
          /\ "list" \in left'[c] \/ got'[c]["list"] = cache["list"]
      BY <2>1, <2>2 DEF TypeOK, Slice, Word
    <2>4. left'[c] = {} => got'[c] = cache
      <3>1. got'[c] \in Slice /\ cache \in Slice
        BY <2>2 DEF TypeOK, Slice
      <3> QED BY <2>3, <3>1 DEF Slice, Word
    <2>5. Filling' = Filling /\ Filled'
      BY <1>2, <2>1, <2>2 DEF Filling, Filled
    <2>6. pc'[c] = "loading" => left'[c] # {}
      BY <2>1, <2>2
    <2>7. pc'[c] = "returning" => got'[c] = cache
      BY <2>2, <2>4
    <2>8. ASSUME NEW d \in Thread
          PROVE  /\ pc'[d] \notin {"fetching", "storing"}
                 /\ pc'[d] = "loading" =>
                       /\ left'[d] # {} /\ got'[d]["size"] = cache'["size"]
                       /\ "list" \in left'[d] \/ got'[d]["list"] = cache'["list"]
                 /\ pc'[d] = "returning" => got'[d] = cache'
      <3>1. pc[d] \notin {"fetching", "storing"}
        BY <2>1 DEF Filled, Filling
      <3>2. CASE d = c
        BY <2>1, <2>2, <2>3, <2>6, <2>7, <3>2
      <3>3. CASE d # c
        <4>1. pc'[d] = pc[d] /\ got'[d] = got[d] /\ left'[d] = left[d] /\ cache' = cache
          BY <1>2, <2>1, <3>3
        <4> QED BY <1>3, <3>1, <4>1
      <3> QED BY <3>2, <3>3
    <2>9. Recent(cache)'
      BY <1>1, <1>3, <2>1 DEF Recent
    <2>10. \A d, e \in Filling' : d = e
      BY <1>3, <2>5
    <2> QED BY <1>1, <1>3, <2>1, <2>5, <2>8, <2>9, <2>10 DEF FillInv
  <1>8. CASE FetchUsers(c) \/ FetchUsersFails(c)
    <2>1. pc[c] = "fetching" /\ cache' = cache /\ c \in Filling /\ cache = Empty
      BY <1>3, <1>8 DEF FetchUsers, FetchUsersFails, Goto, Filling
    <2>2. /\ synced = {} /\ Filling = {c}
          /\ \A d \in Thread : pc[d] \notin {"loading", "returning"}
      BY <1>3, <2>1 DEF Filled
    <2>3. ASSUME FetchUsers(c)
          PROVE  /\ pc'[c] = "storing" /\ left'[c] = Word
                 /\ got'[c] = [w \in Word |-> version]
      BY <2>3 DEF FetchUsers, Goto, TypeOK
    <2>4. FetchUsersFails(c) => pc'[c] = "idle"
      BY DEF FetchUsersFails, Goto, TypeOK
    <2>5. \A d \in Filling' : d = c
      BY <1>2, <2>2 DEF Filling
    <2>6. CASE FetchUsers(c)
      <3>1. Recent(got'[c]) /\ left'[c] # {}
        <4>1. version \in listedAt..version
          BY <1>1
        <4>2. Recent(got'[c])
          BY <2>3, <2>6, <4>1 DEF Recent
        <4> QED BY <2>3, <2>6, <4>2 DEF Word
      <3>2. cache' = [w \in Word |-> IF w \in left'[c] THEN 0 ELSE got'[c][w]]
        BY <2>1, <2>3, <2>6 DEF Empty
      <3> QED BY <1>1, <1>2, <1>5, <2>1, <2>2, <2>3, <2>5, <2>6, <3>1, <3>2
              DEF FillInv, Filled, Filling
    <2>7. CASE FetchUsersFails(c)
      BY <1>1, <1>2, <2>1, <2>2, <2>4, <2>5, <2>7 DEF FillInv, Filled, Filling
    <2> QED BY <1>8, <2>6, <2>7
  <1>9. ASSUME NEW w \in Word, StoreWord(c, w) PROVE FillInv'
    <2>1. /\ pc[c] = "storing" /\ w \in left[c] /\ got' = got /\ left'[c] = left[c] \ {w}
          /\ cache' = [cache EXCEPT ![w] = got[c][w]]
          /\ pc'[c] = IF left[c] = {w} THEN "returning" ELSE "storing"
      BY <1>9 DEF StoreWord, WordDone, TypeOK
    <2>2. /\ c \in Filling /\ Recent(got[c])
          /\ cache = [v \in Word |-> IF v \in left[c] THEN 0 ELSE got[c][v]]
      BY <1>3, <2>1 DEF Filling
    <2>3. /\ synced = {} /\ Filling = {c}
          /\ \A d \in Thread : pc[d] \notin {"loading", "returning", "fetching"}
      <3>1. Filling = {c} /\ ~Filled
        BY <1>3, <2>2 DEF Filled
      <3> QED BY <1>3, <2>1, <3>1 DEF Filling
    <2>4. cache' = [v \in Word |-> IF v \in left'[c] THEN 0 ELSE got[c][v]]
      BY <2>1, <2>2
    <2>5. CASE left[c] = {w}
      <3>1. pc'[c] = "returning" /\ Filling' = {}
        BY <1>2, <2>1, <2>3, <2>5 DEF Filling
      <3>2. got[c] \in Slice /\ left'[c] = {}
        BY <2>1, <2>5 DEF TypeOK
      <3>3. cache' = got[c]
        BY <2>4, <3>2 DEF Slice
      <3>4. Recent(cache') /\ Filled'
        BY <1>4, <2>2, <3>1, <3>3 DEF Filled, Empty
      <3>5. \A d \in Thread :
              /\ pc'[d] \notin {"fetching", "storing", "loading"}
              /\ pc'[d] = "returning" => d = c
        BY <1>2, <2>3, <3>1 DEF Filling
      <3>6. Recent(cache)' /\ got'[c] = cache'
        BY <1>1, <2>1, <3>3, <3>4 DEF Recent
      <3> QED BY <1>1, <2>3, <3>1, <3>4, <3>5, <3>6 DEF FillInv
    <2>6. CASE left[c] # {w}
      <3>1. pc'[c] = "storing" /\ left'[c] # {}
        BY <2>1, <2>6
      <3>2. Filling' = {c}
        BY <1>2, <2>3, <3>1 DEF Filling
      <3>3. ~Filled'
        BY <3>2 DEF Filled
      <3>4. \A d \in Thread \ {c} :
              pc'[d] \notin {"fetching", "storing", "loading", "returning"}
        BY <1>2, <2>3 DEF Filling
      <3>5. Recent(got[c])' /\ cache' = [v \in Word |-> IF v \in left'[c] THEN 0 ELSE got'[c][v]]
        BY <1>1, <2>1, <2>2, <2>4 DEF Recent
      <3>6. synced' = {}
        BY <1>1, <2>3
      <3> QED BY <3>1, <3>2, <3>3, <3>4, <3>5, <3>6 DEF FillInv
    <2> QED BY <2>5, <2>6
  <1> QED BY <1>6, <1>7, <1>8, <1>9

\* A call of GetUsers keeps the invariant, in every phase of the full sync.
LEMMA GetUsersKeeps ==
    ASSUME SyncInvariant, NEW c \in Thread,
           \/ CheckCache(c) \/ FetchUsers(c) \/ FetchUsersFails(c)
           \/ \E w \in Word : LoadWord(c, w) \/ StoreWord(c, w)
    PROVE  SyncInvariant'
  <1> USE DEF SyncInvariant
  <1>1. TypeOK'
    BY GetUsersType
  <1>2. /\ phase' = phase /\ synced' = synced /\ recorded' = recorded
        /\ listedAt' = listedAt /\ disturbed' = disturbed /\ version' = version
        /\ raced => raced'
    BY DEF CheckCache, LoadWord, FetchUsers, FetchUsersFails, StoreWord, sync, TypeOK
  <1>3. pc[c] # "idle" /\ \A d \in Thread \ {c} : /\ pc'[d] = pc[d]
                                                 /\ got'[d] = got[d]
                                                 /\ left'[d] = left[d]
    BY DEF CheckCache, LoadWord, FetchUsers, FetchUsersFails, StoreWord, WordDone,
           Goto, TypeOK
  <1>4. \A d \in Thread : left'[d] # {} => pc'[d] \in {"loading", "storing"}
    <2> SUFFICES ASSUME NEW d \in Thread, left'[d] # {}
                 PROVE  pc'[d] \in {"loading", "storing"}
      OBVIOUS
    <2>1. CASE d # c
      BY <1>3, <2>1
    <2>2. CASE d = c
      <3>1. CASE CheckCache(c) \/ FetchUsersFails(c)
        BY <2>2, <3>1 DEF CheckCache, FetchUsersFails, Goto, TypeOK
      <3>2. CASE FetchUsers(c)
        BY <2>2, <3>2 DEF FetchUsers, Goto, TypeOK
      <3>3. ASSUME NEW w \in Word, LoadWord(c, w) \/ StoreWord(c, w)
            PROVE  pc'[d] \in {"loading", "storing"}
        <4>1. left'[c] = left[c] \ {w}
          BY <3>3 DEF LoadWord, StoreWord, WordDone, TypeOK
        <4>2. left[c] # {w}
          BY <2>2, <4>1
        <4> QED BY <2>2, <3>3, <4>2 DEF LoadWord, StoreWord, WordDone
      <3> QED BY <3>1, <3>2, <3>3
    <2> QED BY <2>1, <2>2
  <1>5. UndisturbedSyncIsNotStale' /\ UncontendedSyncIsOneSnapshot'
    BY <1>2 DEF UndisturbedSyncIsNotStale, NotStale, UncontendedSyncIsOneSnapshot, Recent
  <1>6. ASSUME phase \in {"idle", "resources"} PROVE \A d \in Worker : pc'[d] = "idle"
    BY <1>3, <1>6 DEF Thread
  <1>7. ASSUME phase = "clearing" PROVE ClearingInv'
    <2>1. PICK l \in Worker :
            /\ \A d \in Worker \ {l} : pc[d] = "idle"
            /\ pc[l] \in {"storing", "returning"} /\ got[l] = Empty
            /\ ~disturbed => /\ \A o \in Targeted : pc[o] = "idle"
                             /\ \A w \in Word : w \in left[l] \/ cache[w] = 0
      BY <1>7 DEF ClearingInv
    <2>2. CASE c # l
      <3>1. c \in Targeted /\ disturbed
        BY <1>3, <2>1, <2>2 DEF Thread
      <3>2. \A d \in Worker : pc'[d] = pc[d] /\ got'[d] = got[d]
        BY <1>3, <3>1, TaskAssumption DEF Thread
      <3> QED BY <1>2, <2>1, <3>1, <3>2 DEF ClearingInv
    <2>3. CASE c = l
      <3>1. PICK w \in Word : StoreWord(c, w)
        BY <2>1, <2>3 DEF CheckCache, LoadWord, FetchUsers, FetchUsersFails, Goto
      <3>2. got' = got /\ pc'[c] \in {"storing", "returning"}
        BY <3>1 DEF StoreWord, WordDone, TypeOK
      <3>3. \A d \in Worker \ {l} : pc'[d] = "idle"
        BY <1>3, <2>1, <2>3 DEF Thread
      <3>4. ASSUME ~disturbed
            PROVE  /\ \A o \in Targeted : pc'[o] = "idle"
                   /\ \A v \in Word : v \in left'[l] \/ cache'[v] = 0
        <4>1. \A o \in Targeted : pc'[o] = "idle"
          BY <1>3, <2>1, <2>3, <3>4, TaskAssumption DEF Thread
        <4>2. left'[l] = left[l] \ {w} /\ cache' = [cache EXCEPT ![w] = 0]
          BY <2>1, <2>3, <3>1 DEF StoreWord, WordDone, TypeOK, Empty
        <4>3. \A v \in Word : v \in left'[l] \/ cache'[v] = 0
          BY <2>1, <3>4, <4>2 DEF TypeOK, Slice
        <4> QED BY <4>1, <4>3
      <3> QED BY <1>2, <2>1, <2>3, <3>2, <3>3, <3>4 DEF ClearingInv
    <2> QED BY <2>2, <2>3
  <1>8. ASSUME phase = "grants" PROVE GrantsInv'
    <2> SUFFICES ASSUME ~disturbed
                 PROVE  /\ \A w \in Word : NotStale(cache', w)
                        /\ \A d \in Thread, w \in Word :
                              pc'[d] = "storing" => NotStale(got'[d], w)
                        /\ \A d \in Worker, w \in Word :
                              pc'[d] = "returning" => NotStale(got'[d], w)
                        /\ \A d \in Worker, w \in Word :
                              pc'[d] = "loading" /\ (w = "size" \/ w \notin left'[d])
                                => NotStale(got'[d], w)
      BY <1>2 DEF GrantsInv, NotStale
    <2>1. /\ \A w \in Word : NotStale(cache, w)
          /\ \A d \in Thread, w \in Word : pc[d] = "storing" => NotStale(got[d], w)
          /\ \A d \in Worker, w \in Word : pc[d] = "returning" => NotStale(got[d], w)
          /\ \A d \in Worker, w \in Word :
                pc[d] = "loading" /\ (w = "size" \/ w \notin left[d]) => NotStale(got[d], w)
      BY <1>8 DEF GrantsInv
    <2>2. /\ \A w \in Word : NotStale(cache', w)
          /\ \A w \in Word : pc'[c] = "storing" => NotStale(got'[c], w)
          /\ \A w \in Word : c \in Worker /\ pc'[c] = "returning" => NotStale(got'[c], w)
          /\ \A w \in Word :
                c \in Worker /\ pc'[c] = "loading" /\ (w = "size" \/ w \notin left'[c])
                  => NotStale(got'[c], w)
      <3>1. CASE CheckCache(c)
        <4>1. cache' = cache /\ pc'[c] \in {"loading", "fetching"}
          BY <3>1 DEF CheckCache, Goto, TypeOK
        <4>2. /\ got'[c]["size"] = cache["size"]
              /\ pc'[c] = "loading" => "list" \in left'[c]
          BY <3>1 DEF CheckCache, Goto, TypeOK, Slice, Word
        <4> QED BY <2>1, <4>1, <4>2 DEF NotStale, Word
      <3>2. ASSUME NEW v \in Word, LoadWord(c, v)
            PROVE  /\ cache' = cache /\ pc'[c] \in {"loading", "returning"}
                   /\ \A w \in Word :
                         c \in Worker /\ (pc'[c] = "returning" \/ w = "size" \/ w \notin left'[c])
                           => NotStale(got'[c], w)
        <4>1. /\ cache' = cache /\ pc[c] = "loading" /\ v \in left[c]
              /\ got'[c] = [got[c] EXCEPT ![v] = cache[v]] /\ left'[c] = left[c] \ {v}
              /\ pc'[c] = IF left[c] = {v} THEN "returning" ELSE "loading"
          BY <3>2 DEF LoadWord, WordDone, TypeOK
        <4>2. \A w \in Word : got'[c][w] = IF w = v THEN cache[v] ELSE got[c][w]
          BY <4>1 DEF TypeOK, Slice
        <4>3. pc'[c] = "returning" => left'[c] = {}
          BY <4>1
        <4>4. \A w \in Word : c \in Worker /\ (w = "size" \/ w \notin left'[c])
                                => NotStale(got'[c], w)
          BY <2>1, <4>1, <4>2 DEF NotStale
        <4> QED BY <4>1, <4>3, <4>4
      <3>3. CASE FetchUsers(c)
        <4>1. cache' = cache /\ got'[c] = [w \in Word |-> version]
          BY <3>3 DEF FetchUsers, TypeOK
        <4>2. pc'[c] = "storing"
          BY <3>3 DEF FetchUsers, Goto, TypeOK
        <4>3. \A w \in Word : NotStale(got'[c], w)
          BY <4>1 DEF NotStale, TypeOK
        <4> QED BY <2>1, <4>1, <4>2, <4>3
      <3>4. CASE FetchUsersFails(c)
        BY <2>1, <3>4 DEF FetchUsersFails, Goto, TypeOK
      <3>5. ASSUME NEW v \in Word, StoreWord(c, v)
            PROVE  /\ \A w \in Word : NotStale(cache', w)
                   /\ \A w \in Word : NotStale(got'[c], w)
                   /\ pc'[c] \in {"storing", "returning"}
        <4>1. /\ pc[c] = "storing" /\ got' = got /\ cache' = [cache EXCEPT ![v] = got[c][v]]
              /\ pc'[c] \in {"storing", "returning"}
          BY <3>5 DEF StoreWord, WordDone, TypeOK
        <4>2. \A w \in Word : NotStale(got[c], w)
          BY <2>1, <4>1
        <4>3. \A w \in Word : cache'[w] = IF w = v THEN got[c][v] ELSE cache[w]
          BY <4>1 DEF TypeOK, Slice
        <4> QED BY <2>1, <4>1, <4>2, <4>3 DEF NotStale
      <3>6. ASSUME NEW v \in Word, LoadWord(c, v)
            PROVE  /\ \A w \in Word : NotStale(cache', w)
                   /\ pc'[c] \notin {"storing"}
                   /\ \A w \in Word :
                         c \in Worker /\ (pc'[c] = "returning" \/ w = "size" \/ w \notin left'[c])
                           => NotStale(got'[c], w)
        BY <2>1, <3>2, <3>6
      <3>7. CASE \E w \in Word : LoadWord(c, w) \/ StoreWord(c, w)
        BY <3>5, <3>6, <3>7
      <3> QED BY <3>1, <3>3, <3>4, <3>7
    <2>3. \A d \in Thread \ {c} : pc'[d] = pc[d] /\ got'[d] = got[d] /\ left'[d] = left[d]
      BY <1>3
    <2> QED BY <2>1, <2>2, <2>3 DEF Thread
  <1>9. phase = "grants" => FillInv'
    BY GetUsersFills
  <1> QED BY <1>1, <1>2, <1>4, <1>5, <1>6, <1>7, <1>8, <1>9

\* A full sync begins, and List is about to clear the cache.
LEMMA ListRolesKeeps ==
    ASSUME SyncInvariant, NEW c \in Worker, ListRoles(c)
    PROVE  SyncInvariant'
  <1> USE DEF SyncInvariant
  <1>1. TypeOK'
    BY SyncType
  <1>2. /\ phase' = "clearing" /\ synced' = {} /\ listedAt' = version'
        /\ version' = version /\ version # 0
    BY DEF ListRoles, TypeOK
  <1>3. /\ pc'[c] = "storing" /\ got'[c] = Empty /\ left'[c] = Word
        /\ \A d \in Thread \ {c} : pc'[d] = pc[d] /\ left'[d] = left[d]
    BY DEF ListRoles, Goto, TypeOK, Thread
  <1>4. \A d \in Thread : left'[d] # {} => pc'[d] \in {"loading", "storing"}
    BY <1>3
  <1>5. \A d \in Worker \ {c} : pc'[d] = "idle"
    BY <1>3 DEF ListRoles, Thread
  <1>6. ~disturbed' => \A o \in Targeted : pc'[o] = "idle"
    BY <1>3, TaskAssumption DEF ListRoles, Thread
  <1>7. ClearingInv'
    BY <1>3, <1>5, <1>6 DEF ClearingInv
  <1>8. UndisturbedSyncIsNotStale' /\ UncontendedSyncIsOneSnapshot'
    BY <1>2 DEF UndisturbedSyncIsNotStale, UncontendedSyncIsOneSnapshot
  <1> QED BY <1>1, <1>2, <1>4, <1>7, <1>8 DEF TypeOK

\* List has cleared the cache: what it leaves is not older than the sync.
LEMMA ListRolesReturnsKeeps ==
    ASSUME SyncInvariant, NEW c \in Worker, ListRolesReturns(c)
    PROVE  SyncInvariant'
  <1> USE DEF SyncInvariant
  <1>1. TypeOK'
    BY SyncType
  <1>2. /\ phase = "clearing" /\ phase' = "grants" /\ synced' = synced
        /\ synced = {} /\ listedAt # 0
        /\ UNCHANGED <<version, cache, listedAt, disturbed, raced, got, left>>
    BY DEF ListRolesReturns
  <1>3. /\ pc[c] = "returning" /\ pc'[c] = "idle"
        /\ \A d \in Thread \ {c} : pc'[d] = pc[d]
    BY DEF ListRolesReturns, Goto, TypeOK, Thread
  <1>4. \A d \in Thread : left'[d] # {} => pc'[d] \in {"loading", "storing"}
    BY <1>2, <1>3 DEF Thread
  <1>5. GrantsInv' /\ FillInv'
    <2>1. PICK l \in Worker :
            /\ \A d \in Worker \ {l} : pc[d] = "idle"
            /\ ~disturbed => /\ \A o \in Targeted : pc[o] = "idle"
                             /\ \A w \in Word : w \in left[l] \/ cache[w] = 0
      BY <1>2 DEF ClearingInv
    <2>2. l = c
      BY <1>3, <2>1
    <2>3. left[c] = {}
      BY <1>3 DEF Thread
    <2>4. ~disturbed => \A w \in Word : cache[w] = 0
      BY <2>1, <2>2, <2>3
    <2>5. ~disturbed => \A d \in Thread : pc'[d] = "idle"
      BY <1>3, <2>1, <2>2 DEF Thread
    <2>6. ~disturbed => cache = Empty
      BY <2>4 DEF Empty, TypeOK, Slice
    <2>7. FillInv'
      BY <1>2, <2>5, <2>6 DEF FillInv, Filled, Filling
    <2> QED BY <1>2, <2>4, <2>5, <2>7 DEF GrantsInv, NotStale, Thread
  <1>6. UndisturbedSyncIsNotStale' /\ UncontendedSyncIsOneSnapshot'
    BY <1>2 DEF UndisturbedSyncIsNotStale, UncontendedSyncIsOneSnapshot
  <1> QED BY <1>1, <1>2, <1>4, <1>5, <1>6

\* A worker takes up a role, or records what it read of one.
LEMMA WorkerKeeps ==
    ASSUME SyncInvariant, NEW c \in Worker,
           GrantsReturns(c) \/ \E r \in Role : Grants(c, r)
    PROVE  SyncInvariant'
  <1> USE DEF SyncInvariant
  <1>1. TypeOK'
    BY SyncType
  <1>2. /\ phase = "grants" /\ phase' = "grants"
        /\ UNCHANGED <<version, cache, listedAt, disturbed, raced, got, left>>
    BY DEF GrantsReturns, Grants
  <1>3. /\ pc[c] \in {"idle", "returning"} /\ pc'[c] \in {"idle", "checking"}
        /\ \A d \in Thread \ {c} : pc'[d] = pc[d]
    BY DEF GrantsReturns, Grants, Goto, TypeOK, Thread
  <1>4. \A d \in Thread : left'[d] # {} => pc'[d] \in {"loading", "storing"}
    BY <1>2, <1>3 DEF Thread
  <1>5. GrantsInv'
    <2>1. \A d \in Thread : pc'[d] \in {"storing", "returning", "loading"} => pc[d] = pc'[d]
      BY <1>3
    <2> QED BY <1>2, <2>1 DEF GrantsInv, NotStale, Thread
  <1>6. UndisturbedSyncIsNotStale'
    <2>1. CASE GrantsReturns(c)
      <3>1. /\ pc[c] = "returning" /\ synced' = synced \cup {role[c]}
            /\ recorded' = [recorded EXCEPT ![role[c]] = got[c]]
        BY <2>1 DEF GrantsReturns, Goto
      <3>2. ~disturbed => \A w \in Word : NotStale(got[c], w)
        BY <1>2, <3>1 DEF GrantsInv
      <3>3. \A r \in synced' : recorded'[r] = IF r = role[c] THEN got[c] ELSE recorded[r]
        BY <1>1, <3>1 DEF TypeOK
      <3>4. ASSUME ~disturbed, NEW r \in synced', NEW w \in Word
            PROVE  recorded'[r][w] = 0 \/ recorded'[r][w] >= listedAt
        BY <3>1, <3>2, <3>3, <3>4 DEF UndisturbedSyncIsNotStale, NotStale
      <3> QED BY <1>2, <3>4 DEF UndisturbedSyncIsNotStale, NotStale
    <2>2. CASE \E r \in Role : Grants(c, r)
      BY <2>2 DEF Grants, UndisturbedSyncIsNotStale, NotStale
    <2> QED BY <2>1, <2>2
  <1>7. FillInv'
    <2> SUFFICES ASSUME ~disturbed, ~raced PROVE FillInv'
      BY <1>2 DEF FillInv
    <2>1. \A d \in Thread : pc'[d] \in {"fetching", "storing", "loading", "returning"}
                              => pc[d] = pc'[d]
      BY <1>3
    <2>2. Filling' = Filling /\ Filled' = Filled
      BY <1>2, <1>3 DEF Filling, Filled, Thread
    <2>3. \A r \in synced' : Filled /\ recorded'[r] = cache
      <3>1. CASE GrantsReturns(c)
        <4>1. /\ pc[c] = "returning" /\ synced' = synced \cup {role[c]}
              /\ recorded' = [recorded EXCEPT ![role[c]] = got[c]]
          BY <3>1 DEF GrantsReturns, Goto
        <4>2. \A r \in synced' : recorded'[r] = IF r = role[c] THEN got[c] ELSE recorded[r]
          BY <1>1, <4>1 DEF TypeOK
        <4>3. Filled /\ got[c] = cache
          BY <1>2, <4>1 DEF FillInv, Thread
        <4> QED BY <1>2, <4>1, <4>2, <4>3 DEF FillInv
      <3>2. CASE \E r \in Role : Grants(c, r)
        BY <1>2, <3>2 DEF Grants, FillInv
      <3> QED BY <3>1, <3>2
    <2> QED BY <1>2, <2>1, <2>2, <2>3 DEF FillInv, Recent
  <1>8. UncontendedSyncIsOneSnapshot'
    BY <1>2, <1>7 DEF UncontendedSyncIsOneSnapshot, FillInv
  <1> QED BY <1>1, <1>2, <1>4, <1>5, <1>6, <1>7, <1>8

\* A targeted sync begins or ends a call; if List is clearing, it disturbs it.
LEMMA TargetedKeeps ==
    ASSUME SyncInvariant, NEW o \in Targeted,
           TargetedGrants(o) \/ TargetedGrantsReturns(o)
    PROVE  SyncInvariant'
  <1> USE DEF SyncInvariant
  <1>1. TypeOK'
    BY SyncType
  <1>2. /\ UNCHANGED <<version, cache, phase, synced, recorded, listedAt, raced, got,
                        left>>
        /\ disturbed => disturbed'
        /\ phase # "clearing" => disturbed' = disturbed
    BY DEF TargetedGrants, TargetedGrantsReturns, sync, TypeOK
  <1>3. /\ pc[o] \in {"idle", "returning"} /\ pc'[o] \in {"idle", "checking"}
        /\ \A d \in Thread \ {o} : pc'[d] = pc[d]
    BY DEF TargetedGrants, TargetedGrantsReturns, Goto, TypeOK, Thread
  <1>4. \A d \in Worker : pc'[d] = pc[d]
    BY <1>3, TaskAssumption DEF Thread
  <1>5. \A d \in Thread : left'[d] # {} => pc'[d] \in {"loading", "storing"}
    BY <1>2, <1>3 DEF Thread
  <1>6. ASSUME phase = "clearing" PROVE ClearingInv'
    <2>1. pc'[o] = "idle" \/ disturbed'
      BY <1>6 DEF TargetedGrants, TargetedGrantsReturns, Goto, TypeOK, Thread
    <2>2. ~disturbed' /\ (\A t \in Targeted : pc[t] = "idle")
            => \A t \in Targeted : pc'[t] = "idle"
      BY <1>3, <2>1 DEF Thread
    <2> QED BY <1>2, <1>4, <1>6, <2>2 DEF ClearingInv
  <1>7. ASSUME phase = "grants" PROVE GrantsInv'
    <2>1. \A d \in Thread : pc'[d] \in {"storing", "returning", "loading"} => pc[d] = pc'[d]
      BY <1>3
    <2> QED BY <1>2, <1>7, <2>1 DEF GrantsInv, NotStale, Thread
  <1>8. UndisturbedSyncIsNotStale' /\ UncontendedSyncIsOneSnapshot'
    BY <1>2 DEF UndisturbedSyncIsNotStale, NotStale, UncontendedSyncIsOneSnapshot, Recent
  <1>9. ASSUME phase = "grants" PROVE FillInv'
    <2>1. \A d \in Thread : pc'[d] \in {"fetching", "storing", "loading", "returning"}
                              => pc[d] = pc'[d]
      BY <1>3
    <2>2. Filling' = Filling /\ Filled' = Filled
      BY <1>2, <1>3 DEF Filling, Filled, Thread
    <2> QED BY <1>2, <1>9, <2>1, <2>2 DEF FillInv, Recent
  <1> QED BY <1>1, <1>2, <1>4, <1>5, <1>6, <1>7, <1>8, <1>9

\* A sync that starts or ends, a restart, and a change of Teleport's users.
LEMMA SurroundingsKeep ==
    ASSUME SyncInvariant, \/ ChangeUsers \/ Restart \/ StartSync \/ EndSync
                          \/ UNCHANGED vars
    PROVE  SyncInvariant'
  <1> USE DEF SyncInvariant
  <1>1. CASE ChangeUsers
    <2>1. TypeOK'
      BY <1>1, SyncType
    <2>2. version' = version + 1 /\ UNCHANGED <<cache, sync, threads>>
      BY <1>1 DEF ChangeUsers
    <2>3. listedAt' <= version'
      BY <2>2 DEF TypeOK, sync
    <2>4. \A slice : Recent(slice) => Recent(slice)'
      BY <2>2 DEF Recent, TypeOK, sync
    <2>5. FillInv => FillInv'
      BY <2>2, <2>4 DEF FillInv, Filled, Filling, sync, threads
    <2>6. UncontendedSyncIsOneSnapshot'
      BY <2>2, <2>4 DEF UncontendedSyncIsOneSnapshot, sync
    <2> QED BY <2>1, <2>2, <2>3, <2>5, <2>6
            DEF sync, threads, ClearingInv, GrantsInv, UndisturbedSyncIsNotStale, NotStale
  <1>2. CASE Restart
    <2>1. TypeOK'
      BY <1>2, SyncType
    <2>2. /\ phase' = "idle"
          /\ UNCHANGED <<version, synced, recorded, listedAt, disturbed, raced>>
          /\ \A d \in Thread : pc'[d] = "idle" /\ left'[d] = {}
      BY <1>2 DEF Restart, AllIdle, NothingLeft
    <2> QED BY <2>1, <2>2 DEF UndisturbedSyncIsNotStale, NotStale, Thread,
                             UncontendedSyncIsOneSnapshot, Recent
  <1>3. CASE StartSync
    <2>1. TypeOK'
      BY <1>3, SyncType
    <2>2. /\ phase = "idle" /\ phase' = "resources" /\ synced' = {} /\ listedAt' = 0
          /\ UNCHANGED <<version, threads>>
      BY <1>3 DEF StartSync
    <2> QED BY <2>1, <2>2 DEF UndisturbedSyncIsNotStale, UncontendedSyncIsOneSnapshot,
                             threads, TypeOK
  <1>4. CASE EndSync
    <2>1. TypeOK'
      BY <1>4, SyncType
    <2> QED BY <1>4, <2>1 DEF EndSync, threads, UndisturbedSyncIsNotStale, NotStale,
                             UncontendedSyncIsOneSnapshot, Recent
  <1>5. CASE UNCHANGED vars
    <2>1. UNCHANGED <<version, cache, sync, threads>>
      BY <1>5 DEF vars
    <2>2. FillInv' = FillInv /\ UncontendedSyncIsOneSnapshot' = UncontendedSyncIsOneSnapshot
      BY <2>1 DEF FillInv, Filled, Filling, UncontendedSyncIsOneSnapshot, Recent, sync, threads
    <2> QED BY <2>1, <2>2 DEF sync, threads, TypeOK, ClearingInv, GrantsInv,
                             UndisturbedSyncIsNotStale, NotStale
  <1> QED BY <1>1, <1>2, <1>3, <1>4, <1>5

\* Every step keeps the invariant.
LEMMA NextKeepsSync == SyncInvariant /\ [Next]_vars => SyncInvariant'
  <1> SUFFICES ASSUME SyncInvariant, [Next]_vars PROVE SyncInvariant'
    OBVIOUS
  <1>1. CASE ChangeUsers \/ Restart \/ StartSync \/ EndSync \/ UNCHANGED vars
    BY <1>1, SurroundingsKeep
  <1>2. ASSUME NEW c \in Worker, ListRoles(c) \/ ListRolesReturns(c) PROVE SyncInvariant'
    BY <1>2, ListRolesKeeps, ListRolesReturnsKeeps
  <1>3. ASSUME NEW c \in Worker, GrantsReturns(c) \/ \E r \in Role : Grants(c, r)
        PROVE  SyncInvariant'
    BY <1>3, WorkerKeeps
  <1>4. ASSUME NEW o \in Targeted, TargetedGrants(o) \/ TargetedGrantsReturns(o)
        PROVE  SyncInvariant'
    BY <1>4, TargetedKeeps
  <1>5. ASSUME NEW c \in Thread,
               \/ CheckCache(c) \/ FetchUsers(c) \/ FetchUsersFails(c)
               \/ \E w \in Word : LoadWord(c, w) \/ StoreWord(c, w)
        PROVE  SyncInvariant'
    BY <1>5, GetUsersKeeps
  <1> QED BY <1>1, <1>2, <1>3, <1>4, <1>5 DEF Next

\* The inductive invariant of roleBuilder's cache: in each phase of a full sync,
\* what its workers may be doing, that nothing from before List (roles.go)
\* cleared userCache survives it undisturbed, and that it is then filled once.
THEOREM SyncInvariantHolds == Spec => []SyncInvariant
  BY InitEstablishesSync, NextKeepsSync, PTL DEF Spec

\* The state of roleBuilder and of the calls of its GetUsers (roles.go) is of its
\* type, whatever fails and whenever the process restarts.
THEOREM SyncTypesHold == Spec => []TypeOK
  <1>1. SyncInvariant => TypeOK
    BY DEF SyncInvariant
  <1> QED BY <1>1, SyncInvariantHolds, PTL

\* However GetUsers (roles.go), which takes no lock, is interleaved, a full sync
\* takes no word of userCache from before it listed the roles, unless a targeted
\* sync was inside GetUsers while List cleared it.
THEOREM NothingStale == Spec => []UndisturbedSyncIsNotStale
  <1>1. SyncInvariant => UndisturbedSyncIsNotStale
    BY DEF SyncInvariant
  <1> QED BY <1>1, SyncInvariantHolds, PTL

\* If besides no two calls of GetUsers (roles.go) fill userCache at a time, a full
\* sync takes the grants of all roles from one list of users, and one that is
\* not older than the list of roles.
THEOREM OneSnapshot == Spec => []UncontendedSyncIsOneSnapshot
  <1>1. SyncInvariant => UncontendedSyncIsOneSnapshot
    BY DEF SyncInvariant
  <1> QED BY <1>1, SyncInvariantHolds, PTL
-----------------------------------------------------------------------------
(* When the claim that the code does not keep does hold: if no targeted sync is *)
(* in GetUsers while List clears the cache. *)

\* What a call of GetUsers returns has users in it, not the empty slice of List.
Present(slice) == slice["size"] # 0

\* After List has cleared the cache undisturbed, nobody stores an empty slice, so
\* the length that a worker found there stays there.
PresentInv ==
    ~disturbed =>
        /\ phase = "grants" =>
              /\ \A c \in Thread :
                    /\ pc[c] = "storing" => Present(got[c])
                    /\ pc[c] = "loading" => Present(got[c]) /\ Present(cache)
              /\ \A c \in Worker : pc[c] = "returning" => Present(got[c])
        /\ \A r \in synced : Present(recorded[r])

\* A call of GetUsers keeps that: what it stores, it fetched.
LEMMA GetUsersKeepsPresent ==
    ASSUME SyncInvariant, PresentInv, NEW c \in Thread,
           \/ CheckCache(c) \/ FetchUsers(c) \/ FetchUsersFails(c)
           \/ \E w \in Word : LoadWord(c, w) \/ StoreWord(c, w)
    PROVE  PresentInv'
  <1> USE DEF Word, Present
  <1>1. TypeOK
    BY DEF SyncInvariant
  <1>2. UNCHANGED <<phase, disturbed, synced, recorded, version>>
    BY DEF CheckCache, LoadWord, FetchUsers, FetchUsersFails, StoreWord, sync
  <1>3. /\ \A d \in Thread \ {c} : pc'[d] = pc[d] /\ got'[d] = got[d]
        /\ \A d \in Thread : pc'[d] = pc[d] \/ d = c
    BY <1>1 DEF CheckCache, LoadWord, FetchUsers, FetchUsersFails, StoreWord, WordDone,
           Goto, TypeOK
  <1> SUFFICES ASSUME ~disturbed, phase = "grants"
               PROVE  /\ \A d \in Thread :
                            /\ pc'[d] = "storing" => Present(got'[d])
                            /\ pc'[d] = "loading" => Present(got'[d]) /\ Present(cache')
                      /\ \A d \in Worker : pc'[d] = "returning" => Present(got'[d])
    BY <1>2 DEF PresentInv
  <1>4. /\ \A d \in Thread :
              /\ pc[d] = "storing" => Present(got[d])
              /\ pc[d] = "loading" => Present(got[d]) /\ Present(cache)
        /\ \A d \in Worker : pc[d] = "returning" => Present(got[d])
    BY DEF PresentInv
  <1>5. /\ Present(cache) => Present(cache')
        /\ pc'[c] = "storing" => Present(got'[c])
        /\ pc'[c] = "loading" => Present(got'[c]) /\ Present(cache')
        /\ c \in Worker /\ pc'[c] = "returning" => Present(got'[c])
    <2>1. CASE CheckCache(c)
      <3>1. cache' = cache /\ pc'[c] = (IF cache["size"] # 0 THEN "loading" ELSE "fetching")
        BY <1>1, <2>1 DEF CheckCache, Goto, TypeOK
      <3>2. got'[c]["size"] = cache["size"]
        BY <1>1, <2>1 DEF CheckCache, TypeOK, Slice
      <3> QED BY <3>1, <3>2
    <2>2. ASSUME NEW v \in Word, LoadWord(c, v)
          PROVE  /\ cache' = cache /\ pc'[c] \in {"loading", "returning"}
                 /\ Present(got'[c]) /\ Present(cache)
      <3>1. /\ cache' = cache /\ pc[c] = "loading" /\ pc'[c] \in {"loading", "returning"}
            /\ got'[c] = [got[c] EXCEPT ![v] = cache[v]]
        BY <1>1, <2>2 DEF LoadWord, WordDone, TypeOK
      <3>2. got'[c]["size"] \in {got[c]["size"], cache["size"]}
        BY <1>1, <3>1 DEF TypeOK, Slice
      <3> QED BY <1>4, <3>1, <3>2
    <2>3. CASE FetchUsers(c)
      <3>1. cache' = cache /\ got'[c] = [w \in Word |-> version] /\ pc'[c] = "storing"
        BY <1>1, <2>3 DEF FetchUsers, Goto, TypeOK
      <3> QED BY <1>1, <3>1 DEF TypeOK
    <2>4. CASE FetchUsersFails(c)
      BY <1>1, <2>4 DEF FetchUsersFails, Goto, TypeOK
    <2>5. ASSUME NEW v \in Word, StoreWord(c, v)
          PROVE  /\ Present(cache) => Present(cache')
                 /\ pc'[c] \in {"storing", "returning"} /\ Present(got'[c])
      <3>1. /\ pc[c] = "storing" /\ got' = got /\ cache' = [cache EXCEPT ![v] = got[c][v]]
            /\ pc'[c] \in {"storing", "returning"}
        BY <1>1, <2>5 DEF StoreWord, WordDone, TypeOK
      <3>2. Present(got[c])
        BY <1>4, <3>1
      <3>3. cache'["size"] \in {cache["size"], got[c]["size"]}
        BY <1>1, <3>1 DEF TypeOK, Slice
      <3> QED BY <3>1, <3>2, <3>3
    <2> QED BY <2>1, <2>2, <2>3, <2>4, <2>5
  <1> QED BY <1>3, <1>4, <1>5 DEF Thread

\* Every other step does too.
LEMMA NextKeepsPresent ==
    SyncInvariant /\ PresentInv /\ [Next]_vars => PresentInv'
  <1> SUFFICES ASSUME SyncInvariant, PresentInv, [Next]_vars PROVE PresentInv'
    OBVIOUS
  <1>0. TypeOK
    BY DEF SyncInvariant
  <1>1. CASE ChangeUsers \/ UNCHANGED vars
    BY <1>1 DEF ChangeUsers, vars, sync, threads, PresentInv, Present
  <1>2. CASE Restart \/ EndSync
    <2>1. phase' = "idle" /\ UNCHANGED <<synced, recorded, disturbed>>
      BY <1>2 DEF Restart, EndSync
    <2> QED BY <2>1 DEF PresentInv, Present
  <1>3. CASE StartSync
    <2>1. phase' = "resources" /\ synced' = {}
      BY <1>3 DEF StartSync
    <2> QED BY <2>1 DEF PresentInv
  <1>4. ASSUME NEW c \in Worker, ListRoles(c) PROVE PresentInv'
    <2>1. phase' = "clearing" /\ synced' = {}
      BY <1>4 DEF ListRoles, SyncInvariant
    <2> QED BY <2>1 DEF PresentInv
  <1>5. ASSUME NEW c \in Worker, ListRolesReturns(c) PROVE PresentInv'
    <2>0. phase = "clearing" /\ synced' = {} /\ disturbed' = disturbed
      BY <1>5 DEF ListRolesReturns, SyncInvariant
    <2>1. /\ pc[c] = "returning" /\ pc'[c] = "idle"
          /\ \A d \in Thread \ {c} : pc'[d] = pc[d]
      BY <1>0, <1>5 DEF ListRolesReturns, Goto, TypeOK, Thread
    <2>2. PICK l \in Worker :
            /\ \A d \in Worker \ {l} : pc[d] = "idle"
            /\ ~disturbed => \A o \in Targeted : pc[o] = "idle"
      BY <2>0 DEF SyncInvariant, ClearingInv
    <2>3. l = c
      BY <2>1, <2>2
    <2>4. ~disturbed' => \A d \in Thread : pc'[d] = "idle"
      BY <2>0, <2>1, <2>2, <2>3 DEF Thread
    <2> QED BY <2>0, <2>4 DEF PresentInv, Thread
  <1>6. ASSUME NEW c \in Worker, NEW r \in Role, Grants(c, r) PROVE PresentInv'
    <2>1. /\ phase' = phase
          /\ UNCHANGED <<cache, synced, recorded, disturbed, got>>
          /\ pc'[c] = "checking" /\ \A d \in Thread \ {c} : pc'[d] = pc[d]
      BY <1>0, <1>6 DEF Grants, Goto, TypeOK, Thread
    <2> QED BY <2>1 DEF PresentInv, Present, Thread
  <1>7. ASSUME NEW c \in Worker, GrantsReturns(c) PROVE PresentInv'
    <2>1. /\ phase = "grants" /\ UNCHANGED <<phase, cache, disturbed, got>>
          /\ pc[c] = "returning"
          /\ pc'[c] = "idle" /\ \A d \in Thread \ {c} : pc'[d] = pc[d]
      BY <1>0, <1>7 DEF GrantsReturns, Goto, TypeOK, Thread
    <2>2. /\ synced' = synced \cup {role[c]}
          /\ recorded' = [recorded EXCEPT ![role[c]] = got[c]]
      BY <1>7 DEF GrantsReturns
    <2>3. \A r \in synced' : recorded'[r] = IF r = role[c] THEN got[c] ELSE recorded[r]
      BY <1>0, <2>2 DEF TypeOK
    <2>4. ~disturbed => Present(got[c])
      BY <2>1 DEF PresentInv
    <2>5. ~disturbed => \A r \in synced' : Present(recorded'[r])
      BY <2>2, <2>3, <2>4 DEF PresentInv, Present
    <2> QED BY <2>1, <2>5 DEF PresentInv, Present, Thread
  <1>8. ASSUME NEW o \in Targeted, TargetedGrants(o) \/ TargetedGrantsReturns(o)
        PROVE  PresentInv'
    <2>1. /\ UNCHANGED <<phase, cache, synced, recorded, got>>
          /\ disturbed => disturbed'
          /\ pc'[o] \in {"idle", "checking"}
          /\ \A d \in Thread \ {o} : pc'[d] = pc[d]
      BY <1>0, <1>8 DEF TargetedGrants, TargetedGrantsReturns, Goto, TypeOK, Thread, sync
    <2> QED BY <2>1 DEF PresentInv, Present, Thread
  <1>9. ASSUME NEW c \in Thread,
               \/ CheckCache(c) \/ FetchUsers(c) \/ FetchUsersFails(c)
               \/ \E w \in Word : LoadWord(c, w) \/ StoreWord(c, w)
        PROVE  PresentInv'
    BY <1>9, GetUsersKeepsPresent
  <1> QED BY <1>1, <1>2, <1>3, <1>4, <1>5, <1>6, <1>7, <1>8, <1>9 DEF Next

\* A full sync whose List (roles.go) clears the cache while no targeted sync is in
\* GetUsers keeps what docs/teleport-events.md says of it, with any number of
\* workers and however their unguarded accesses of userCache interleave: a targeted
\* sync inside GetUsers at that moment is the only way to record a list of users
\* from before.
THEOREM UndisturbedListReconciles == Spec => []UndisturbedSyncReconciles
  <1>1. Init => PresentInv
    BY DEF Init, PresentInv
  <1>2. SyncInvariant /\ PresentInv => UndisturbedSyncReconciles
    <2> SUFFICES ASSUME SyncInvariant, PresentInv, ~disturbed, NEW r \in synced
                 PROVE  recorded[r]["size"] >= listedAt
      BY DEF UndisturbedSyncReconciles, FullSyncReconciles
    <2> QED BY DEF SyncInvariant, UndisturbedSyncIsNotStale, NotStale, Word, PresentInv,
                   Present
  <1> QED BY <1>1, <1>2, SyncInvariantHolds, NextKeepsPresent, PTL DEF Spec

\* If the SDK runs one call of roleBuilder at a time (one worker, and no targeted
\* sync beside it), every full sync takes the grants of all roles from one list of
\* users, that is not older than its list of roles: nothing guards userCache
\* (roles.go) but that schedule.
THEOREM OneWorkerTakesOneSnapshot ==
    ASSUME Targeted = {}, \A c, d \in Worker : c = d
    PROVE  Spec => [](/\ \A r \in synced : Recent(recorded[r])
                      /\ \A r, s \in synced : recorded[r] = recorded[s])
  <1> DEFINE Calm == disturbed = FALSE /\ raced = FALSE
  <1>1. Init => Calm
    BY DEF Init
  <1>2. Calm /\ [Next]_vars => Calm'
    <2> SUFFICES ASSUME Calm, [Next]_vars PROVE Calm'
      OBVIOUS
    <2>1. \A c \in Thread : Filling \ {c} = {}
      BY DEF Filling, Thread
    <2>2. CASE ChangeUsers \/ Restart \/ StartSync \/ EndSync \/ UNCHANGED vars
      BY <2>2 DEF ChangeUsers, Restart, StartSync, EndSync, vars, sync
    <2>3. ASSUME NEW c \in Worker, ListRoles(c) PROVE Calm'
      <3>1. disturbed' = (\E o \in Targeted : pc[o] # "idle") /\ raced' = FALSE
        BY <2>3 DEF ListRoles
      <3> QED BY <3>1
    <2>4. ASSUME NEW c \in Worker,
                 ListRolesReturns(c) \/ GrantsReturns(c) \/ \E r \in Role : Grants(c, r)
          PROVE  Calm'
      BY <2>4 DEF ListRolesReturns, GrantsReturns, Grants
    <2>5. ASSUME NEW c \in Thread, CheckCache(c) PROVE Calm'
      <3>1. disturbed' = disturbed /\ raced' = (raced \/ Filling \ {c} # {})
        BY <2>5 DEF CheckCache
      <3> QED BY <2>1, <3>1
    <2>6. ASSUME NEW c \in Thread,
                 FetchUsers(c) \/ FetchUsersFails(c)
                     \/ \E w \in Word : LoadWord(c, w) \/ StoreWord(c, w)
          PROVE  Calm'
      BY <2>6 DEF LoadWord, FetchUsers, FetchUsersFails, StoreWord, sync
    <2> QED BY <2>2, <2>3, <2>4, <2>5, <2>6 DEF Next
  <1>3. Calm /\ UncontendedSyncIsOneSnapshot
          => /\ \A r \in synced : Recent(recorded[r])
             /\ \A r, s \in synced : recorded[r] = recorded[s]
    BY DEF UncontendedSyncIsOneSnapshot
  <1> QED BY <1>1, <1>2, <1>3, OneSnapshot, PTL DEF Spec
-----------------------------------------------------------------------------
(* A full sync whose cache is not contended does what UserSnapshot promises. *)

\* What is taken, in terms of the calls at work.
LEMMA InCacheFacts ==
    ASSUME SyncInvariant, Kept, phase = "grants"
    PROVE  /\ \A c, d \in Filling : c = d
           /\ \A c \in Thread : pc[c] = "fetching" => cache = Empty /\ InCache = {}
           /\ \A c \in Thread : pc[c] = "storing" => InCache = Words(got[c])
           /\ Filled => InCache = Words(cache)
           /\ cache = Empty /\ (\A c \in Thread : pc[c] # "storing") => InCache = {}
  <1>1. FillInv /\ \A c, d \in Filling : c = d
    BY DEF SyncInvariant, FillInv, Kept
  <1>2. ASSUME NEW c \in Thread, pc[c] = "storing" PROVE InCache = Words(got[c])
    <2>1. c \in Filling /\ ~Filled
      BY <1>2 DEF Filling, Filled
    <2>2. {d \in Thread : pc[d] = "storing"} = {c}
      BY <1>1, <1>2, <2>1 DEF Filling
    <2> QED BY <2>1, <2>2 DEF InCache
  <1>3. cache = Empty /\ (\A c \in Thread : pc[c] # "storing") => InCache = {}
    BY DEF InCache, Filled
  <1>4. ASSUME NEW c \in Thread, pc[c] = "fetching" PROVE cache = Empty /\ InCache = {}
    <2>1. cache = Empty
      BY <1>1, <1>4 DEF FillInv, Kept
    <2>2. \A d \in Thread : pc[d] # "storing"
      BY <1>1, <1>4 DEF Filling
    <2> QED BY <1>3, <2>1, <2>2
  <1>5. ASSUME Filled PROVE InCache = Words(cache)
    <2>1. {c \in Thread : pc[c] = "storing"} = {}
      BY <1>5 DEF Filled, Filling
    <2>2. UNION {Words(got[c]) : c \in {d \in Thread : pc[d] = "storing"}} = {}
      BY <2>1
    <2> QED BY <1>5, <2>2 DEF InCache
  <1> QED BY <1>1, <1>2, <1>3, <1>4, <1>5

\* Of the steps of GetUsers, only that of the call that fetches the users changes
\* what is taken.
LEMMA GetUsersTakesOnce ==
    ASSUME SyncInvariant, Kept, Kept', phase = "grants", NEW c \in Thread,
           \/ CheckCache(c) \/ FetchUsers(c) \/ FetchUsersFails(c)
           \/ \E w \in Word : LoadWord(c, w) \/ StoreWord(c, w)
    PROVE  \/ InCache' = InCache
           \/ InCache = {} /\ InCache' = {version}
  <1>0. TypeOK /\ FillInv /\ listedAt # 0
    BY DEF SyncInvariant
  <1>1. CASE CheckCache(c)
    <2>1. /\ pc[c] = "checking" /\ pc'[c] \in {"loading", "fetching"} /\ cache' = cache
          /\ pc'[c] = "fetching" => cache["size"] = 0
          /\ \A d \in Thread \ {c} : pc'[d] = pc[d] /\ got'[d] = got[d]
      BY <1>0, <1>1 DEF CheckCache, Goto, TypeOK
    <2>2. {d \in Thread : pc'[d] = "storing"} = {d \in Thread : pc[d] = "storing"}
      BY <2>1
    <2>3. \A d \in Thread : pc[d] = "storing" => got'[d] = got[d]
      BY <2>1
    <2>4. Filled' = Filled
      <3>1. CASE pc'[c] = "loading"
        BY <2>1, <3>1 DEF Filled, Filling
      <3>2. CASE pc'[c] = "fetching"
        <4>1. Filling \ {c} = {}
          BY <1>1 DEF CheckCache, Kept
        <4>2. Filling = {}
          BY <2>1, <4>1 DEF Filling
        <4>3. Filled => cache["size"] >= listedAt
          BY <1>0 DEF FillInv, Kept, Recent, Word, TypeOK
        <4>4. ~Filled
          BY <1>0, <2>1, <3>2, <4>3 DEF TypeOK
        <4>5. ~Filled'
          BY <2>1, <4>2, <4>4 DEF Filled
        <4> QED BY <4>4, <4>5 DEF Filled
      <3> QED BY <2>1, <3>1, <3>2
    <2>5. InCache' = InCache
      BY <2>1, <2>2, <2>3, <2>4 DEF InCache, Words
    <2> QED BY <2>5
  <1>2. ASSUME NEW w \in Word, LoadWord(c, w) PROVE InCache' = InCache
    <2>1. /\ pc[c] = "loading" /\ pc'[c] \in {"loading", "returning"} /\ cache' = cache
          /\ \A d \in Thread \ {c} : pc'[d] = pc[d] /\ got'[d] = got[d]
      BY <1>0, <1>2 DEF LoadWord, WordDone, TypeOK
    <2>2. /\ {d \in Thread : pc'[d] = "storing"} = {d \in Thread : pc[d] = "storing"}
          /\ \A d \in Thread : pc[d] = "storing" => got'[d] = got[d]
      BY <2>1
    <2>3. Filled' = Filled
      BY <2>1 DEF Filled, Filling
    <2> QED BY <2>1, <2>2, <2>3 DEF InCache, Words
  <1>3. CASE FetchUsers(c)
    <2>1. /\ pc[c] = "fetching" /\ pc'[c] = "storing" /\ got'[c] = [w \in Word |-> version]
          /\ \A d \in Thread \ {c} : pc'[d] = pc[d]
      BY <1>0, <1>3 DEF FetchUsers, Goto, TypeOK
    <2>2. InCache = {} /\ \A d \in Thread : pc[d] # "storing"
      BY <2>1, InCacheFacts DEF Filling
    <2>3. {d \in Thread : pc'[d] = "storing"} = {c}
      BY <2>1, <2>2
    <2>4. ~Filled'
      BY <2>1 DEF Filled, Filling
    <2>5. InCache' = Words(got'[c])
      BY <2>3, <2>4 DEF InCache, Words
    <2>6. Words(got'[c]) = {version}
      BY <2>1 DEF Words, Word
    <2> QED BY <2>2, <2>5, <2>6
  <1>4. CASE FetchUsersFails(c)
    <2>1. /\ pc[c] = "fetching" /\ pc'[c] = "idle" /\ cache' = cache
          /\ \A d \in Thread \ {c} : pc'[d] = pc[d]
      BY <1>0, <1>4 DEF FetchUsersFails, Goto, TypeOK
    <2>2. cache = Empty /\ InCache = {} /\ \A d \in Thread : pc[d] # "storing"
      BY <2>1, InCacheFacts DEF Filling
    <2>3. ~Filled' /\ {d \in Thread : pc'[d] = "storing"} = {}
      BY <2>1, <2>2 DEF Filled
    <2>4. InCache' = {}
      BY <2>3 DEF InCache
    <2> QED BY <2>2, <2>4
  <1>5. ASSUME NEW w \in Word, StoreWord(c, w) PROVE InCache' = InCache
    <2>1. /\ pc[c] = "storing" /\ w \in left[c] /\ got' = got
          /\ cache' = [cache EXCEPT ![w] = got[c][w]]
          /\ pc' = IF left[c] = {w} THEN [pc EXCEPT ![c] = "returning"] ELSE pc
      BY <1>5 DEF StoreWord, WordDone
    <2>2. InCache = Words(got[c]) /\ \A d \in Filling : d = c
      BY <2>1, InCacheFacts DEF Filling
    <2>3. CASE left[c] # {w}
      <3>1. pc' = pc
        BY <2>1, <2>3
      <3>2. {d \in Thread : pc'[d] = "storing"} = {c} /\ ~Filled'
        BY <2>1, <2>2, <3>1 DEF Filled, Filling
      <3>3. InCache' = Words(got'[c])
        BY <3>2 DEF InCache, Words
      <3> QED BY <2>1, <2>2, <3>3 DEF Words
    <2>4. CASE left[c] = {w}
      <3>1. /\ pc'[c] = "returning"
            /\ \A d \in Thread \ {c} : pc'[d] = pc[d]
        BY <1>0, <2>1, <2>4 DEF TypeOK
      <3>2. Filling' = {}
        BY <2>2, <3>1 DEF Filling
      <3>3. /\ Recent(got[c])
            /\ cache = [v \in Word |-> IF v \in left[c] THEN 0 ELSE got[c][v]]
        BY <1>0, <2>1 DEF FillInv, Kept
      <3>4. cache' = got[c]
        <4>1. got[c] \in [Word -> Nat]
          BY <1>0 DEF TypeOK, Slice
        <4>2. \A v \in Word : cache'[v] = got[c][v]
          BY <2>1, <2>4, <3>3
        <4>3. cache' \in [Word -> Nat]
          BY <1>0, <2>1, <4>1 DEF TypeOK, Slice
        <4> QED BY <4>1, <4>2, <4>3
      <3>5. got[c] # Empty
        <4>1. got[c]["size"] >= listedAt
          BY <1>0, <3>3 DEF Recent, Word, TypeOK
        <4> QED BY <1>0, <4>1 DEF Empty, Word, TypeOK
      <3>6. Filled' /\ {d \in Thread : pc'[d] = "storing"} = {}
        BY <3>2, <3>4, <3>5 DEF Filled, Filling, Empty
      <3>7. InCache' = Words(cache')
        <4>1. UNION {Words(got[d])' : d \in {e \in Thread : pc'[e] = "storing"}} = {}
          BY <3>6
        <4> QED BY <3>6, <4>1 DEF InCache, Words
      <3> QED BY <2>2, <3>4, <3>7 DEF Words
    <2> QED BY <2>3, <2>4
  <1> QED BY <1>1, <1>2, <1>3, <1>4, <1>5

\* A step of the sync's own calls, while its promise holds before and after it.
LEMMA KeptStepImplements ==
    ASSUME SyncInvariant, SyncInvariant', Kept, Kept', [Next]_vars, version' = version,
           phase = "grants", phase' = "grants",
           UNCHANGED <<listedAt, synced, recorded>>,
           InCache' = InCache \/ (InCache = {} /\ InCache' = {version})
    PROVE  Snapshot!TakeUsers \/ UNCHANGED Snapshot!vars
  <1>1. listedAt # 0 /\ InReport' = InReport
    BY DEF SyncInvariant, InReport, Words
  <1> QED BY <1>1 DEF Snapshot!TakeUsers, Snapshot!vars

\* Every step is one of UserSnapshot, or changes nothing it speaks of.
LEMMA SnapshotNext ==
    SyncInvariant /\ SyncInvariant' /\ [Next]_vars => [Snapshot!Next]_(Snapshot!vars)
  <1> SUFFICES ASSUME SyncInvariant, SyncInvariant', [Next]_vars
               PROVE  Snapshot!Next \/ UNCHANGED Snapshot!vars
    OBVIOUS
  <1>0. TypeOK
    BY DEF SyncInvariant
  <1>1. CASE UNCHANGED vars
    <2>1. UNCHANGED <<version, cache, sync, threads>>
      BY <1>1 DEF vars
    <2>2. Kept' = Kept /\ InCache' = InCache /\ InReport' = InReport
      BY <2>1 DEF Kept, InCache, Filled, Filling, InReport, Words, sync, threads
    <2> QED BY <2>1, <2>2 DEF sync, Snapshot!vars
  <1>2. CASE ChangeUsers
    <2>1. version' = version + 1 /\ UNCHANGED <<cache, sync, threads>>
      BY <1>2 DEF ChangeUsers
    <2>2. Kept' = Kept /\ InCache' = InCache /\ InReport' = InReport
      BY <2>1 DEF Kept, InCache, Filled, Filling, InReport, Words, sync, threads
    <2>3. Snapshot!ChangeUsers
      BY <2>1, <2>2 DEF sync, Snapshot!ChangeUsers
    <2> QED BY <2>3 DEF Snapshot!Next
  <1>3. ASSUME version' = version, ~Kept'
        PROVE  Snapshot!Next \/ UNCHANGED Snapshot!vars
    <2>1. Snapshot!End
      BY <1>3 DEF Snapshot!End
    <2> QED BY <2>1 DEF Snapshot!Next
  <1>4. CASE Restart \/ StartSync \/ EndSync
    <2>1. version' = version /\ ~Kept'
      BY <1>4 DEF Restart, StartSync, EndSync, Kept
    <2> QED BY <1>3, <2>1
  <1>5. ASSUME NEW c \in Worker, ListRoles(c)
        PROVE  Snapshot!Next \/ UNCHANGED Snapshot!vars
    <2>1. /\ version' = version /\ listedAt' = version /\ ~Kept /\ phase' = "clearing"
          /\ synced' = {}
      BY <1>5 DEF ListRoles, Kept, SyncInvariant
    <2>2. InReport' = {}
      BY <2>1 DEF InReport
    <2>3. Kept' => Snapshot!ListRoles
      BY <2>1, <2>2 DEF Snapshot!ListRoles
    <2> QED BY <1>3, <2>1, <2>3 DEF Snapshot!Next
  <1>6. ASSUME NEW c \in Worker, ListRolesReturns(c)
        PROVE  Snapshot!Next \/ UNCHANGED Snapshot!vars
    <2>1. /\ phase = "clearing" /\ phase' = "grants"
          /\ UNCHANGED <<version, cache, listedAt, synced, recorded, disturbed, raced>>
          /\ pc[c] = "returning" /\ pc'[c] = "idle"
          /\ \A d \in Thread : pc'[d] \in {"idle", pc[d]}
      BY <1>0, <1>6 DEF ListRolesReturns, Goto, TypeOK, Thread
    <2>2. Kept' = Kept /\ InReport' = InReport
      BY <2>1 DEF Kept, InReport, Words
    <2>3. ASSUME Kept PROVE InCache' = {}
      <3>1. PICK l \in Worker :
              /\ \A d \in Worker \ {l} : pc[d] = "idle"
              /\ \A o \in Targeted : pc[o] = "idle"
              /\ \A w \in Word : w \in left[l] \/ cache[w] = 0
        BY <2>1, <2>3 DEF SyncInvariant, ClearingInv, Kept
      <3>2. l = c /\ left[c] = {}
        BY <2>1, <3>1 DEF SyncInvariant, Thread
      <3>3. cache' = Empty
        BY <1>0, <2>1, <3>1, <3>2 DEF TypeOK, Slice, Empty
      <3>4. \A d \in Thread : pc'[d] # "storing"
        BY <2>1, <3>1, <3>2 DEF Thread
      <3> QED BY <3>3, <3>4 DEF InCache, Filled, Empty
    <2> QED BY <2>1, <2>2, <2>3 DEF Snapshot!vars
  <1>7. ASSUME NEW c \in Worker, GrantsReturns(c)
        PROVE  Snapshot!Next \/ UNCHANGED Snapshot!vars
    <2>1. /\ phase = "grants" /\ phase' = "grants" /\ pc[c] = "returning"
          /\ pc'[c] = "idle" /\ synced' = synced \cup {role[c]}
          /\ UNCHANGED <<version, cache, listedAt, disturbed, raced, got>>
          /\ \A d \in Thread \ {c} : pc'[d] = pc[d]
      BY <1>0, <1>7 DEF GrantsReturns, Goto, TypeOK, Thread
    <2>2. Kept' = Kept /\ Filled' = Filled
      BY <2>1 DEF Kept, Filled, Filling
    <2>3. {d \in Thread : pc'[d] = "storing"} = {d \in Thread : pc[d] = "storing"}
      BY <2>1
    <2>4. InCache' = InCache
      BY <2>1, <2>2, <2>3 DEF InCache, Words
    <2>5. ASSUME Kept PROVE Snapshot!Report
      <3>1. Filled' /\ \A r \in synced' : recorded'[r] = cache'
        BY <2>1, <2>2, <2>5 DEF SyncInvariant, FillInv, Kept
      <3>2. InReport' = Words(cache)
        BY <2>1, <3>1 DEF InReport, Words
      <3>3. InCache = Words(cache) /\ InCache # {}
        <4>1. InCache = Words(cache)
          BY <2>1, <2>2, <2>5, <3>1, InCacheFacts
        <4> QED BY <4>1 DEF Words, Word
      <3> QED BY <2>1, <2>2, <2>4, <2>5, <3>2, <3>3 DEF Snapshot!Report
    <2> QED BY <1>3, <2>1, <2>2, <2>5 DEF Snapshot!Next
  <1>8. ASSUME \/ \E c \in Worker, r \in Role : Grants(c, r)
               \/ \E o \in Targeted : TargetedGrants(o) \/ TargetedGrantsReturns(o)
        PROVE  Snapshot!Next \/ UNCHANGED Snapshot!vars
    <2>1. PICK c \in Thread : pc[c] \in {"idle", "returning"} /\ pc'[c] \in {"idle", "checking"}
                              /\ \A d \in Thread \ {c} : pc'[d] = pc[d]
      BY <1>0, <1>8 DEF Grants, TargetedGrants, TargetedGrantsReturns, Goto, TypeOK, Thread
    <2>2. /\ UNCHANGED <<version, cache, phase, listedAt, synced, recorded, raced, got>>
          /\ disturbed => disturbed'
      BY <1>0, <1>8 DEF Grants, TargetedGrants, TargetedGrantsReturns, sync, TypeOK
    <2>3. {d \in Thread : pc'[d] = "storing"} = {d \in Thread : pc[d] = "storing"}
      BY <2>1
    <2>4. Filled' = Filled
      BY <2>1, <2>2 DEF Filled, Filling
    <2>5. InCache' = InCache /\ InReport' = InReport
      BY <2>2, <2>3, <2>4 DEF InCache, InReport, Words
    <2>6. Kept' => Kept
      BY <2>2 DEF Kept
    <2>7. Kept' => UNCHANGED Snapshot!vars
      BY <2>2, <2>5, <2>6 DEF Snapshot!vars
    <2> QED BY <1>3, <2>2, <2>7
  <1>9. ASSUME NEW c \in Thread,
               \/ CheckCache(c) \/ FetchUsers(c) \/ FetchUsersFails(c)
               \/ \E w \in Word : LoadWord(c, w) \/ StoreWord(c, w)
        PROVE  Snapshot!Next \/ UNCHANGED Snapshot!vars
    <2>1. /\ UNCHANGED <<version, phase, listedAt, synced, recorded, disturbed>>
          /\ raced => raced'
      BY <1>0, <1>9 DEF CheckCache, LoadWord, FetchUsers, FetchUsersFails, StoreWord, sync,
                        TypeOK
    <2>2. Kept' => Kept
      BY <2>1 DEF Kept
    <2>3. ASSUME Kept', phase = "grants" PROVE Snapshot!TakeUsers \/ UNCHANGED Snapshot!vars
      <3>1. InCache' = InCache \/ (InCache = {} /\ InCache' = {version})
        BY <1>9, <2>2, <2>3, GetUsersTakesOnce
      <3> QED BY <2>1, <2>2, <2>3, <3>1, KeptStepImplements
    <2>4. ASSUME Kept', phase # "grants" PROVE UNCHANGED Snapshot!vars
      <3>1. InReport' = InReport
        BY <2>1 DEF InReport, Words
      <3> QED BY <2>1, <2>2, <2>4, <3>1 DEF Snapshot!vars
    <2> QED BY <1>3, <2>1, <2>3, <2>4 DEF Snapshot!Next
  <1> QED BY <1>1, <1>2, <1>4, <1>5, <1>6, <1>7, <1>8, <1>9 DEF Next

\* As long as userCache (roles.go) is not contended, all the calls of a full sync,
\* word by word, and those of the targeted syncs beside it, do what one reading of
\* Teleport's users would do.
THEOREM SyncIsASnapshot == Spec => ImplementsSnapshot
  <1>1. Init => Snapshot!Init
    BY DEF Init, Snapshot!Init, Kept
  <1> QED BY <1>1, SnapshotNext, SyncInvariantHolds, PTL
          DEF Spec, ImplementsSnapshot, Snapshot!Spec
=============================================================================

----------------------- MODULE IncrementalSyncProofs -----------------------
(***************************************************************************)
(* Proofs about full syncs and the audit feed together: for any users and  *)
(* roles, and however the two are interleaved, ConductorOne misses nobody  *)
(* who has a role, and reports nothing older than it may.                  *)
(***************************************************************************)
EXTENDS IncrementalSync, SequenceTheorems, TLAPS

\* The fields of what ConductorOne is told.
LEMMA EventFields ==
  ASSUME NEW a, NEW b
  PROVE  /\ ResourceChange(a, b).kind = "ResourceChange"
         /\ ResourceChange(a, b).type = a /\ ResourceChange(a, b).name = b
         /\ CreateGrant(a, b).kind = "CreateGrant"
         /\ CreateGrant(a, b).role = a /\ CreateGrant(a, b).user = b
         /\ "CreateGrant" # "ResourceChange"
  BY DEF ResourceChange, CreateGrant

\* What an event about a user tells, by its type (convertAuditEvent).
LEMMA ConversionTells ==
  ASSUME NEW e \in AuditEvent
  PROVE  /\ GrantsOf(ConvertAuditEvent(e)) =
              IF e.gotype \in {"UserCreate", "UserUpdate"} THEN e.roles \X {e.name} ELSE {}
         /\ UsersOf(ConvertAuditEvent(e)) =
              IF e.gotype \in {"UserCreate", "UserUpdate"} THEN {e.name}
              ELSE IF e.gotype \in {"LockCreate", "LockDelete"} THEN {e.user} ELSE {}
<1>1. /\ e.name # NoName /\ e.user # NoName /\ e.roles \ {NoName} = e.roles
  BY NameAssumption DEF AuditEvent
<1>2. CASE e.gotype \in {"UserCreate", "UserUpdate"}
  <2>1. ConvertAuditEvent(e) =
          {ResourceChange("user", e.name)} \cup {CreateGrant(r, e.name) : r \in e.roles}
    BY <1>1, <1>2 DEF ConvertAuditEvent, ConvertUserEvent
  <2>2. {f \in ConvertAuditEvent(e) : f.kind = "CreateGrant"}
          = {CreateGrant(r, e.name) : r \in e.roles}
    BY <2>1, EventFields
  <2>3. {f \in ConvertAuditEvent(e) : f.kind = "ResourceChange" /\ f.type = "user"}
          = {ResourceChange("user", e.name)}
    BY <2>1, EventFields
  <2>4. GrantsOf(ConvertAuditEvent(e)) = e.roles \X {e.name}
    BY <2>2, EventFields DEF GrantsOf
  <2>5. UsersOf(ConvertAuditEvent(e)) = {e.name}
    BY <2>3, EventFields DEF UsersOf
  <2> QED
    BY <1>2, <2>4, <2>5
<1>3. CASE e.gotype \in {"LockCreate", "LockDelete"}
  <2>1. ConvertAuditEvent(e) = {ResourceChange("user", e.user)}
    BY <1>1, <1>3 DEF ConvertAuditEvent, ConvertLockEvent, SingleResourceChange
  <2>2. GrantsOf(ConvertAuditEvent(e)) = {}
    BY <2>1, EventFields DEF GrantsOf
  <2>3. UsersOf(ConvertAuditEvent(e)) = {e.user}
    BY <2>1, EventFields DEF UsersOf
  <2> QED
    BY <1>3, <2>2, <2>3
<1>4. CASE e.gotype = "UserDelete"
  BY <1>4 DEF ConvertAuditEvent, GrantsOf, UsersOf
<1> QED
  BY <1>2, <1>3, <1>4 DEF AuditEvent

\* What several events tell is what each of them tells.
LEMMA UnionTells ==
  ASSUME NEW S, NEW T
  PROVE  /\ GrantsOf(S \cup T) = GrantsOf(S) \cup GrantsOf(T)
         /\ UsersOf(S \cup T) = UsersOf(S) \cup UsersOf(T)
  BY DEF GrantsOf, UsersOf

LEMMA PageTells ==
  ASSUME NEW page
  PROVE  /\ GrantsOf(UNION {ConvertAuditEvent(log[p]) : p \in page})
              = UNION {Tells(p) : p \in page}
         /\ UsersOf(UNION {ConvertAuditEvent(log[p]) : p \in page})
              = UNION {TellsOf(p) : p \in page}
<1>1. ASSUME NEW g
      PROVE  g \in GrantsOf(UNION {ConvertAuditEvent(log[p]) : p \in page})
               <=> \E p \in page : g \in Tells(p)
  BY DEF GrantsOf, Tells
<1>2. ASSUME NEW u
      PROVE  u \in UsersOf(UNION {ConvertAuditEvent(log[p]) : p \in page})
               <=> \E p \in page : u \in TellsOf(p)
  BY DEF UsersOf, TellsOf
<1> QED
  BY <1>1, <1>2

\* The types of what is read from the two sequences.
LEMMA SequenceFacts ==
  ASSUME TypeOK
  PROVE  /\ Len(log) \in Nat /\ DOMAIN log = 1..Len(log)
         /\ Version \in Nat /\ Version >= 1 /\ Version = Len(log) + 1
         /\ \A p \in DOMAIN log : log[p] \in AuditEvent
         /\ \A v \in 1..Version : users[v] \in [User -> Account \cup {NoOne}]
         /\ Now \in [User -> Account \cup {NoOne}]
<1>1. Len(log) \in Nat /\ log \in [1..Len(log) -> AuditEvent]
  BY LenProperties DEF TypeOK
<1>2. Len(users) \in Nat /\ users \in [1..Len(users) -> [User -> Account \cup {NoOne}]]
  BY LenProperties DEF TypeOK
<1> QED
  BY <1>1, <1>2 DEF TypeOK, Version, Now

\* The cursor a call decodes.
LEMMA CursorFacts ==
  ASSUME TypeOK
  PROVE  /\ Cursor \in EventPageCursor
         /\ Cursor.startAt # NoTime
         /\ Cursor.startAt = IF stored.startAt = NoTime THEN EarliestEvent ELSE stored.startAt
         /\ stored.startAt <= Cursor.startAt
         /\ Cursor.latestEventSeen = IF stored.latestEventSeen = NoTime THEN Cursor.startAt
                                     ELSE stored.latestEventSeen
         /\ Cursor.lastKey = stored.lastKey
<1>1. DefaultStart(LastTime) = EarliestEvent /\ EarliestEvent \in Nat /\ EarliestEvent # NoTime
  BY CursorAssumption, StartAssumption DEF DefaultStart
<1>2. stored.startAt \in Nat /\ stored.latestEventSeen \in Nat /\ stored.lastKey \in Nat
  BY DEF TypeOK, EventPageCursor
<1> DEFINE start == IF stored.startAt = NoTime THEN EarliestEvent ELSE stored.startAt
<1>3. Cursor = [startAt |-> start,
                latestEventSeen |-> IF stored.latestEventSeen = NoTime
                                    THEN start ELSE stored.latestEventSeen,
                lastKey |-> stored.lastKey]
  BY <1>1 DEF Cursor, UnmarshalEventPageCursor
<1>4. start \in Nat /\ start # NoTime /\ stored.startAt <= start
  BY <1>1, <1>2 DEF NoTime
<1> HIDE DEF start
<1>5. Cursor \in EventPageCursor
  BY <1>2, <1>3, <1>4 DEF EventPageCursor
<1> QED
  BY <1>3, <1>4, <1>5 DEF start

\* All events are as late as LastTime at most.
LEMMA LastTimeFacts ==
  ASSUME TypeOK, LogInv
  PROVE  /\ LastTime \in Nat /\ EarliestEvent <= LastTime
         /\ \A p \in DOMAIN log : log[p].time <= LastTime
<1>1. /\ Len(log) \in Nat /\ DOMAIN log = 1..Len(log)
      /\ \A p \in DOMAIN log : log[p].time \in Nat
  BY SequenceFacts DEF AuditEvent
<1>2. CASE log = <<>>
  BY <1>1, <1>2, CursorAssumption DEF LastTime
<1>3. CASE log # <<>>
  <2>1. Len(log) \in DOMAIN log /\ LastTime = log[Len(log)].time
    <3>1. Len(log) # 0
      BY <1>3, EmptySeq DEF TypeOK
    <3> QED
      BY <1>1, <1>3, <3>1 DEF LastTime
  <2> QED
    BY <1>1, <2>1 DEF LogInv
<1> QED
  BY <1>2, <1>3

\* A change of a user appends a version and an event; the event is ahead of the
\* cursor, and tells the roles or the user that are new.
LEMMA ChangeFacts ==
  ASSUME IncrementalInvariant,
         NEW u \in User, NEW a \in Account \cup {NoOne},
         NEW gotype \in {"UserCreate", "UserUpdate", "UserDelete", "LockCreate", "LockDelete"},
         gotype \in {"UserCreate", "UserUpdate"} \/ a.roles \subseteq Now[u].roles,
         gotype = "UserDelete" => a = NoOne,
         Change(u, a, gotype)
  PROVE  /\ TypeOK' /\ LogInv' /\ CursorInv'
         /\ Version' = Version + 1
         /\ \A v \in 1..Version : users'[v] = users[v]
         /\ DOMAIN log \subseteq DOMAIN log'
         /\ \A p \in DOMAIN log : log'[p] = log[p] /\ Tells(p)' = Tells(p)
         /\ Told \subseteq Told' /\ ToldOf \subseteq ToldOf'
         /\ RoleGrants(Now') \subseteq RoleGrants(Now) \cup Told'
         /\ \A w \in User : Now'[w] = Now[w] \/ Now'[w] = NoOne \/ w \in ToldOf'
<1> USE DEF IncrementalInvariant
<1>0. PICK n \in Nat : n = Len(log) + 1
  BY SequenceFacts
<1>1. PICK t \in {LastTime, LastTime + 1} :
         log' = Append(log, [gotype |-> gotype, time |-> t, roles |-> a.roles,
                             name |-> u, user |-> u])
  BY DEF Change
<1> DEFINE e == [gotype |-> gotype, time |-> t, roles |-> a.roles, name |-> u, user |-> u]
<1>2. e \in AuditEvent
  <2>1. t \in Nat
    BY LastTimeFacts
  <2>2. a.roles \in SUBSET Role
    BY DEF Account, NoOne
  <2> QED
    BY <2>1, <2>2 DEF AuditEvent
<1>3. /\ log' \in Seq(AuditEvent) /\ Len(log') = n /\ log'[n] = e
      /\ \A p \in 1..Len(log) : log'[p] = log[p]
  BY <1>0, <1>1, <1>2, AppendProperties DEF TypeOK
<1>4. /\ DOMAIN log = 1..Len(log) /\ DOMAIN log' = 1..n
      /\ Len(log) \in Nat /\ n = Len(log) + 1
  BY <1>0, <1>3, LenProperties DEF TypeOK
<1>5. /\ users' \in Seq([User -> Account \cup {NoOne}]) /\ Version' = Version + 1
      /\ users'[Version + 1] = [Now EXCEPT ![u] = a]
      /\ \A v \in 1..Version : users'[v] = users[v]
  <2>1. [Now EXCEPT ![u] = a] \in [User -> Account \cup {NoOne}]
    BY SequenceFacts
  <2> QED
    BY <2>1, AppendProperties DEF Change, TypeOK, Version
<1>6. Now' = [Now EXCEPT ![u] = a]
  BY <1>5 DEF Now
<1>7. LastTime' = t /\ LastTime <= t /\ LastTime \in Nat
  <2>1. log' # <<>>
    BY <1>3, <1>4, EmptySeq DEF TypeOK
  <2> QED
    BY <1>3, <2>1, LastTimeFacts DEF LastTime
<1>8. TypeOK'
  <2>1. UNCHANGED <<sync, stored, status, granted, toGet, recent, last>>
    BY DEF Change, conductor
  <2>2. Version' = Len(log)' + 1
    BY <1>0, <1>3, <1>5, SequenceFacts
  <2>3. GrantsOf(recent)' = GrantsOf(recent) /\ UsersOf(recent)' = UsersOf(recent)
    BY <2>1 DEF GrantsOf, UsersOf
  <2> QED
    BY <1>3, <1>5, <2>1, <2>2, <2>3 DEF TypeOK
<1>9. LogInv'
  <2>1. \A p \in DOMAIN log : log[p].time <= t /\ log[p].time \in Nat
    BY <1>4, <1>7, LastTimeFacts, SequenceFacts DEF AuditEvent
  <2>2. EarliestEvent <= t
    BY <1>7, LastTimeFacts, CursorAssumption
  <2>3. log'[n].time = t /\ t \in Nat
    BY <1>3, <1>7
  <2>4. ASSUME NEW p \in DOMAIN log', NEW q \in DOMAIN log', p <= q
        PROVE  log'[p].time <= log'[q].time
    <3>1. CASE q = n
      BY <1>3, <1>4, <2>1, <2>3, <3>1
    <3>2. CASE q # n
      BY <1>3, <1>4, <2>4, <3>2 DEF LogInv
    <3> QED
      BY <3>1, <3>2
  <2>5. \A p \in DOMAIN log' : EarliestEvent <= log'[p].time
    BY <1>3, <1>4, <2>2, <2>3 DEF LogInv
  <2> QED
    BY <2>4, <2>5 DEF LogInv
<1>10. Cursor' = Cursor
  BY StartAssumption DEF Change, conductor, Cursor, UnmarshalEventPageCursor, DefaultStart
<1>11. Cursor \in EventPageCursor
  BY CursorFacts
<1>12. CursorInv'
  <2>1. Cursor.startAt <= LastTime'
    BY <1>7, <1>11 DEF CursorInv, EventPageCursor
  <2> QED
    BY <1>3, <1>4, <1>10, <2>1 DEF CursorInv
<1>13. Ahead \subseteq Ahead'
  BY <1>3, <1>4, <1>10 DEF Ahead, SearchEvents
<1>14. \A p \in DOMAIN log : Tells(p)' = Tells(p) /\ TellsOf(p)' = TellsOf(p)
  BY <1>3, <1>4 DEF Tells, TellsOf
<1>15. Told \subseteq Told' /\ ToldOf \subseteq ToldOf'
  <2>1. Ahead \subseteq DOMAIN log
    BY DEF Ahead, SearchEvents
  <2> QED
    BY <1>13, <1>14, <2>1 DEF Told, ToldOf
<1>16. gotype # "UserDelete" => n \in Ahead'
  <2>1. Cursor.startAt <= t /\ Cursor.lastKey < n
    BY <1>4, <1>7, <1>11 DEF CursorInv, EventPageCursor, NoKey
  <2> QED
    BY <1>3, <1>4, <1>10, <2>1 DEF Ahead, SearchEvents, GoType
<1>17. /\ gotype \in {"UserCreate", "UserUpdate"} => a.roles \X {u} \subseteq Told'
       /\ gotype # "UserDelete" => u \in ToldOf'
  <2>1. /\ Tells(n)' = GrantsOf(ConvertAuditEvent(e))
        /\ TellsOf(n)' = UsersOf(ConvertAuditEvent(e))
    BY <1>3 DEF Tells, TellsOf
  <2>2. /\ gotype \in {"UserCreate", "UserUpdate"} => Tells(n)' = a.roles \X {u}
        /\ gotype # "UserDelete" => TellsOf(n)' = {u}
    BY <1>2, <2>1, ConversionTells
  <2>3. /\ n \in Ahead' => Tells(n)' \subseteq Told'
        /\ n \in Ahead' => TellsOf(n)' \subseteq ToldOf'
    BY DEF Told, ToldOf
  <2> QED
    BY <1>16, <2>2, <2>3
<1>18. Now \in [User -> Account \cup {NoOne}]
  BY SequenceFacts
<1>19. RoleGrants(Now') \subseteq RoleGrants(Now) \cup Told'
  <2> SUFFICES ASSUME NEW r \in Role, NEW w \in User, r \in Now'[w].roles
               PROVE  r \in Now[w].roles \/ <<r, w>> \in Told'
    BY DEF RoleGrants
  <2> QED
    BY <1>6, <1>17, <1>18
<1>20. \A w \in User : Now'[w] = Now[w] \/ Now'[w] = NoOne \/ w \in ToldOf'
  BY <1>6, <1>17, <1>18
<1> QED
  BY <1>3, <1>4, <1>5, <1>8, <1>9, <1>12, <1>14, <1>15, <1>19, <1>20

\* What a call of ListEvents tells is what leaves the events ahead of the cursor.
LEMMA ListEventsFacts ==
  ASSUME IncrementalInvariant,
         NEW to \in 0..Len(log), NEW hasMore \in BOOLEAN, ListEvents(to, hasMore)
  PROVE  LET page == SearchEvents(Cursor, to)
         IN  /\ page \subseteq DOMAIN log
             /\ \A p \in page : stored.startAt <= log[p].time
             /\ stored' \in EventPageCursor /\ CursorInv'
             /\ stored.startAt <= stored'.startAt
             /\ Ahead \subseteq Ahead' \cup page
<1> USE DEF IncrementalInvariant
<1> DEFINE c == Cursor
           page == SearchEvents(c, to)
           times == {NoTime} \cup {ReportedTime(log[p]) : p \in page}
<1>1. /\ c \in EventPageCursor /\ c.startAt # NoTime /\ stored.startAt <= c.startAt
      /\ c.lastKey = stored.lastKey
  BY CursorFacts
<1>2. /\ page \subseteq DOMAIN log /\ UNCHANGED log
      /\ \A p \in page : c.startAt <= log[p].time /\ c.lastKey < p /\ p <= to
  BY DEF SearchEvents, ListEvents, teleport
<1>3. /\ Len(log) \in Nat /\ DOMAIN log = 1..Len(log)
      /\ \A p \in DOMAIN log : log[p].time \in Nat
  BY SequenceFacts DEF AuditEvent
<1>4. PICK latest \in times :
         LET moved == UpdateLatestEvent(c, latest)
         IN  /\ \A t \in times : t <= latest
             /\ stored' = IF hasMore THEN [moved EXCEPT !.lastKey = to]
                                     ELSE PrepareNextSync(moved)
  BY DEF ListEvents
<1> DEFINE moved == UpdateLatestEvent(c, latest)
<1>5. latest = NoTime \/ \E p \in page : latest = log[p].time
  BY <1>4 DEF ReportedTime
<1>6. /\ moved \in EventPageCursor /\ moved.startAt = c.startAt
      /\ c.latestEventSeen <= moved.latestEventSeen
      /\ \/ moved.latestEventSeen = c.latestEventSeen
         \/ \E p \in page : moved.latestEventSeen = log[p].time
  BY <1>1, <1>2, <1>3, <1>5 DEF UpdateLatestEvent, EventPageCursor, NoTime
<1>7. stored' = IF hasMore THEN [moved EXCEPT !.lastKey = to] ELSE PrepareNextSync(moved)
  BY <1>4
<1>8. c.startAt <= c.latestEventSeen /\ c.latestEventSeen \in Nat /\ c.startAt \in Nat
  BY <1>1 DEF CursorInv, EventPageCursor
<1> HIDE DEF moved
<1>9. /\ stored' \in EventPageCursor /\ stored.startAt <= stored'.startAt
      /\ stored'.startAt # NoTime
  <2>1. stored.startAt \in Nat /\ moved.latestEventSeen \in Nat /\ to \in Nat
    BY <1>3, <1>6 DEF TypeOK, EventPageCursor
  <2>2. stored.startAt <= moved.latestEventSeen /\ moved.latestEventSeen # NoTime
    BY <1>1, <1>6, <1>8, <2>1 DEF NoTime
  <2>3. CASE hasMore
    <3>1. stored' = [moved EXCEPT !.lastKey = to]
      BY <1>7, <2>3
    <3> QED
      BY <1>1, <1>6, <2>1, <3>1 DEF EventPageCursor
  <2>4. CASE ~hasMore
    <3>1. stored' = [startAt |-> moved.latestEventSeen, latestEventSeen |-> NoTime,
                     lastKey |-> NoKey]
      BY <1>7, <2>4 DEF PrepareNextSync
    <3> QED
      BY <2>1, <2>2, <3>1 DEF EventPageCursor, NoTime, NoKey
  <2> QED
    BY <2>3, <2>4
<1>10. \* an event past the page is not earlier than what the cursor moves to
       \A p \in DOMAIN log : p > to /\ c.lastKey < p /\ c.startAt <= log[p].time =>
            moved.latestEventSeen <= log[p].time
  <2> SUFFICES ASSUME NEW p \in DOMAIN log, p > to, c.lastKey < p, c.startAt <= log[p].time
               PROVE  moved.latestEventSeen <= log[p].time
    OBVIOUS
  <2>1. CASE \E q \in page : moved.latestEventSeen = log[q].time
    BY <1>2, <1>3, <2>1 DEF LogInv
  <2>2. CASE moved.latestEventSeen = c.latestEventSeen
    <3>1. CASE c.lastKey = NoKey
      BY <2>2, <3>1 DEF CursorInv
    <3>2. CASE c.lastKey # NoKey
      <4>1. c.lastKey \in DOMAIN log /\ c.latestEventSeen <= log[c.lastKey].time
        BY <3>2 DEF CursorInv
      <4>2. log[c.lastKey].time <= log[p].time
        BY <1>1, <1>3, <4>1 DEF LogInv, EventPageCursor
      <4> QED
        BY <1>3, <1>8, <2>2, <4>1, <4>2
    <3> QED
      BY <3>1, <3>2
  <2> QED
    BY <1>6, <2>1, <2>2
<1>11. LastTime' = LastTime /\ moved.latestEventSeen <= LastTime
  <2>1. LastTime' = LastTime /\ LastTime \in Nat /\ \A p \in DOMAIN log : log[p].time <= LastTime
    BY <1>2, LastTimeFacts DEF LastTime
  <2>2. c.latestEventSeen <= LastTime
    BY <1>3, <1>8, <2>1 DEF CursorInv
  <2> QED
    BY <1>2, <1>6, <2>1, <2>2
<1>12. \A p \in page : stored.startAt <= log[p].time
  <2>1. stored.startAt \in Nat
    BY DEF TypeOK, EventPageCursor
  <2> QED
    BY <1>1, <1>2, <1>3, <1>8, <2>1
<1>13. CASE hasMore
  <2>1. to \in page
    BY <1>13 DEF ListEvents
  <2>2. /\ stored'.startAt = c.startAt /\ stored'.lastKey = to
        /\ stored'.latestEventSeen = moved.latestEventSeen
    BY <1>6, <1>7, <1>13 DEF EventPageCursor
  <2>3. /\ Cursor'.startAt = c.startAt /\ Cursor'.lastKey = to
        /\ Cursor'.latestEventSeen = moved.latestEventSeen
    BY <1>1, <1>6, <1>8, <2>2, <1>9
    DEF Cursor, UnmarshalEventPageCursor, NoTime, EventPageCursor
  <2>4. moved.latestEventSeen <= log[to].time
    <3>1. CASE \E p \in page : moved.latestEventSeen = log[p].time
      BY <1>2, <1>3, <2>1, <3>1 DEF LogInv
    <3>2. CASE moved.latestEventSeen = c.latestEventSeen
      <4>1. CASE c.lastKey = NoKey
        BY <1>2, <2>1, <3>2, <4>1 DEF CursorInv
      <4>2. CASE c.lastKey # NoKey
        <5>1. c.lastKey \in DOMAIN log /\ c.latestEventSeen <= log[c.lastKey].time
          BY <4>2 DEF CursorInv
        <5>2. log[c.lastKey].time <= log[to].time
          BY <1>1, <1>2, <1>3, <2>1, <5>1 DEF LogInv, EventPageCursor
        <5> QED
          BY <1>2, <1>3, <1>8, <2>1, <3>2, <5>1, <5>2
      <4> QED
        BY <4>1, <4>2
    <3> QED
      BY <1>6, <3>1, <3>2
  <2>5. to # NoKey /\ to \in DOMAIN log
    BY <1>2, <1>3, <2>1 DEF NoKey
  <2>6. CursorInv'
    BY <1>2, <1>6, <1>8, <1>11, <2>3, <2>4, <2>5 DEF CursorInv, EventPageCursor
  <2>7. Ahead \subseteq Ahead' \cup page
    BY <1>2, <1>3, <2>3 DEF Ahead, SearchEvents
  <2> QED
    BY <1>2, <1>9, <1>12, <2>6, <2>7
<1>14. CASE ~hasMore
  <2>1. /\ stored'.startAt = moved.latestEventSeen /\ stored'.lastKey = NoKey
        /\ stored'.latestEventSeen = NoTime
    BY <1>6, <1>7, <1>14 DEF PrepareNextSync
  <2>2. /\ Cursor'.startAt = moved.latestEventSeen /\ Cursor'.lastKey = NoKey
        /\ Cursor'.latestEventSeen = moved.latestEventSeen
    BY <2>1, <1>9 DEF Cursor, UnmarshalEventPageCursor
  <2>3. CursorInv'
    BY <1>6, <1>11, <2>2 DEF CursorInv, EventPageCursor
  <2>4. Ahead \subseteq Ahead' \cup page
    <3> SUFFICES ASSUME NEW p \in Ahead, p \notin page PROVE p \in Ahead'
      OBVIOUS
    <3>1. p \in DOMAIN log /\ p > to /\ c.lastKey < p /\ c.startAt <= log[p].time
      BY <1>3 DEF Ahead, SearchEvents
    <3>2. moved.latestEventSeen <= log[p].time
      BY <1>10, <3>1
    <3> QED
      BY <1>2, <1>3, <2>2, <3>1, <3>2 DEF Ahead, SearchEvents, NoKey
  <2> QED
    BY <1>2, <1>9, <1>12, <2>3, <2>4
<1> QED
  BY <1>13, <1>14

\* Before anything happened.
LEMMA InitEstablishes == Init => IncrementalInvariant
<1> SUFFICES ASSUME Init PROVE IncrementalInvariant
  OBVIOUS
<1>1. PICK us \in [User -> Account \cup {NoOne}] : users = <<us>>
  BY DEF Init
<1>2. /\ users \in Seq([User -> Account \cup {NoOne}]) /\ Len(users) = 1
      /\ log \in Seq(AuditEvent) /\ Len(log) = 0 /\ DOMAIN log = {}
  BY <1>1, EmptySeq DEF Init
<1>3. GrantsOf({}) = {} /\ UsersOf({}) = {}
  BY DEF GrantsOf, UsersOf
<1>4. TypeOK
  BY <1>2, <1>3 DEF Init, TypeOK, Version, NoSync, EmptyCursor, EventPageCursor, NoTime, NoKey
<1>5. LogInv
  BY <1>2 DEF LogInv
<1>6. CursorInv
  BY <1>2, CursorAssumption, StartAssumption
  DEF Init, CursorInv, Cursor, UnmarshalEventPageCursor, EmptyCursor, DefaultStart,
      LastTime, NoTime, NoKey
<1>7. SyncInv
  BY DEF Init, SyncInv, NoSync, EmptyCursor, NoTime
<1> QED
  BY <1>4, <1>5, <1>6, <1>7
  DEF Init, IncrementalInvariant, MembershipsAreReported, UsersAreReported, GrantsAreRecent

\* A change of a user keeps the invariant: the event it is told by is ahead.
LEMMA ChangePreserves ==
  ASSUME IncrementalInvariant,
         NEW u \in User, NEW a \in Account \cup {NoOne},
         NEW gotype \in {"UserCreate", "UserUpdate", "UserDelete", "LockCreate", "LockDelete"},
         gotype \in {"UserCreate", "UserUpdate"} \/ a.roles \subseteq Now[u].roles,
         gotype = "UserDelete" => a = NoOne,
         Change(u, a, gotype)
  PROVE  IncrementalInvariant'
<1> USE DEF IncrementalInvariant
<1>1. /\ TypeOK' /\ LogInv' /\ CursorInv'
      /\ Version' = Version + 1
      /\ \A v \in 1..Version : users'[v] = users[v]
      /\ DOMAIN log \subseteq DOMAIN log'
      /\ \A p \in DOMAIN log : log'[p] = log[p] /\ Tells(p)' = Tells(p)
      /\ Told \subseteq Told' /\ ToldOf \subseteq ToldOf'
      /\ RoleGrants(Now') \subseteq RoleGrants(Now) \cup Told'
      /\ \A w \in User : Now'[w] = Now[w] \/ Now'[w] = NoOne \/ w \in ToldOf'
  BY ChangeFacts
<1>2. UNCHANGED <<sync, stored, status, granted, toGet, recent, last>>
  BY DEF Change, conductor
<1>3. Version \in Nat /\ sync.start \in Nat /\ last.start \in Nat
  BY SequenceFacts DEF TypeOK
<1>4. MembershipsAreReported'
  BY <1>1, <1>2 DEF MembershipsAreReported, Reports
<1>5. UsersAreReported'
  BY <1>1, <1>2 DEF UsersAreReported, ReportsUsers
<1>6. ASSUME NEW s \in {sync, last}, s.start \in 1..Version, NEW g
      PROVE  /\ (\E v \in s.start..Version : Held(g, v)) =>
                   \E v \in s.start..Version' : Held(g, v)'
             /\ (\E p \in DOMAIN log : s.mark <= log[p].time /\ g \in Tells(p)) =>
                   \E p \in DOMAIN log' : s.mark <= log'[p].time /\ g \in Tells(p)'
  BY <1>1, <1>3, <1>6 DEF Held
<1>7. GrantsAreRecent'
  <2> SUFFICES ASSUME last.start # 0 PROVE RecentSince(granted, last)'
    BY <1>2 DEF GrantsAreRecent
  <2>1. RecentSince(granted, last)
    BY DEF GrantsAreRecent
  <2>2. ASSUME NEW g \in granted
        PROVE  \/ \E v \in last.start..Version' : Held(g, v)'
               \/ \E p \in DOMAIN log' : last.mark <= log'[p].time /\ g \in Tells(p)'
    <3>1. CASE last.start \in 1..Version
      BY <1>6, <2>1, <3>1 DEF RecentSince
    <3>2. CASE last.start \notin 1..Version
      <4>1. \E p \in DOMAIN log : last.mark <= log[p].time /\ g \in Tells(p)
        BY <1>3, <2>1, <3>2 DEF RecentSince
      <4> QED
        BY <1>1, <4>1
    <3> QED
      BY <3>1, <3>2
  <2> QED
    BY <1>2, <2>2 DEF RecentSince
<1>8. SyncInv'
  <2>1. (last.mark <= stored.startAt)'
    BY <1>2 DEF SyncInv
  <2>2. ASSUME sync.phase # "idle"
        PROVE  /\ (sync.start \in 1..Version /\ sync.mark <= stored.startAt)'
               /\ RecentSince(GrantsOf(recent), sync)'
    <3>1. sync.start \in 1..Version /\ RecentSince(GrantsOf(recent), sync)
      BY <2>2 DEF SyncInv
    <3>2. ASSUME NEW g \in GrantsOf(recent)
          PROVE  \/ \E v \in sync.start..Version' : Held(g, v)'
                 \/ \E p \in DOMAIN log' : sync.mark <= log'[p].time /\ g \in Tells(p)'
      BY <1>6, <3>1 DEF RecentSince
    <3>3. RecentSince(GrantsOf(recent), sync)'
      BY <1>2, <3>2 DEF RecentSince
    <3> QED
      BY <1>1, <1>2, <1>3, <2>2, <3>1, <3>3 DEF SyncInv
  <2>3. ASSUME sync.phase \in {"roles", "grants"}
        PROVE  /\ (sync.listing \in sync.start..Version)'
               /\ ReportsUsers([w \in User |-> users[sync.listing][w].status],
                               UsersOf(recent))'
    <3>1. /\ sync.start \in 1..Version /\ sync.listing \in sync.start..Version
          /\ ReportsUsers([w \in User |-> users[sync.listing][w].status], UsersOf(recent))
      BY <2>3 DEF SyncInv
    <3>2. users'[sync.listing] = users[sync.listing]
      BY <1>1, <1>3, <3>1
    <3> QED
      BY <1>1, <1>2, <1>3, <3>1, <3>2 DEF ReportsUsers
  <2>4. ASSUME sync.phase = "grants"
        PROVE  /\ (sync.taken \in sync.start..Version)'
               /\ Reports(RoleGrants(users[sync.taken]) \cup GrantsOf(recent))'
    <3>1. /\ sync.start \in 1..Version /\ sync.taken \in sync.start..Version
          /\ Reports(RoleGrants(users[sync.taken]) \cup GrantsOf(recent))
      BY <2>4 DEF SyncInv
    <3>2. users'[sync.taken] = users[sync.taken]
      BY <1>1, <1>3, <3>1
    <3> QED
      BY <1>1, <1>2, <1>3, <3>1, <3>2 DEF Reports
  <2> QED
    BY <1>2, <2>1, <2>2, <2>3, <2>4 DEF SyncInv
<1> QED
  BY <1>1, <1>4, <1>5, <1>7, <1>8

\* Steps that leave Teleport and the cursor alone, and what is said of them.
LEMMA QuietFacts ==
  ASSUME TypeOK, LogInv, CursorInv, UNCHANGED <<teleport, stored>>
  PROVE  /\ LogInv' /\ CursorInv'
         /\ Version' = Version /\ Now' = Now /\ UNCHANGED <<users, log>>
         /\ Told' = Told /\ ToldOf' = ToldOf
         /\ \A p \in DOMAIN log : Tells(p)' = Tells(p)
  BY DEF teleport, LogInv, CursorInv, Cursor, LastTime, Version, Now, Told, ToldOf, Ahead,
         SearchEvents, Tells, TellsOf

\* A full sync begins: nothing was told since.
LEMMA StartSyncPreserves ==
  ASSUME IncrementalInvariant, StartSync
  PROVE  IncrementalInvariant'
<1> USE DEF IncrementalInvariant
<1>1. /\ UNCHANGED <<teleport, stored, status, granted, toGet, last>>
      /\ recent' = {} /\ sync.phase = "idle"
      /\ sync' = [NoSync EXCEPT !.phase = "users", !.start = Version, !.mark = stored.startAt]
  BY DEF StartSync
<1>2. /\ sync'.phase = "users" /\ sync'.start = Version /\ sync'.mark = stored.startAt
      /\ sync'.listing = 0 /\ sync'.taken = 0
  BY <1>1 DEF NoSync
<1>3. /\ LogInv' /\ CursorInv' /\ Version' = Version /\ Now' = Now
      /\ UNCHANGED <<users, log>> /\ Told' = Told /\ ToldOf' = ToldOf
      /\ \A p \in DOMAIN log : Tells(p)' = Tells(p)
  BY <1>1, QuietFacts
<1>4. GrantsOf({}) = {} /\ UsersOf({}) = {}
  BY DEF GrantsOf, UsersOf
<1>5. Version \in Nat /\ Version >= 1 /\ stored.startAt \in Nat
  BY SequenceFacts DEF TypeOK, EventPageCursor
<1>6. TypeOK'
  BY <1>1, <1>3, <1>4, <1>5 DEF TypeOK, NoSync
<1>7. SyncInv'
  BY <1>1, <1>2, <1>3, <1>4, <1>5 DEF SyncInv, RecentSince
<1>8. MembershipsAreReported' /\ UsersAreReported' /\ GrantsAreRecent'
  BY <1>1, <1>3 DEF MembershipsAreReported, UsersAreReported, GrantsAreRecent, Reports,
                    ReportsUsers, RecentSince, Held
<1> QED
  BY <1>3, <1>6, <1>7, <1>8

\* The users are listed: their statuses are those of now.
LEMMA ListUsersPreserves ==
  ASSUME IncrementalInvariant, ListUsers
  PROVE  IncrementalInvariant'
<1> USE DEF IncrementalInvariant
<1>1. /\ UNCHANGED <<teleport, stored, status, granted, toGet, recent, last>>
      /\ sync.phase = "users"
      /\ sync' = [sync EXCEPT !.phase = "roles", !.listing = Version]
  BY DEF ListUsers, conductor
<1>2. /\ sync'.phase = "roles" /\ sync'.listing = Version
      /\ sync'.start = sync.start /\ sync'.mark = sync.mark
  BY <1>1 DEF TypeOK
<1>3. /\ LogInv' /\ CursorInv' /\ Version' = Version /\ Now' = Now
      /\ UNCHANGED <<users, log>> /\ Told' = Told /\ ToldOf' = ToldOf
      /\ \A p \in DOMAIN log : Tells(p)' = Tells(p)
  BY <1>1, QuietFacts
<1>4. Version \in Nat
  BY SequenceFacts
<1>5. TypeOK'
  BY <1>1, <1>3, <1>4 DEF TypeOK
<1>6. RecentSince(GrantsOf(recent), sync)'
  BY <1>1, <1>2, <1>3 DEF SyncInv, RecentSince, Held
<1>7. ReportsUsers([w \in User |-> users[sync.listing][w].status], UsersOf(recent))'
  BY <1>1, <1>2, <1>3 DEF ReportsUsers, Now
<1>8. SyncInv'
  BY <1>1, <1>2, <1>3, <1>4, <1>6, <1>7 DEF SyncInv
<1>9. MembershipsAreReported' /\ UsersAreReported' /\ GrantsAreRecent'
  BY <1>1, <1>3 DEF MembershipsAreReported, UsersAreReported, GrantsAreRecent, Reports,
                    ReportsUsers, RecentSince, Held
<1> QED
  BY <1>3, <1>5, <1>8, <1>9

\* The grants are taken: they are those of now.
LEMMA GrantsPreserves ==
  ASSUME IncrementalInvariant, Grants
  PROVE  IncrementalInvariant'
<1> USE DEF IncrementalInvariant
<1>1. /\ UNCHANGED <<teleport, stored, status, granted, toGet, recent, last>>
      /\ sync.phase = "roles"
      /\ sync' = [sync EXCEPT !.phase = "grants", !.taken = Version]
  BY DEF Grants, conductor
<1>2. /\ sync'.phase = "grants" /\ sync'.taken = Version
      /\ sync'.start = sync.start /\ sync'.mark = sync.mark /\ sync'.listing = sync.listing
  BY <1>1 DEF TypeOK
<1>3. /\ LogInv' /\ CursorInv' /\ Version' = Version /\ Now' = Now
      /\ UNCHANGED <<users, log>> /\ Told' = Told /\ ToldOf' = ToldOf
      /\ \A p \in DOMAIN log : Tells(p)' = Tells(p)
  BY <1>1, QuietFacts
<1>4. Version \in Nat
  BY SequenceFacts
<1>5. TypeOK'
  BY <1>1, <1>3, <1>4 DEF TypeOK
<1>6. RecentSince(GrantsOf(recent), sync)'
  BY <1>1, <1>2, <1>3 DEF SyncInv, RecentSince, Held
<1>7. ReportsUsers([w \in User |-> users[sync.listing][w].status], UsersOf(recent))'
  BY <1>1, <1>2, <1>3 DEF SyncInv, ReportsUsers
<1>8. Reports(RoleGrants(users[sync.taken]) \cup GrantsOf(recent))'
  BY <1>2, <1>3 DEF Reports, Now
<1>9. SyncInv'
  BY <1>1, <1>2, <1>3, <1>4, <1>6, <1>7, <1>8 DEF SyncInv
<1>10. MembershipsAreReported' /\ UsersAreReported' /\ GrantsAreRecent'
  BY <1>1, <1>3 DEF MembershipsAreReported, UsersAreReported, GrantsAreRecent, Reports,
                    ReportsUsers, RecentSince, Held
<1> QED
  BY <1>3, <1>5, <1>9, <1>10

\* The sync ends without a result.
LEMMA AbandonSyncPreserves ==
  ASSUME IncrementalInvariant, AbandonSync
  PROVE  IncrementalInvariant'
<1> USE DEF IncrementalInvariant
<1>1. /\ UNCHANGED <<teleport, stored, status, granted, toGet, last>>
      /\ recent' = {} /\ sync' = NoSync
  BY DEF AbandonSync
<1>2. /\ LogInv' /\ CursorInv' /\ Version' = Version /\ Now' = Now
      /\ UNCHANGED <<users, log>> /\ Told' = Told /\ ToldOf' = ToldOf
      /\ \A p \in DOMAIN log : Tells(p)' = Tells(p)
  BY <1>1, QuietFacts
<1>3. GrantsOf({}) = {} /\ UsersOf({}) = {}
  BY DEF GrantsOf, UsersOf
<1>4. TypeOK' /\ SyncInv'
  BY <1>1, <1>2, <1>3 DEF TypeOK, SyncInv, NoSync
<1>5. MembershipsAreReported' /\ UsersAreReported' /\ GrantsAreRecent'
  BY <1>1, <1>2 DEF MembershipsAreReported, UsersAreReported, GrantsAreRecent, Reports,
                    ReportsUsers, RecentSince, Held
<1> QED
  BY <1>2, <1>4, <1>5

\* The result of a sync replaces what ConductorOne knew; the events told
\* meanwhile are handled again.
LEMMA FinishSyncPreserves ==
  ASSUME IncrementalInvariant, FinishSync
  PROVE  IncrementalInvariant'
<1> USE DEF IncrementalInvariant
<1>1. /\ UNCHANGED <<teleport, stored>> /\ sync.phase = "grants"
      /\ status' = [w \in User |-> users[sync.listing][w].status]
      /\ granted' = RoleGrants(users[sync.taken]) \cup GrantsOf(recent)
      /\ toGet' = toGet \cup UsersOf(recent)
      /\ last' = [start |-> sync.start, mark |-> sync.mark]
      /\ recent' = {} /\ sync' = NoSync
  BY DEF FinishSync
<1>2. /\ LogInv' /\ CursorInv' /\ Version' = Version /\ Now' = Now
      /\ UNCHANGED <<users, log>> /\ Told' = Told /\ ToldOf' = ToldOf
      /\ \A p \in DOMAIN log : Tells(p)' = Tells(p)
  BY <1>1, QuietFacts
<1>3. GrantsOf({}) = {} /\ UsersOf({}) = {}
  BY DEF GrantsOf, UsersOf
<1>4. /\ sync.start \in 1..Version /\ sync.mark <= stored.startAt
      /\ RecentSince(GrantsOf(recent), sync)
      /\ sync.listing \in sync.start..Version /\ sync.taken \in sync.start..Version
      /\ ReportsUsers([w \in User |-> users[sync.listing][w].status], UsersOf(recent))
      /\ Reports(RoleGrants(users[sync.taken]) \cup GrantsOf(recent))
  BY <1>1 DEF SyncInv
<1>5. TypeOK'
  <2>1. users[sync.listing] \in [User -> Account \cup {NoOne}]
    BY <1>4, SequenceFacts
  <2>2. status' \in [User -> {"none", "enabled", "disabled"}]
    BY <1>1, <2>1 DEF Account, NoOne
  <2>3. granted' \subseteq Role \X User
    BY <1>1 DEF RoleGrants, TypeOK
  <2> QED
    BY <1>1, <1>2, <1>3, <2>2, <2>3 DEF TypeOK, NoSync
<1>6. SyncInv'
  BY <1>1, <1>4 DEF SyncInv, NoSync
<1>7. MembershipsAreReported'
  BY <1>1, <1>2, <1>4 DEF MembershipsAreReported, Reports
<1>8. UsersAreReported'
  BY <1>1, <1>2, <1>4 DEF UsersAreReported, ReportsUsers
<1>9. GrantsAreRecent'
  <2> SUFFICES ASSUME NEW g \in granted'
               PROVE  \/ \E v \in sync.start..Version : Held(g, v)
                      \/ \E p \in DOMAIN log : sync.mark <= log[p].time /\ g \in Tells(p)
    BY <1>1, <1>2 DEF GrantsAreRecent, RecentSince, Held
  <2>1. CASE g \in RoleGrants(users[sync.taken])
    BY <1>4, <2>1 DEF RoleGrants, Held
  <2>2. CASE g \in GrantsOf(recent)
    BY <1>4, <2>2 DEF RecentSince
  <2> QED
    BY <1>1, <2>1, <2>2
<1> QED
  BY <1>2, <1>5, <1>6, <1>7, <1>8, <1>9

\* A call of ListEvents: what leaves the events ahead of the cursor is told.
LEMMA ListEventsPreserves ==
  ASSUME IncrementalInvariant,
         NEW to \in 0..Len(log), NEW hasMore \in BOOLEAN, ListEvents(to, hasMore)
  PROVE  IncrementalInvariant'
<1> USE DEF IncrementalInvariant
<1> DEFINE page == SearchEvents(Cursor, to)
           events == UNION {ConvertAuditEvent(log[p]) : p \in page}
<1>1. /\ UNCHANGED <<teleport, sync, status, last>>
      /\ granted' = granted \cup GrantsOf(events)
      /\ toGet' = toGet \cup UsersOf(events)
      /\ recent' = IF sync.phase = "idle" THEN recent ELSE recent \cup events
  BY DEF ListEvents
<1>2. /\ page \subseteq DOMAIN log
      /\ \A p \in page : stored.startAt <= log[p].time
      /\ stored' \in EventPageCursor /\ CursorInv'
      /\ stored.startAt <= stored'.startAt
      /\ Ahead \subseteq Ahead' \cup page
  BY ListEventsFacts
<1>3. /\ GrantsOf(events) = UNION {Tells(p) : p \in page}
      /\ UsersOf(events) = UNION {TellsOf(p) : p \in page}
  BY PageTells
<1> HIDE DEF events, page
<1>4. /\ UNCHANGED <<users, log>> /\ Version' = Version /\ Now' = Now
      /\ \A p \in DOMAIN log : Tells(p)' = Tells(p) /\ TellsOf(p)' = TellsOf(p)
  BY <1>1 DEF teleport, Version, Now, Tells, TellsOf
<1>5. Told \subseteq Told' \cup GrantsOf(events) /\ ToldOf \subseteq ToldOf' \cup UsersOf(events)
  <2>1. Ahead' \subseteq DOMAIN log
    BY <1>4 DEF Ahead, SearchEvents
  <2> QED
    BY <1>2, <1>3, <1>4, <2>1 DEF Told, ToldOf
<1>6. /\ GrantsOf(recent)' = IF sync.phase = "idle" THEN GrantsOf(recent)
                             ELSE GrantsOf(recent) \cup GrantsOf(events)
      /\ UsersOf(recent)' = IF sync.phase = "idle" THEN UsersOf(recent)
                            ELSE UsersOf(recent) \cup UsersOf(events)
  BY <1>1, UnionTells
<1>7. GrantsOf(events) \subseteq Role \X User /\ UsersOf(events) \subseteq User
  <2>1. \A p \in page : log[p] \in AuditEvent
    BY <1>2, SequenceFacts
  <2>2. ASSUME NEW p \in page PROVE Tells(p) \subseteq Role \X User /\ TellsOf(p) \subseteq User
    BY <2>1, ConversionTells DEF Tells, TellsOf, AuditEvent
  <2> QED
    BY <1>3, <2>2
<1>8. TypeOK'
  BY <1>1, <1>2, <1>4, <1>6, <1>7 DEF TypeOK
<1>9. LogInv'
  BY <1>4 DEF LogInv
<1>10. /\ stored.startAt \in Nat /\ stored'.startAt \in Nat
       /\ sync.mark \in Nat /\ last.mark \in Nat
       /\ \A p \in DOMAIN log : log[p].time \in Nat
  BY <1>2, SequenceFacts DEF TypeOK, EventPageCursor, AuditEvent
<1>11. \* what the page tells is not from before the cursor
       ASSUME NEW m \in Nat, m <= stored.startAt, NEW g \in GrantsOf(events)
       PROVE  \E p \in DOMAIN log : m <= log[p].time /\ g \in Tells(p)
  BY <1>2, <1>3, <1>10, <1>11
<1>12. MembershipsAreReported'
  BY <1>1, <1>4, <1>5 DEF MembershipsAreReported, Reports
<1>13. UsersAreReported'
  BY <1>1, <1>4, <1>5 DEF UsersAreReported, ReportsUsers
<1>14. GrantsAreRecent'
  <2> SUFFICES ASSUME last.start # 0, NEW g \in granted'
               PROVE  \/ \E v \in last.start..Version : Held(g, v)
                      \/ \E p \in DOMAIN log : last.mark <= log[p].time /\ g \in Tells(p)
    BY <1>1, <1>4 DEF GrantsAreRecent, RecentSince, Held
  <2>1. CASE g \in granted
    BY <2>1 DEF GrantsAreRecent, RecentSince
  <2>2. CASE g \in GrantsOf(events)
    BY <1>10, <1>11, <2>2 DEF SyncInv
  <2> QED
    BY <1>1, <2>1, <2>2
<1>15. SyncInv'
  <2>1. (last.mark <= stored.startAt)'
    BY <1>1, <1>2, <1>10 DEF SyncInv
  <2>2. ASSUME sync.phase # "idle"
        PROVE  /\ (sync.start \in 1..Version /\ sync.mark <= stored.startAt)'
               /\ RecentSince(GrantsOf(recent), sync)'
    <3>1. /\ sync.start \in 1..Version /\ sync.mark <= stored.startAt
          /\ RecentSince(GrantsOf(recent), sync)
      BY <2>2 DEF SyncInv
    <3>2. ASSUME NEW g \in GrantsOf(recent) \cup GrantsOf(events)
          PROVE  \/ \E v \in sync.start..Version : Held(g, v)
                 \/ \E p \in DOMAIN log : sync.mark <= log[p].time /\ g \in Tells(p)
      BY <1>10, <1>11, <3>1 DEF RecentSince
    <3>3. RecentSince(GrantsOf(recent), sync)'
      BY <1>1, <1>4, <1>6, <2>2, <3>2 DEF RecentSince, Held
    <3> QED
      BY <1>1, <1>2, <1>4, <1>10, <3>1, <3>3
  <2>3. ASSUME sync.phase \in {"roles", "grants"}
        PROVE  /\ (sync.listing \in sync.start..Version)'
               /\ ReportsUsers([w \in User |-> users[sync.listing][w].status],
                               UsersOf(recent))'
    BY <1>1, <1>4, <1>5, <1>6, <2>3 DEF SyncInv, ReportsUsers
  <2>4. ASSUME sync.phase = "grants"
        PROVE  /\ (sync.taken \in sync.start..Version)'
               /\ Reports(RoleGrants(users[sync.taken]) \cup GrantsOf(recent))'
    BY <1>1, <1>4, <1>5, <1>6, <2>4 DEF SyncInv, Reports
  <2> QED
    BY <1>1, <2>1, <2>2, <2>3, <2>4 DEF SyncInv
<1> QED
  BY <1>2, <1>8, <1>9, <1>12, <1>13, <1>14, <1>15

\* A user that is read has the status of now, or is gone.
LEMMA GetPreserves ==
  ASSUME IncrementalInvariant, NEW u \in User, Get(u)
  PROVE  IncrementalInvariant'
<1> USE DEF IncrementalInvariant
<1>1. /\ UNCHANGED <<teleport, sync, stored, granted, recent, last>>
      /\ toGet' = toGet \ {u}
      /\ status' = IF Now[u] = NoOne THEN status ELSE [status EXCEPT ![u] = Now[u].status]
  BY DEF Get
<1>2. /\ LogInv' /\ CursorInv' /\ Version' = Version /\ Now' = Now
      /\ UNCHANGED <<users, log>> /\ Told' = Told /\ ToldOf' = ToldOf
      /\ \A p \in DOMAIN log : Tells(p)' = Tells(p)
  BY <1>1, QuietFacts
<1>3. TypeOK'
  <2>1. Now[u] # NoOne => Now[u].status \in {"none", "enabled", "disabled"}
    BY SequenceFacts DEF Account
  <2> QED
    BY <1>1, <1>2, <2>1 DEF TypeOK
<1>4. SyncInv'
  BY <1>1, <1>2 DEF SyncInv, Reports, ReportsUsers, RecentSince, Held
<1>5. MembershipsAreReported' /\ GrantsAreRecent'
  BY <1>1, <1>2 DEF MembershipsAreReported, GrantsAreRecent, Reports, RecentSince, Held
<1>6. UsersAreReported'
  BY <1>1, <1>2 DEF UsersAreReported, ReportsUsers, TypeOK
<1> QED
  BY <1>2, <1>3, <1>4, <1>5, <1>6

\* Every step keeps the invariant.
LEMMA NextPreserves == IncrementalInvariant /\ [Next]_vars => IncrementalInvariant'
<1> SUFFICES ASSUME IncrementalInvariant, [Next]_vars PROVE IncrementalInvariant'
  OBVIOUS
<1>0. Now \in [User -> Account \cup {NoOne}]
  BY SequenceFacts DEF IncrementalInvariant
<1>1. ASSUME NEW u \in User, NEW roles \in SUBSET Role, CreateUser(u, roles)
      PROVE  IncrementalInvariant'
  <2>1. PICK a : a = [roles |-> roles, status |-> "enabled"]
    OBVIOUS
  <2>2. a \in Account
    BY <2>1 DEF Account
  <2> QED
    BY <1>1, <2>1, <2>2, ChangePreserves DEF CreateUser
<1>2. ASSUME NEW u \in User, NEW roles \in SUBSET Role, UpdateUser(u, roles)
      PROVE  IncrementalInvariant'
  <2>1. PICK a : a = [Now[u] EXCEPT !.roles = roles]
    OBVIOUS
  <2>2. a \in Account
    BY <1>0, <1>2, <2>1 DEF Account, UpdateUser
  <2> QED
    BY <1>2, <2>1, <2>2, ChangePreserves DEF UpdateUser
<1>3. ASSUME NEW u \in User, LockUser(u) \/ UnlockUser(u)
      PROVE  IncrementalInvariant'
  <2>1. CASE LockUser(u)
    <3>1. PICK a : a = [Now[u] EXCEPT !.status = "disabled"]
      OBVIOUS
    <3>2. a \in Account /\ a.roles = Now[u].roles
      BY <1>0, <2>1, <3>1 DEF Account, LockUser
    <3> QED
      BY <2>1, <3>1, <3>2, ChangePreserves DEF LockUser
  <2>2. CASE UnlockUser(u)
    <3>1. PICK a : a = [Now[u] EXCEPT !.status = "enabled"]
      OBVIOUS
    <3>2. a \in Account /\ a.roles = Now[u].roles
      BY <1>0, <2>2, <3>1 DEF Account, UnlockUser
    <3> QED
      BY <2>2, <3>1, <3>2, ChangePreserves DEF UnlockUser
  <2> QED
    BY <1>3, <2>1, <2>2
<1>4. ASSUME NEW u \in User, DeleteUser(u)
      PROVE  IncrementalInvariant'
  <2>1. NoOne.roles = {}
    BY DEF NoOne
  <2> QED
    BY <1>4, <2>1, ChangePreserves DEF DeleteUser
<1>5. CASE StartSync
  BY <1>5, StartSyncPreserves
<1>6. CASE ListUsers
  BY <1>6, ListUsersPreserves
<1>7. CASE Grants
  BY <1>7, GrantsPreserves
<1>8. CASE FinishSync
  BY <1>8, FinishSyncPreserves
<1>9. CASE AbandonSync
  BY <1>9, AbandonSyncPreserves
<1>10. ASSUME NEW to \in 0..Len(log), NEW hasMore \in BOOLEAN, ListEvents(to, hasMore)
       PROVE  IncrementalInvariant'
  BY <1>10, ListEventsPreserves
<1>11. ASSUME NEW u \in User, Get(u)
       PROVE  IncrementalInvariant'
  BY <1>11, GetPreserves
<1>12. CASE UNCHANGED vars
  <2>1. UNCHANGED <<teleport, sync, stored, status, granted, toGet, recent, last>>
    BY <1>12 DEF vars, conductor
  <2>2. /\ LogInv' /\ CursorInv' /\ Version' = Version /\ Now' = Now
        /\ UNCHANGED <<users, log>> /\ Told' = Told /\ ToldOf' = ToldOf
        /\ \A p \in DOMAIN log : Tells(p)' = Tells(p)
    BY <2>1, QuietFacts DEF IncrementalInvariant
  <2>3. TypeOK'
    BY <2>1, <2>2 DEF IncrementalInvariant, TypeOK
  <2>4. SyncInv'
    BY <2>1, <2>2 DEF IncrementalInvariant, SyncInv, Reports, ReportsUsers, RecentSince, Held
  <2>5. MembershipsAreReported' /\ UsersAreReported' /\ GrantsAreRecent'
    BY <2>1, <2>2 DEF IncrementalInvariant, MembershipsAreReported, UsersAreReported,
                      GrantsAreRecent, Reports, ReportsUsers, RecentSince, Held
  <2> QED
    BY <2>2, <2>3, <2>4, <2>5 DEF IncrementalInvariant
<1> QED
  BY <1>1, <1>2, <1>3, <1>4, <1>5, <1>6, <1>7, <1>8, <1>9, <1>10, <1>11, <1>12 DEF Next

\* The inductive invariant of full syncs and the audit feed holds, however
\* userBuilder.List, Grants and ListEvents are interleaved.
THEOREM IncrementalInvariantHolds == Spec => []IncrementalInvariant
  BY InitEstablishes, NextPreserves, PTL DEF Spec

\* Cursors, events and what ConductorOne knows keep their types.
THEOREM IncrementalTypesHold == Spec => []TypeOK
<1>1. IncrementalInvariant => TypeOK
  BY DEF IncrementalInvariant
<1> QED
  BY <1>1, IncrementalInvariantHolds, PTL

\* No membership falls between a full sync (Grants) and the feed (convertUserEvent).
THEOREM NoMembershipIsMissed == Spec => []MembershipsAreReported
<1>1. IncrementalInvariant => MembershipsAreReported
  BY DEF IncrementalInvariant
<1> QED
  BY <1>1, IncrementalInvariantHolds, PTL

\* No user, and no lock of one, falls between userBuilder.List and the feed
\* (convertLockEvent).
THEOREM NoUserIsMissed == Spec => []UsersAreReported
<1>1. IncrementalInvariant => UsersAreReported
  BY DEF IncrementalInvariant
<1> QED
  BY <1>1, IncrementalInvariantHolds, PTL

\* What is reported is as recent as the last full sync and the events it left to
\* the feed (convertUserEvent, which tells no removal).
THEOREM NoGrantIsOlder == Spec => []GrantsAreRecent
<1>1. IncrementalInvariant => GrantsAreRecent
  BY DEF IncrementalInvariant
<1> QED
  BY <1>1, IncrementalInvariantHolds, PTL
-----------------------------------------------------------------------------
(* Nothing is invented, and when the claim that the code does not keep holds. *)

\* The roles an event names are those the user had at the version it led to.
LogIsHistory == \A p \in DOMAIN log : Tells(p) \subseteq RoleGrants(users[p + 1])

EverHeld(grants) == \A g \in grants : \E v \in 1..Version : Held(g, v)

HistoryInvariant ==
    LogIsHistory /\ EverHeld(granted) /\ EverHeld(GrantsOf(recent))

\* What was held is held for ever, in the past.
LEMMA HeldStays ==
  ASSUME TypeOK, NEW grants, EverHeld(grants), Version' \in Nat, Version <= Version',
         \A v \in 1..Version : users'[v] = users[v]
  PROVE  \A g \in grants : \E v \in 1..Version' : Held(g, v)'
<1>1. Version \in Nat
  BY SequenceFacts
<1> QED
  BY <1>1 DEF EverHeld, Held

\* What events of the log tell was held.
LEMMA ToldWasHeld ==
  ASSUME TypeOK, LogIsHistory, NEW p \in DOMAIN log, NEW g \in Tells(p)
  PROVE  p + 1 \in 1..Version /\ Held(g, p + 1)
<1>1. p \in 1..Len(log) /\ Version = Len(log) + 1 /\ Len(log) \in Nat
  BY SequenceFacts
<1>2. g \in RoleGrants(users[p + 1])
  BY DEF LogIsHistory
<1> QED
  BY <1>1, <1>2 DEF RoleGrants, Held

\* A change of a user names the roles it gives him.
LEMMA ChangeKeepsHistory ==
  ASSUME IncrementalInvariant, HistoryInvariant,
         NEW u \in User, NEW a \in Account \cup {NoOne},
         NEW gotype \in {"UserCreate", "UserUpdate", "UserDelete", "LockCreate", "LockDelete"},
         gotype \in {"UserCreate", "UserUpdate"} \/ a.roles \subseteq Now[u].roles,
         gotype = "UserDelete" => a = NoOne,
         Change(u, a, gotype)
  PROVE  HistoryInvariant'
<1>1. /\ TypeOK /\ TypeOK' /\ Version' = Version + 1
      /\ \A v \in 1..Version : users'[v] = users[v]
      /\ \A p \in DOMAIN log : log'[p] = log[p] /\ Tells(p)' = Tells(p)
  BY ChangeFacts DEF IncrementalInvariant
<1>2. /\ Len(log) \in Nat /\ DOMAIN log = 1..Len(log) /\ Version = Len(log) + 1
      /\ Now \in [User -> Account \cup {NoOne}]
  BY <1>1, SequenceFacts
<1>3. PICK t \in {LastTime, LastTime + 1} :
         log' = Append(log, [gotype |-> gotype, time |-> t, roles |-> a.roles,
                             name |-> u, user |-> u])
  BY DEF Change
<1> DEFINE e == [gotype |-> gotype, time |-> t, roles |-> a.roles, name |-> u, user |-> u]
<1>n. PICK n \in Nat : n = Len(log) + 1
  BY <1>2
<1>4. e \in AuditEvent
  <2>1. t \in Nat
    BY <1>1, LastTimeFacts DEF IncrementalInvariant
  <2>2. a.roles \in SUBSET Role
    BY DEF Account, NoOne
  <2> QED
    BY <2>1, <2>2 DEF AuditEvent
<1>5. DOMAIN log' = 1..n /\ log'[n] = e
  <2>1. /\ log' \in Seq(AuditEvent) /\ Len(log') = n /\ log'[n] = e
    BY <1>1, <1>3, <1>4, <1>n, AppendProperties DEF TypeOK
  <2> QED
    BY <2>1, LenProperties
<1>6. users'[n + 1] = [Now EXCEPT ![u] = a]
  <2>1. /\ users \in Seq([User -> Account \cup {NoOne}]) /\ Len(users) = n
        /\ [Now EXCEPT ![u] = a] \in [User -> Account \cup {NoOne}]
    BY <1>1, <1>2, <1>n DEF TypeOK, Version
  <2> QED
    BY <2>1, AppendProperties DEF Change
<1>7. Tells(n)' \subseteq a.roles \X {u}
  <2>1. Tells(n)' = GrantsOf(ConvertAuditEvent(e))
    BY <1>5 DEF Tells
  <2>2. Tells(n)' = IF e.gotype \in {"UserCreate", "UserUpdate"} THEN e.roles \X {e.name}
                    ELSE {}
    BY <1>4, <2>1, ConversionTells
  <2> QED
    BY <2>2
<1>8. a.roles \X {u} \subseteq RoleGrants(users'[n + 1])
  <2>1. users'[n + 1][u] = a /\ a.roles \subseteq Role
    BY <1>2, <1>6 DEF Account, NoOne
  <2> QED
    BY <2>1 DEF RoleGrants
<1>9. LogIsHistory'
  <2> SUFFICES ASSUME NEW p \in 1..n PROVE Tells(p)' \subseteq RoleGrants(users'[p + 1])
    BY <1>5 DEF LogIsHistory, RoleGrants
  <2>1. CASE p = n
    BY <1>7, <1>8, <2>1
  <2>2. CASE p # n
    <3>1. p \in DOMAIN log /\ p + 1 \in 1..Version
      BY <1>2, <1>n, <2>2
    <3>2. Tells(p)' = Tells(p) /\ users'[p + 1] = users[p + 1]
      BY <1>1, <3>1
    <3> QED
      BY <3>1, <3>2 DEF HistoryInvariant, LogIsHistory
  <2> QED
    BY <2>1, <2>2
<1>10. EverHeld(granted)' /\ EverHeld(GrantsOf(recent))'
  <2>1. granted' = granted /\ recent' = recent
    BY DEF Change, conductor
  <2>2. Version' \in Nat /\ Version <= Version'
    BY <1>1, <1>2
  <2>3. \A g \in granted : \E v \in 1..Version' : Held(g, v)'
    BY <1>1, <2>2, HeldStays DEF HistoryInvariant
  <2>4. \A g \in GrantsOf(recent) : \E v \in 1..Version' : Held(g, v)'
    BY <1>1, <2>2, HeldStays DEF HistoryInvariant
  <2> QED
    BY <2>1, <2>3, <2>4 DEF EverHeld, GrantsOf
<1> QED
  BY <1>9, <1>10 DEF HistoryInvariant

\* So does every other step: a sync reads users, and the feed tells events.
LEMMA NextKeepsHistory ==
  IncrementalInvariant /\ HistoryInvariant /\ [Next]_vars => HistoryInvariant'
<1> SUFFICES ASSUME IncrementalInvariant, HistoryInvariant, [Next]_vars
             PROVE  HistoryInvariant'
  OBVIOUS
<1>0. /\ TypeOK /\ SyncInv /\ LogIsHistory /\ EverHeld(granted) /\ EverHeld(GrantsOf(recent))
      /\ Now \in [User -> Account \cup {NoOne}]
  BY SequenceFacts DEF IncrementalInvariant, HistoryInvariant
<1>1. ASSUME \/ \E u \in User, roles \in SUBSET Role :
                   CreateUser(u, roles) \/ UpdateUser(u, roles)
             \/ \E u \in User : LockUser(u) \/ UnlockUser(u) \/ DeleteUser(u)
      PROVE  HistoryInvariant'
  <2>1. ASSUME NEW u \in User, NEW roles \in SUBSET Role, CreateUser(u, roles)
        PROVE  HistoryInvariant'
    <3>1. PICK a : a = [roles |-> roles, status |-> "enabled"]
      OBVIOUS
    <3>2. a \in Account
      BY <3>1 DEF Account
    <3> QED
      BY <2>1, <3>1, <3>2, ChangeKeepsHistory DEF CreateUser
  <2>2. ASSUME NEW u \in User, NEW roles \in SUBSET Role, UpdateUser(u, roles)
        PROVE  HistoryInvariant'
    <3>1. PICK a : a = [Now[u] EXCEPT !.roles = roles]
      OBVIOUS
    <3>2. a \in Account
      BY <1>0, <2>2, <3>1 DEF Account, UpdateUser
    <3> QED
      BY <2>2, <3>1, <3>2, ChangeKeepsHistory DEF UpdateUser
  <2>3. ASSUME NEW u \in User, LockUser(u) PROVE HistoryInvariant'
    <3>1. PICK a : a = [Now[u] EXCEPT !.status = "disabled"]
      OBVIOUS
    <3>2. a \in Account /\ a.roles = Now[u].roles
      BY <1>0, <2>3, <3>1 DEF Account, LockUser
    <3> QED
      BY <2>3, <3>1, <3>2, ChangeKeepsHistory DEF LockUser
  <2>4. ASSUME NEW u \in User, UnlockUser(u) PROVE HistoryInvariant'
    <3>1. PICK a : a = [Now[u] EXCEPT !.status = "enabled"]
      OBVIOUS
    <3>2. a \in Account /\ a.roles = Now[u].roles
      BY <1>0, <2>4, <3>1 DEF Account, UnlockUser
    <3> QED
      BY <2>4, <3>1, <3>2, ChangeKeepsHistory DEF UnlockUser
  <2>5. ASSUME NEW u \in User, DeleteUser(u) PROVE HistoryInvariant'
    <3>1. NoOne.roles = {}
      BY DEF NoOne
    <3> QED
      BY <2>5, <3>1, ChangeKeepsHistory DEF DeleteUser
  <2> QED
    BY <1>1, <2>1, <2>2, <2>3, <2>4, <2>5
<1>2. ASSUME UNCHANGED teleport
      PROVE  /\ LogIsHistory' /\ TypeOK
             /\ \A g, v : Held(g, v)' = Held(g, v)
             /\ (1..Version)' = 1..Version
  <2>1. UNCHANGED <<users, log>>
    BY <1>2 DEF teleport
  <2>2. LogIsHistory'
    BY <1>0, <2>1 DEF LogIsHistory, Tells, RoleGrants
  <2> QED
    BY <1>0, <2>1, <2>2 DEF Held, Version
<1>3. ASSUME UNCHANGED teleport,
             EverHeld(granted'), EverHeld(GrantsOf(recent'))
      PROVE  HistoryInvariant'
  <2>1. EverHeld(granted)'
    BY <1>2, <1>3 DEF EverHeld
  <2>2. EverHeld(GrantsOf(recent))'
    BY <1>2, <1>3 DEF EverHeld, GrantsOf
  <2> QED
    BY <1>2, <1>3, <2>1, <2>2 DEF HistoryInvariant
<1>4. GrantsOf({}) = {} /\ EverHeld({})
  BY DEF GrantsOf, EverHeld
<1>5. CASE StartSync \/ AbandonSync
  <2>1. UNCHANGED teleport /\ granted' = granted /\ recent' = {}
    BY <1>5 DEF StartSync, AbandonSync
  <2> QED
    BY <1>0, <1>3, <1>4, <2>1
<1>6. CASE \/ ListUsers \/ Grants \/ UNCHANGED vars
           \/ \E u \in User : Get(u)
  <2>1. UNCHANGED teleport /\ granted' = granted /\ recent' = recent
    BY <1>6 DEF ListUsers, Grants, Get, vars, conductor
  <2> QED
    BY <1>0, <1>3, <2>1
<1>7. CASE FinishSync
  <2>1. /\ UNCHANGED teleport /\ recent' = {} /\ sync.phase = "grants"
        /\ granted' = RoleGrants(users[sync.taken]) \cup GrantsOf(recent)
    BY <1>7 DEF FinishSync
  <2>2. sync.taken \in 1..Version
    <3>1. sync.start \in 1..Version /\ sync.taken \in sync.start..Version
      BY <1>0, <2>1 DEF SyncInv
    <3> QED
      BY <1>0, <3>1, SequenceFacts
  <2>3. EverHeld(RoleGrants(users[sync.taken]))
    BY <2>2 DEF EverHeld, RoleGrants, Held
  <2>4. EverHeld(granted')
    BY <1>0, <2>1, <2>3 DEF EverHeld
  <2> QED
    BY <1>3, <1>4, <2>1, <2>4
<1>8. ASSUME NEW to \in 0..Len(log), NEW hasMore \in BOOLEAN, ListEvents(to, hasMore)
      PROVE  HistoryInvariant'
  <2> DEFINE page == SearchEvents(Cursor, to)
             events == UNION {ConvertAuditEvent(log[p]) : p \in page}
  <2>1. /\ UNCHANGED teleport
        /\ granted' = granted \cup GrantsOf(events)
        /\ recent' = IF sync.phase = "idle" THEN recent ELSE recent \cup events
    BY <1>8 DEF ListEvents
  <2>2. /\ page \subseteq DOMAIN log
        /\ GrantsOf(events) = UNION {Tells(p) : p \in page}
    BY PageTells DEF SearchEvents
  <2> HIDE DEF events, page
  <2>3. EverHeld(GrantsOf(events))
    BY <1>0, <2>2, ToldWasHeld DEF EverHeld
  <2>4. EverHeld(granted')
    BY <1>0, <2>1, <2>3 DEF EverHeld
  <2>5. GrantsOf(recent') \subseteq GrantsOf(recent) \cup GrantsOf(events)
    BY <2>1, UnionTells
  <2>6. EverHeld(GrantsOf(recent'))
    BY <1>0, <2>3, <2>5 DEF EverHeld
  <2> QED
    BY <1>3, <2>1, <2>4, <2>6
<1> QED
  BY <1>1, <1>5, <1>6, <1>7, <1>8 DEF Next

\* The inductive invariant holds.
LEMMA HistoryHolds == Spec => [](IncrementalInvariant /\ HistoryInvariant)
<1>1. Init => HistoryInvariant
  <2> SUFFICES ASSUME Init PROVE HistoryInvariant
    OBVIOUS
  <2>1. log = <<>> /\ granted = {} /\ recent = {}
    BY DEF Init
  <2>2. DOMAIN log = {}
    BY <2>1
  <2> QED
    BY <2>1, <2>2 DEF HistoryInvariant, LogIsHistory, EverHeld, GrantsOf
<1> QED
  BY <1>1, NextKeepsHistory, IncrementalInvariantHolds, PTL DEF Spec

\* Nobody is ever reported in a role he never had: whatever full syncs (Grants) and
\* the feed (convertUserEvent) tell, and in whatever order, was so in Teleport.
THEOREM NoGrantIsInvented ==
  Spec => [](\A g \in granted : \E v \in 1..Version : Held(g, v))
<1>1. HistoryInvariant => \A g \in granted : \E v \in 1..Version : Held(g, v)
  BY DEF HistoryInvariant, EverHeld
<1> QED
  BY <1>1, HistoryHolds, PTL

\* "They are reconciled during the next full sync cycle" (audit_event_feed.go, of
\* roles that are removed) does hold of every full sync that starts when the feed
\* has caught up.
THEOREM CaughtUpRemovalsAreReconciled == Spec => []CaughtUpSyncReconciles
<1>1. IncrementalInvariant /\ HistoryInvariant => CaughtUpSyncReconciles
  <2> SUFFICES ASSUME IncrementalInvariant, HistoryInvariant, CaughtUp, last.start # 0,
                      NEW g \in granted
               PROVE  \E v \in last.start..Version : Held(g, v)
    BY DEF CaughtUpSyncReconciles, RemovalsAreReconciled
  <2>1. /\ TypeOK /\ LogIsHistory
        /\ \/ \E v \in last.start..Version : Held(g, v)
           \/ \E p \in DOMAIN log : last.mark <= log[p].time /\ g \in Tells(p)
    BY DEF IncrementalInvariant, HistoryInvariant, GrantsAreRecent, RecentSince
  <2>2. ASSUME NEW p \in DOMAIN log, last.mark <= log[p].time, g \in Tells(p)
        PROVE  p + 1 \in last.start..Version /\ Held(g, p + 1)
    <3>1. p + 1 \in 1..Version /\ Held(g, p + 1)
      BY <2>1, <2>2, ToldWasHeld
    <3>2. last.start <= p + 1
      BY <2>2 DEF CaughtUp
    <3> QED
      BY <2>1, <3>1, <3>2, SequenceFacts DEF TypeOK
  <2> QED
    BY <2>1, <2>2
<1> QED
  BY <1>1, HistoryHolds, PTL
=============================================================================

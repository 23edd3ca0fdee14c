-------------------------- MODULE EventFeedProofs --------------------------
(***************************************************************************)
(* Every step of a feed preserves FeedInv, whatever the conversion of its  *)
(* events is: one lemma per action of EventFeed, for any set S of          *)
(* positions whose events report their time.                               *)
(***************************************************************************)
EXTENDS EventFeed, TLAPS

\* The cursor a call starts from: a start time is set, the key is the stored
\* one, and the latest event seen is the watermark once there is one.
LEMMA UnmarshalFacts ==
  ASSUME FeedTypeOK, NEW S, ConductorInv(S)
  PROVE  LET c == UnmarshalEventPageCursor(stored, now)
         IN  /\ c \in EventPageCursor
             /\ c.startAt # NoTime
             /\ stored.startAt # NoTime => c.startAt = stored.startAt
             /\ c.lastKey = stored.lastKey
             /\ c.startAt <= c.latestEventSeen
             /\ Watermark <= c.latestEventSeen
             /\ Watermark # NoTime => c.latestEventSeen = Watermark
             /\ stored.lastKey = NoKey => c.latestEventSeen = c.startAt
<1> DEFINE start == IF stored.startAt = NoTime THEN DefaultStart(now) ELSE stored.startAt
           latest == IF stored.latestEventSeen = NoTime THEN start
                                                        ELSE stored.latestEventSeen
<1>1. stored \in EventPageCursor /\ now \in Nat /\ Lookback < now
  BY DEF FeedTypeOK
<1>2. start \in Nat \ {NoTime}
  BY <1>1, CursorAssumption DEF DefaultStart, EventPageCursor, NoTime
<1>3. latest \in Nat
  BY <1>1, <1>2 DEF EventPageCursor
<1>4. UnmarshalEventPageCursor(stored, now)
        = [startAt |-> start, latestEventSeen |-> latest, lastKey |-> stored.lastKey]
  BY <1>1 DEF UnmarshalEventPageCursor, EventPageCursor
<1>5. start <= latest
  BY <1>1, <1>2 DEF ConductorInv, EventPageCursor, NoTime, NoKey
<1>6. stored.lastKey = NoKey => latest = start
  BY DEF ConductorInv
<1>7. /\ Watermark <= latest
      /\ Watermark # NoTime => latest = Watermark
  BY <1>1, <1>2 DEF Watermark, EventPageCursor, NoTime
<1> QED
  BY <1>1, <1>2, <1>3, <1>4, <1>5, <1>6, <1>7 DEF EventPageCursor

\* Before the first call: no cursor, nothing published.
LEMMA InitEstablishes ==
  ASSUME NEW S, FeedInit
  PROVE  FeedInv(S)
  BY CursorAssumption
  DEF FeedInit, FeedInv, FeedTypeOK, ConductorInv, IdleInv, CallInv,
      EmptyCursor, EventPageCursor, NoPromptEventSkipped, NoTime, NoKey

\* Only the window of later searches depends on the clock.
LEMMA TickPreserves ==
  ASSUME NEW S, FeedInv(S), Tick
  PROVE  FeedInv(S)'
  BY CursorAssumption
  DEF FeedInv, FeedTypeOK, Tick, conductor, call, ConductorInv, IdleInv, CallInv,
      PageInv, LatestInv, CursorInv, NoPromptEventSkipped, Ahead, Watermark, Latest, Page

\* A step that changes nothing of a feed.
LEMMA UnchangedPreserves ==
  ASSUME NEW S, FeedInv(S), UNCHANGED feedVars
  PROVE  FeedInv(S)'
  BY DEF feedVars, outside, conductor, call, FeedInv, FeedTypeOK, ConductorInv,
         IdleInv, CallInv, PageInv, LatestInv, CursorInv, NoPromptEventSkipped,
         Ahead, Watermark, Latest, Page

\* An event that appears is ahead of the cursor, or it is not prompt.
LEMMA PublishPreserves ==
  ASSUME NEW S, FeedInv(S), NEW p \in Position, Publish(p)
  PROVE  FeedInv(S)'
<1> USE DEF Publish, conductor, call
<1>1. /\ published' = published \cup {p}
      /\ prompt' \subseteq prompt \cup {p}
      /\ p \in prompt' => \A q \in published : q < p
  BY DEF FeedInv, FeedTypeOK
<1>2. FeedTypeOK'
  BY <1>1 DEF FeedInv, FeedTypeOK
<1>3. ConductorInv(S)'
  <2>1. \A q \in published' : q \in Position
    BY <1>2 DEF FeedTypeOK
  <2>2. NoPromptEventSkipped'
    <3> SUFFICES ASSUME NEW r \in prompt', opened # NoTime, opened <= TimeOf(r)
                 PROVE  r \in delivered \/ Ahead(stored, r)
      BY DEF NoPromptEventSkipped, Ahead
    <3>1. CASE r \in prompt
      BY <3>1 DEF FeedInv, ConductorInv, NoPromptEventSkipped
    <3>2. CASE r = p /\ \A q \in published : q < p
      <4>1. stored.startAt <= TimeOf(p)
        BY <3>2 DEF FeedInv, ConductorInv
      <4>2. stored.lastKey < p
        BY <3>2, LogAssumption DEF FeedInv, ConductorInv, NoKey
      <4> QED
        BY <3>2, <4>1, <4>2 DEF Ahead
    <3> QED
      BY <1>1, <3>1, <3>2
  <2> QED
    BY <1>1, <2>2 DEF FeedInv, ConductorInv, Watermark
<1>4. CallInv(S)'
  <2> SUFFICES ASSUME pc # "idle"
               PROVE  PageInv' /\ LatestInv(S)' /\ CursorInv'
    BY DEF CallInv
  <2>1. PageInv /\ LatestInv(S) /\ CursorInv
    BY DEF FeedInv, CallInv
  <2>2. PageInv'
    <3>1. Page \subseteq published
      BY DEF Page, FeedInv, FeedTypeOK
    <3>2. Page' = Page
      BY DEF Page
    <3> QED
      BY <1>1, <2>1, <3>1, <3>2 DEF PageInv
  <2>3. LatestInv(S)' /\ CursorInv'
    BY <2>1 DEF LatestInv, CursorInv, Latest, Watermark
  <2> QED
    BY <2>2, <2>3
<1>5. IdleInv'
  BY DEF FeedInv, IdleInv
<1> QED
  BY <1>2, <1>3, <1>4, <1>5 DEF FeedInv

\* A call that fails, or whose answer is lost, leaves ConductorOne as it was.
LEMMA EndCallPreserves ==
  ASSUME NEW S, FeedInv(S), Abandon
  PROVE  FeedInv(S)'
  BY DEF FeedInv, FeedTypeOK, Abandon, EndCall, outside, conductor, ConductorInv,
         IdleInv, CallInv, NoPromptEventSkipped, Ahead, Watermark, EmptyCursor,
         EventPageCursor, NoTime, NoKey

\* The parts of FeedInv about ConductorOne read only what is outside a call.
LEMMA ConductorInvUnchanged ==
  ASSUME NEW S, ConductorInv(S), UNCHANGED <<outside, conductor>>
  PROVE  ConductorInv(S)' /\ Watermark' = Watermark
  BY DEF outside, conductor, ConductorInv, NoPromptEventSkipped, Ahead, Watermark

\* The page of a call holds the first events ahead of the cursor.
LEMMA StartPreserves ==
  ASSUME NEW S, S \subseteq Position, FeedInv(S), StartListEvents
  PROVE  FeedInv(S)'
<1> DEFINE c == UnmarshalEventPageCursor(stored, now)
<1>1. PICK page \in SUBSET published, key \in Position \cup {NoKey} :
         /\ IsPage(page, key, SearchWindow(c))
         /\ cursor' = c
         /\ from' = c.startAt
         /\ todo' = page
         /\ lastKey' = key
  BY DEF StartListEvents
<1>2. FeedTypeOK /\ ConductorInv(S) /\ pc = "idle" /\ pc' = "converting"
  BY DEF FeedInv, StartListEvents
<1>3. UNCHANGED <<outside, conductor>> /\ done' = done /\ result' = result
  BY DEF StartListEvents
<1>4. /\ c \in EventPageCursor
      /\ c.startAt # NoTime
      /\ stored.startAt # NoTime => c.startAt = stored.startAt
      /\ c.lastKey = stored.lastKey
      /\ c.startAt <= c.latestEventSeen
      /\ Watermark <= c.latestEventSeen
      /\ Watermark # NoTime => c.latestEventSeen = Watermark
      /\ stored.lastKey = NoKey => c.latestEventSeen = c.startAt
  BY <1>2, UnmarshalFacts
<1>5. done = {}
  BY DEF FeedInv, IdleInv, StartListEvents
<1> HIDE DEF c
<1>6. FeedTypeOK'
  BY <1>1, <1>2, <1>3, <1>4 DEF FeedTypeOK, outside, conductor, EventPageCursor
<1>7. ConductorInv(S)' /\ Watermark' = Watermark
  BY <1>2, <1>3, ConductorInvUnchanged
<1>8. IdleInv'
  BY <1>2 DEF IdleInv
<1>9. PageInv'
  <2>1. Page' = page
    BY <1>1, <1>3, <1>5 DEF Page
  <2>2. page \subseteq SearchWindow(c)
    BY <1>1 DEF IsPage
  <2>3. \A p \in page : stored'.lastKey < p /\ from' <= TimeOf(p)
    BY <1>1, <1>3, <1>4, <2>2 DEF SearchWindow, conductor
  <2>4. ASSUME NEW p \in prompt', from' <= TimeOf(p), stored'.lastKey < p, p \notin page
        PROVE  \A q \in page : q < p
    <3>1. p \in published /\ p \in Position /\ page \subseteq Position
      BY <1>2, <1>3, <2>4 DEF FeedTypeOK, outside
    <3>2. CASE p \in SearchWindow(c)
      BY <1>1, <2>4, <3>2, <3>1, LogAssumption DEF IsPage
    <3>3. CASE p \notin SearchWindow(c)
      <4>1. now < TimeOf(p)
        BY <1>1, <1>2, <1>3, <1>4, <2>4, <3>1, <3>3, LogAssumption
        DEF SearchWindow, FeedTypeOK, conductor
      <4>2. ASSUME NEW q \in page PROVE TimeOf(q) <= now
        BY <2>2 DEF SearchWindow
      <4> QED
        BY <1>2, <3>1, <4>1, <4>2, LogAssumption DEF FeedTypeOK
    <3> QED
      BY <3>2, <3>3
  <2> QED
    BY <1>1, <1>3, <1>4, <1>5, <2>1, <2>3, <2>4 DEF PageInv, IsPage, conductor, NoTime
<1>10. LatestInv(S)'
  <2>1. Latest' = c.latestEventSeen
    BY <1>1, <1>2 DEF Latest
  <2>2. \A q \in delivered \cap S : TimeOf(q) <= c.latestEventSeen
    <3>1. CASE Watermark = NoTime
      <4>1. opened = NoTime
        BY <1>2, <3>1 DEF ConductorInv, Watermark, FeedTypeOK, EventPageCursor, NoTime
      <4> QED
        BY <1>2, <4>1 DEF ConductorInv
    <3>2. CASE Watermark # NoTime
      BY <1>2, <1>4, <3>2 DEF ConductorInv
    <3> QED
      BY <3>1, <3>2
  <2>3. ASSUME NEW p \in Position, from' <= TimeOf(p), stored'.lastKey < p
        PROVE  c.latestEventSeen <= TimeOf(p)
    <3>1. CASE stored.lastKey = NoKey
      BY <1>1, <1>4, <2>3, <3>1
    <3>2. CASE stored.lastKey # NoKey
      <4>1. /\ stored.lastKey \in Position
            /\ stored.latestEventSeen <= TimeOf(stored.lastKey)
            /\ stored.latestEventSeen # NoTime
        BY <1>2, <3>2 DEF ConductorInv, FeedTypeOK, EventPageCursor, NoTime
      <4>2. stored.lastKey < p
        BY <1>3, <2>3 DEF conductor
      <4>3. TimeOf(stored.lastKey) <= TimeOf(p)
        <5>1. p \in Nat /\ stored.lastKey \in Nat
          BY <4>1, LogAssumption
        <5>2. stored.lastKey <= p
          BY <4>2, <5>1
        <5> QED
          BY <4>1, <5>2, LogAssumption
      <4>4. c.latestEventSeen = stored.latestEventSeen
        BY <1>4, <4>1 DEF Watermark
      <4> QED
        BY <1>2, <4>1, <4>3, <4>4, LogAssumption DEF FeedTypeOK, EventPageCursor
    <3> QED
      BY <3>1, <3>2
  <2> QED
    BY <1>1, <1>3, <1>4, <1>5, <1>7, <2>1, <2>2, <2>3 DEF LatestInv, conductor
<1>11. CursorInv'
  BY <1>1, <1>2, <1>3, <1>4 DEF CursorInv, conductor
<1> QED
  BY <1>6, <1>7, <1>8, <1>9, <1>10, <1>11 DEF FeedInv, CallInv

\* updateLatestEvent keeps the latest event seen as late as each of the page.
LEMMA ConvertPreserves ==
  ASSUME NEW S, S \subseteq Position, FeedInv(S),
         NEW p \in Position, NEW es, ConvertNext(p, es, IF p \in S THEN TimeOf(p) ELSE NoTime)
  PROVE  FeedInv(S)'
<1> DEFINE t == IF p \in S THEN TimeOf(p) ELSE NoTime
<1>1. /\ FeedTypeOK /\ ConductorInv(S) /\ pc = "converting"
      /\ PageInv /\ LatestInv(S) /\ CursorInv
  BY DEF FeedInv, CallInv, ConvertNext
<1>2. /\ p \in todo /\ \A q \in todo : p <= q
      /\ todo' = todo \ {p}
      /\ done' = done \cup {p}
      /\ cursor' = UpdateLatestEvent(cursor, t)
      /\ UNCHANGED <<outside, conductor, pc, from, lastKey>>
  BY DEF ConvertNext
<1>3. /\ cursor' \in EventPageCursor
      /\ cursor'.startAt = cursor.startAt /\ cursor'.lastKey = cursor.lastKey
      /\ cursor'.latestEventSeen \in {cursor.latestEventSeen, t}
      /\ t # NoTime => cursor'.latestEventSeen = t \/ t <= cursor'.latestEventSeen
      /\ cursor.latestEventSeen <= cursor'.latestEventSeen
  <2>1. t \in Nat
    BY LogAssumption DEF NoTime
  <2>2. cursor \in EventPageCursor
    BY <1>1 DEF FeedTypeOK
  <2> HIDE DEF t
  <2> QED
    BY <1>2, <2>1, <2>2 DEF UpdateLatestEvent, EventPageCursor
<1>4. FeedTypeOK'
  BY <1>1, <1>2, <1>3 DEF FeedTypeOK, outside, conductor
<1>5. ConductorInv(S)' /\ Watermark' = Watermark
  BY <1>1, <1>2, ConductorInvUnchanged
<1>6. IdleInv'
  BY <1>1, <1>2 DEF IdleInv
<1>7. PageInv'
  <2>1. Page' = Page
    BY <1>2 DEF Page
  <2>2. \A r \in done', q \in todo' : r < q
    BY <1>1, <1>2, <1>4, LogAssumption DEF PageInv, FeedTypeOK
  <2> QED
    BY <1>1, <1>2, <2>1, <2>2 DEF PageInv, outside, conductor
<1>8. LatestInv(S)'
  <2>1. /\ Latest = cursor.latestEventSeen /\ Latest' = cursor'.latestEventSeen
        /\ Latest \in Nat /\ Latest' \in Nat /\ Latest <= Latest'
    BY <1>1, <1>2, <1>3 DEF Latest, FeedTypeOK, EventPageCursor
  <2>2. from \in Nat /\ Watermark \in Nat /\ TimeOf(p) \in Nat \ {0}
    BY <1>1, LogAssumption DEF FeedTypeOK, Watermark, EventPageCursor
  <2>3. from' <= Latest' /\ Watermark' <= Latest'
    BY <1>1, <1>2, <1>5, <2>1, <2>2 DEF LatestInv
  <2>4. ASSUME NEW q \in (delivered' \cup done') \cap S
        PROVE  TimeOf(q) <= Latest'
    <3>1. q \in Position /\ TimeOf(q) \in Nat
      BY LogAssumption
    <3>2. CASE q \in (delivered \cup done) \cap S
      BY <1>1, <2>1, <3>1, <3>2 DEF LatestInv
    <3>3. CASE q = p
      BY <1>3, <2>1, <2>2, <3>3 DEF NoTime
    <3> QED
      BY <1>2, <3>2, <3>3 DEF conductor
  <2>5. ASSUME NEW r \in Position, from' <= TimeOf(r), stored'.lastKey < r,
               \A q \in done' : q <= r
        PROVE  Latest' <= TimeOf(r)
    <3>1. Latest <= TimeOf(r)
      BY <1>1, <1>2, <2>5 DEF LatestInv, conductor
    <3>2. TimeOf(p) <= TimeOf(r)
      BY <1>2, <2>5, LogAssumption
    <3> QED
      BY <1>3, <2>1, <3>1, <3>2, LogAssumption DEF NoTime
  <2> QED
    BY <2>3, <2>4, <2>5 DEF LatestInv
<1>9. CursorInv'
  BY <1>1, <1>2, <1>3 DEF CursorInv, conductor
<1> QED
  BY <1>4, <1>5, <1>6, <1>7, <1>8, <1>9 DEF FeedInv, CallInv

\* The continuation key and prepareNextSync stay behind the unread events.
LEMMA ReturnPreserves ==
  ASSUME NEW S, FeedInv(S), Return
  PROVE  FeedInv(S)'
<1>1. /\ FeedTypeOK /\ ConductorInv(S) /\ pc = "converting"
      /\ PageInv /\ LatestInv(S) /\ CursorInv
  BY DEF FeedInv, CallInv, Return
<1>2. /\ todo = {} /\ pc' = "replying"
      /\ UNCHANGED <<outside, conductor, from, lastKey, todo, done, result>>
  BY DEF Return
<1>3. /\ cursor' \in EventPageCursor
      /\ cursor'.lastKey = lastKey
      /\ lastKey = NoKey => /\ cursor'.startAt = cursor.latestEventSeen
                            /\ cursor'.latestEventSeen = NoTime
      /\ lastKey # NoKey => /\ cursor'.startAt = cursor.startAt
                            /\ cursor'.latestEventSeen = cursor.latestEventSeen
  <2>1. cursor \in EventPageCursor /\ lastKey \in Nat
    BY <1>1, LogAssumption DEF FeedTypeOK, NoKey
  <2> QED
    BY <2>1 DEF Return, PrepareNextSync, EventPageCursor, NoTime, NoKey
<1>4. FeedTypeOK'
  BY <1>1, <1>2, <1>3 DEF FeedTypeOK, outside, conductor
<1>5. ConductorInv(S)' /\ Watermark' = Watermark
  BY <1>1, <1>2, ConductorInvUnchanged
<1>6. Latest' = Latest
  BY <1>1, <1>2, <1>3 DEF Latest
<1>7. PageInv' /\ LatestInv(S)'
  BY <1>1, <1>2, <1>5, <1>6 DEF PageInv, Page, LatestInv, outside, conductor
<1>8. CursorInv' /\ IdleInv'
  BY <1>1, <1>2, <1>3 DEF CursorInv, IdleInv
<1> QED
  BY <1>4, <1>5, <1>7, <1>8 DEF FeedInv, CallInv

\* What the answer of a call brings ConductorOne.
LEMMA ReplyFacts ==
  ASSUME NEW S, FeedInv(S), AcceptReply
  PROVE  /\ FeedTypeOK /\ ConductorInv(S)
         /\ PageInv /\ LatestInv(S) /\ CursorInv
         /\ pc = "replying" /\ todo = {} /\ Page = done
         /\ stored' = cursor
         /\ delivered' = delivered \cup done
         /\ opened' = (IF opened = NoTime THEN from ELSE opened)
         /\ UNCHANGED outside
         /\ EndCall
         /\ Watermark' = Latest
  BY DEF FeedInv, CallInv, AcceptReply, CursorInv, Page, Watermark, Latest,
         FeedTypeOK, EventPageCursor, LatestInv, PageInv, NoTime

\* The cursor of a call that succeeded passes only what it delivered.
LEMMA AcceptPreserves ==
  ASSUME NEW S, S \subseteq Position, FeedInv(S), AcceptReply
  PROVE  FeedInv(S)'
<1>1. /\ FeedTypeOK /\ ConductorInv(S)
      /\ PageInv /\ LatestInv(S) /\ CursorInv
      /\ pc = "replying" /\ todo = {} /\ Page = done
      /\ stored' = cursor
      /\ delivered' = delivered \cup done
      /\ opened' = (IF opened = NoTime THEN from ELSE opened)
      /\ UNCHANGED outside
      /\ EndCall
      /\ Watermark' = Latest
  BY ReplyFacts
<1>2. FeedTypeOK'
  BY <1>1 DEF FeedTypeOK, outside, EndCall, EmptyCursor, EventPageCursor, NoTime, NoKey
<1>3. CallInv(S)' /\ IdleInv'
  BY <1>1 DEF CallInv, IdleInv, EndCall
<1>4. /\ from \in Nat \ {NoTime} /\ Latest \in Nat /\ from <= Latest
      /\ opened' # NoTime /\ opened' \in Nat /\ opened' <= from
      /\ opened # NoTime => from = stored.startAt
      /\ opened = NoTime => stored.lastKey = NoKey
  BY <1>1 DEF PageInv, LatestInv, ConductorInv, FeedTypeOK, EventPageCursor, Latest,
              EmptyCursor, NoTime, NoKey
<1>5. lastKey # NoKey =>
         /\ lastKey \in done /\ lastKey \in Position
         /\ Latest <= TimeOf(lastKey)
         /\ stored'.latestEventSeen = Latest
         /\ stored'.startAt = from
  BY <1>1, LogAssumption
  DEF PageInv, CursorInv, LatestInv, FeedTypeOK, Latest, conductor
<1>6. lastKey = NoKey => stored'.startAt = Latest /\ stored'.latestEventSeen = NoTime
  BY <1>1 DEF CursorInv, Latest
<1>7. stored'.lastKey = lastKey
  BY <1>1 DEF CursorInv
<1>8. ASSUME NEW p \in Position, opened' <= TimeOf(p), \A q \in published : q < p
      PROVE  stored'.startAt <= TimeOf(p)
  <2>1. from <= TimeOf(p) /\ stored.lastKey < p
    BY <1>1, <1>4, <1>8, LogAssumption DEF ConductorInv, NoKey
  <2>2. \A q \in done : q <= p
    BY <1>1, <1>8, LogAssumption DEF FeedTypeOK
  <2>3. Latest <= TimeOf(p)
    BY <1>1, <2>1, <2>2 DEF LatestInv
  <2> QED
    BY <1>5, <1>6, <2>1, <2>3
<1>9. NoPromptEventSkipped'
  <2> SUFFICES ASSUME NEW p \in prompt', opened' <= TimeOf(p), p \notin delivered'
               PROVE  Ahead(stored', p)
    BY DEF NoPromptEventSkipped, Ahead
  <2>1. p \in prompt /\ p \in Position /\ p \notin delivered /\ p \notin done
    BY <1>1 DEF FeedTypeOK, outside
  <2>2. stored.lastKey < p /\ from <= TimeOf(p)
    <3>1. CASE opened = NoTime
      BY <1>1, <1>4, <2>1, <3>1, LogAssumption DEF NoKey
    <3>2. CASE opened # NoTime
      BY <1>1, <1>4, <2>1, <3>2 DEF ConductorInv, NoPromptEventSkipped, Ahead
    <3> QED
      BY <3>1, <3>2
  <2>3. \A q \in done : q < p
    BY <1>1, <2>1, <2>2 DEF PageInv
  <2>4. Latest <= TimeOf(p)
    BY <1>1, <2>1, <2>2, <2>3, LogAssumption DEF LatestInv, FeedTypeOK
  <2> QED
    BY <1>5, <1>6, <1>7, <2>1, <2>2, <2>3, <2>4, LogAssumption DEF Ahead, NoKey
<1>10. ConductorInv(S)'
  <2>1. opened' <= stored'.startAt /\ stored'.startAt # NoTime
    BY <1>1, <1>4, <1>5, <1>6 DEF FeedTypeOK, EventPageCursor, NoTime
  <2>2. \A q \in delivered' \cap S : TimeOf(q) <= Watermark'
    BY <1>1 DEF LatestInv
  <2>3. lastKey # NoKey => stored'.lastKey \in published' /\ stored'.startAt <= Latest
    BY <1>1, <1>4, <1>5, <1>7 DEF FeedTypeOK, outside
  <2>4. UNCHANGED published
    BY <1>1 DEF outside
  <2>5. Position' = Position /\ \A p \in Position : TimeOf(p)' = TimeOf(p)
    OBVIOUS
  <2> QED
    BY <1>4, <1>5, <1>6, <1>7, <1>8, <1>9, <2>1, <2>2, <2>3, <2>4 DEF ConductorInv
<1> QED
  BY <1>2, <1>3, <1>10 DEF FeedInv

\* A page does not start before the watermark.
LEMMA PageAfterWatermark ==
  ASSUME NEW S, FeedInv(S), AcceptReply, NEW p \in done
  PROVE  p \in Position /\ from <= TimeOf(p) /\ Watermark <= TimeOf(p)
<1>1. /\ FeedTypeOK /\ ConductorInv(S) /\ PageInv /\ Page = done
  BY ReplyFacts
<1>2. p \in Position /\ from <= TimeOf(p) /\ stored.lastKey < p
  BY <1>1 DEF FeedTypeOK, PageInv
<1>3. CASE stored.lastKey = NoKey
  <2>1. Watermark = stored.startAt
    BY <1>1, <1>3 DEF ConductorInv, Watermark
  <2>2. stored.startAt = NoTime \/ stored.startAt = from
    BY <1>1 DEF PageInv
  <2>3. NoTime <= TimeOf(p)
    BY <1>2, LogAssumption DEF NoTime
  <2> QED
    BY <1>2, <2>1, <2>2, <2>3
<1>4. CASE stored.lastKey # NoKey
  <2>1. /\ stored.lastKey \in Position
        /\ stored.latestEventSeen \in Nat /\ stored.latestEventSeen # NoTime
        /\ stored.latestEventSeen <= TimeOf(stored.lastKey)
    BY <1>1, <1>4 DEF ConductorInv, FeedTypeOK, EventPageCursor, NoTime
  <2>2. stored.lastKey \in Nat /\ p \in Nat
    BY <1>2, <2>1, LogAssumption
  <2>3. TimeOf(stored.lastKey) <= TimeOf(p)
    BY <1>2, <2>1, <2>2, LogAssumption
  <2>4. TimeOf(stored.lastKey) \in Nat /\ TimeOf(p) \in Nat
    BY <1>2, <2>1, LogAssumption
  <2> QED
    BY <1>2, <2>1, <2>3, <2>4 DEF Watermark
<1> QED
  BY <1>3, <1>4

\* What ConductorOne accepts: a page that is not older than the watermark, and a
\* watermark that passes no prompt event that was not delivered.
LEMMA DeliveryFacts ==
  ASSUME NEW S, S \subseteq Position, FeedInv(S), AcceptReply
  PROVE  /\ delivered' = delivered \cup done /\ done \subseteq published
         /\ UNCHANGED outside
         /\ opened' \in Nat /\ (opened # NoTime => opened' = opened)
         /\ Watermark' \in Nat /\ opened' <= Watermark' /\ Watermark <= Watermark'
         /\ \A p \in done : opened' <= TimeOf(p) /\ Watermark <= TimeOf(p)
         /\ \A p \in done \cap S : TimeOf(p) <= Watermark'
         /\ \A p \in prompt :
               opened' <= TimeOf(p) /\ TimeOf(p) < Watermark' => p \in delivered'
<1>2. /\ FeedTypeOK /\ ConductorInv(S) /\ PageInv /\ LatestInv(S)
      /\ delivered' = delivered \cup done
      /\ opened' = (IF opened = NoTime THEN from ELSE opened)
      /\ UNCHANGED outside
      /\ Watermark' = Latest
  BY ReplyFacts
<1>3. FeedTypeOK' /\ ConductorInv(S)'
  BY AcceptPreserves DEF FeedInv
<1>4. /\ opened' \in Nat /\ opened' # NoTime /\ opened' <= from
      /\ opened # NoTime => opened' = opened
  BY <1>2, <1>3 DEF FeedTypeOK, PageInv, ConductorInv
<1>5. /\ Watermark' \in Nat /\ Watermark <= Watermark'
      /\ opened' <= Watermark'
  <2>1. Watermark' \in Nat /\ from \in Nat
    BY <1>2, <1>3 DEF FeedTypeOK, EventPageCursor, Watermark
  <2> QED
    BY <1>2, <1>4, <2>1 DEF LatestInv
<1>6. \A p \in done : opened' <= TimeOf(p) /\ Watermark <= TimeOf(p)
  <2> SUFFICES ASSUME NEW p \in done
               PROVE  opened' <= TimeOf(p) /\ Watermark <= TimeOf(p)
    OBVIOUS
  <2>1. p \in Position /\ from <= TimeOf(p) /\ Watermark <= TimeOf(p)
    BY PageAfterWatermark
  <2> QED
    BY <1>2, <1>4, <2>1, LogAssumption DEF FeedTypeOK
<1>7. \A p \in done \cap S : TimeOf(p) <= Watermark'
  BY <1>2 DEF LatestInv
<1>8. \A p \in prompt :
        opened' <= TimeOf(p) /\ TimeOf(p) < Watermark' => p \in delivered'
  <2> SUFFICES ASSUME NEW p \in prompt, opened' <= TimeOf(p), TimeOf(p) < Watermark',
                      p \notin delivered'
               PROVE  FALSE
    OBVIOUS
  <2>1. p \in Position /\ TimeOf(p) \in Nat
    BY <1>2, LogAssumption DEF FeedTypeOK
  <2>2. stored'.lastKey < p /\ stored'.startAt <= TimeOf(p)
    BY <1>2, <1>3, <1>4 DEF ConductorInv, NoPromptEventSkipped, Ahead, outside
  <2>3. CASE stored'.lastKey = NoKey
    BY <1>3, <1>5, <2>1, <2>2, <2>3 DEF ConductorInv, Watermark, FeedTypeOK, EventPageCursor
  <2>4. CASE stored'.lastKey # NoKey
    <3>1. /\ stored'.lastKey \in Position
          /\ Watermark' <= TimeOf(stored'.lastKey)
      BY <1>3, <2>4
      DEF ConductorInv, Watermark, FeedTypeOK, EventPageCursor, NoTime
    <3>2. stored'.lastKey \in Nat /\ p \in Nat
      BY <2>1, <3>1, LogAssumption
    <3>3. TimeOf(stored'.lastKey) <= TimeOf(p)
      BY <2>1, <2>2, <3>1, <3>2, LogAssumption
    <3>4. TimeOf(stored'.lastKey) \in Nat
      BY <3>1, LogAssumption
    <3> QED
      BY <1>5, <2>1, <3>1, <3>3, <3>4
  <2> QED
    BY <2>3, <2>4
<1> QED
  BY <1>2, <1>4, <1>5, <1>6, <1>7, <1>8 DEF FeedTypeOK

\* The cursor goes forward: the start never back, and in the pages of a cycle,
\* which share their start, the key goes strictly past the last one.
CursorAdvances ==
  /\ stored.startAt <= stored'.startAt
  /\ stored'.lastKey # NoKey =>
        /\ stored.lastKey < stored'.lastKey
        /\ stored.startAt # NoTime => stored'.startAt = stored.startAt

\* An answer that ConductorOne accepts takes the cursor forward.
LEMMA ReplyAdvances ==
  ASSUME NEW S, FeedInv(S), AcceptReply
  PROVE  CursorAdvances
<1>1. /\ FeedTypeOK /\ ConductorInv(S) /\ PageInv /\ LatestInv(S) /\ CursorInv
      /\ pc = "replying" /\ stored' = cursor
  BY ReplyFacts
<1>2. stored.startAt \in Nat /\ cursor.startAt \in Nat /\ cursor.lastKey = lastKey
  BY <1>1 DEF FeedTypeOK, EventPageCursor, CursorInv
<1>3. stored.startAt <= Watermark
  BY <1>1, <1>2 DEF ConductorInv, Watermark, FeedTypeOK, EventPageCursor
<1>4. CASE lastKey = NoKey
  <2>1. Watermark <= cursor.startAt /\ Watermark \in Nat
    BY <1>1, <1>4 DEF LatestInv, Latest, Watermark, FeedTypeOK, EventPageCursor
  <2> QED
    BY <1>1, <1>2, <1>3, <1>4, <2>1 DEF CursorAdvances
<1>5. CASE lastKey # NoKey
  <2>1. cursor.startAt = from /\ (stored.startAt # NoTime => from = stored.startAt)
    BY <1>1, <1>5 DEF CursorInv, PageInv
  <2>2. stored.lastKey < lastKey
    BY <1>1, <1>5 DEF PageInv
  <2> QED
    BY <1>1, <1>2, <2>1, <2>2 DEF CursorAdvances, NoTime
<1> QED
  BY <1>4, <1>5
-----------------------------------------------------------------------------
(* Calls are atomic: what the page of a call and its cursor would be, had   *)
(* the call been one step.  reported is the time that the conversion of     *)
(* each position reports to the cursor.                                     *)

\* The cursor a call decoded: it searches from the start it found then.
Decoded ==
  [startAt |-> from,
   latestEventSeen |-> IF stored.latestEventSeen = NoTime THEN from
                                                          ELSE stored.latestEventSeen,
   lastKey |-> stored.lastKey]

Reports(reported, page) == {NoTime} \cup {reported[p] : p \in page}

\* The cursor that the latest event of what is converted leads to.
CursorAfter(latest) ==
  LET moved == UpdateLatestEvent(Decoded, latest)
  IN  IF pc = "converting" THEN moved
      ELSE IF lastKey = NoKey THEN PrepareNextSync(moved)
                              ELSE [moved EXCEPT !.lastKey = lastKey]

AtOnce(reported) ==
  /\ \E at \in (Lookback + 1)..now : UnmarshalEventPageCursor(stored, at) = Decoded
  /\ \A p \in Page : TimeOf(p) <= now
  /\ \E latest \in Reports(reported, done) :
        /\ \A t \in Reports(reported, done) : t <= latest
        /\ cursor = CursorAfter(latest)

\* The events of a call are of the positions it has converted.
ResultInv == \A r \in result : r.position \in done

\* Seeing one event after the other is seeing the latest.
LEMMA UpdateTwice ==
  ASSUME NEW c \in EventPageCursor, NEW l \in Nat, NEW t \in Nat
  PROVE  UpdateLatestEvent(UpdateLatestEvent(c, l), t)
           = UpdateLatestEvent(c, IF l <= t THEN t ELSE l)
<1>1. ASSUME NEW u \in Nat
      PROVE  UpdateLatestEvent(c, u) =
               [startAt |-> c.startAt,
                latestEventSeen |-> IF u > c.latestEventSeen THEN u ELSE c.latestEventSeen,
                lastKey |-> c.lastKey]
  BY DEF UpdateLatestEvent, EventPageCursor, NoTime
<1>2. UpdateLatestEvent(c, l) \in EventPageCursor
  BY <1>1 DEF EventPageCursor
<1>3. ASSUME NEW d \in EventPageCursor
      PROVE  UpdateLatestEvent(d, t) =
               [startAt |-> d.startAt,
                latestEventSeen |-> IF t > d.latestEventSeen THEN t ELSE d.latestEventSeen,
                lastKey |-> d.lastKey]
  BY DEF UpdateLatestEvent, EventPageCursor, NoTime
<1>4. c.latestEventSeen \in Nat
  BY DEF EventPageCursor
<1>5. UpdateLatestEvent(c, l).latestEventSeen
        = IF l > c.latestEventSeen THEN l ELSE c.latestEventSeen
  BY <1>1
<1>6. UpdateLatestEvent(UpdateLatestEvent(c, l), t) =
        [startAt |-> c.startAt,
         latestEventSeen |-> IF t > UpdateLatestEvent(c, l).latestEventSeen
                             THEN t ELSE UpdateLatestEvent(c, l).latestEventSeen,
         lastKey |-> c.lastKey]
  BY <1>1, <1>2, <1>3
<1>7. (IF t > UpdateLatestEvent(c, l).latestEventSeen
       THEN t ELSE UpdateLatestEvent(c, l).latestEventSeen)
        = IF (IF l <= t THEN t ELSE l) > c.latestEventSeen
          THEN (IF l <= t THEN t ELSE l) ELSE c.latestEventSeen
  BY <1>4, <1>5
<1> QED
  BY <1>1, <1>6, <1>7

\* A call starts with the cursor it decodes, and nothing converted.
LEMMA StartAtOnce ==
  ASSUME NEW S, FeedInv(S), StartListEvents, NEW reported
  PROVE  AtOnce(reported)'
<1> DEFINE c == UnmarshalEventPageCursor(stored, now)
<1>1. PICK page \in SUBSET published, key \in Position \cup {NoKey} :
         /\ IsPage(page, key, SearchWindow(c))
         /\ cursor' = c
         /\ from' = c.startAt
         /\ todo' = page
         /\ lastKey' = key
  BY DEF StartListEvents
<1>2. /\ UNCHANGED <<stored, now>> /\ done' = done /\ done = {} /\ pc' = "converting"
      /\ now \in Nat /\ Lookback < now /\ c \in EventPageCursor
  BY UnmarshalFacts DEF StartListEvents, FeedInv, FeedTypeOK, IdleInv, outside, conductor
<1>3. Decoded' = c
  BY <1>1, <1>2 DEF Decoded, UnmarshalEventPageCursor
<1>4. \E at \in (Lookback + 1)..now : UnmarshalEventPageCursor(stored, at) = Decoded'
  BY <1>2, <1>3, CursorAssumption
<1>5. \A p \in page : TimeOf(p) <= now
  BY <1>1 DEF IsPage, SearchWindow
<1>6. Reports(reported, done)' = {NoTime} /\ NoTime <= NoTime
  BY <1>2 DEF Reports, NoTime
<1>7. CursorAfter(NoTime)' = c
  BY <1>2, <1>3 DEF CursorAfter, UpdateLatestEvent
<1> QED
  BY <1>1, <1>2, <1>4, <1>5, <1>6, <1>7 DEF AtOnce, Page

\* Each conversion moves the cursor to the latest of what was converted.
LEMMA ConvertAtOnce ==
  ASSUME NEW S, FeedInv(S), NEW reported \in [Position -> Nat], AtOnce(reported),
         NEW p \in Position, NEW es, ConvertNext(p, es, reported[p])
  PROVE  AtOnce(reported)'
<1>1. /\ pc = "converting" /\ pc' = "converting" /\ UNCHANGED <<stored, now, from>>
      /\ cursor' = UpdateLatestEvent(cursor, reported[p])
      /\ done' = done \cup {p} /\ Page' = Page
  BY DEF ConvertNext, outside, conductor, Page
<1>2. Decoded' = Decoded /\ Decoded \in EventPageCursor /\ done \subseteq Position
  BY <1>1 DEF Decoded, FeedInv, FeedTypeOK, EventPageCursor
<1>3. PICK latest \in Reports(reported, done) :
         /\ \A t \in Reports(reported, done) : t <= latest
         /\ cursor = UpdateLatestEvent(Decoded, latest)
  BY <1>1 DEF AtOnce, CursorAfter
<1>4. Reports(reported, done)' = Reports(reported, done) \cup {reported[p]}
  BY <1>1 DEF Reports
<1>5. Reports(reported, done) \subseteq Nat /\ reported[p] \in Nat
  BY <1>2 DEF Reports, NoTime
<1> DEFINE next == IF latest <= reported[p] THEN reported[p] ELSE latest
<1>6. /\ next \in Reports(reported, done)'
      /\ \A t \in Reports(reported, done)' : t <= next
  BY <1>3, <1>4, <1>5
<1>7. cursor' = UpdateLatestEvent(Decoded, next)
  BY <1>1, <1>2, <1>3, <1>5, UpdateTwice
<1> HIDE DEF next
<1>8. CursorAfter(next)' = UpdateLatestEvent(Decoded, next)
  BY <1>1, <1>2 DEF CursorAfter
<1>9. \E at \in (Lookback + 1)..now' : UnmarshalEventPageCursor(stored, at)' = Decoded'
  BY <1>1, <1>2 DEF AtOnce
<1>10. \A q \in Page' : TimeOf(q) <= now'
  BY <1>1 DEF AtOnce
<1> QED
  BY <1>6, <1>7, <1>8, <1>9, <1>10 DEF AtOnce

\* Return moves the cursor to the key, or to the next cycle.
LEMMA ReturnAtOnce ==
  ASSUME NEW reported, AtOnce(reported), Return
  PROVE  AtOnce(reported)'
<1>1. /\ pc = "converting" /\ pc' = "replying"
      /\ UNCHANGED <<stored, now, from, lastKey, todo, done>>
      /\ cursor' = IF lastKey = NoKey THEN PrepareNextSync(cursor)
                                      ELSE [cursor EXCEPT !.lastKey = lastKey]
  BY DEF Return, outside, conductor
<1>2. Decoded' = Decoded /\ Page' = Page /\ Reports(reported, done)' = Reports(reported, done)
  BY <1>1 DEF Decoded, Page, Reports
<1>3. PICK latest \in Reports(reported, done) :
         /\ \A t \in Reports(reported, done) : t <= latest
         /\ cursor = UpdateLatestEvent(Decoded, latest)
  BY <1>1 DEF AtOnce, CursorAfter
<1>4. cursor' = CursorAfter(latest)'
  BY <1>1, <1>2, <1>3 DEF CursorAfter
<1>5. \E at \in (Lookback + 1)..now' : UnmarshalEventPageCursor(stored, at)' = Decoded'
  BY <1>1, <1>2 DEF AtOnce
<1>6. \A q \in Page' : TimeOf(q) <= now'
  BY <1>1, <1>2 DEF AtOnce
<1> QED
  BY <1>2, <1>3, <1>4, <1>5, <1>6 DEF AtOnce

\* What else happens leaves the call as it is, and the clock goes forward.
LEMMA OthersAtOnce ==
  ASSUME NEW S, FeedInv(S), NEW reported, AtOnce(reported), UNCHANGED <<call, conductor>>,
         now' = now \/ now' = now + 1
  PROVE  AtOnce(reported)'
<1>1. UNCHANGED <<pc, cursor, from, lastKey, todo, done, stored>>
  BY DEF call, conductor
<1>2. Decoded' = Decoded /\ Page' = Page /\ Reports(reported, done)' = Reports(reported, done)
  BY <1>1 DEF Decoded, Page, Reports
<1>3. \A latest : CursorAfter(latest)' = CursorAfter(latest)
  BY <1>1, <1>2 DEF CursorAfter
<1>4. now \in Nat /\ now' \in Nat /\ now <= now' /\ Lookback \in Nat
  BY CursorAssumption DEF FeedInv, FeedTypeOK
<1>5. \E at \in (Lookback + 1)..now' : UnmarshalEventPageCursor(stored, at)' = Decoded'
  <2>1. PICK at \in (Lookback + 1)..now : UnmarshalEventPageCursor(stored, at) = Decoded
    BY DEF AtOnce
  <2>2. at \in (Lookback + 1)..now'
    BY <1>4
  <2> QED
    BY <1>1, <1>2, <2>1, <2>2
<1>6. \A q \in Page' : TimeOf(q) <= now'
  <2>1. \A q \in Page : q \in Position /\ TimeOf(q) \in Nat /\ TimeOf(q) <= now
    BY LogAssumption DEF AtOnce, Page, FeedInv, FeedTypeOK
  <2> QED
    BY <1>2, <1>4, <2>1
<1> QED
  BY <1>1, <1>2, <1>3, <1>5, <1>6 DEF AtOnce

\* The answer ConductorOne accepts is that of a call made in one step: a page of the
\* search with the decoded cursor, and the cursor that its latest event leads to.
LEMMA AcceptAtOnce ==
  ASSUME NEW S, FeedInv(S), NEW reported, AtOnce(reported), AcceptReply
  PROVE  /\ \E at \in (Lookback + 1)..now : UnmarshalEventPageCursor(stored, at) = Decoded
         /\ \A p \in done : Ahead(Decoded, p) /\ TimeOf(p) <= now
         /\ \A p \in prompt :
               Ahead(Decoded, p) /\ (\E q \in done : p <= q) => p \in done
         /\ lastKey # NoKey => lastKey \in done /\ \A p \in done : p <= lastKey
         /\ \E latest \in Reports(reported, done) :
               /\ \A t \in Reports(reported, done) : t <= latest
               /\ stored' = IF lastKey = NoKey
                            THEN PrepareNextSync(UpdateLatestEvent(Decoded, latest))
                            ELSE [UpdateLatestEvent(Decoded, latest)
                                    EXCEPT !.lastKey = lastKey]
<1>1. /\ FeedTypeOK /\ PageInv /\ pc = "replying" /\ Page = done /\ stored' = cursor
  BY ReplyFacts
<1>2. Decoded.startAt = from /\ Decoded.lastKey = stored.lastKey
  BY DEF Decoded
<1>3. \A p \in done : Ahead(Decoded, p) /\ TimeOf(p) <= now
  BY <1>1, <1>2 DEF PageInv, Ahead, AtOnce
<1>4. ASSUME NEW p \in prompt, Ahead(Decoded, p), NEW q \in done, p <= q
      PROVE  p \in done
  <2>1. p \in Nat /\ q \in Nat
    BY <1>1, LogAssumption DEF FeedTypeOK
  <2>2. p \in done \/ q < p
    BY <1>1, <1>2, <1>4 DEF PageInv, Ahead
  <2> QED
    BY <1>4, <2>1, <2>2
<1>5. lastKey # NoKey => lastKey \in done /\ \A p \in done : p <= lastKey
  BY <1>1 DEF PageInv
<1>6. \E latest \in Reports(reported, done) :
         /\ \A t \in Reports(reported, done) : t <= latest
         /\ stored' = CursorAfter(latest)
  BY <1>1 DEF AtOnce
<1>7. \E at \in (Lookback + 1)..now : UnmarshalEventPageCursor(stored, at) = Decoded
  BY DEF AtOnce
<1> QED
  BY <1>1, <1>3, <1>4, <1>5, <1>6, <1>7 DEF CursorAfter

\* A conversion adds what it yields, and the result of the others stays.
LEMMA ConvertAdds ==
  ASSUME NEW S, FeedInv(S), ResultInv, NEW p \in Position, NEW t, NEW es,
         ConvertNext(p, es, t)
  PROVE  /\ ResultInv'
         /\ done' = done \cup {p}
         /\ EventsAt(result', p) = es
         /\ \A q \in done : EventsAt(result', q) = EventsAt(result, q)
<1>1. /\ p \in todo /\ p \notin done
      /\ done' = done \cup {p}
      /\ result' = result \cup {[position |-> p, event |-> e] : e \in es}
  <2>1. p \in todo /\ pc = "converting" /\ PageInv
    BY DEF ConvertNext, FeedInv, CallInv
  <2>2. p \notin done
    BY <2>1, LogAssumption DEF PageInv
  <2> QED
    BY <2>1, <2>2 DEF ConvertNext
<1>2. ResultInv'
  BY <1>1 DEF ResultInv
<1>3. EventsAt(result', p) = es
  <2> DEFINE told == {[position |-> p, event |-> e] : e \in es}
  <2>1. \A r \in result : r.position # p
    BY <1>1 DEF ResultInv
  <2>2. {x \in result' : x.position = p} = told
    BY <1>1, <2>1
  <2>3. \A x \in told : x.event \in es
    OBVIOUS
  <2>4. \A e \in es : \E x \in told : x.event = e
    <3> TAKE e \in es
    <3>1. [position |-> p, event |-> e] \in told
      OBVIOUS
    <3> QED
      BY <3>1
  <2>5. {x.event : x \in told} = es
    BY <2>3, <2>4
  <2> QED
    BY <2>2, <2>5 DEF EventsAt
<1>4. ASSUME NEW q \in done
      PROVE  EventsAt(result', q) = EventsAt(result, q)
  <2>1. {x \in result' : x.position = q} = {x \in result : x.position = q}
    BY <1>1
  <2> QED
    BY <2>1 DEF EventsAt
<1> QED
  BY <1>1, <1>2, <1>3, <1>4 DEF ResultInv

\* Of each position of the page, ConductorOne is told what the call yielded there.
LEMMA AcceptAdds ==
  ASSUME ResultInv, AcceptReply, NEW p
  PROVE  EventsAt(received', p) = EventsAt(received, p)
                                    \cup (IF p \in done THEN EventsAt(result, p) ELSE {})
<1>1. received' = received \cup result
  BY DEF AcceptReply
<1>2. {x \in received' : x.position = p}
        = {x \in received : x.position = p} \cup {x \in result : x.position = p}
  BY <1>1
<1>3. EventsAt(received', p) = EventsAt(received, p) \cup EventsAt(result, p)
  BY <1>2 DEF EventsAt
<1>4. p \notin done => EventsAt(result, p) = {}
  BY DEF ResultInv, EventsAt
<1> QED
  BY <1>3, <1>4
=============================================================================

----------------------------- MODULE EventFeed -----------------------------
(***************************************************************************)
(* What the two event feeds have in common: Teleport's audit log, the      *)
(* tasks in which ConductorOne asks for events, and the body of ListEvents *)
(* that audit_event_feed.go and usage_event_feed.go both contain.  The two *)
(* feeds differ in how they convert one event of a page; their modules     *)
(* extend this one and supply that step.                                   *)
(*                                                                         *)
(* ListEvents keeps nothing between calls.  A call decodes the cursor,     *)
(* searches one page, converts the events of the page one by one (for some *)
(* of them with a request to Teleport), moves the cursor and returns; an   *)
(* error anywhere returns no events and no cursor.                         *)
(***************************************************************************)
EXTENDS EventCursor, FiniteSets

CONSTANTS
    Log,         \* the audit events of the feed's types, in the order of a search
    PageSize,    \* eventsPageSize
    ClockSkew,   \* how far Teleport's clock may be ahead of the connector's
    ClockBound   \* bound: the connector's clock stops here

Position == DOMAIN Log
TimeOf(p) == Log[p].time

ASSUME LogAssumption ==
    /\ Position \subseteq Nat \ {0}
    /\ \A p \in Position : TimeOf(p) \in Nat \ {0}
    /\ \A p, q \in Position : p <= q => TimeOf(p) <= TimeOf(q)

ASSUME BoundAssumption ==
    PageSize \in Nat \ {0} /\ ClockSkew \in Nat /\ ClockBound \in Nat

VARIABLES
    published,  \* positions of the log whose event is visible to a search
    prompt,     \* history: published while every visible event was before them
    now,        \* the connector's clock
    stored,     \* ConductorOne: the cursor it sends with the next call
    delivered,  \* ConductorOne: positions a call that succeeded has processed
    received,   \* ConductorOne: the events it was given, with their position
    opened      \* history: the start time of the first call that succeeded

VARIABLES       \* the call of ListEvents in progress
    pc,         \* "idle", "converting", or "replying" once the call returned
    cursor,     \* cursor
    from,       \* from
    lastKey,    \* lastKey
    todo,       \* auditEvents not yet converted
    done,       \* auditEvents already converted
    result      \* result

outside == <<published, prompt, now>>
conductor == <<stored, delivered, received, opened>>
call == <<pc, cursor, from, lastKey, todo, done, result>>
feedVars == <<outside, conductor, call>>

FeedInit ==
    /\ published = {}
    /\ prompt = {}
    /\ now = Lookback + 1
    /\ stored = EmptyCursor
    /\ delivered = {}
    /\ received = {}
    /\ opened = NoTime
    /\ pc = "idle"
    /\ cursor = EmptyCursor
    /\ from = NoTime
    /\ lastKey = NoKey
    /\ todo = {}
    /\ done = {}
    /\ result = {}
-----------------------------------------------------------------------------
(* Teleport and time. *)

Tick ==
    /\ now < ClockBound
    /\ now' = now + 1
    /\ UNCHANGED <<published, prompt, conductor, call>>

\* An event becomes visible.  Auth servers with different clocks, or a
\* storage backend that indexes late, make it appear behind others.
Publish(p) ==
    /\ p \notin published
    /\ TimeOf(p) <= now + ClockSkew
    /\ published' = published \cup {p}
    /\ prompt' = IF \A q \in published : q < p THEN prompt \cup {p} ELSE prompt
    /\ UNCHANGED <<now, conductor, call>>

SearchWindow(c) ==
    {p \in published : /\ c.startAt <= TimeOf(p)
                       /\ TimeOf(p) <= now
                       /\ c.lastKey < p}

\* SearchEvents answers with the first events of the window, at most
\* PageSize of them, and with a key unless the page is known to be the last:
\* a key may come with the last page, and a page may be shorter than asked.
IsPage(page, key, window) ==
    /\ page \subseteq window
    /\ \A p \in page, q \in window \ page : p < q
    /\ Cardinality(page) <= PageSize
    /\ IF key = NoKey THEN page = window
                      ELSE key \in page /\ \A p \in page : p <= key
-----------------------------------------------------------------------------
(* ListEvents. *)

\* A search that fails ends the call before it changed anything.
StartListEvents ==
    /\ pc = "idle"
    /\ \E page \in SUBSET published, key \in Position \cup {NoKey} :
          LET c == UnmarshalEventPageCursor(stored, now)
          IN  /\ IsPage(page, key, SearchWindow(c))
              /\ cursor' = c
              /\ from' = c.startAt
              /\ todo' = page
              /\ lastKey' = key
    /\ pc' = "converting"
    /\ UNCHANGED <<outside, conductor, done, result>>

\* The next event of the page yields the events es and the time t.
ConvertNext(p, es, t) ==
    /\ pc = "converting"
    /\ p \in todo /\ \A q \in todo : p <= q
    /\ result' = result \cup {[position |-> p, event |-> e] : e \in es}
    /\ cursor' = UpdateLatestEvent(cursor, t)
    /\ todo' = todo \ {p}
    /\ done' = done \cup {p}
    /\ UNCHANGED <<outside, conductor, pc, from, lastKey>>

\* Mistake: the next cycle starts at the end of the searched window (to).
ReturnAtWindowEnd ==
    /\ pc = "converting"
    /\ todo = {}
    /\ cursor' = IF lastKey = NoKey
                 THEN [PrepareNextSync(cursor) EXCEPT !.startAt = now]
                 ELSE [cursor EXCEPT !.lastKey = lastKey]
    /\ pc' = "replying"
    /\ UNCHANGED <<outside, conductor, from, lastKey, todo, done, result>>

Return ==
    /\ pc = "converting"
    /\ todo = {}
    /\ cursor' = IF lastKey = NoKey THEN PrepareNextSync(cursor)
                                    ELSE [cursor EXCEPT !.lastKey = lastKey]
    /\ pc' = "replying"
    /\ UNCHANGED <<outside, conductor, from, lastKey, todo, done, result>>

\* Nothing of a call outlives it.
EndCall ==
    /\ pc' = "idle"
    /\ cursor' = EmptyCursor
    /\ from' = NoTime
    /\ lastKey' = NoKey
    /\ todo' = {}
    /\ done' = {}
    /\ result' = {}

\* The call returns an error, or its answer is lost on the way.
Abandon == EndCall /\ UNCHANGED <<outside, conductor>>
-----------------------------------------------------------------------------
(* ConductorOne. *)

AcceptReply ==
    /\ pc = "replying"
    /\ stored' = cursor
    /\ delivered' = delivered \cup done
    /\ received' = received \cup result
    /\ opened' = IF opened = NoTime THEN from ELSE opened
    /\ EndCall
    /\ UNCHANGED outside

LoseReply == pc = "replying" /\ Abandon
-----------------------------------------------------------------------------
(* Invariants of a feed whose conversion reports the time of the events at  *)
(* the positions S, and the zero time for the others.                       *)

FeedTypeOK ==
    /\ published \subseteq Position
    /\ prompt \subseteq published
    /\ now \in Nat /\ Lookback < now
    /\ stored \in EventPageCursor
    /\ delivered \subseteq published
    /\ opened \in Nat
    /\ pc \in {"idle", "converting", "replying"}
    /\ cursor \in EventPageCursor
    /\ from \in Nat
    /\ lastKey \in Position \cup {NoKey}
    /\ todo \subseteq published
    /\ done \subseteq published

\* The next searches with cursor c can still return position p.
Ahead(c, p) == c.lastKey < p /\ c.startAt <= TimeOf(p)

\* No event is lost between two calls.  Whatever calls fail half way, and
\* wherever a page ends, an event that appeared in order and is not older
\* than the feed is either delivered or still ahead of the cursor that
\* ConductorOne holds: prepareNextSync and the continuation key never pass it.
NoPromptEventSkipped ==
    \A p \in prompt :
        opened # NoTime /\ opened <= TimeOf(p) => p \in delivered \/ Ahead(stored, p)

\* The time below which ConductorOne has everything.
Watermark ==
    IF stored.latestEventSeen # NoTime THEN stored.latestEventSeen ELSE stored.startAt

\* The events of these that are of position p.
EventsAt(events, p) == {r.event : r \in {x \in events : x.position = p}}

\* Between calls.  StartAt is set once the feed has delivered anything, and
\* while a cycle runs the latest event seen lies between StartAt and the
\* event the next page continues after.  No event that has yet to appear in
\* order is older than StartAt.
ConductorInv(S) ==
    /\ opened = NoTime => stored = EmptyCursor /\ delivered = {}
    /\ opened # NoTime => stored.startAt # NoTime /\ opened <= stored.startAt
    /\ stored.lastKey = NoKey => stored.latestEventSeen = NoTime
    /\ stored.lastKey # NoKey =>
          /\ stored.lastKey \in published
          /\ stored.startAt # NoTime
          /\ stored.startAt <= stored.latestEventSeen
          /\ stored.latestEventSeen <= TimeOf(stored.lastKey)
    /\ \A q \in delivered \cap S : TimeOf(q) <= Watermark
    /\ opened # NoTime =>
          \A p \in Position :
              opened <= TimeOf(p) /\ (\A q \in published : q < p)
                  => stored.startAt <= TimeOf(p)
    /\ NoPromptEventSkipped

\* The latest event a call has seen, also after prepareNextSync moved it.
Latest ==
    IF pc = "replying" /\ lastKey = NoKey THEN cursor.startAt ELSE cursor.latestEventSeen

Page == done \cup todo

\* The page of a call holds every prompt event the cursor has ahead of it up
\* to the last of the page.
PageInv ==
    /\ from # NoTime
    /\ stored.startAt # NoTime => from = stored.startAt
    /\ \A p \in Page : stored.lastKey < p /\ from <= TimeOf(p)
    /\ \A p \in done, q \in todo : p < q
    /\ lastKey # NoKey => lastKey \in Page /\ \A p \in Page : p <= lastKey
    /\ \A p \in prompt :
          from <= TimeOf(p) /\ stored.lastKey < p =>
              p \in Page \/ \A q \in Page : q < p

\* The latest event seen is as late as each event that moved the cursor, and
\* not later than any event the feed has yet to reach.
LatestInv(S) ==
    /\ from <= Latest /\ Watermark <= Latest
    /\ \A q \in (delivered \cup done) \cap S : TimeOf(q) <= Latest
    /\ \A p \in Position :
          from <= TimeOf(p) /\ stored.lastKey < p /\ (\A q \in done : q <= p)
              => Latest <= TimeOf(p)

CursorInv ==
    /\ pc = "converting" => cursor.startAt = from /\ cursor.lastKey = stored.lastKey
    /\ pc = "replying" =>
          /\ todo = {}
          /\ cursor.lastKey = lastKey
          /\ IF lastKey = NoKey THEN cursor.latestEventSeen = NoTime
                                ELSE cursor.startAt = from

CallInv(S) == pc # "idle" => PageInv /\ LatestInv(S) /\ CursorInv

IdleInv == pc = "idle" => todo = {} /\ done = {} /\ result = {}

FeedInv(S) == FeedTypeOK /\ ConductorInv(S) /\ IdleInv /\ CallInv(S)
=============================================================================

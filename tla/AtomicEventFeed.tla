-------------------------- MODULE AtomicEventFeed --------------------------
(***************************************************************************)
(* An event feed whose calls take no time: a call of ListEvents is one     *)
(* step, at the moment ConductorOne has its answer, and a call that fails  *)
(* or is not answered is none at all.  It is the feed that IncrementalSync *)
(* is built on, without what ConductorOne does with the events.            *)
(*                                                                         *)
(* A call may have read the clock earlier, and may miss an event that      *)
(* appeared behind one already visible; of the others it has all, up to    *)
(* the last of its page.                                                   *)
(***************************************************************************)
EXTENDS EventCursor

CONSTANTS
    Position,       \* the places of events in the order of a search
    TimeOf(_),      \* the time of the event at a position
    ReportedAt(_)   \* the time its conversion reports to the cursor

VARIABLES
    published,  \* positions whose event is visible in the audit log
    prompt,     \* those that appeared after every event before them
    now,        \* the connector's clock
    yields,     \* what the conversion of each event may yield, each a set of events
    stored,     \* ConductorOne: the cursor
    delivered,  \* ConductorOne: positions it has been given
    received    \* ConductorOne: what it was told of each position

vars == <<published, prompt, now, yields, stored, delivered, received>>

Init ==
    /\ published = {}
    /\ prompt = {}
    /\ now = Lookback + 1
    /\ stored = EmptyCursor
    /\ delivered = {}
    /\ received = [p \in Position |-> {}]

Tick ==
    /\ now' = now + 1
    /\ UNCHANGED <<published, prompt, yields, stored, delivered, received>>

\* What Teleport answers to a lookup changes.
ChangeYields == UNCHANGED <<published, prompt, now, stored, delivered, received>>

Publish(p) ==
    /\ p \notin published
    /\ published' = published \cup {p}
    /\ prompt' = IF \A q \in published : q < p THEN prompt \cup {p} ELSE prompt
    /\ UNCHANGED <<now, yields, stored, delivered, received>>

\* The next searches with cursor c can still return position p.
Ahead(c, p) == c.lastKey < p /\ c.startAt <= TimeOf(p)

\* What a search with cursor c may answer, with a key or without.
IsPage(page, key, c) ==
    /\ \A p \in page : Ahead(c, p) /\ TimeOf(p) <= now
    /\ \A p \in prompt : Ahead(c, p) /\ (\E q \in page : p <= q) => p \in page
    /\ key # NoKey => key \in page /\ \A p \in page : p <= key

\* The cursor moves by the latest time of the page, then to its key, or to the
\* next cycle.
MoveCursor(page, key, c) ==
    LET times == {NoTime} \cup {ReportedAt(p) : p \in page}
    IN  \E latest \in times :
            LET moved == UpdateLatestEvent(c, latest)
            IN  /\ \A t \in times : t <= latest
                /\ stored' = IF key = NoKey THEN PrepareNextSync(moved)
                                            ELSE [moved EXCEPT !.lastKey = key]

\* ConductorOne is told what the conversion of each event of the page yields.
Tell(page) ==
    /\ delivered' = delivered \cup page
    /\ \E told \in [page -> UNION {yields[p] : p \in page}] :
          /\ \A p \in page : told[p] \in yields[p]
          /\ received' = [p \in Position |-> IF p \in page THEN received[p] \cup told[p]
                                                         ELSE received[p]]

\* The call read the clock when it showed at.
ListEvents(page, key, at) ==
    LET c == UnmarshalEventPageCursor(stored, at)
    IN  /\ IsPage(page, key, c)
        /\ MoveCursor(page, key, c)
        /\ Tell(page)
        /\ UNCHANGED <<published, prompt, now, yields>>

Next ==
    \/ Tick
    \/ ChangeYields
    \/ \E p \in Position : Publish(p)
    \/ \E page \in SUBSET published, key \in Position \cup {NoKey},
          at \in (Lookback + 1)..now : ListEvents(page, key, at)

Spec == Init /\ [][Next]_vars
=============================================================================

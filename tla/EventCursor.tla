---------------------------- MODULE EventCursor ----------------------------
(***************************************************************************)
(* The pagination state both event feeds share (event_pagination.go).      *)
(*                                                                         *)
(* The cursor string ConductorOne keeps for a feed is the JSON of an       *)
(* eventPageCursor in base64: the encoding loses nothing, because a time   *)
(* is written in UTC to the nanosecond, so the model keeps the record      *)
(* itself.  A time is a positive number, a continuation key of Teleport is *)
(* the position in the audit log after which a search resumes, and 0       *)
(* stands for the empty string in each of the three fields; it also stands *)
(* for Go's zero time, which updateLatestEvent ignores.                    *)
(***************************************************************************)
EXTENDS Naturals

CONSTANTS
    EarliestEvent,  \* the start time ConductorOne sends, NoTime when it sends none
    Lookback        \* how far back a feed starts otherwise: 24 hours

NoTime == 0
NoKey == 0

ASSUME CursorAssumption == EarliestEvent \in Nat /\ Lookback \in Nat

EventPageCursor == [startAt : Nat, latestEventSeen : Nat, lastKey : Nat]

\* What an absent or empty cursor string decodes to.
EmptyCursor ==
    [startAt |-> NoTime, latestEventSeen |-> NoTime, lastKey |-> NoKey]

\* The lower bound of a feed that has no cursor yet, on a clock that shows now.
DefaultStart(now) ==
    IF EarliestEvent # NoTime THEN EarliestEvent ELSE now - Lookback

\* ConductorOne only ever hands back a string this connector returned, so
\* the two decoding errors cannot occur.
UnmarshalEventPageCursor(c, now) ==
    LET start == IF c.startAt = NoTime THEN DefaultStart(now) ELSE c.startAt
    IN  [startAt |-> start,
         latestEventSeen |->
            IF c.latestEventSeen = NoTime THEN start ELSE c.latestEventSeen,
         lastKey |-> c.lastKey]

UpdateLatestEvent(c, t) ==
    IF t # NoTime /\ t > c.latestEventSeen
    THEN [c EXCEPT !.latestEventSeen = t]
    ELSE c

\* Three mistakes PrepareNextSync could contain; the README says which
\* property rejects each.
PrepareNextSyncPastLatest(c) ==     \* steps over the time it saw last
    [startAt |-> c.latestEventSeen + 1, latestEventSeen |-> NoTime, lastKey |-> NoKey]
PrepareNextSyncInPlace(c) ==        \* does not advance
    [c EXCEPT !.latestEventSeen = NoTime, !.lastKey = NoKey]
PrepareNextSyncNoKey(c) ==          \* leaves a field out
    [startAt |-> c.latestEventSeen, latestEventSeen |-> NoTime]

PrepareNextSync(c) ==
    [startAt |-> c.latestEventSeen, latestEventSeen |-> NoTime, lastKey |-> NoKey]
=============================================================================

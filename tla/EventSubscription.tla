------------------------- MODULE EventSubscription -------------------------
(***************************************************************************)
(* What an event feed promises ConductorOne, with no pages, cursors or     *)
(* requests in it: batches of audit events, and a watermark that never     *)
(* goes back.  A batch brings no event older than the watermark, and the   *)
(* watermark passes an event only once that event was delivered.  An event *)
(* is delivered at least once, in the order of time.                       *)
(*                                                                         *)
(* The promise covers the events that appear in the audit log in the order *)
(* in which a search returns them (prompt) and that are not older than the *)
(* start of the subscription (opened).  An event that appears behind one   *)
(* already visible may be missed: nothing the connector can see tells it   *)
(* to look back.                                                           *)
(***************************************************************************)
EXTENDS Naturals

CONSTANTS
    Position,   \* the places of events in the order of a search
    TimeOf(_),  \* the time of the event at a position
    Signals     \* the positions whose event moves the watermark

VARIABLES
    published,  \* positions whose event is visible in the audit log
    prompt,     \* those that appeared after every event before them
    delivered,  \* positions ConductorOne has been given
    opened,     \* the time the subscription starts at, 0 before the first batch
    mark        \* the watermark, 0 before the first batch

vars == <<published, prompt, delivered, opened, mark>>

Init ==
    /\ published = {}
    /\ prompt = {}
    /\ delivered = {}
    /\ opened = 0
    /\ mark = 0

Publish(p) ==
    /\ p \notin published
    /\ published' = published \cup {p}
    /\ prompt' = IF \A q \in published : q < p THEN prompt \cup {p} ELSE prompt
    /\ UNCHANGED <<delivered, opened, mark>>

\* Every prompt event the subscription covers, older than m, is in S.
CoveredUpTo(m, start, S) ==
    \A p \in prompt : start <= TimeOf(p) /\ TimeOf(p) < m => p \in S

\* batch holds what is new in a delivery; an earlier event may come with it.
Deliver(batch) ==
    /\ delivered' = delivered \cup batch
    /\ opened' \in Nat /\ (opened # 0 => opened' = opened)
    /\ mark' \in Nat /\ opened' <= mark' /\ mark <= mark'
    /\ \A p \in batch : opened' <= TimeOf(p)
    /\ \A p \in batch \cap Signals : mark <= TimeOf(p) /\ TimeOf(p) <= mark'
    /\ CoveredUpTo(mark', opened', delivered')
    /\ UNCHANGED <<published, prompt>>

Next ==
    \/ \E p \in Position : Publish(p)
    \/ \E batch \in SUBSET (published \ delivered) : Deliver(batch)

Spec == Init /\ [][Next]_vars
=============================================================================

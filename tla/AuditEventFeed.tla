--------------------------- MODULE AuditEventFeed ---------------------------
(***************************************************************************)
(* The audit event feed (audit_event_feed.go): users, roles, locks and     *)
(* access requests, for the incremental sync of ConductorOne.              *)
(***************************************************************************)
EXTENDS EventFeed, EventConversion

CONSTANTS
    Request,        \* identifiers of access requests
    RequestUser,    \* who asks: a function on Request
    RequestRoles,   \* for which roles: a function on Request.  An approval may have
                    \* narrowed them; nothing else changes them
    Unresolvable    \* requests Teleport answers every lookup of with an error

ASSUME RequestAssumption ==
    /\ Unresolvable \subseteq Request
    /\ \A p \in Position : NeedsLookup(Log[p]) => Log[p].request \in Request

VARIABLE
    live            \* Teleport: access requests that still exist

vars == <<feedVars, live>>

Init == FeedInit /\ live = Request
-----------------------------------------------------------------------------
\* Teleport removes a request some time after it expired, or when asked to.
DeleteRequest(r) ==
    /\ r \in live
    /\ live' = live \ {r}
    /\ UNCHANGED feedVars

\* A state change without an identifier is handled, and yields nothing.
ConvertLocally(p) ==
    LET e == Log[p]
    IN  /\ ~NeedsLookup(e)
        /\ ConvertNext(p, ConvertAuditEvent(e), ReportedTime(e))
        /\ UNCHANGED live

\* GetAccessRequests answers, with the request or with none.
ResolveRequest(p) ==
    LET e == Log[p]
        r == e.request
    IN  /\ NeedsLookup(e)
        /\ r \notin Unresolvable
        /\ ConvertNext(p,
              IF r \in live
              THEN StateChangeEvents(e, RequestUser[r], RequestRoles[r])
              ELSE {},
              ReportedTime(e))
        /\ UNCHANGED live

\* Mistake: the event is skipped when its lookup fails.
ResolveFailsSkipping(p) ==
    /\ NeedsLookup(Log[p])
    /\ ConvertNext(p, {}, ReportedTime(Log[p]))
    /\ UNCHANGED live

\* GetAccessRequests fails, and the call with it.
ResolveFails(p) ==
    /\ pc = "converting"
    /\ p \in todo /\ \A q \in todo : p <= q
    /\ NeedsLookup(Log[p])
    /\ Abandon
    /\ UNCHANGED live

Next ==
    \/ Tick /\ UNCHANGED live
    \/ \E p \in Position : Publish(p) /\ UNCHANGED live
    \/ \E r \in Request : DeleteRequest(r)
    \/ StartListEvents /\ UNCHANGED live
    \/ \E p \in Position : ConvertLocally(p) \/ ResolveRequest(p) \/ ResolveFails(p)
    \/ Return /\ UNCHANGED live
    \/ AcceptReply /\ UNCHANGED live
    \/ LoseReply /\ UNCHANGED live

Spec == Init /\ [][Next]_vars

\* ConductorOne keeps asking; an answer, and a lookup of a request that is
\* not Unresolvable, does not fail for ever.
Fairness ==
    /\ WF_vars(Tick /\ UNCHANGED live)
    /\ WF_vars(StartListEvents /\ UNCHANGED live)
    /\ \A p \in Position : WF_vars(ConvertLocally(p)) /\ SF_vars(ResolveRequest(p))
    /\ WF_vars(Return /\ UNCHANGED live)
    /\ SF_vars(AcceptReply /\ UNCHANGED live)

FairSpec == Spec /\ Fairness
-----------------------------------------------------------------------------
TypeOK == FeedTypeOK /\ live \subseteq Request

\* The positions whose event moves the cursor.
Signals == {p \in Position : ReportedTime(Log[p]) # NoTime}

\* What the connector owes ConductorOne for a processed event.
Owed(e) ==
    IF NeedsLookup(e)
    THEN IF e.request \in live
         THEN StateChangeEvents(e, RequestUser[e.request], RequestRoles[e.request])
         ELSE {}
    ELSE ConvertAuditEvent(e)

\* A call that succeeded left nothing out.  An event the cursor counts as
\* processed has reached ConductorOne in full, with the grants of an approved
\* request as long as the request exists: a failed lookup fails the call
\* instead of dropping the event.
ProcessedEventsAreComplete ==
    \A p \in delivered : \A e \in Owed(Log[p]) :
        [position |-> p, event |-> e] \in received

\* The same of the call in progress: what makes the property inductive.
ConvertedEventsAreComplete ==
    \A p \in done : \A e \in Owed(Log[p]) :
        [position |-> p, event |-> e] \in result

\* The inductive invariant that the two properties around it rest on; its
\* parts are in EventFeed.
FeedInvariant == FeedInv(Signals) /\ live \subseteq Request

\* Pages go forward in time, across calls, failures and cycles: a page never
\* brings ConductorOne an event older than one it was given before.  (So an
\* event is repeated only at the time the last cycle ended with.)
DeliveryInTimeOrder ==
    [][AcceptReply =>
          \A p \in done \cap Signals, q \in delivered \cap Signals :
              TimeOf(q) <= TimeOf(p)]_vars

Subscription == INSTANCE EventSubscription WITH mark <- Watermark

\* The feed keeps the promise of a subscription; its watermark is the
\* latest event seen while a cycle runs, and StartAt between cycles.
ImplementsSubscription == Subscription!Spec

\* What the conversion of an event may yield: nothing, only if its request is gone.
Yields(p) ==
    LET e == Log[p]
    IN  IF NeedsLookup(e)
        THEN {StateChangeEvents(e, RequestUser[e.request], RequestRoles[e.request])}
                \cup IF e.request \in live THEN {} ELSE {{}}
        ELSE {ConvertAuditEvent(e)}

ReportedAt(p) == ReportedTime(Log[p])

Atomic ==
    INSTANCE AtomicEventFeed WITH
        yields <- [p \in Position |-> Yields(p)],
        received <- [p \in Position |-> EventsAt(received, p)]

\* Calls of ListEvents take effect at once or not at all: searching, converting
\* event by event with lookups, failing, and answering while Teleport's log and the
\* clock move on is, for ConductorOne, one step when it accepts the answer.
ImplementsAtomicFeed == Atomic!Spec

\* Every event that appears in order reaches ConductorOne, unless it is
\* older than the start of the feed or concerns an unresolvable request.
EveryPromptEventDelivered ==
    \A p \in Position :
        ~(NeedsLookup(Log[p]) /\ Log[p].request \in Unresolvable) =>
            (p \in prompt ~>
                p \in delivered \/ (opened # NoTime /\ TimeOf(p) < opened))
-----------------------------------------------------------------------------
(* A claim of the repository's comments and documentation that the code     *)
(* does not keep: a run of its own refutes it.                              *)

\* audit_event_feed.go and docs/teleport-events.md, on access_request.expire:
\* a CreateRevokeEvent per role, so that ConductorOne knows that the temporary
\* grants are gone.
ExpiredRequestsAreRevoked ==
    \A p \in delivered :
        LET r == Log[p].request
        IN  Log[p].gotype = "AccessRequestExpire" /\ r \in live =>
              \A role \in RequestRoles[r] \ {NoName} :
                  [position |-> p, event |-> CreateRevoke(role, RequestUser[r])]
                      \in received
=============================================================================

--------------------------- MODULE UsageEventFeed ---------------------------
(***************************************************************************)
(* The usage event feed (usage_event_feed.go): successful logins, from     *)
(* which ConductorOne derives when a user was last active.  No conversion  *)
(* needs a request, so only a lost answer repeats a page.                  *)
(***************************************************************************)
EXTENDS EventFeed

CONSTANT NoName     \* the empty string, in a cluster name

vars == feedVars

Init == FeedInit
-----------------------------------------------------------------------------
IsLogin(e) == e.gotype = "UserLogin"

UsageEvent(cluster, user) == [kind |-> "Usage", cluster |-> cluster, user |-> user]

\* Mistake: a failed login counts.
ConvertAnyLogin(e) ==
    IF IsLogin(e) THEN {UsageEvent(e.cluster, e.user)} ELSE {}

ConvertToUsageEvent(e) ==
    IF IsLogin(e) /\ e.success
    THEN {UsageEvent(IF e.cluster = NoName THEN "teleport" ELSE e.cluster, e.user)}
    ELSE {}

\* A failed login moves the cursor as well; what is not a login does not.
ReportedTime(e) == IF IsLogin(e) THEN e.time ELSE NoTime

ConvertEvent(p) == ConvertNext(p, ConvertToUsageEvent(Log[p]), ReportedTime(Log[p]))

Next ==
    \/ Tick
    \/ \E p \in Position : Publish(p)
    \/ StartListEvents
    \/ \E p \in Position : ConvertEvent(p)
    \/ Return
    \/ AcceptReply
    \/ LoseReply

Spec == Init /\ [][Next]_vars
-----------------------------------------------------------------------------
TypeOK == FeedTypeOK

Signals == {p \in Position : ReportedTime(Log[p]) # NoTime}

FeedInvariant == FeedInv(Signals)

\* When ConductorOne has been told that a user was active, and up to when:
\* the positions of the logins it received.
LoginsReceived == {r.position : r \in received}

\* ConductorOne knows of exactly the successful logins among the events the
\* cursor counts as processed: no repetition, failure or page boundary adds
\* a failed login, or drops the last login of a user.
UsageIsTheSuccessfulLogins ==
    LoginsReceived = {p \in delivered : IsLogin(Log[p]) /\ Log[p].success}

Subscription == INSTANCE EventSubscription WITH mark <- Watermark

\* The feed keeps the promise of a subscription, like the audit feed.
ImplementsSubscription == Subscription!Spec

ReportedAt(p) == ReportedTime(Log[p])

Atomic ==
    INSTANCE AtomicEventFeed WITH
        yields <- [p \in Position |-> {ConvertToUsageEvent(Log[p])}],
        received <- [p \in Position |-> EventsAt(received, p)]

\* Calls of ListEvents take effect at once or not at all, like the audit feed's;
\* what the conversion of an event yields is never in doubt.
ImplementsAtomicFeed == Atomic!Spec
=============================================================================

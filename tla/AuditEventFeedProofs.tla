------------------------ MODULE AuditEventFeedProofs ------------------------
(***************************************************************************)
(* Theorems about the audit event feed, for every audit log, page size,    *)
(* start time, clock skew and set of access requests.                      *)
(***************************************************************************)
EXTENDS AuditEventFeed, EventFeedProofs

\* The conversion reports the time of the events at the positions Signals.
LEMMA ReportedTimeOfSignals ==
  ASSUME NEW p \in Position
  PROVE  ReportedTime(Log[p]) = IF p \in Signals THEN TimeOf(p) ELSE NoTime
  BY LogAssumption DEF Signals, ReportedTime, TimeOf, NoTime

\* A call that ends early leaves the invariant as it was.
LEMMA AbandonKeeps ==
  ASSUME FeedInvariant, Abandon, UNCHANGED live
  PROVE  FeedInvariant'
  BY EndCallPreserves DEF FeedInvariant, Signals

\* Converting an event, with or without a lookup, keeps the invariant.
LEMMA ConvertKeeps ==
  ASSUME FeedInvariant, NEW p \in Position, NEW es,
         ConvertNext(p, es, ReportedTime(Log[p])), UNCHANGED live
  PROVE  FeedInvariant'
<1>1. ConvertNext(p, es, IF p \in Signals THEN TimeOf(p) ELSE NoTime)
  BY ReportedTimeOfSignals
<1>2. Signals \subseteq Position
  BY DEF Signals
<1> QED
  BY <1>1, <1>2, ConvertPreserves DEF FeedInvariant

\* The feed starts with nothing delivered and no call in progress.
LEMMA InitInvariant == Init => FeedInvariant
  BY InitEstablishes DEF Init, FeedInvariant

\* One step per action of the feed.
LEMMA NextInvariant == FeedInvariant /\ [Next]_vars => FeedInvariant'
<1> SUFFICES ASSUME FeedInvariant, [Next]_vars
             PROVE  FeedInvariant'
  OBVIOUS
<1>0. Signals \subseteq Position /\ FeedInv(Signals) /\ live \subseteq Request
  BY DEF Signals, FeedInvariant
<1>1. CASE Tick /\ UNCHANGED live
  BY <1>0, <1>1, TickPreserves DEF FeedInvariant
<1>2. ASSUME NEW p \in Position, Publish(p) /\ UNCHANGED live
      PROVE  FeedInvariant'
  BY <1>0, <1>2, PublishPreserves DEF FeedInvariant
<1>3. ASSUME NEW r \in Request, DeleteRequest(r)
      PROVE  FeedInvariant'
  <2>1. UNCHANGED feedVars /\ live' \subseteq Request
    BY <1>0, <1>3 DEF DeleteRequest
  <2> QED
    BY <1>0, <2>1, UnchangedPreserves DEF FeedInvariant
<1>4. CASE StartListEvents /\ UNCHANGED live
  BY <1>0, <1>4, StartPreserves DEF FeedInvariant
<1>5. ASSUME NEW p \in Position, ConvertLocally(p)
      PROVE  FeedInvariant'
  BY <1>5, ConvertKeeps DEF ConvertLocally
<1>6. ASSUME NEW p \in Position, ResolveRequest(p)
      PROVE  FeedInvariant'
  BY <1>6, ConvertKeeps DEF ResolveRequest
<1>7. ASSUME NEW p \in Position, ResolveFails(p)
      PROVE  FeedInvariant'
  BY <1>7, AbandonKeeps DEF ResolveFails
<1>8. CASE Return /\ UNCHANGED live
  BY <1>0, <1>8, ReturnPreserves DEF FeedInvariant
<1>9. CASE AcceptReply /\ UNCHANGED live
  BY <1>0, <1>9, AcceptPreserves DEF FeedInvariant
<1>10. CASE LoseReply /\ UNCHANGED live
  BY <1>10, AbandonKeeps DEF LoseReply
<1>11. CASE UNCHANGED vars
  BY <1>0, <1>11, UnchangedPreserves DEF FeedInvariant, vars
<1> QED
  BY <1>1, <1>2, <1>3, <1>4, <1>5, <1>6, <1>7, <1>8, <1>9, <1>10, <1>11 DEF Next

\* The inductive invariant of the feed: the cursor ConductorOne holds, the
\* page a call is converting and what was delivered agree at every step of
\* ListEvents.
THEOREM InvariantHolds == Spec => []FeedInvariant
  BY InitInvariant, NextInvariant, PTL DEF Spec

\* Cursors, pages and positions of ListEvents keep their types.
THEOREM TypeCorrect == Spec => []TypeOK
<1>1. FeedInvariant => TypeOK
  BY DEF FeedInvariant, FeedInv, TypeOK
<1> QED
  BY <1>1, InvariantHolds, PTL

\* No event that appears in order is lost between two calls of ListEvents,
\* whichever calls fail and wherever a page ends.
THEOREM NothingSkipped == Spec => []NoPromptEventSkipped
<1>1. FeedInvariant => NoPromptEventSkipped
  BY DEF FeedInvariant, FeedInv, ConductorInv
<1> QED
  BY <1>1, InvariantHolds, PTL

\* The pages ConductorOne accepts go forward in time.
THEOREM DeliveredInOrder == Spec => DeliveryInTimeOrder
<1>1. ASSUME FeedInvariant, AcceptReply,
             NEW p \in done \cap Signals, NEW q \in delivered \cap Signals
      PROVE  TimeOf(q) <= TimeOf(p)
  <2>1. p \in Position /\ Watermark <= TimeOf(p)
    BY <1>1, PageAfterWatermark DEF FeedInvariant
  <2>2. TimeOf(q) <= Watermark /\ Watermark \in Nat /\ q \in Position
    BY <1>1 DEF FeedInvariant, FeedInv, ConductorInv, FeedTypeOK, Watermark,
                EventPageCursor, Signals
  <2> QED
    BY <2>1, <2>2, LogAssumption
<1>2. FeedInvariant /\ [Next]_vars =>
         [AcceptReply => \A p \in done \cap Signals, q \in delivered \cap Signals :
                            TimeOf(q) <= TimeOf(p)]_vars
  BY <1>1
<1> QED
  BY <1>2, InvariantHolds, PTL DEF Spec, DeliveryInTimeOrder

\* A request can only disappear, so nothing is ever owed that was not before.
LEMMA OwedShrinks ==
  ASSUME live' \subseteq live, NEW p
  PROVE  Owed(Log[p])' \subseteq Owed(Log[p])
  BY DEF Owed

\* Steps that move nothing into done or delivered.
LEMMA CompleteUnchanged ==
  ASSUME ProcessedEventsAreComplete, ConvertedEventsAreComplete, live' \subseteq live,
         UNCHANGED <<delivered, received>>,
         UNCHANGED <<done, result>> \/ done' = {}
  PROVE  ProcessedEventsAreComplete' /\ ConvertedEventsAreComplete'
  BY OwedShrinks DEF ProcessedEventsAreComplete, ConvertedEventsAreComplete

\* A conversion that yields everything owed keeps the page complete.
LEMMA CompleteConvert ==
  ASSUME ProcessedEventsAreComplete, ConvertedEventsAreComplete, UNCHANGED live,
         NEW p \in Position, NEW t, ConvertNext(p, Owed(Log[p]), t)
  PROVE  ProcessedEventsAreComplete' /\ ConvertedEventsAreComplete'
<1>1. \A q : Owed(Log[q])' \subseteq Owed(Log[q])
  BY OwedShrinks
<1>2. done' = done \cup {p} /\ UNCHANGED <<delivered, received>>
  BY DEF ConvertNext, conductor
<1>3. result' = result \cup {[position |-> p, event |-> e] : e \in Owed(Log[p])}
  BY DEF ConvertNext
<1> QED
  BY <1>1, <1>2, <1>3 DEF ProcessedEventsAreComplete, ConvertedEventsAreComplete

\* No step of the feed loses an event of a converted page.
LEMMA NextComplete ==
  ProcessedEventsAreComplete /\ ConvertedEventsAreComplete /\ [Next]_vars
    => ProcessedEventsAreComplete' /\ ConvertedEventsAreComplete'
<1> SUFFICES ASSUME ProcessedEventsAreComplete, ConvertedEventsAreComplete, [Next]_vars
             PROVE  ProcessedEventsAreComplete' /\ ConvertedEventsAreComplete'
  OBVIOUS
<1>1. CASE /\ Tick \/ (\E p \in Position : Publish(p)) \/ Return
           /\ UNCHANGED live
  BY <1>1, CompleteUnchanged DEF Tick, Publish, Return, conductor, call
<1>2. CASE (\E r \in Request : DeleteRequest(r)) \/ UNCHANGED vars
  BY <1>2, CompleteUnchanged DEF DeleteRequest, vars, feedVars, conductor, call
<1>3. CASE StartListEvents /\ UNCHANGED live
  BY <1>3, CompleteUnchanged DEF StartListEvents, conductor
<1>4. CASE (\E p \in Position : ResolveFails(p)) \/ (LoseReply /\ UNCHANGED live)
  BY <1>4, CompleteUnchanged DEF ResolveFails, LoseReply, Abandon, EndCall, conductor
<1>5. ASSUME NEW p \in Position, ConvertLocally(p) \/ ResolveRequest(p)
      PROVE  ProcessedEventsAreComplete' /\ ConvertedEventsAreComplete'
  <2>1. UNCHANGED live /\ ConvertNext(p, Owed(Log[p]), ReportedTime(Log[p]))
    BY <1>5 DEF ConvertLocally, ResolveRequest, Owed
  <2> QED
    BY <2>1, CompleteConvert
<1>6. CASE AcceptReply /\ UNCHANGED live
  <2>1. /\ delivered' = delivered \cup done /\ received' = received \cup result
        /\ done' = {}
    BY <1>6 DEF AcceptReply, EndCall
  <2>2. \A q : Owed(Log[q])' \subseteq Owed(Log[q])
    BY <1>6, OwedShrinks
  <2> QED
    BY <2>1, <2>2 DEF ProcessedEventsAreComplete, ConvertedEventsAreComplete
<1> QED
  BY <1>1, <1>2, <1>3, <1>4, <1>5, <1>6 DEF Next

\* An event the cursor counts as processed reached ConductorOne in full: a
\* failed lookup of an access request never drops a grant.
THEOREM NothingLeftOut == Spec => []ProcessedEventsAreComplete
<1>1. Init => ProcessedEventsAreComplete /\ ConvertedEventsAreComplete
  BY DEF Init, FeedInit, ProcessedEventsAreComplete, ConvertedEventsAreComplete
<1> QED
  BY <1>1, NextComplete, PTL DEF Spec

\* The initial state is one of a subscription.
LEMMA SubscriptionInit == Init => Subscription!Init
  BY DEF Init, FeedInit, Subscription!Init, Watermark, EmptyCursor, NoTime

\* An answer that ConductorOne accepts is a delivery of what is new in it.
LEMMA AcceptDelivers ==
  ASSUME FeedInvariant, AcceptReply
  PROVE  Subscription!Deliver(done \ delivered)
<1>1. Signals \subseteq Position /\ FeedInv(Signals)
  BY DEF Signals, FeedInvariant
<1> QED
  BY <1>1, DeliveryFacts
  DEF Subscription!Deliver, Subscription!CoveredUpTo, outside, NoTime

\* Every other step leaves what a subscription shows, or publishes an event.
LEMMA SubscriptionNext ==
  FeedInvariant /\ [Next]_vars => [Subscription!Next]_(Subscription!vars)
<1> SUFFICES ASSUME FeedInvariant, [Next]_vars
             PROVE  Subscription!Next \/ UNCHANGED Subscription!vars
  OBVIOUS
<1>1. ASSUME UNCHANGED <<outside, conductor>>
      PROVE  UNCHANGED Subscription!vars
  BY <1>1 DEF outside, conductor, Subscription!vars, Watermark
<1>2. CASE Tick
  BY <1>2 DEF Tick, conductor, Subscription!vars, Watermark
<1>3. ASSUME NEW p \in Position, Publish(p)
      PROVE  Subscription!Next
  BY <1>3 DEF Publish, conductor, Subscription!Next, Subscription!Publish, Watermark
<1>4. CASE AcceptReply
  <2>1. Subscription!Deliver(done \ delivered)
    BY <1>4, AcceptDelivers
  <2>2. done \subseteq published
    BY DEF FeedInvariant, FeedInv, FeedTypeOK
  <2> QED
    BY <2>1, <2>2 DEF Subscription!Next
<1>5. ASSUME NEW p \in Position, ConvertLocally(p) \/ ResolveRequest(p) \/ ResolveFails(p)
      PROVE  UNCHANGED <<outside, conductor>>
  BY <1>5 DEF ConvertLocally, ResolveRequest, ResolveFails, ConvertNext, Abandon
<1>6. ASSUME NEW r \in Request, DeleteRequest(r)
      PROVE  UNCHANGED <<outside, conductor>>
  BY <1>6 DEF DeleteRequest, feedVars
<1>7. CASE StartListEvents \/ Return \/ LoseReply \/ UNCHANGED vars
  BY <1>1, <1>7 DEF StartListEvents, Return, LoseReply, Abandon, vars, feedVars
<1> QED
  BY <1>1, <1>2, <1>3, <1>4, <1>5, <1>6, <1>7 DEF Next

\* The feed implements the subscription: its watermark never goes back,
\* never passes an event that was not delivered, and no batch is older.
THEOREM Implements == Spec => ImplementsSubscription
  BY SubscriptionInit, SubscriptionNext, InvariantHolds, PTL
  DEF Spec, ImplementsSubscription, Subscription!Spec

\* Every answer takes the cursor of ListEvents forward, whatever calls failed before:
\* a cycle asks for no page twice, so it has at most one more than the log has events,
\* and a later cycle asks for nothing before an earlier one.
THEOREM PagesAdvance == Spec => [][AcceptReply => CursorAdvances]_vars
<1>1. FeedInvariant /\ [Next]_vars => [AcceptReply => CursorAdvances]_vars
  BY ReplyAdvances DEF FeedInvariant
<1> QED
  BY <1>1, InvariantHolds, PTL DEF Spec

\* The most an audit event may tell: what the request it names would, were it there.
MayTell(e) ==
  IF NeedsLookup(e)
  THEN StateChangeEvents(e, RequestUser[e.request], RequestRoles[e.request])
  ELSE ConvertAuditEvent(e)

\* These events are of these positions, and no more than the log says there.
OnlyTell(events, positions) ==
  \A r \in events : r.position \in positions /\ r.event \in MayTell(Log[r.position])

\* ConductorOne is told nothing that no event of the audit log says: what it received
\* is of the events the cursor has passed, and of each no more than convertAuditEvent
\* yields, or its access request as Teleport has it.  With
\* ProcessedEventsAreComplete, what it is told is exact but for requests that are gone.
THEOREM NothingInvented == Spec => []OnlyTell(received, delivered)
<1> DEFINE Both == OnlyTell(received, delivered) /\ OnlyTell(result, done)
<1>1. Init => Both
  BY DEF Init, FeedInit, OnlyTell
<1>2. Both /\ [Next]_vars => Both'
  <2> SUFFICES ASSUME Both, [Next]_vars PROVE Both'
    OBVIOUS
  <2>1. OnlyTell({}, {})
    BY DEF OnlyTell
  <2>2. CASE \/ Tick \/ StartListEvents \/ Return \/ UNCHANGED vars
             \/ \E p \in Position : Publish(p)
             \/ \E r \in Request : DeleteRequest(r)
    <3>1. UNCHANGED <<delivered, received, done, result>>
      BY <2>2 DEF Tick, StartListEvents, Return, Publish, DeleteRequest, vars, feedVars,
                  conductor, call
    <3> QED
      BY <3>1 DEF OnlyTell
  <2>3. CASE LoseReply \/ \E p \in Position : ResolveFails(p)
    <3>1. UNCHANGED <<delivered, received>> /\ done' = {} /\ result' = {}
      BY <2>3 DEF LoseReply, ResolveFails, Abandon, EndCall, conductor
    <3> QED
      BY <2>1, <3>1 DEF OnlyTell
  <2>4. ASSUME NEW p \in Position, ConvertLocally(p) \/ ResolveRequest(p) PROVE Both'
    <3>1. PICK es : ConvertNext(p, es, ReportedTime(Log[p])) /\ es \subseteq MayTell(Log[p])
      <4>1. CASE ConvertLocally(p)
        BY <4>1 DEF ConvertLocally, MayTell
      <4>2. CASE ResolveRequest(p)
        <5> DEFINE r == Log[p].request
                   found == IF r \in live
                            THEN StateChangeEvents(Log[p], RequestUser[r], RequestRoles[r])
                            ELSE {}
        <5>1. NeedsLookup(Log[p]) /\ ConvertNext(p, found, ReportedTime(Log[p]))
          BY <4>2 DEF ResolveRequest
        <5>2. found \subseteq MayTell(Log[p])
          BY <5>1 DEF MayTell
        <5> QED
          BY <5>1, <5>2
      <4> QED
        BY <2>4, <4>1, <4>2
    <3>2. /\ UNCHANGED <<delivered, received>> /\ done' = done \cup {p}
          /\ result' = result \cup {[position |-> p, event |-> e] : e \in es}
      BY <3>1 DEF ConvertNext, conductor
    <3>3. OnlyTell(result', done')
      <4> SUFFICES ASSUME NEW r \in result'
                   PROVE  r.position \in done' /\ r.event \in MayTell(Log[r.position])
        BY DEF OnlyTell
      <4>1. CASE r \in result
        BY <3>2, <4>1 DEF OnlyTell
      <4>2. ASSUME NEW e \in es, r = [position |-> p, event |-> e]
            PROVE  r.position \in done' /\ r.event \in MayTell(Log[r.position])
        <5>1. r.position = p /\ r.event = e
          BY <4>2
        <5> QED
          BY <3>1, <3>2, <5>1
      <4> QED
        BY <3>2, <4>1, <4>2
    <3> QED
      BY <3>2, <3>3 DEF OnlyTell
  <2>5. CASE AcceptReply
    <3>1. /\ delivered' = delivered \cup done /\ received' = received \cup result
          /\ done' = {} /\ result' = {}
      BY <2>5 DEF AcceptReply, EndCall
    <3> QED
      BY <3>1 DEF OnlyTell
  <2> QED
    BY <2>2, <2>3, <2>4, <2>5 DEF Next
<1> QED
  BY <1>1, <1>2, PTL DEF Spec
-----------------------------------------------------------------------------
(* Calls of ListEvents are atomic. *)

Reported == [p \in Position |-> ReportedAt(p)]

\* A call has yielded what the conversions of its page may yield, even now: a lookup
\* found its request, or none, and a request found missing stays so.
CallYields == ResultInv /\ \A p \in done : EventsAt(result, p) \in Yields(p)

\* What there is of a call is what one step would have done by now.
CallAtOnce == CallYields /\ (pc # "idle" => AtOnce(Reported))

\* As requests go, more conversions may yield nothing.
LEMMA YieldsGrow ==
  ASSUME live' \subseteq live, NEW p
  PROVE  Yields(p) \subseteq Yields(p)'
  BY DEF Yields

\* The conversion of an event reports its time or none.
LEMMA ReportedType == Reported \in [Position -> Nat]
<1>1. \A p \in Position : ReportedAt(p) \in Nat
  BY LogAssumption, ReportedTimeOfSignals DEF ReportedAt, NoTime
<1> QED
  BY <1>1 DEF Reported

\* Steps that convert nothing keep what the call has yielded.
LEMMA YieldsUnchanged ==
  ASSUME CallYields, live' \subseteq live,
         UNCHANGED <<done, result>> \/ (done' = {} /\ result' = {})
  PROVE  CallYields'
<1>1. CASE done' = {} /\ result' = {}
  BY <1>1 DEF CallYields, ResultInv
<1>2. CASE UNCHANGED <<done, result>>
  <2>1. ResultInv'
    BY <1>2 DEF CallYields, ResultInv
  <2>2. \A p \in done : EventsAt(result, p) \in Yields(p)'
    BY YieldsGrow DEF CallYields
  <2>3. \A p \in done' : EventsAt(result', p) \in Yields(p)'
    BY <1>2, <2>2
  <2> QED
    BY <2>1, <2>3 DEF CallYields
<1> QED
  BY <1>1, <1>2

\* A conversion, with or without a lookup, is what one step would have done too.
LEMMA ConvertKeepsAtOnce ==
  ASSUME FeedInvariant, CallAtOnce, NEW p \in Position, NEW es \in Yields(p),
         ConvertNext(p, es, ReportedTime(Log[p])), UNCHANGED live
  PROVE  CallAtOnce'
<1>1. FeedInv(Signals) /\ pc = "converting" /\ AtOnce(Reported) /\ CallYields
  BY DEF FeedInvariant, ConvertNext, CallAtOnce
<1>2. Reported[p] = ReportedTime(Log[p])
  BY DEF Reported, ReportedAt
<1>3. AtOnce(Reported)'
  BY <1>1, <1>2, ReportedType, ConvertAtOnce
<1>4. /\ ResultInv'
      /\ done' = done \cup {p}
      /\ EventsAt(result', p) = es
      /\ \A q \in done : EventsAt(result', q) = EventsAt(result, q)
  BY <1>1, ConvertAdds DEF CallYields
<1>5. \A q : Yields(q)' = Yields(q)
  BY DEF Yields
<1>6. CallYields'
  BY <1>1, <1>4, <1>5 DEF CallYields
<1> QED
  BY <1>3, <1>6 DEF CallAtOnce

\* No step makes a call differ from one made at once.
LEMMA NextAtOnce ==
  ASSUME FeedInvariant, CallAtOnce, [Next]_vars
  PROVE  CallAtOnce'
<1>1. FeedInv(Signals) /\ CallYields /\ now \in Nat
  BY DEF FeedInvariant, CallAtOnce, FeedInv, FeedTypeOK
<1>2. ASSUME UNCHANGED <<call, conductor>>, now' = now \/ now' = now + 1,
             live' \subseteq live
      PROVE  CallAtOnce'
  <2>1. UNCHANGED <<pc, done, result>>
    BY <1>2 DEF call
  <2>2. CallYields'
    BY <1>1, <1>2, <2>1, YieldsUnchanged
  <2>3. pc # "idle" => AtOnce(Reported)'
    BY <1>1, <1>2, OthersAtOnce DEF CallAtOnce
  <2> QED
    BY <2>1, <2>2, <2>3 DEF CallAtOnce
<1>3. CASE (Tick \/ \E p \in Position : Publish(p)) /\ UNCHANGED live
  BY <1>2, <1>3 DEF Tick, Publish
<1>4. CASE (\E r \in Request : DeleteRequest(r)) \/ UNCHANGED vars
  BY <1>2, <1>4 DEF DeleteRequest, vars, feedVars, outside
<1>5. CASE StartListEvents /\ UNCHANGED live
  <2>1. UNCHANGED <<done, result>>
    BY <1>5 DEF StartListEvents
  <2> QED
    BY <1>1, <1>5, <2>1, StartAtOnce, YieldsUnchanged DEF CallAtOnce
<1>6. ASSUME NEW p \in Position, ConvertLocally(p)
      PROVE  CallAtOnce'
  BY <1>6, ConvertKeepsAtOnce DEF ConvertLocally, Yields
<1>7. ASSUME NEW p \in Position, ResolveRequest(p)
      PROVE  CallAtOnce'
  <2> DEFINE r == Log[p].request
             found == IF r \in live
                      THEN StateChangeEvents(Log[p], RequestUser[r], RequestRoles[r])
                      ELSE {}
  <2>1. NeedsLookup(Log[p]) /\ ConvertNext(p, found, ReportedTime(Log[p])) /\ UNCHANGED live
    BY <1>7 DEF ResolveRequest
  <2>2. found \in Yields(p)
    BY <2>1 DEF Yields
  <2> QED
    BY <2>1, <2>2, ConvertKeepsAtOnce
<1>8. CASE Return /\ UNCHANGED live
  <2>1. UNCHANGED <<done, result>> /\ pc = "converting"
    BY <1>8 DEF Return
  <2> QED
    BY <1>1, <1>8, <2>1, ReturnAtOnce, YieldsUnchanged DEF CallAtOnce
<1>9. CASE EndCall /\ UNCHANGED live
  BY <1>1, <1>9, YieldsUnchanged DEF EndCall, CallAtOnce
<1> QED
  BY <1>3, <1>4, <1>5, <1>6, <1>7, <1>8, <1>9
  DEF Next, ResolveFails, AcceptReply, LoseReply, Abandon

\* The initial state is one of the atomic feed.
LEMMA AtomicInit == Init => Atomic!Init
<1>1. Init => \A p : EventsAt(received, p) = {}
  BY DEF Init, FeedInit, EventsAt
<1> QED
  BY <1>1 DEF Init, FeedInit, Atomic!Init, Atomic!EmptyCursor, Atomic!NoTime, Atomic!NoKey,
     EmptyCursor, NoTime, NoKey

\* The instance takes over the definitions of the cursor.
LEMMA SameCursor ==
  /\ \A c, at : Atomic!UnmarshalEventPageCursor(c, at) = UnmarshalEventPageCursor(c, at)
  /\ \A c, t : Atomic!UpdateLatestEvent(c, t) = UpdateLatestEvent(c, t)
  /\ \A c : Atomic!PrepareNextSync(c) = PrepareNextSync(c)
  /\ \A c, p : Atomic!Ahead(c, p) = Ahead(c, p)
  /\ Atomic!NoKey = NoKey /\ Atomic!NoTime = NoTime
  BY DEF Atomic!UnmarshalEventPageCursor, UnmarshalEventPageCursor, Atomic!DefaultStart,
         DefaultStart, Atomic!UpdateLatestEvent, UpdateLatestEvent, Atomic!PrepareNextSync,
         PrepareNextSync, Atomic!Ahead, Ahead, Atomic!NoKey, NoKey, Atomic!NoTime, NoTime

\* What ConductorOne was told of a position grows by what the call yielded there.
LEMMA AcceptTells ==
  ASSUME CallYields, AcceptReply, done \subseteq Position
  PROVE  Atomic!Tell(done)
<1>1. delivered' = delivered \cup done
  BY DEF AcceptReply
<1> DEFINE told == [p \in done |-> EventsAt(result, p)]
           yields == [p \in Position |-> Yields(p)]
<1>2. \A p \in done : told[p] \in yields[p]
  BY DEF CallYields
<1>3. told \in [done -> UNION {yields[p] : p \in done}]
  BY <1>2
<1>4. \A p : EventsAt(received', p) = IF p \in done
                                     THEN EventsAt(received, p) \cup EventsAt(result, p)
                                     ELSE EventsAt(received, p)
  BY AcceptAdds DEF CallYields
<1> DEFINE before == [p \in Position |-> EventsAt(received, p)]
<1>5. [p \in Position |-> EventsAt(received, p)]'
        = [p \in Position |-> IF p \in done THEN before[p] \cup told[p] ELSE before[p]]
  BY <1>4
<1> QED
  BY <1>1, <1>2, <1>3, <1>5 DEF Atomic!Tell

\* The answer ConductorOne accepts is a call of the atomic feed.
LEMMA AcceptIsCall ==
  ASSUME FeedInvariant, CallAtOnce, AcceptReply, UNCHANGED live
  PROVE  \E at \in (Lookback + 1)..now : Atomic!ListEvents(done, lastKey, at)
<1>1. FeedInv(Signals) /\ AtOnce(Reported) /\ CallYields /\ done \subseteq Position
  BY DEF FeedInvariant, CallAtOnce, AcceptReply, FeedInv, FeedTypeOK
<1>2. /\ \A p \in done : Ahead(Decoded, p) /\ TimeOf(p) <= now
      /\ \A p \in prompt :
            Ahead(Decoded, p) /\ (\E q \in done : p <= q) => p \in done
      /\ lastKey # NoKey => lastKey \in done /\ \A p \in done : p <= lastKey
      /\ \E latest \in Reports(Reported, done) :
            /\ \A t \in Reports(Reported, done) : t <= latest
            /\ stored' = IF lastKey = NoKey
                         THEN PrepareNextSync(UpdateLatestEvent(Decoded, latest))
                         ELSE [UpdateLatestEvent(Decoded, latest)
                                 EXCEPT !.lastKey = lastKey]
  BY <1>1, AcceptAtOnce
<1>3. PICK at \in (Lookback + 1)..now : UnmarshalEventPageCursor(stored, at) = Decoded
  BY <1>1 DEF AtOnce
<1>4. Atomic!IsPage(done, lastKey, Decoded)
  BY <1>2, SameCursor DEF Atomic!IsPage
<1>5. Atomic!MoveCursor(done, lastKey, Decoded)
  <2>1. Reports(Reported, done) = {Atomic!NoTime} \cup {ReportedAt(p) : p \in done}
    BY <1>1, SameCursor DEF Reports, Reported
  <2> QED
    BY <1>2, <2>1, SameCursor DEF Atomic!MoveCursor
<1>6. Atomic!Tell(done)
  BY <1>1, AcceptTells
<1>7. UNCHANGED <<published, prompt, now>> /\ \A p : Yields(p)' = Yields(p)
  BY DEF AcceptReply, outside, Yields
<1>8. [p \in Position |-> Yields(p)]' = [p \in Position |-> Yields(p)]
  BY <1>7
<1>9. Atomic!ListEvents(done, lastKey, at)
  BY <1>3, <1>4, <1>5, <1>6, <1>7, <1>8, SameCursor DEF Atomic!ListEvents
<1> QED
  BY <1>3, <1>9

\* Every step of the feed is one of the atomic feed, or none.
LEMMA AtomicNext ==
  ASSUME FeedInvariant, CallAtOnce, [Next]_vars
  PROVE  [Atomic!Next]_(Atomic!vars)
<1> DEFINE yields == [p \in Position |-> Yields(p)]
           told == [p \in Position |-> EventsAt(received, p)]
<1>1. ASSUME UNCHANGED live PROVE yields' = yields
  BY <1>1 DEF Yields
<1>2. ASSUME UNCHANGED received PROVE told' = told
  BY <1>2
<1>3. ASSUME UNCHANGED <<outside, conductor, live>>
      PROVE  UNCHANGED Atomic!vars
  BY <1>1, <1>2, <1>3 DEF outside, conductor, Atomic!vars
<1>4. CASE Tick /\ UNCHANGED live
  BY <1>1, <1>2, <1>4 DEF Tick, conductor, Atomic!Next, Atomic!Tick
<1>5. ASSUME NEW p \in Position, Publish(p), UNCHANGED live
      PROVE  Atomic!Next
  BY <1>1, <1>2, <1>5 DEF Publish, conductor, Atomic!Next, Atomic!Publish
<1>6. ASSUME NEW r \in Request, DeleteRequest(r)
      PROVE  Atomic!Next
  BY <1>2, <1>6
  DEF DeleteRequest, feedVars, outside, conductor, Atomic!Next, Atomic!ChangeYields
<1>7. CASE AcceptReply /\ UNCHANGED live
  <2>1. PICK at \in (Lookback + 1)..now : Atomic!ListEvents(done, lastKey, at)
    BY <1>7, AcceptIsCall
  <2>2. done \in SUBSET published /\ lastKey \in Position \cup {Atomic!NoKey}
    BY SameCursor DEF FeedInvariant, FeedInv, FeedTypeOK
  <2> QED
    BY <2>1, <2>2 DEF Atomic!Next
<1>8. CASE (StartListEvents \/ Return \/ LoseReply) /\ UNCHANGED live
  BY <1>3, <1>8 DEF StartListEvents, Return, LoseReply, Abandon
<1>9. ASSUME NEW p \in Position, ConvertLocally(p) \/ ResolveRequest(p) \/ ResolveFails(p)
      PROVE  UNCHANGED Atomic!vars
  BY <1>3, <1>9 DEF ConvertLocally, ResolveRequest, ResolveFails, ConvertNext, Abandon
<1>10. CASE UNCHANGED vars
  BY <1>3, <1>10 DEF vars, feedVars
<1> QED
  BY <1>4, <1>5, <1>6, <1>7, <1>8, <1>9, <1>10 DEF Next

\* Calls of ListEvents take effect at once when ConductorOne accepts the answer, or not
\* at all: the page, the cursor and the events are what one step would have brought.
THEOREM CallsAreAtomic == Spec => ImplementsAtomicFeed
<1>1. Init => CallAtOnce
  BY DEF Init, FeedInit, CallAtOnce, CallYields, ResultInv
<1>2. FeedInvariant /\ CallAtOnce /\ [Next]_vars => CallAtOnce'
  BY NextAtOnce
<1>3. FeedInvariant /\ CallAtOnce /\ [Next]_vars => [Atomic!Next]_(Atomic!vars)
  BY AtomicNext
<1> QED
  BY <1>1, <1>2, <1>3, AtomicInit, InvariantHolds, PTL
  DEF Spec, ImplementsAtomicFeed, Atomic!Spec
=============================================================================

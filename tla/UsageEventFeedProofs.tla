------------------------ MODULE UsageEventFeedProofs ------------------------
(***************************************************************************)
(* Theorems about the usage event feed, for every log of logins.           *)
(***************************************************************************)
EXTENDS UsageEventFeed, EventFeedProofs

\* A login, failed or not, moves the cursor to its own time.
LEMMA ReportedTimeOfSignals ==
  ASSUME NEW p \in Position
  PROVE  ReportedTime(Log[p]) = IF p \in Signals THEN TimeOf(p) ELSE NoTime
  BY LogAssumption DEF Signals, ReportedTime, TimeOf, NoTime

\* Every step of the usage feed keeps the invariant of a feed.
LEMMA NextInvariant == FeedInvariant /\ [Next]_vars => FeedInvariant'
<1> SUFFICES ASSUME FeedInv(Signals), [Next]_vars
             PROVE  FeedInv(Signals)'
  BY DEF FeedInvariant
<1>0. Signals \subseteq Position
  BY DEF Signals
<1>1. CASE Tick
  BY <1>1, TickPreserves
<1>2. ASSUME NEW p \in Position, Publish(p)
      PROVE  FeedInv(Signals)'
  BY <1>2, PublishPreserves
<1>3. CASE StartListEvents
  BY <1>0, <1>3, StartPreserves
<1>4. ASSUME NEW p \in Position, ConvertEvent(p)
      PROVE  FeedInv(Signals)'
  BY <1>0, <1>4, ConvertPreserves, ReportedTimeOfSignals DEF ConvertEvent
<1>5. CASE Return
  BY <1>5, ReturnPreserves
<1>6. CASE AcceptReply
  BY <1>0, <1>6, AcceptPreserves
<1>7. CASE LoseReply
  BY <1>7, EndCallPreserves DEF LoseReply
<1>8. CASE UNCHANGED vars
  BY <1>8, UnchangedPreserves DEF vars
<1> QED
  BY <1>1, <1>2, <1>3, <1>4, <1>5, <1>6, <1>7, <1>8 DEF Next

\* The inductive invariant of the usage feed, from the lemmas of EventFeed.
THEOREM UsageInvariantHolds == Spec => []FeedInvariant
<1>1. Init => FeedInvariant
  BY InitEstablishes DEF Init, FeedInvariant
<1> QED
  BY <1>1, NextInvariant, PTL DEF Spec

\* Cursors and pages of the usage feed's ListEvents keep their types.
THEOREM UsageTypesHold == Spec => []TypeOK
<1>1. FeedInvariant => TypeOK
  BY DEF FeedInvariant, FeedInv, TypeOK
<1> QED
  BY <1>1, UsageInvariantHolds, PTL

\* Between two calls no login that appears in order is lost.
THEOREM NoLoginSkipped == Spec => []NoPromptEventSkipped
<1>1. FeedInvariant => NoPromptEventSkipped
  BY DEF FeedInvariant, FeedInv, ConductorInv
<1> QED
  BY <1>1, UsageInvariantHolds, PTL

\* The same of the call in progress: what a page holds is exactly the
\* successful logins converted so far.
PageIsTheSuccessfulLogins ==
  {r.position : r \in result} = {p \in done : IsLogin(Log[p]) /\ Log[p].success}

\* What ConductorOne receives are exactly the successful logins processed.
THEOREM UsageIsExact == Spec => []UsageIsTheSuccessfulLogins
<1> DEFINE Both == UsageIsTheSuccessfulLogins /\ PageIsTheSuccessfulLogins
<1> USE DEF UsageIsTheSuccessfulLogins, PageIsTheSuccessfulLogins, LoginsReceived
<1>1. Init => Both
  BY DEF Init, FeedInit
<1>2. Both /\ [Next]_vars => Both'
  <2> SUFFICES ASSUME Both, [Next]_vars PROVE Both'
    OBVIOUS
  <2>1. CASE Tick \/ (\E p \in Position : Publish(p)) \/ StartListEvents \/ Return
    BY <2>1 DEF Tick, Publish, StartListEvents, Return, conductor, call
  <2>2. ASSUME NEW p \in Position, ConvertEvent(p) PROVE Both'
    <3>1. /\ done' = done \cup {p} /\ UNCHANGED <<delivered, received>>
          /\ result' = result \cup
                {[position |-> p, event |-> e] : e \in ConvertToUsageEvent(Log[p])}
      BY <2>2 DEF ConvertEvent, ConvertNext, conductor
    <3>2. CASE IsLogin(Log[p]) /\ Log[p].success
      <4>1. \E e : ConvertToUsageEvent(Log[p]) = {e}
        BY <3>2 DEF ConvertToUsageEvent
      <4>2. PICK e : result' = result \cup {[position |-> p, event |-> e]}
        BY <3>1, <4>1
      <4>3. {r.position : r \in result'} = {r.position : r \in result} \cup {p}
        <5> DEFINE new == [position |-> p, event |-> e]
        <5>1. new.position = p /\ result' = result \cup {new}
          BY <4>2
        <5> HIDE DEF new
        <5> QED
          BY <5>1
      <4> QED
        BY <3>1, <3>2, <4>3
    <3>3. CASE ~(IsLogin(Log[p]) /\ Log[p].success)
      <4>1. result' = result
        BY <3>1, <3>3 DEF ConvertToUsageEvent
      <4> QED
        BY <3>1, <3>3, <4>1
    <3> QED
      BY <3>2, <3>3
  <2>3. CASE AcceptReply
    <3>1. /\ delivered' = delivered \cup done /\ received' = received \cup result
          /\ done' = {} /\ result' = {}
      BY <2>3 DEF AcceptReply, EndCall
    <3>2. {r.position : r \in received'}
            = {r.position : r \in received} \cup {r.position : r \in result}
      BY <3>1
    <3> QED
      BY <3>1, <3>2
  <2>4. CASE LoseReply
    BY <2>4 DEF LoseReply, Abandon, EndCall, conductor
  <2>5. CASE UNCHANGED vars
    BY <2>5 DEF vars, feedVars, conductor, call
  <2> QED
    BY <2>1, <2>2, <2>3, <2>4, <2>5 DEF Next
<1>3. Both => UsageIsTheSuccessfulLogins
  OBVIOUS
<1> QED
  BY <1>1, <1>2, <1>3, PTL DEF Spec

\* An answer that ConductorOne accepts is a delivery of what is new in it.
LEMMA AcceptDelivers ==
  ASSUME FeedInvariant, AcceptReply
  PROVE  Subscription!Deliver(done \ delivered)
<1>1. Signals \subseteq Position /\ FeedInv(Signals)
  BY DEF Signals, FeedInvariant
<1> QED
  BY <1>1, DeliveryFacts
  DEF Subscription!Deliver, Subscription!CoveredUpTo, outside, NoTime

\* Every other step leaves what a subscription shows, or publishes a login.
LEMMA SubscriptionNext ==
  FeedInvariant /\ [Next]_vars => [Subscription!Next]_(Subscription!vars)
<1> SUFFICES ASSUME FeedInvariant, [Next]_vars
             PROVE  Subscription!Next \/ UNCHANGED Subscription!vars
  OBVIOUS
<1>1. ASSUME UNCHANGED <<outside, conductor>>
      PROVE  UNCHANGED Subscription!vars
  BY <1>1 DEF outside, conductor, Subscription!vars, Watermark
<1>2. CASE Tick
  BY <1>2 DEF Tick, conductor, Subscription!vars, Watermark
<1>3. ASSUME NEW p \in Position, Publish(p)
      PROVE  Subscription!Next
  BY <1>3 DEF Publish, conductor, Subscription!Next, Subscription!Publish, Watermark
<1>4. CASE AcceptReply
  <2>1. Subscription!Deliver(done \ delivered)
    BY <1>4, AcceptDelivers
  <2>2. done \subseteq published
    BY DEF FeedInvariant, FeedInv, FeedTypeOK
  <2> QED
    BY <2>1, <2>2 DEF Subscription!Next
<1>5. ASSUME NEW p \in Position, ConvertEvent(p)
      PROVE  UNCHANGED <<outside, conductor>>
  BY <1>5 DEF ConvertEvent, ConvertNext
<1>6. CASE StartListEvents \/ Return \/ LoseReply \/ UNCHANGED vars
  BY <1>1, <1>6 DEF StartListEvents, Return, LoseReply, Abandon, vars, feedVars
<1> QED
  BY <1>1, <1>2, <1>3, <1>4, <1>5, <1>6 DEF Next

\* The usage feed implements the subscription, like the audit feed: what its
\* cursor passes was delivered, and no page is older than the one before.
THEOREM UsageImplements == Spec => ImplementsSubscription
<1>1. Init => Subscription!Init
  BY DEF Init, FeedInit, Subscription!Init, Watermark, EmptyCursor, NoTime
<1> QED
  BY <1>1, SubscriptionNext, UsageInvariantHolds, PTL
  DEF Spec, ImplementsSubscription, Subscription!Spec

\* Every answer takes the cursor of the usage feed's ListEvents forward, so a cycle
\* asks for no page twice, and a later cycle for nothing before an earlier one.
THEOREM UsagePagesAdvance == Spec => [][AcceptReply => CursorAdvances]_vars
<1>1. FeedInvariant /\ [Next]_vars => [AcceptReply => CursorAdvances]_vars
  BY ReplyAdvances DEF FeedInvariant
<1> QED
  BY <1>1, UsageInvariantHolds, PTL DEF Spec
-----------------------------------------------------------------------------
(* Calls of ListEvents are atomic. *)

Reported == [p \in Position |-> ReportedAt(p)]

\* A call has yielded what one step would have.
CallYields ==
  ResultInv /\ \A p \in done : EventsAt(result, p) = ConvertToUsageEvent(Log[p])

CallAtOnce == CallYields /\ (pc # "idle" => AtOnce(Reported))

\* A conversion yields its login and moves the cursor as one step would.
LEMMA ConvertKeepsAtOnce ==
  ASSUME FeedInvariant, CallAtOnce, NEW p \in Position, ConvertEvent(p)
  PROVE  CallAtOnce'
<1>1. FeedInv(Signals) /\ AtOnce(Reported) /\ CallYields
  BY DEF FeedInvariant, ConvertEvent, ConvertNext, CallAtOnce
<1>2. \A q \in Position : ReportedAt(q) \in Nat
  BY LogAssumption, ReportedTimeOfSignals DEF ReportedAt, NoTime
<1>3. Reported \in [Position -> Nat] /\ Reported[p] = ReportedTime(Log[p])
  BY <1>2 DEF Reported, ReportedAt
<1>4. AtOnce(Reported)'
  BY <1>1, <1>3, ConvertAtOnce DEF ConvertEvent
<1>5. /\ ResultInv'
      /\ done' = done \cup {p}
      /\ EventsAt(result', p) = ConvertToUsageEvent(Log[p])
      /\ \A q \in done : EventsAt(result', q) = EventsAt(result, q)
  BY <1>1, ConvertAdds DEF CallYields, ConvertEvent
<1>6. CallYields'
  BY <1>1, <1>5 DEF CallYields
<1> QED
  BY <1>4, <1>6 DEF CallAtOnce

\* No step makes a call differ from one made at once.
LEMMA NextAtOnce ==
  ASSUME FeedInvariant, CallAtOnce, [Next]_vars
  PROVE  CallAtOnce'
<1>1. FeedInv(Signals) /\ now \in Nat
  BY DEF FeedInvariant, FeedInv, FeedTypeOK
<1>2. ASSUME UNCHANGED <<done, result>> PROVE CallYields'
  BY <1>2 DEF CallAtOnce, CallYields, ResultInv
<1>3. CASE Tick \/ (\E p \in Position : Publish(p)) \/ UNCHANGED vars
  <2>1. UNCHANGED <<call, conductor>> /\ (now' = now \/ now' = now + 1)
    BY <1>3 DEF Tick, Publish, vars, feedVars, outside
  <2>2. UNCHANGED <<pc, done, result>>
    BY <2>1 DEF call
  <2>3. pc # "idle" => AtOnce(Reported)'
    BY <1>1, <2>1, OthersAtOnce DEF CallAtOnce
  <2> QED
    BY <1>2, <2>2, <2>3 DEF CallAtOnce
<1>4. CASE StartListEvents
  <2>1. UNCHANGED <<done, result>>
    BY <1>4 DEF StartListEvents
  <2> QED
    BY <1>1, <1>2, <1>4, <2>1, StartAtOnce DEF CallAtOnce
<1>5. ASSUME NEW p \in Position, ConvertEvent(p)
      PROVE  CallAtOnce'
  BY <1>5, ConvertKeepsAtOnce
<1>6. CASE Return
  <2>1. UNCHANGED <<done, result>> /\ pc = "converting"
    BY <1>6 DEF Return
  <2> QED
    BY <1>1, <1>2, <1>6, <2>1, ReturnAtOnce DEF CallAtOnce
<1>7. CASE EndCall
  BY <1>7 DEF EndCall, CallAtOnce, CallYields, ResultInv
<1> QED
  BY <1>3, <1>4, <1>5, <1>6, <1>7 DEF Next, AcceptReply, LoseReply, Abandon

\* The instance takes over the definitions of the cursor.
LEMMA SameCursor ==
  /\ \A c, at : Atomic!UnmarshalEventPageCursor(c, at) = UnmarshalEventPageCursor(c, at)
  /\ \A c, t : Atomic!UpdateLatestEvent(c, t) = UpdateLatestEvent(c, t)
  /\ \A c : Atomic!PrepareNextSync(c) = PrepareNextSync(c)
  /\ \A c, p : Atomic!Ahead(c, p) = Ahead(c, p)
  /\ Atomic!NoKey = NoKey /\ Atomic!NoTime = NoTime
  BY DEF Atomic!UnmarshalEventPageCursor, UnmarshalEventPageCursor, Atomic!DefaultStart,
         DefaultStart, Atomic!UpdateLatestEvent, UpdateLatestEvent, Atomic!PrepareNextSync,
         PrepareNextSync, Atomic!Ahead, Ahead, Atomic!NoKey, NoKey, Atomic!NoTime, NoTime

\* What ConductorOne was told of a login grows by what the call yielded for it.
LEMMA AcceptTells ==
  ASSUME CallYields, AcceptReply, done \subseteq Position
  PROVE  Atomic!Tell(done)
<1> DEFINE told == [p \in done |-> EventsAt(result, p)]
           yields == [p \in Position |-> {ConvertToUsageEvent(Log[p])}]
           before == [p \in Position |-> EventsAt(received, p)]
<1>1. delivered' = delivered \cup done
  BY DEF AcceptReply
<1>2. \A p \in done : told[p] \in yields[p]
  BY DEF CallYields
<1>3. told \in [done -> UNION {yields[p] : p \in done}]
  BY <1>2
<1>4. \A p : EventsAt(received', p) = IF p \in done
                                     THEN EventsAt(received, p) \cup EventsAt(result, p)
                                     ELSE EventsAt(received, p)
  BY AcceptAdds DEF CallYields
<1>5. [p \in Position |-> EventsAt(received, p)]'
        = [p \in Position |-> IF p \in done THEN before[p] \cup told[p] ELSE before[p]]
  BY <1>4
<1> QED
  BY <1>1, <1>2, <1>3, <1>5 DEF Atomic!Tell

\* The answer ConductorOne accepts is a call of the atomic feed.
LEMMA AcceptIsCall ==
  ASSUME FeedInvariant, CallAtOnce, AcceptReply
  PROVE  Atomic!Next
<1>1. /\ FeedInv(Signals) /\ AtOnce(Reported) /\ CallYields
      /\ done \subseteq Position /\ done \subseteq published
      /\ lastKey \in Position \cup {NoKey}
  BY DEF FeedInvariant, CallAtOnce, AcceptReply, FeedInv, FeedTypeOK
<1>2. /\ \A p \in done : Ahead(Decoded, p) /\ TimeOf(p) <= now
      /\ \A p \in prompt :
            Ahead(Decoded, p) /\ (\E q \in done : p <= q) => p \in done
      /\ lastKey # NoKey => lastKey \in done /\ \A p \in done : p <= lastKey
      /\ \E latest \in Reports(Reported, done) :
            /\ \A t \in Reports(Reported, done) : t <= latest
            /\ stored' = IF lastKey = NoKey
                         THEN PrepareNextSync(UpdateLatestEvent(Decoded, latest))
                         ELSE [UpdateLatestEvent(Decoded, latest)
                                 EXCEPT !.lastKey = lastKey]
  BY <1>1, AcceptAtOnce
<1>3. PICK at \in (Lookback + 1)..now : UnmarshalEventPageCursor(stored, at) = Decoded
  BY <1>1 DEF AtOnce
<1>4. Atomic!IsPage(done, lastKey, Decoded)
  BY <1>2, SameCursor DEF Atomic!IsPage
<1>5. Atomic!MoveCursor(done, lastKey, Decoded)
  <2>1. Reports(Reported, done) = {Atomic!NoTime} \cup {ReportedAt(p) : p \in done}
    BY <1>1, SameCursor DEF Reports, Reported
  <2> QED
    BY <1>2, <2>1, SameCursor DEF Atomic!MoveCursor
<1>6. Atomic!Tell(done)
  BY <1>1, AcceptTells
<1>7. UNCHANGED <<published, prompt, now>>
  BY DEF AcceptReply, outside
<1>8. Atomic!ListEvents(done, lastKey, at)
  BY <1>3, <1>4, <1>5, <1>6, <1>7, SameCursor DEF Atomic!ListEvents
<1>9. done \in SUBSET published /\ lastKey \in Position \cup {Atomic!NoKey}
  BY <1>1, SameCursor
<1> QED
  BY <1>3, <1>8, <1>9 DEF Atomic!Next

\* Every step of the usage feed is one of the atomic feed, or none.
LEMMA AtomicNext ==
  ASSUME FeedInvariant, CallAtOnce, [Next]_vars
  PROVE  [Atomic!Next]_(Atomic!vars)
<1> DEFINE told == [p \in Position |-> EventsAt(received, p)]
<1>1. ASSUME UNCHANGED received PROVE told' = told
  BY <1>1
<1>2. ASSUME UNCHANGED <<outside, conductor>>
      PROVE  UNCHANGED Atomic!vars
  BY <1>1, <1>2 DEF outside, conductor, Atomic!vars
<1>3. CASE Tick
  BY <1>1, <1>3 DEF Tick, conductor, Atomic!Next, Atomic!Tick
<1>4. ASSUME NEW p \in Position, Publish(p)
      PROVE  Atomic!Next
  BY <1>1, <1>4 DEF Publish, conductor, Atomic!Next, Atomic!Publish
<1>5. CASE AcceptReply
  BY <1>5, AcceptIsCall
<1>6. CASE StartListEvents \/ Return \/ LoseReply \/ UNCHANGED vars
  BY <1>2, <1>6 DEF StartListEvents, Return, LoseReply, Abandon, vars, feedVars
<1>7. ASSUME NEW p \in Position, ConvertEvent(p)
      PROVE  UNCHANGED Atomic!vars
  BY <1>2, <1>7 DEF ConvertEvent, ConvertNext
<1> QED
  BY <1>3, <1>4, <1>5, <1>6, <1>7 DEF Next

\* The calls of the usage feed take effect at once or not at all: a login reaches
\* ConductorOne in the step that takes the cursor past it.
THEOREM UsageCallsAreAtomic == Spec => ImplementsAtomicFeed
<1>1. Init => CallAtOnce
  BY DEF Init, FeedInit, CallAtOnce, CallYields, ResultInv
<1>2. Init => Atomic!Init
  <2>1. Init => \A p : EventsAt(received, p) = {}
    BY DEF Init, FeedInit, EventsAt
  <2> QED
    BY <2>1 DEF Init, FeedInit, Atomic!Init, Atomic!EmptyCursor, Atomic!NoTime,
       Atomic!NoKey, EmptyCursor, NoTime, NoKey
<1>3. FeedInvariant /\ CallAtOnce /\ [Next]_vars => CallAtOnce'
  BY NextAtOnce
<1>4. FeedInvariant /\ CallAtOnce /\ [Next]_vars => [Atomic!Next]_(Atomic!vars)
  BY AtomicNext
<1> QED
  BY <1>1, <1>2, <1>3, <1>4, UsageInvariantHolds, PTL
  DEF Spec, ImplementsAtomicFeed, Atomic!Spec
=============================================================================

---------------------------- MODULE SignalLoopProofs ----------------------------
(***************************************************************************)
(* Proofs about SignalLoop, for any handlers, signals, tombstones and      *)
(* bounds: first what the bus keeps, then what the investigators do on it. *)
(***************************************************************************)
EXTENDS SignalLoop, SequenceTheorems, TLAPS

-----------------------------------------------------------------------------
(* The steps of the loop, as the bus sees them.                            *)

BusStep ==
  \/ \E subject \in Subjects, h \in Handlers : Subscribe(subject, h)
  \/ \E subject \in Subjects, signal \in AnySignal, then \in Stages \cup {Idle} :
       Publish(subject, Payload(signal), then)
  \/ \E doing \in Stages \cup {Idle} : HandlerContinues(doing)
  \/ HandlerRaises
  \/ CallHandler(Start)
  \/ PublishReturns
  \/ UNCHANGED busVars

\* Every call in progress is of a published message, and has called some of its handlers.
CallsInv ==
  \A d \in DOMAIN calls :
    /\ calls[d].message \in DOMAIN published
    /\ calls[d].called \in 0..Len(handlers[SubjectOf(calls[d].message)])

\* There are six levels of context, L0 first (ContextLevels).
LEMMA LevelsAre ==
  DOMAIN ContextLevels = 1..6 /\ Len(ContextLevels) = 6 /\ ContextLevels[1] = "L0"
BY DEF ContextLevels

\* The level after a level is a level, or None.
LEMMA NextLevel ==
  ASSUME NEW level \in Range(ContextLevels), NEW open \in BOOLEAN
  PROVE  PlanNextContextLevel(level, open) \in Range(ContextLevels) \cup {None}
<1>2. PICK i \in 1..6 : ContextLevels[i] = level
  BY LevelsAre DEF Range
<1>3. IndexOf(level) \in 1..6
  BY LevelsAre, <1>2 DEF IndexOf
<1>4. "L0" \in Range(ContextLevels)
  BY LevelsAre DEF Range
<1>5. IndexOf(level) # 6 => ContextLevels[IndexOf(level) + 1] \in Range(ContextLevels)
  BY LevelsAre, <1>3 DEF Range
<1> QED
  BY LevelsAre, <1>3, <1>4, <1>5 DEF PlanNextContextLevel

\* An investigation starts at a level (plan_next_context_level with no current one).
LEMMA FirstLevel == PlanNextContextLevel(None, TRUE) \in Range(ContextLevels)
BY LevelsAre DEF PlanNextContextLevel, Range

\* A candidate of a candidate is the same candidate.
LEMMA CandidateAgain == \A signal \in AnySignal : Candidate(signal) \in AnySignal
<1> SUFFICES ASSUME NEW s \in Signals PROVE Candidate(Candidate(s)) = Candidate(s)
  BY DEF AnySignal
<1> QED
  BY DEF Candidate

\* Whatever the loop does is, to the bus, one of its operations or nothing.
LEMMA NextIsBusStep ==
  ASSUME TypeOK, CallsInv, [Next]_vars
  PROVE  BusStep
<1>1. ASSUME NEW subject \in Subjects, NEW signal \in Signals, Source(subject, signal)
      PROVE  BusStep
  BY <1>1 DEF Source, BusStep, AnySignal, Stages
<1>2. CASE Tick
  BY <1>2 DEF Tick, BusStep
<1>3. ASSUME NEW subject \in Subjects, NEW h \in Handlers, Subscribes(subject, h) PROVE BusStep
  BY <1>3 DEF Subscribes, BusStep
<1>4. CASE Deliver
  BY <1>4 DEF Deliver, BusStep
<1>5. CASE Screen
  BY <1>5, FirstLevel DEF Screen, BusStep, HandlerReturns, Stages
<1>6. ASSUME NEW open \in BOOLEAN, Expand(open) PROVE BusStep
  BY <1>6, NextLevel DEF Expand, BusStep, InContext, Stages
<1>7. ASSUME NEW open \in BOOLEAN, NEW refs \in SUBSET {"evidence"}, Conclude(open, refs)
      PROVE  BusStep
  <2>1. CASE HandlerRaises
    BY <2>1 DEF BusStep
  <2>2. CASE ~HandlerRaises
    <3> DEFINE i == Innermost.message
    <3>1. calls # <<>> /\ Len(calls) \in DOMAIN calls
      BY <1>7 DEF Conclude, InContext, TypeOK
    <3>2. i \in DOMAIN published
      BY <3>1 DEF CallsInv, Innermost
    <3>3. SubjectOf(i) \in Subjects /\ Signal(i) \in AnySignal
      <4>1. published[i] \in PublishedMessages
        BY <3>2 DEF TypeOK
      <4> QED
        BY <4>1 DEF SubjectOf, Signal, PublishedMessages
    <3>4. Publish(SubjectOf(i), Payload(Candidate(Signal(i))), "told")
      BY <1>7, <2>2 DEF Conclude
    <3> QED
      BY <3>3, <3>4, CandidateAgain DEF BusStep, Stages
  <2> QED
    BY <2>1, <2>2
<1>8. CASE Finish
  BY <1>8 DEF Finish, BusStep, HandlerReturns, Stages
<1>9. CASE UNCHANGED vars
  BY <1>9 DEF vars, BusStep, busVars
<1> QED
  BY <1>1, <1>2, <1>3, <1>4, <1>5, <1>6, <1>7, <1>8, <1>9 DEF Next, Investigate

-----------------------------------------------------------------------------
(* What each step of the bus does, element by element.                     *)

\* A sequence without its last element.
LEMMA FrontOf ==
  ASSUME NEW S, NEW s \in Seq(S), s # <<>>
  PROVE  /\ Front(s) \in Seq(S)
         /\ Len(s) \in DOMAIN s
         /\ Len(Front(s)) = Len(s) - 1
         /\ \A d \in DOMAIN Front(s) : d \in DOMAIN s /\ Front(s)[d] = s[d]
<1>1. Len(s) \in Nat /\ Len(s) > 0 /\ Len(s) \in DOMAIN s /\ \A d \in 1..(Len(s) - 1) : s[d] \in S
  OBVIOUS
<1> DEFINE m == Len(s)
<1>2. m \in Nat /\ m > 0 /\ \A d \in 1..(m - 1) : s[d] \in S
  BY <1>1
<1> HIDE DEF m
<1>3. /\ m - 1 \in Int
      /\ m - 1 = IF 1 <= m - 1 THEN m - 1 - 1 + 1 ELSE 0
      /\ m - 1 - 1 + 1 = m - 1
      /\ \A d \in 1..(m - 1) : 1 + d - 1 = d
  BY <1>2
<1>4. /\ SubSeq(s, 1, m - 1) \in Seq(S)
      /\ Len(SubSeq(s, 1, m - 1)) = IF 1 <= m - 1 THEN m - 1 - 1 + 1 ELSE 0
      /\ \A d \in 1..(m - 1 - 1 + 1) : SubSeq(s, 1, m - 1)[d] = s[1 + d - 1]
  BY <1>2, <1>3, SubSeqProperties
<1>5. /\ Front(s) \in Seq(S)
      /\ Len(Front(s)) = m - 1
      /\ \A d \in 1..(m - 1) : Front(s)[d] = s[d]
  BY <1>3, <1>4 DEF Front, m
<1>6. DOMAIN Front(s) = 1..(m - 1) /\ DOMAIN s = 1..m
  BY <1>5 DEF m
<1>7. \A d \in 1..(m - 1) : d \in 1..m
  BY <1>2
<1> QED
  BY <1>1, <1>5, <1>6, <1>7 DEF m

\* A sequence with one element appended.
LEMMA GrownByOne ==
  ASSUME NEW S, NEW s \in Seq(S), NEW e \in S
  PROVE  /\ Len(s) \in Nat
         /\ DOMAIN s = 1..Len(s)
         /\ DOMAIN Append(s, e) = 1..(Len(s) + 1)
         /\ \A a \in 1..Len(s) : Append(s, e)[a] = s[a]
         /\ Append(s, e)[Len(s) + 1] = e
OBVIOUS

\* A sequence with one element replaced.
LEMMA ReplacedIn ==
  ASSUME NEW S, NEW s \in Seq(S), NEW n \in DOMAIN s, NEW e \in S
  PROVE  /\ [s EXCEPT ![n] = e] \in Seq(S)
         /\ Len([s EXCEPT ![n] = e]) = Len(s)
         /\ \A d \in DOMAIN s : [s EXCEPT ![n] = e][d] = IF d = n THEN e ELSE s[d]
OBVIOUS

\* A call of publish() is built from its three parts.
LEMMA CallIsCall ==
  ASSUME NEW i \in Nat, NEW n \in Nat, NEW stage \in Stages \cup {Idle}
  PROVE  /\ Call(i, n, stage) \in CallsOfPublish
         /\ Call(i, n, stage).message = i
         /\ Call(i, n, stage).called = n
         /\ Call(i, n, stage).doing = stage
BY DEF Call, CallsOfPublish

\* What is left of the calls in progress when the innermost moves on.
LEMMA CallsWithEffect ==
  ASSUME NEW doing \in Stages \cup {Idle}, calls \in Seq(CallsOfPublish)
  PROVE  /\ CallsWith(doing) \in Seq(CallsOfPublish)
         /\ Len(CallsWith(doing)) = Len(calls)
         /\ \A d \in DOMAIN calls :
              /\ CallsWith(doing)[d].message = calls[d].message
              /\ CallsWith(doing)[d].called = calls[d].called
              /\ d # Len(calls) => CallsWith(doing)[d].doing = calls[d].doing
              /\ d = Len(calls) => CallsWith(doing)[d].doing = doing
<1>1. CASE calls = <<>>
  BY <1>1 DEF CallsWith
<1>2. CASE calls # <<>>
  <2> DEFINE e == Call(Innermost.message, Innermost.called, doing)
  <2>1. Len(calls) \in DOMAIN calls
    BY <1>2
  <2>2. Innermost.message \in Nat /\ Innermost.called \in Nat
    <3>1. Innermost \in CallsOfPublish
      BY <2>1 DEF Innermost
    <3> QED
      BY <3>1 DEF CallsOfPublish
  <2>3. /\ e \in CallsOfPublish /\ e.message = calls[Len(calls)].message
        /\ e.called = calls[Len(calls)].called /\ e.doing = doing
    BY <2>2, CallIsCall DEF Innermost
  <2>4. CallsWith(doing) = [calls EXCEPT ![Len(calls)] = e]
    BY <1>2 DEF CallsWith
  <2> HIDE DEF e
  <2> QED
    BY <2>1, <2>3, <2>4, ReplacedIn
<1> QED
  BY <1>1, <1>2

\* subscribe() adds one subscription to one subject.
LEMMA SubscribeEffect ==
  ASSUME TypeOK, NEW s \in Subjects, NEW h \in Handlers, Subscribe(s, h)
  PROVE  /\ handlers' \in [Subjects -> Seq(Handlers)]
         /\ heard' \in [Subjects -> Seq(Seq(Nat))]
         /\ \A t \in Subjects : t # s => handlers'[t] = handlers[t] /\ heard'[t] = heard[t]
         /\ handlers'[s] = Append(handlers[s], h)
         /\ heard'[s] = Append(heard[s], <<>>)
         /\ UNCHANGED <<published, calls, cut>>
BY DEF Subscribe, TypeOK

\* publish() keeps the message and starts a call inside those in progress.
LEMMA PublishEffect ==
  ASSUME TypeOK, NEW s \in Subjects, NEW signal \in AnySignal, NEW then \in Stages \cup {Idle},
         Publish(s, Payload(signal), then)
  PROVE  /\ published' = Append(published, Message(s, Payload(signal)))
         /\ Message(s, Payload(signal)) \in PublishedMessages
         /\ calls' \in Seq(CallsOfPublish)
         /\ Len(calls') = Len(calls) + 1
         /\ \A d \in DOMAIN calls : /\ calls'[d].message = calls[d].message
                                    /\ calls'[d].called = calls[d].called
                                    /\ d # Len(calls) => calls'[d].doing = calls[d].doing
                                    /\ d = Len(calls) => calls'[d].doing = then
         /\ calls'[Len(calls')] = Call(Len(published) + 1, 0, Idle)
         /\ UNCHANGED <<handlers, heard, cut>>
<1>1. Message(s, Payload(signal)) \in PublishedMessages
  <2>1. Payload(signal) \in [signal : AnySignal, at : 0..MaxTime]
    BY DEF Payload, TypeOK
  <2>2. Len(handlers[s]) \in Nat
    BY DEF TypeOK
  <2>3. \A c \in Range(calls) : c.message \in Nat /\ c.called \in Nat
    <3> SUFFICES ASSUME NEW d \in DOMAIN calls
                 PROVE  calls[d].message \in Nat /\ calls[d].called \in Nat
      BY DEF Range
    <3>1. calls[d] \in CallsOfPublish
      BY DEF TypeOK
    <3> QED
      BY <3>1 DEF CallsOfPublish
  <2> QED
    BY <2>1, <2>2, <2>3 DEF Message, PublishedMessages
<1>2. calls \in Seq(CallsOfPublish) /\ Len(published) + 1 \in Nat
  BY DEF TypeOK
<1>3. Call(Len(published) + 1, 0, Idle) \in CallsOfPublish
  BY <1>2, CallIsCall
<1>4. calls' = Append(CallsWith(then), Call(Len(published) + 1, 0, Idle))
  BY DEF Publish
<1>5. /\ UNCHANGED <<handlers, heard, cut>>
      /\ published' = Append(published, Message(s, Payload(signal)))
  BY DEF Publish
<1> QED
  BY <1>1, <1>2, <1>3, <1>4, <1>5, CallsWithEffect

\* A running handler moves on: only what the innermost call does changes.
LEMMA ContinueEffect ==
  ASSUME TypeOK, NEW doing \in Stages \cup {Idle}, HandlerContinues(doing)
  PROVE  /\ calls' \in Seq(CallsOfPublish)
         /\ Len(calls') = Len(calls) /\ Len(calls) \in DOMAIN calls
         /\ calls[Len(calls)].doing # Idle
         /\ \A d \in DOMAIN calls : /\ calls'[d].message = calls[d].message
                                    /\ calls'[d].called = calls[d].called
                                    /\ d # Len(calls) => calls'[d].doing = calls[d].doing
                                    /\ d = Len(calls) => calls'[d].doing = doing
         /\ UNCHANGED <<handlers, published, heard, cut>>
<1>1. calls \in Seq(CallsOfPublish) /\ Len(calls) \in DOMAIN calls /\ calls # <<>>
  BY DEF HandlerContinues, TypeOK
<1>2. calls' = CallsWith(doing) /\ calls[Len(calls)].doing # Idle
      /\ UNCHANGED <<handlers, published, heard, cut>>
  BY DEF HandlerContinues, Innermost
<1> QED
  BY <1>1, <1>2, CallsWithEffect

\* A call that ends, one way or the other.
LEMMA EndEffect ==
  ASSUME TypeOK, HandlerRaises \/ PublishReturns
  PROVE  /\ calls' \in Seq(CallsOfPublish)
         /\ Len(calls) \in DOMAIN calls
         /\ Len(calls') = Len(calls) - 1
         /\ \A d \in DOMAIN calls' : d \in DOMAIN calls /\ calls'[d] = calls[d]
         /\ UNCHANGED <<handlers, published, heard>>
<1>1. calls \in Seq(CallsOfPublish) /\ calls # <<>> /\ calls' = Front(calls)
      /\ UNCHANGED <<handlers, published, heard>>
  BY DEF HandlerRaises, PublishReturns, TypeOK
<1> QED
  BY <1>1, FrontOf

\* The loop of publish() calls its next handler: one more has heard the message.
LEMMA CallEffect ==
  ASSUME TypeOK, CallsInv, CallHandler(Start)
  PROVE  LET d == Len(calls)
             i == calls[d].message
             s == SubjectOf(i)
             k == calls[d].called + 1
         IN  /\ d \in DOMAIN calls /\ s \in Subjects /\ i \in Nat /\ i \in DOMAIN published
             /\ calls[d].doing = Idle
             /\ k \in 1..Len(handlers[s])
             /\ calls' \in Seq(CallsOfPublish)
             /\ Len(calls') = Len(calls)
             /\ \A e \in DOMAIN calls : e # d => calls'[e] = calls[e]
             /\ calls'[d] = Call(i, k, Start[handlers[s][k]])
             /\ UNCHANGED <<handlers, published, cut>>
             /\ heard' = [heard EXCEPT ![s][k] = Append(heard[s][k], i)]
<1> DEFINE d == Len(calls)
           i == calls[d].message
           s == SubjectOf(i)
           k == calls[d].called + 1
<1>1. d \in DOMAIN calls /\ calls[d] \in CallsOfPublish /\ calls[d].doing = Idle
  BY DEF CallHandler, TypeOK, Innermost
<1>2. i \in DOMAIN published /\ calls[d].called \in 0..Len(handlers[s]) /\ i \in Nat
  BY <1>1 DEF CallsInv, CallsOfPublish
<1>3. s \in Subjects
  <2>1. published[i] \in PublishedMessages
    BY <1>2 DEF TypeOK
  <2> QED
    BY <2>1 DEF PublishedMessages, SubjectOf
<1>4. k \in 1..Len(handlers[s]) /\ handlers[s] \in Seq(Handlers)
  BY <1>2, <1>3 DEF CallHandler, HandlersLeft, TypeOK, Innermost
<1>5. Start[handlers[s][k]] \in Stages
  BY <1>4 DEF Start, Stages
<1>6. /\ calls' = [calls EXCEPT ![d] = Call(i, k, Start[handlers[s][k]])]
      /\ heard' = [heard EXCEPT ![s][k] = Append(@, i)]
      /\ UNCHANGED <<handlers, published, cut>>
  BY DEF CallHandler, NextHandler, Innermost
<1>8. Call(i, k, Start[handlers[s][k]]) \in CallsOfPublish
  BY <1>2, <1>4, <1>5, CallIsCall
<1>9. heard' = [heard EXCEPT ![s][k] = Append(heard[s][k], i)]
  BY <1>6
<1>10. calls \in Seq(CallsOfPublish)
  BY DEF TypeOK
<1>11. /\ calls' \in Seq(CallsOfPublish)
       /\ Len(calls') = Len(calls)
       /\ \A e \in DOMAIN calls : e # d => calls'[e] = calls[e]
       /\ calls'[d] = Call(i, k, Start[handlers[s][k]])
  BY <1>1, <1>6, <1>8, <1>10, ReplacedIn
<1> QED
  BY <1>1, <1>2, <1>3, <1>4, <1>6, <1>9, <1>11
-----------------------------------------------------------------------------
(* What the bus keeps.                                                     *)

\* subscription k of the subject has been called with message i
Heard(subject, k, i) == \E a \in DOMAIN heard[subject][k] : heard[subject][k][a] = i

Subscriptions == \A s \in Subjects : Len(heard[s]) = Len(handlers[s])

\* calls nest: an inner one is of a later message
Nested == \A d, e \in DOMAIN calls : d < e => calls[d].message < calls[e].message

Audiences == \A i \in DOMAIN published : published[i].audience <= Len(handlers[SubjectOf(i)])

HeardIsPublished ==
  \A s \in Subjects : \A k \in DOMAIN heard[s] : \A a \in DOMAIN heard[s][k] :
    heard[s][k][a] \in DOMAIN published

HeardOnce ==
  \A s \in Subjects : \A k \in DOMAIN heard[s] : \A a, b \in DOMAIN heard[s][k] :
    heard[s][k][a] = heard[s][k][b] => a = b

\* of a message in progress, those have heard whom the loop has called
CalledHaveHeard ==
  \A d \in DOMAIN calls : \A k \in DOMAIN heard[SubjectOf(calls[d].message)] :
    k <= calls[d].called <=> Heard(SubjectOf(calls[d].message), k, calls[d].message)

FinishedAreHeard ==
  \A i \in DOMAIN published \ (InProgress \cup cut) : \A k \in 1..published[i].audience :
    Heard(SubjectOf(i), k, i)

\* what is later than a message in progress was published inside its delivery
LaterIsInside ==
  \A d \in DOMAIN calls : \A j \in DOMAIN published :
    j > calls[d].message =>
      \E o \in published[j].inside : o.message = calls[d].message /\ o.called <= calls[d].called

BusInv ==
  /\ TypeOK
  /\ CallsInv
  /\ Subscriptions
  /\ Nested
  /\ Audiences
  /\ HeardIsPublished
  /\ HeardOnce
  /\ CalledHaveHeard
  /\ FinishedAreHeard
  /\ LaterIsInside
  /\ OvertakenOnlyByNested

\* A published message has a subject, an audience and the calls it was published inside of.
LEMMA PublishedType ==
  ASSUME TypeOK, NEW i \in DOMAIN published
  PROVE  /\ i \in Nat /\ i <= Len(published) /\ Len(published) \in Nat
         /\ published[i] \in PublishedMessages
         /\ SubjectOf(i) \in Subjects
         /\ published[i].audience \in Nat
         /\ \A o \in published[i].inside : o.message \in Nat /\ o.called \in Nat
<1>1. /\ i \in Nat /\ i <= Len(published) /\ Len(published) \in Nat
      /\ published[i] \in PublishedMessages
  BY DEF TypeOK
<1> QED
  BY <1>1 DEF PublishedMessages, SubjectOf

\* A call in progress is of a published message, and counts the handlers called.
LEMMA CallType ==
  ASSUME TypeOK, CallsInv, NEW d \in DOMAIN calls
  PROVE  /\ d \in Nat /\ d <= Len(calls) /\ Len(calls) \in Nat
         /\ calls[d] \in CallsOfPublish
         /\ calls[d].message \in DOMAIN published
         /\ calls[d].message \in Nat
         /\ calls[d].called \in Nat
         /\ SubjectOf(calls[d].message) \in Subjects
<1>1. d \in Nat /\ d <= Len(calls) /\ Len(calls) \in Nat /\ calls[d] \in CallsOfPublish
  BY DEF TypeOK
<1>2. calls[d].message \in DOMAIN published
  BY DEF CallsInv
<1>3. calls[d].message \in Nat /\ calls[d].called \in Nat
  BY <1>1 DEF CallsOfPublish
<1> QED
  BY <1>1, <1>2, <1>3, PublishedType

\* The lists of handlers and of what they heard are sequences of the same length.
LEMMA SubscriptionType ==
  ASSUME TypeOK, Subscriptions, NEW s \in Subjects
  PROVE  /\ Len(handlers[s]) \in Nat
         /\ DOMAIN handlers[s] = 1..Len(handlers[s])
         /\ DOMAIN heard[s] = 1..Len(handlers[s])
         /\ \A k \in DOMAIN heard[s] : /\ heard[s][k] \in Seq(Nat)
                                       /\ Len(heard[s][k]) \in Nat
                                       /\ DOMAIN heard[s][k] = 1..Len(heard[s][k])
<1>1. /\ handlers[s] \in Seq(Handlers) /\ heard[s] \in Seq(Seq(Nat))
      /\ Len(handlers[s]) = Len(heard[s])
  BY DEF TypeOK, Subscriptions
<1>2. \A k \in DOMAIN heard[s] : heard[s][k] \in Seq(Nat)
  BY <1>1
<1> QED
  BY <1>1, <1>2

\* subscribe() keeps the invariant: a late subscriber has heard nothing and owes nothing.
LEMMA SubscribeKeeps ==
  ASSUME BusInv, NEW s \in Subjects, NEW h \in Handlers, Subscribe(s, h), TypeOK'
  PROVE  BusInv'
<1> USE DEF BusInv
<1>1. /\ handlers' \in [Subjects -> Seq(Handlers)]
      /\ heard' \in [Subjects -> Seq(Seq(Nat))]
      /\ \A t \in Subjects : t # s => handlers'[t] = handlers[t] /\ heard'[t] = heard[t]
      /\ handlers'[s] = Append(handlers[s], h)
      /\ heard'[s] = Append(heard[s], <<>>)
      /\ UNCHANGED <<published, calls, cut>>
  BY SubscribeEffect
<1>2. \A t \in Subjects :
        /\ Len(handlers[t]) \in Nat /\ Len(handlers'[t]) \in Nat
        /\ Len(handlers'[t]) >= Len(handlers[t])
        /\ DOMAIN heard'[t] = 1..Len(handlers'[t])
        /\ Len(heard'[t]) = Len(handlers'[t])
        /\ \A k \in DOMAIN heard[t] : k \in DOMAIN heard'[t] /\ heard'[t][k] = heard[t][k]
        /\ \A k \in DOMAIN heard'[t] :
             k \notin DOMAIN heard[t] => heard'[t][k] = <<>> /\ k > Len(handlers[t])
  <2> SUFFICES ASSUME NEW t \in Subjects
      PROVE /\ Len(handlers[t]) \in Nat /\ Len(handlers'[t]) \in Nat
            /\ Len(handlers'[t]) >= Len(handlers[t])
            /\ DOMAIN heard'[t] = 1..Len(handlers'[t])
            /\ Len(heard'[t]) = Len(handlers'[t])
            /\ \A k \in DOMAIN heard[t] : k \in DOMAIN heard'[t] /\ heard'[t][k] = heard[t][k]
            /\ \A k \in DOMAIN heard'[t] :
                 k \notin DOMAIN heard[t] => heard'[t][k] = <<>> /\ k > Len(handlers[t])
    OBVIOUS
  <2>1. handlers[t] \in Seq(Handlers) /\ heard[t] \in Seq(Seq(Nat)) /\ Len(heard[t]) = Len(handlers[t])
    BY DEF TypeOK, Subscriptions
  <2>2. CASE t # s
    <3>1. handlers'[t] = handlers[t] /\ heard'[t] = heard[t]
      BY <1>1, <2>2
    <3>2. /\ Len(handlers[t]) \in Nat
          /\ DOMAIN heard[t] = 1..Len(handlers[t])
      BY <2>1
    <3> QED
      BY <2>1, <3>1, <3>2
  <2>3. CASE t = s
    <3> DEFINE n == Len(handlers[s])
               hs == heard[s]
    <3>1. n \in Nat /\ hs \in Seq(Seq(Nat)) /\ DOMAIN hs = 1..n /\ Len(hs) = n
      BY <2>1, <2>3
    <3>2. Len(handlers'[s]) = n + 1
      BY <1>1, <2>1, <2>3
    <3>3. heard'[s] = Append(hs, <<>>) /\ <<>> \in Seq(Nat)
      BY <1>1
    <3> HIDE DEF n, hs
    <3>4. /\ Len(heard'[s]) = n + 1
          /\ DOMAIN heard'[s] = 1..(n + 1)
          /\ \A k \in 1..n : heard'[s][k] = hs[k]
          /\ heard'[s][n + 1] = <<>>
      BY <3>1, <3>3, AppendProperties
    <3> QED
      BY <2>3, <3>1, <3>2, <3>4 DEF n, hs
  <2> QED
    BY <2>2, <2>3
<1>3. \A i \in DOMAIN published : SubjectOf(i)' = SubjectOf(i) /\ SubjectOf(i) \in Subjects
  BY <1>1, PublishedType DEF SubjectOf
<1>4. CallsInv'
  <2> SUFFICES ASSUME NEW d \in DOMAIN calls
               PROVE  /\ calls[d].message \in DOMAIN published
                      /\ calls[d].called \in 0..Len(handlers'[SubjectOf(calls[d].message)])
    BY <1>1, <1>3 DEF CallsInv
  <2> QED
    BY <1>2, CallType DEF CallsInv
<1>5. Subscriptions'
  BY <1>1, <1>2 DEF Subscriptions
<1>6. Nested'
  BY <1>1 DEF Nested
<1>7. Audiences'
  <2> SUFFICES ASSUME NEW i \in DOMAIN published
               PROVE  published[i].audience <= Len(handlers'[SubjectOf(i)])
    BY <1>1, <1>3 DEF Audiences
  <2>1. published[i].audience <= Len(handlers[SubjectOf(i)]) /\ published[i].audience \in Nat
    BY PublishedType DEF Audiences
  <2> QED
    BY <1>2, <1>3, <2>1
<1>8. HeardIsPublished'
  <2> SUFFICES ASSUME NEW t \in Subjects, NEW k \in DOMAIN heard'[t],
                      NEW a \in DOMAIN heard'[t][k]
               PROVE  heard'[t][k][a] \in DOMAIN published
    BY <1>1 DEF HeardIsPublished
  <2>1. k \in DOMAIN heard[t] /\ heard'[t][k] = heard[t][k]
    BY <1>2
  <2> QED
    BY <2>1 DEF HeardIsPublished
<1>9. HeardOnce'
  <2> SUFFICES ASSUME NEW t \in Subjects, NEW k \in DOMAIN heard'[t],
                      NEW a \in DOMAIN heard'[t][k], NEW b \in DOMAIN heard'[t][k],
                      heard'[t][k][a] = heard'[t][k][b]
               PROVE  a = b
    BY DEF HeardOnce
  <2>1. k \in DOMAIN heard[t] /\ heard'[t][k] = heard[t][k]
    BY <1>2
  <2> QED
    BY <2>1 DEF HeardOnce
<1>10. \A t \in Subjects : \A k \in DOMAIN heard'[t] : \A i :
         Heard(t, k, i)' <=> (k \in DOMAIN heard[t] /\ Heard(t, k, i))
  BY <1>2 DEF Heard
<1>11. CalledHaveHeard'
  <2> SUFFICES ASSUME NEW d \in DOMAIN calls,
                      NEW k \in DOMAIN heard'[SubjectOf(calls[d].message)]
               PROVE  k <= calls[d].called <=>
                        Heard(SubjectOf(calls[d].message), k, calls[d].message)'
    BY <1>1, <1>3, CallType DEF CalledHaveHeard
  <2>1. SubjectOf(calls[d].message) \in Subjects /\ calls[d].called \in Nat
        /\ calls[d].called <= Len(handlers[SubjectOf(calls[d].message)])
    BY CallType DEF CallsInv
  <2>2. CASE k \in DOMAIN heard[SubjectOf(calls[d].message)]
    BY <1>1, <1>3, <1>10, <2>1, <2>2, CallType DEF CalledHaveHeard
  <2>3. CASE k \notin DOMAIN heard[SubjectOf(calls[d].message)]
    <3>1. k > Len(handlers[SubjectOf(calls[d].message)]) /\ k \in Nat
      BY <1>2, <2>1, <2>3
    <3>2. ~Heard(SubjectOf(calls[d].message), k, calls[d].message)'
      BY <1>1, <1>3, <1>10, <2>1, <2>3, CallType
    <3> QED
      BY <1>2, <2>1, <3>1, <3>2
  <2> QED
    BY <2>2, <2>3
<1>12. FinishedAreHeard'
  <2> SUFFICES ASSUME NEW i \in DOMAIN published, i \notin InProgress, i \notin cut,
                      NEW k \in 1..published[i].audience
               PROVE  Heard(SubjectOf(i), k, i)'
    BY <1>1, <1>3 DEF FinishedAreHeard, InProgress
  <2>1. Heard(SubjectOf(i), k, i) /\ SubjectOf(i) \in Subjects
    BY <1>3 DEF FinishedAreHeard
  <2>2. k \in DOMAIN heard[SubjectOf(i)]
    <3>1. published[i].audience <= Len(handlers[SubjectOf(i)]) /\ published[i].audience \in Nat
          /\ Len(handlers[SubjectOf(i)]) \in Nat
      BY <1>2, <2>1, PublishedType DEF Audiences
    <3> QED
      BY <2>1, <3>1, SubscriptionType
  <2> QED
    BY <1>2, <1>3, <1>10, <2>1, <2>2
<1>13. LaterIsInside'
  BY <1>1 DEF LaterIsInside
<1>14. OvertakenOnlyByNested'
  <2> SUFFICES ASSUME NEW t \in Subjects, NEW k \in DOMAIN heard'[t],
                      NEW b \in DOMAIN heard'[t][k], NEW a \in 1..(b - 1),
                      heard'[t][k][a] > heard'[t][k][b]
               PROVE  \E outer \in published[heard'[t][k][a]].inside :
                        outer.message = heard'[t][k][b] /\ outer.called < k
    BY <1>1 DEF OvertakenOnlyByNested
  <2>1. CASE k \in DOMAIN heard[t]
    BY <1>2, <2>1 DEF OvertakenOnlyByNested
  <2>2. CASE k \notin DOMAIN heard[t]
    BY <1>2, <2>2
  <2> QED
    BY <2>1, <2>2
<1> QED
  BY <1>4, <1>5, <1>6, <1>7, <1>8, <1>9, <1>11, <1>12, <1>13, <1>14

\* publish() keeps it: the new message is inside every delivery in progress.
LEMMA PublishKeeps ==
  ASSUME BusInv, NEW s \in Subjects, NEW signal \in AnySignal, NEW then \in Stages \cup {Idle},
         Publish(s, Payload(signal), then), TypeOK'
  PROVE  BusInv'
<1> USE DEF BusInv
<1> DEFINE n == Len(published) + 1
           m == Len(calls) + 1
           msg == Message(s, Payload(signal))
<1>1. /\ published' = Append(published, msg)
      /\ msg \in PublishedMessages
      /\ calls' \in Seq(CallsOfPublish)
      /\ Len(calls') = Len(calls) + 1
      /\ \A d \in DOMAIN calls : /\ calls'[d].message = calls[d].message
                                 /\ calls'[d].called = calls[d].called
      /\ calls'[Len(calls')] = Call(Len(published) + 1, 0, Idle)
      /\ UNCHANGED <<handlers, heard, cut>>
  BY PublishEffect
<1>2. /\ DOMAIN published' = DOMAIN published \cup {n}
      /\ n \in Nat /\ n \notin DOMAIN published
      /\ \A i \in DOMAIN published : i \in Nat /\ i < n /\ published'[i] = published[i]
      /\ published'[n] = msg
  <2>1. published \in Seq(PublishedMessages)
    BY DEF TypeOK
  <2> HIDE DEF msg
  <2> QED
    BY <1>1, <2>1
<1>3. /\ published'[n].subject = s
      /\ \A i \in DOMAIN published : /\ published'[i].subject = published[i].subject
                                     /\ published[i].subject \in Subjects
  BY <1>2, PublishedType DEF SubjectOf, Message
<1>4. /\ DOMAIN calls' = DOMAIN calls \cup {m}
      /\ m \in Nat /\ m \notin DOMAIN calls
      /\ \A d \in DOMAIN calls : d \in Nat /\ d < m
      /\ calls'[m].message = n /\ calls'[m].called = 0
  <2>1. calls \in Seq(CallsOfPublish)
    BY DEF TypeOK
  <2>2. calls'[m] = Call(n, 0, Idle)
    BY <1>1
  <2> HIDE DEF n
  <2>3. calls'[m].message = n /\ calls'[m].called = 0
    BY <2>2 DEF Call
  <2> QED
    BY <1>1, <2>1, <2>3
<1>5. \A d \in DOMAIN calls : /\ calls[d].message \in DOMAIN published
                              /\ calls'[d].message = calls[d].message
                              /\ calls'[d].called = calls[d].called
                              /\ calls[d].message < n /\ calls[d].called \in Nat
                              /\ published'[calls'[d].message].subject =
                                   published[calls[d].message].subject
                              /\ published[calls[d].message].subject \in Subjects
  BY <1>1, <1>2, <1>3, CallType
<1>6. Len(handlers[s]) \in Nat /\ handlers' = handlers /\ heard' = heard /\ cut' = cut
  BY <1>1, SubscriptionType
<1> HIDE DEF n, m, msg
<1>7. CallsInv'
  <2> SUFFICES ASSUME NEW d \in DOMAIN calls'
               PROVE  /\ calls'[d].message \in DOMAIN published'
                      /\ calls'[d].called \in 0..Len(handlers[published'[calls'[d].message].subject])
    BY <1>6 DEF CallsInv, SubjectOf
  <2>1. CASE d \in DOMAIN calls
    BY <1>2, <1>5, <2>1 DEF CallsInv, SubjectOf
  <2>2. CASE d = m
    BY <1>2, <1>3, <1>4, <1>6, <2>2
  <2> QED
    BY <1>4, <2>1, <2>2
<1>8. Subscriptions'
  BY <1>6 DEF Subscriptions
<1>9. Nested'
  <2> SUFFICES ASSUME NEW d \in DOMAIN calls', NEW e \in DOMAIN calls', d < e
               PROVE  calls'[d].message < calls'[e].message
    BY DEF Nested
  <2>1. d \in DOMAIN calls
    BY <1>4
  <2>2. CASE e \in DOMAIN calls
    BY <1>5, <2>1, <2>2 DEF Nested
  <2>3. CASE e = m
    BY <1>4, <1>5, <2>1, <2>3
  <2> QED
    BY <1>4, <2>2, <2>3
<1>10. Audiences'
  <2> SUFFICES ASSUME NEW i \in DOMAIN published'
               PROVE  published'[i].audience <= Len(handlers[published'[i].subject])
    BY <1>6 DEF Audiences, SubjectOf
  <2>1. CASE i \in DOMAIN published
    BY <1>2, <1>3, <2>1 DEF Audiences, SubjectOf
  <2>2. CASE i = n
    <3>1. msg.audience = Len(handlers[s])
      BY DEF msg, Message
    <3> QED
      BY <1>2, <1>3, <1>6, <2>2, <3>1
  <2> QED
    BY <1>2, <2>1, <2>2
<1>11. HeardIsPublished'
  BY <1>2, <1>6 DEF HeardIsPublished
<1>12. HeardOnce'
  BY <1>6 DEF HeardOnce
<1>14. CalledHaveHeard'
  <2> SUFFICES ASSUME NEW d \in DOMAIN calls',
                      NEW t \in Subjects, t = published'[calls'[d].message].subject,
                      NEW k \in DOMAIN heard[t]
               PROVE  k <= calls'[d].called <=> Heard(t, k, calls'[d].message)
    <3>1. \A d \in DOMAIN calls' : published'[calls'[d].message].subject \in Subjects
      BY <1>3, <1>4, <1>5
    <3> QED
      BY <1>6, <3>1 DEF CalledHaveHeard, SubjectOf, Heard
  <2>1. CASE d \in DOMAIN calls
    BY <1>5, <2>1 DEF CalledHaveHeard, SubjectOf
  <2>2. CASE d = m
    <3>1. ~Heard(t, k, n)
      BY <1>2 DEF Heard, HeardIsPublished
    <3>2. k \in Nat /\ k > 0
      BY SubscriptionType
    <3> QED
      BY <1>4, <2>2, <3>1, <3>2
  <2> QED
    BY <1>4, <2>1, <2>2
<1>15. FinishedAreHeard'
  <2> SUFFICES ASSUME NEW i \in DOMAIN published', i \notin InProgress', i \notin cut,
                      NEW k \in 1..published'[i].audience
               PROVE  Heard(published'[i].subject, k, i)
    BY <1>6 DEF FinishedAreHeard, SubjectOf, Heard
  <2>1. n \in InProgress' /\ \A j \in InProgress : j \in InProgress'
    BY <1>4, <1>5 DEF InProgress, Range
  <2>2. i \in DOMAIN published /\ i \notin InProgress
    BY <1>2, <2>1
  <2> QED
    BY <1>2, <1>3, <2>2 DEF FinishedAreHeard, SubjectOf
<1>16. LaterIsInside'
  <2> SUFFICES ASSUME NEW d \in DOMAIN calls', NEW j \in DOMAIN published',
                      j > calls'[d].message
               PROVE  \E o \in published'[j].inside :
                        o.message = calls'[d].message /\ o.called <= calls'[d].called
    BY DEF LaterIsInside
  <2>1. d \in DOMAIN calls
    BY <1>2, <1>4
  <2>2. CASE j \in DOMAIN published
    BY <1>2, <1>5, <2>1, <2>2 DEF LaterIsInside
  <2>3. CASE j = n
    <3> DEFINE o == [message |-> calls[d].message, called |-> calls[d].called]
    <3>1. o \in msg.inside
      BY <2>1 DEF msg, Message, Range
    <3> QED
      BY <1>2, <1>5, <2>1, <2>3, <3>1
  <2> QED
    BY <1>2, <2>2, <2>3
<1>17. OvertakenOnlyByNested'
  <2> SUFFICES ASSUME NEW t \in Subjects, NEW k \in DOMAIN heard[t],
                      NEW b \in DOMAIN heard[t][k], NEW a \in 1..(b - 1),
                      heard[t][k][a] > heard[t][k][b]
               PROVE  \E outer \in published'[heard[t][k][a]].inside :
                        outer.message = heard[t][k][b] /\ outer.called < k
    BY <1>6 DEF OvertakenOnlyByNested
  <2>1. a \in DOMAIN heard[t][k]
    BY SubscriptionType
  <2> QED
    BY <1>2, <2>1 DEF OvertakenOnlyByNested, HeardIsPublished
<1> QED
  BY <1>7, <1>8, <1>9, <1>10, <1>11, <1>12, <1>14, <1>15, <1>16, <1>17

\* So does a handler that moves on.
LEMMA ContinueKeeps ==
  ASSUME BusInv, NEW doing \in Stages \cup {Idle}, HandlerContinues(doing), TypeOK'
  PROVE  BusInv'
<1> USE DEF BusInv
<1>1. /\ DOMAIN calls' = DOMAIN calls
      /\ \A d \in DOMAIN calls : /\ calls'[d].message = calls[d].message
                                 /\ calls'[d].called = calls[d].called
      /\ handlers' = handlers /\ published' = published /\ heard' = heard /\ cut' = cut
  <2>1. /\ calls' \in Seq(CallsOfPublish) /\ calls \in Seq(CallsOfPublish)
        /\ Len(calls') = Len(calls)
        /\ \A d \in DOMAIN calls : /\ calls'[d].message = calls[d].message
                                   /\ calls'[d].called = calls[d].called
        /\ handlers' = handlers /\ published' = published /\ heard' = heard /\ cut' = cut
    BY ContinueEffect DEF TypeOK
  <2> QED
    BY <2>1
<1>2. /\ \A i : SubjectOf(i)' = SubjectOf(i)
      /\ \A t, k, i : Heard(t, k, i)' <=> Heard(t, k, i)
  BY <1>1 DEF SubjectOf, Heard
<1>3. \A i : i \in InProgress' <=> i \in InProgress
  BY <1>1 DEF InProgress, Range
<1>4. CallsInv'
  BY <1>1, <1>2 DEF CallsInv, SubjectOf
<1>5. Subscriptions' /\ HeardIsPublished' /\ HeardOnce' /\ OvertakenOnlyByNested'
  BY <1>1 DEF Subscriptions, HeardIsPublished, HeardOnce, OvertakenOnlyByNested
<1>6. Nested'
  BY <1>1 DEF Nested
<1>7. Audiences'
  BY <1>1, <1>2 DEF Audiences
<1>8. CalledHaveHeard'
  BY <1>1, <1>2 DEF CalledHaveHeard, SubjectOf, Heard
<1>9. FinishedAreHeard'
  BY <1>1, <1>2, <1>3 DEF FinishedAreHeard
<1>10. LaterIsInside'
  BY <1>1 DEF LaterIsInside
<1> QED
  BY <1>4, <1>5, <1>6, <1>7, <1>8, <1>9, <1>10

\* So does the end of a call: its audience was served, or an exception cut it.
LEMMA EndKeeps ==
  ASSUME BusInv, HandlerRaises \/ PublishReturns, TypeOK'
  PROVE  BusInv'
<1> USE DEF BusInv
<1>1. /\ calls' \in Seq(CallsOfPublish)
      /\ Len(calls) \in DOMAIN calls
      /\ Len(calls') = Len(calls) - 1
      /\ \A d \in DOMAIN calls' : d \in DOMAIN calls /\ calls'[d] = calls[d]
      /\ handlers' = handlers /\ published' = published /\ heard' = heard
  BY EndEffect
<1> DEFINE last == calls[Len(calls)].message
<1>2. \A d \in DOMAIN calls : d # Len(calls) => d \in DOMAIN calls' /\ calls'[d] = calls[d]
  BY <1>1 DEF TypeOK
<1>3. /\ \A i \in InProgress : i \in InProgress' \/ i = last
      /\ \A i \in InProgress' : i \in InProgress
  BY <1>1, <1>2 DEF InProgress, Range
<1>4. cut \subseteq cut' /\ (PublishReturns \/ last \in cut')
  BY DEF HandlerRaises, PublishReturns, Innermost
<1>5. CallsInv'
  BY <1>1 DEF CallsInv, SubjectOf
<1>6. Subscriptions' /\ HeardIsPublished' /\ HeardOnce' /\ OvertakenOnlyByNested'
  BY <1>1 DEF Subscriptions, HeardIsPublished, HeardOnce, OvertakenOnlyByNested
<1>7. Nested'
  BY <1>1 DEF Nested
<1>8. Audiences'
  BY <1>1 DEF Audiences, SubjectOf
<1>9. CalledHaveHeard'
  <2> SUFFICES ASSUME NEW d \in DOMAIN calls',
                      NEW k \in DOMAIN heard'[published'[calls'[d].message].subject]
               PROVE  k <= calls'[d].called <=>
                        \E a \in DOMAIN heard'[published'[calls'[d].message].subject][k] :
                          heard'[published'[calls'[d].message].subject][k][a] = calls'[d].message
    BY DEF CalledHaveHeard, SubjectOf, Heard
  <2>1. d \in DOMAIN calls /\ calls'[d] = calls[d]
    BY <1>1
  <2>2. k \in DOMAIN heard[SubjectOf(calls[d].message)]
    BY <1>1, <2>1 DEF SubjectOf
  <2>3. k <= calls[d].called <=> Heard(SubjectOf(calls[d].message), k, calls[d].message)
    BY <2>1, <2>2 DEF CalledHaveHeard
  <2>4. heard'[published'[calls'[d].message].subject] = heard[SubjectOf(calls[d].message)]
    BY <1>1, <2>1 DEF SubjectOf
  <2> QED
    BY <2>1, <2>3, <2>4 DEF Heard
<1>10. FinishedAreHeard'
  <2> SUFFICES ASSUME NEW i \in DOMAIN published, i \notin InProgress', i \notin cut',
                      NEW k \in 1..published[i].audience
               PROVE  Heard(SubjectOf(i), k, i)
    BY <1>1 DEF FinishedAreHeard, SubjectOf, Heard
  <2>1. CASE i \notin InProgress
    BY <1>4, <2>1 DEF FinishedAreHeard
  <2>2. CASE i \in InProgress
    <3>1. i = last /\ PublishReturns
      BY <1>3, <1>4, <2>2
    <3>2. /\ SubjectOf(i) \in Subjects /\ published[i].audience \in Nat
          /\ published[i].audience <= Len(handlers[SubjectOf(i)])
          /\ Len(handlers[SubjectOf(i)]) \in Nat
      BY PublishedType, SubscriptionType DEF Audiences
    <3>3. /\ calls[Len(calls)].called \in Nat
          /\ ~(calls[Len(calls)].called < Len(handlers[SubjectOf(i)]))
      BY <1>1, <3>1, CallType DEF PublishReturns, HandlersLeft, Innermost
    <3>4. k <= calls[Len(calls)].called
      BY <3>2, <3>3
    <3>5. k \in DOMAIN heard[SubjectOf(i)]
      BY <3>2, SubscriptionType
    <3> QED
      BY <1>1, <3>1, <3>4, <3>5 DEF CalledHaveHeard
  <2> QED
    BY <2>1, <2>2
<1>11. LaterIsInside'
  BY <1>1 DEF LaterIsInside
<1> QED
  BY <1>5, <1>6, <1>7, <1>8, <1>9, <1>10, <1>11

\* So does the next turn of the loop: who hears a message late hears it once, and in
\* order but for what was published inside.
LEMMA CallKeeps ==
  ASSUME BusInv, CallHandler(Start), TypeOK'
  PROVE  BusInv'
<1> USE DEF BusInv
<1> DEFINE d == Len(calls)
           i == calls[d].message
           s == SubjectOf(i)
           k == calls[d].called + 1
           L == Len(heard[s][k])
<1>1. /\ d \in DOMAIN calls /\ s \in Subjects /\ i \in Nat /\ i \in DOMAIN published
      /\ k \in 1..Len(handlers[s])
      /\ calls' \in Seq(CallsOfPublish)
      /\ Len(calls') = Len(calls)
      /\ \A e \in DOMAIN calls : e # d => calls'[e] = calls[e]
      /\ calls'[d] = Call(i, k, Start[handlers[s][k]])
      /\ handlers' = handlers /\ published' = published /\ cut' = cut
      /\ heard' = [heard EXCEPT ![s][k] = Append(heard[s][k], i)]
  BY CallEffect
<1>2. /\ DOMAIN calls' = DOMAIN calls
      /\ \A e \in DOMAIN calls : /\ e # d => calls'[e] = calls[e] /\ e < d
                                 /\ e \in Nat
                                 /\ calls'[e].message = calls[e].message
                                 /\ calls[e].called \in Nat
                                 /\ calls'[e].called \in Nat
                                 /\ calls'[e].called >= calls[e].called
      /\ calls'[d].called = k
      /\ calls[d].called \in Nat /\ k = calls[d].called + 1 /\ d \in Nat
  <2>1. calls \in Seq(CallsOfPublish)
    BY DEF TypeOK
  <2>2. calls'[d].message = i /\ calls'[d].called = k
    BY <1>1 DEF Call
  <2>3. \A e \in DOMAIN calls : calls[e].called \in Nat
    BY CallType
  <2> QED
    BY <1>1, <2>1, <2>2, <2>3
<1>3. \A j : j \in InProgress' <=> j \in InProgress
  BY <1>2 DEF InProgress, Range
<1>4. k \in DOMAIN heard[s] /\ heard[s][k] \in Seq(Nat)
  BY <1>1, SubscriptionType
<1>5. /\ \A t \in Subjects : /\ DOMAIN heard'[t] = DOMAIN heard[t]
                             /\ \A l \in DOMAIN heard[t] :
                                  t # s \/ l # k => heard'[t][l] = heard[t][l]
      /\ heard'[s][k] = Append(heard[s][k], i)
  BY <1>1, <1>4 DEF TypeOK
<1>6. \A t \in Subjects : Len(heard'[t]) = Len(heard[t])
  <2> SUFFICES ASSUME NEW t \in Subjects PROVE Len(heard'[t]) = Len(heard[t])
    OBVIOUS
  <2>1. CASE t = s
    <3>1. heard[s] \in Seq(Seq(Nat)) /\ s \in DOMAIN heard
      BY <1>1 DEF TypeOK
    <3>2. Append(heard[s][k], i) \in Seq(Nat)
      BY <1>1, <1>4
    <3>3. heard'[s] = [heard[s] EXCEPT ![k] = Append(heard[s][k], i)]
      BY <1>1, <3>1
    <3> HIDE DEF i, s, k
    <3> QED
      BY <1>4, <2>1, <3>1, <3>2, <3>3, ReplacedIn
  <2>2. CASE t # s
    BY <1>1, <2>2 DEF TypeOK
  <2> QED
    BY <2>1, <2>2
<1>7. /\ L \in Nat
      /\ DOMAIN heard[s][k] = 1..L
      /\ DOMAIN heard'[s][k] = 1..(L + 1)
      /\ \A a \in 1..L : heard'[s][k][a] = heard[s][k][a]
      /\ heard'[s][k][L + 1] = i
  <2>1. heard[s][k] \in Seq(Nat) /\ i \in Nat /\ heard'[s][k] = Append(heard[s][k], i)
    BY <1>1, <1>4, <1>5
  <2> HIDE DEF i, s, k
  <2> QED
    BY <2>1, GrownByOne
<1>8. ~Heard(s, k, i)
  <2>1. k <= calls[d].called <=> Heard(s, k, i)
    BY <1>1, <1>4 DEF CalledHaveHeard
  <2>2. ~(k <= calls[d].called)
    BY <1>2
  <2> QED
    BY <2>1, <2>2
<1> HIDE DEF d, i, s, k, L
<1>9. \A t \in Subjects : \A l \in DOMAIN heard[t] : \A j :
        (\E a \in DOMAIN heard'[t][l] : heard'[t][l][a] = j)
           <=> Heard(t, l, j) \/ (t = s /\ l = k /\ j = i)
  <2> SUFFICES ASSUME NEW t \in Subjects, NEW l \in DOMAIN heard[t], NEW j
               PROVE  (\E a \in DOMAIN heard'[t][l] : heard'[t][l][a] = j)
                        <=> Heard(t, l, j) \/ (t = s /\ l = k /\ j = i)
    OBVIOUS
  <2>1. CASE t = s /\ l = k
    <3>1. ASSUME NEW a \in 1..L PROVE heard'[s][k][a] = heard[s][k][a]
      BY <1>7
    <3> QED
      BY <1>7, <2>1, <3>1 DEF Heard
  <2>2. CASE ~(t = s /\ l = k)
    BY <1>5, <2>2 DEF Heard
  <2> QED
    BY <2>1, <2>2
<1>10. CallsInv'
  <2> SUFFICES ASSUME NEW e \in DOMAIN calls
               PROVE  /\ calls[e].message \in DOMAIN published
                      /\ calls'[e].called \in 0..Len(handlers[SubjectOf(calls[e].message)])
    BY <1>1, <1>2 DEF CallsInv, SubjectOf
  <2>1. CASE e = d
    BY <1>1, <1>2, <2>1 DEF CallsInv, d, i, s
  <2>2. CASE e # d
    BY <1>2, <2>2 DEF CallsInv
  <2> QED
    BY <2>1, <2>2
<1>11. Subscriptions'
  BY <1>1, <1>6 DEF Subscriptions
<1>12. Nested'
  BY <1>2 DEF Nested
<1>13. Audiences'
  BY <1>1 DEF Audiences, SubjectOf
<1>14. HeardIsPublished'
  <2> SUFFICES ASSUME NEW t \in Subjects, NEW l \in DOMAIN heard[t],
                      NEW a \in DOMAIN heard'[t][l]
               PROVE  heard'[t][l][a] \in DOMAIN published
    BY <1>1, <1>5 DEF HeardIsPublished
  <2>1. Heard(t, l, heard'[t][l][a]) \/ heard'[t][l][a] = i
    BY <1>9
  <2> QED
    BY <1>1, <2>1 DEF Heard, HeardIsPublished
<1>15. HeardOnce'
  <2> SUFFICES ASSUME NEW t \in Subjects, NEW l \in DOMAIN heard[t],
                      NEW a \in DOMAIN heard'[t][l], NEW b \in DOMAIN heard'[t][l],
                      heard'[t][l][a] = heard'[t][l][b]
               PROVE  a = b
    BY <1>5 DEF HeardOnce
  <2>1. CASE t = s /\ l = k
    <3>1. \A c \in 1..L : heard'[s][k][c] = heard[s][k][c] /\ heard[s][k][c] # i
      BY <1>7, <1>8 DEF Heard
    <3>2. a \in 1..L \/ a = L + 1
      BY <1>7, <2>1
    <3>3. b \in 1..L \/ b = L + 1
      BY <1>7, <2>1
    <3> QED
      BY <1>1, <1>4, <1>7, <2>1, <3>1, <3>2, <3>3 DEF HeardOnce
  <2>2. CASE ~(t = s /\ l = k)
    BY <1>5, <2>2 DEF HeardOnce
  <2> QED
    BY <2>1, <2>2
<1>16. CalledHaveHeard'
  <2> SUFFICES ASSUME NEW e \in DOMAIN calls',
                      NEW l \in DOMAIN heard'[published'[calls'[e].message].subject]
               PROVE  l <= calls'[e].called <=>
                        \E a \in DOMAIN heard'[published'[calls'[e].message].subject][l] :
                          heard'[published'[calls'[e].message].subject][l][a] = calls'[e].message
    BY DEF CalledHaveHeard, SubjectOf, Heard
  <2> DEFINE t == published[calls[e].message].subject
  <2>0. /\ e \in DOMAIN calls /\ calls'[e].message = calls[e].message
        /\ published'[calls'[e].message].subject = t
        /\ t = SubjectOf(calls[e].message) /\ t \in Subjects /\ l \in DOMAIN heard[t]
    BY <1>1, <1>2, <1>5, CallType DEF SubjectOf
  <2> HIDE DEF t
  <2> SUFFICES l <= calls'[e].called <=>
                 \E a \in DOMAIN heard'[t][l] : heard'[t][l][a] = calls[e].message
    BY <2>0
  <2>1. l <= calls[e].called <=> Heard(t, l, calls[e].message)
    BY <2>0 DEF CalledHaveHeard
  <2>2. l \in Nat
    BY <2>0, SubscriptionType
  <2>3. CASE e = d
    <3>1. calls[e].message = i /\ t = s
      BY <2>0, <2>3 DEF i, s, d
    <3>2. l <= k <=> l <= calls[d].called \/ l = k
      BY <1>2, <2>2
    <3> QED
      BY <1>2, <1>9, <2>0, <2>1, <2>3, <3>1, <3>2
  <2>4. CASE e # d
    <3>1. calls[e].message # i /\ calls'[e].called = calls[e].called
      <4>1. calls[e].message < calls[d].message
        BY <1>1, <1>2, <2>0, <2>4 DEF Nested
      <4>2. calls[e].message \in Nat /\ calls[d].message \in Nat /\ i = calls[d].message
        BY <1>1, <2>0, CallType DEF i
      <4> QED
        BY <1>2, <2>0, <2>4, <4>1, <4>2
    <3> QED
      BY <1>9, <2>0, <2>1, <3>1
  <2> QED
    BY <2>3, <2>4
<1>17. FinishedAreHeard'
  <2> SUFFICES ASSUME NEW j \in DOMAIN published, j \notin InProgress, j \notin cut,
                      NEW l \in 1..published[j].audience
               PROVE  \E a \in DOMAIN heard'[SubjectOf(j)][l] : heard'[SubjectOf(j)][l][a] = j
    BY <1>1, <1>3 DEF FinishedAreHeard, SubjectOf, Heard
  <2>1. Heard(SubjectOf(j), l, j) /\ SubjectOf(j) \in Subjects
    BY PublishedType DEF FinishedAreHeard
  <2>2. l \in DOMAIN heard[SubjectOf(j)]
    BY <2>1, PublishedType, SubscriptionType DEF Audiences
  <2> QED
    BY <1>9, <2>1, <2>2
<1>18. LaterIsInside'
  <2> SUFFICES ASSUME NEW e \in DOMAIN calls, NEW j \in DOMAIN published,
                      j > calls[e].message
               PROVE  \E o \in published[j].inside :
                        o.message = calls[e].message /\ o.called <= calls'[e].called
    BY <1>1, <1>2 DEF LaterIsInside
  <2>1. PICK o \in published[j].inside : o.message = calls[e].message /\ o.called <= calls[e].called
    BY DEF LaterIsInside
  <2>2. o.called \in Nat
    BY PublishedType
  <2> QED
    BY <1>2, <2>1, <2>2
<1>19. OvertakenOnlyByNested'
  <2> SUFFICES ASSUME NEW t \in Subjects, NEW l \in DOMAIN heard'[t],
                      NEW b \in DOMAIN heard'[t][l], NEW a \in 1..(b - 1),
                      heard'[t][l][a] > heard'[t][l][b]
               PROVE  \E outer \in published'[heard'[t][l][a]].inside :
                        outer.message = heard'[t][l][b] /\ outer.called < l
    BY DEF OvertakenOnlyByNested
  <2> SUFFICES \E outer \in published[heard'[t][l][a]].inside :
                 outer.message = heard'[t][l][b] /\ outer.called < l
    BY <1>1
  <2>0. l \in DOMAIN heard[t]
    BY <1>5
  <2>1. CASE ~(t = s /\ l = k)
    BY <1>5, <2>0, <2>1 DEF OvertakenOnlyByNested
  <2>2. CASE t = s /\ l = k /\ b \in 1..L
    <3>1. a \in 1..L
      BY <1>7, <2>2
    <3>2. heard'[t][l][b] = heard[t][l][b] /\ heard'[t][l][a] = heard[t][l][a]
      BY <1>7, <2>2, <3>1
    <3>3. b \in DOMAIN heard[t][l]
      BY <1>7, <2>2
    <3> QED
      BY <2>0, <3>2, <3>3 DEF OvertakenOnlyByNested
  <2>3. CASE t = s /\ l = k /\ b = L + 1
    <3>1. a \in 1..L
      BY <1>7, <2>3
    <3>2. heard'[t][l][b] = i /\ heard'[t][l][a] = heard[s][k][a]
      BY <1>7, <2>3, <3>1
    <3>3. heard[s][k][a] \in DOMAIN published
      BY <1>1, <1>4, <1>7, <3>1 DEF HeardIsPublished
    <3>4. PICK o \in published[heard[s][k][a]].inside :
            o.message = i /\ o.called <= calls[d].called
      BY <1>1, <3>2, <3>3 DEF LaterIsInside, i
    <3>5. o.called \in Nat
      BY <3>3, PublishedType
    <3> QED
      BY <1>2, <2>3, <3>2, <3>4, <3>5
  <2> QED
    BY <1>7, <2>1, <2>2, <2>3
<1> QED
  BY <1>10, <1>11, <1>12, <1>13, <1>14, <1>15, <1>16, <1>17, <1>18, <1>19

\* A step that leaves the bus alone keeps it.
LEMMA BusUnchangedKeeps ==
  ASSUME BusInv, UNCHANGED busVars, TypeOK'
  PROVE  BusInv'
<1>1. /\ handlers' = handlers /\ published' = published /\ calls' = calls
      /\ heard' = heard /\ cut' = cut
  BY DEF busVars
<1>2. (InProgress' = InProgress) /\ \A i : SubjectOf(i)' = SubjectOf(i)
  BY <1>1 DEF InProgress, SubjectOf
<1>3. CallsInv' /\ Subscriptions' /\ Nested' /\ Audiences'
  BY <1>1, <1>2 DEF BusInv, CallsInv, Subscriptions, Nested, Audiences, SubjectOf
<1>4. HeardIsPublished' /\ HeardOnce' /\ LaterIsInside' /\ OvertakenOnlyByNested'
  BY <1>1 DEF BusInv, HeardIsPublished, HeardOnce, LaterIsInside, OvertakenOnlyByNested
<1>5. CalledHaveHeard'
  BY <1>1 DEF BusInv, CalledHaveHeard, Heard, SubjectOf
<1>6. FinishedAreHeard'
  BY <1>1, <1>2 DEF BusInv, FinishedAreHeard, Heard, SubjectOf
<1> QED
  BY <1>3, <1>4, <1>5, <1>6 DEF BusInv

-----------------------------------------------------------------------------
(* The clock and the assessments.                                          *)

\* A level of context, "received" and "told" are not Idle.
LEMMA StagesAreNotIdle ==
  Idle \notin Range(ContextLevels) /\ Idle # "received" /\ Idle # "running" /\ Idle # "told"
BY IdleAssumption DEF Stages

\* No step turns back the clock or forgets an assessment.
LEMMA ClockAndAssessments ==
  ASSUME BusInv, [Next]_vars
  PROVE  /\ now' \in 0..MaxTime /\ now' >= now
         /\ assessments' \in SUBSET (Nat \X Nat) /\ assessments \subseteq assessments'
<1> USE DEF BusInv
<1>1. now \in Nat /\ MaxTime \in Nat /\ now <= MaxTime /\ assessments \in SUBSET (Nat \X Nat)
  BY LoopBounds DEF TypeOK
<1>2. CASE Tick
  BY <1>1, <1>2 DEF Tick
<1>3. ASSUME NEW open \in BOOLEAN, NEW refs \in SUBSET {"evidence"}, Conclude(open, refs)
      PROVE  /\ now' = now
             /\ assessments' \in SUBSET (Nat \X Nat) /\ assessments \subseteq assessments'
  <2>1. Len(calls) \in DOMAIN calls
    BY <1>3 DEF Conclude, InContext, TypeOK
  <2>2. Innermost.message \in Nat /\ Innermost.called \in Nat
    BY <2>1, CallType DEF Innermost
  <2> QED
    BY <1>1, <1>3, <2>2 DEF Conclude
<1>4. CASE ~Tick /\ ~\E open \in BOOLEAN, refs \in SUBSET {"evidence"} : Conclude(open, refs)
  <2>1. now' = now /\ assessments' = assessments
    BY <1>4 DEF Next, Investigate, Source, Subscribes, Deliver, Screen, Expand, Finish, vars
  <2> QED
    BY <1>1, <2>1
<1> QED
  BY <1>1, <1>2, <1>3, <1>4

\* What the bus holds keeps its type.
LEMMA TypeStep ==
  ASSUME BusInv, [Next]_vars
  PROVE  TypeOK'
<1> USE DEF BusInv
<1>1. BusStep
  BY NextIsBusStep
<1>2. /\ now' \in 0..MaxTime
      /\ assessments' \in SUBSET (Nat \X Nat)
  BY ClockAndAssessments
<1> SUFFICES /\ handlers' \in [Subjects -> Seq(Handlers)]
             /\ published' \in Seq(PublishedMessages)
             /\ calls' \in Seq(CallsOfPublish)
             /\ heard' \in [Subjects -> Seq(Seq(Nat))]
             /\ cut' \in SUBSET Nat
  BY <1>2 DEF TypeOK
<1> USE DEF TypeOK
<1>3. ASSUME NEW s \in Subjects, NEW h \in Handlers, Subscribe(s, h)
      PROVE  /\ handlers' \in [Subjects -> Seq(Handlers)]
             /\ heard' \in [Subjects -> Seq(Seq(Nat))]
             /\ UNCHANGED <<published, calls, cut>>
  BY <1>3, SubscribeEffect
<1>4. ASSUME NEW s \in Subjects, NEW signal \in AnySignal, NEW then \in Stages \cup {Idle},
             Publish(s, Payload(signal), then)
      PROVE  /\ published' \in Seq(PublishedMessages)
             /\ calls' \in Seq(CallsOfPublish)
             /\ UNCHANGED <<handlers, heard, cut>>
  <2>1. /\ published' = Append(published, Message(s, Payload(signal)))
        /\ Message(s, Payload(signal)) \in PublishedMessages
        /\ calls' \in Seq(CallsOfPublish)
        /\ UNCHANGED <<handlers, heard, cut>>
    BY <1>4, PublishEffect
  <2>2. published \in Seq(PublishedMessages)
    OBVIOUS
  <2> QED
    BY <2>1, <2>2, AppendProperties
<1>5. ASSUME NEW doing \in Stages \cup {Idle}, HandlerContinues(doing)
      PROVE  calls' \in Seq(CallsOfPublish) /\ UNCHANGED <<handlers, published, heard, cut>>
  BY <1>5, ContinueEffect
<1>6. CASE HandlerRaises
  <2>1. calls' \in Seq(CallsOfPublish) /\ UNCHANGED <<handlers, published, heard>>
    BY <1>6, EndEffect
  <2>2. Innermost.message \in Nat
    BY <1>6, EndEffect, CallType DEF Innermost
  <2>3. cut' = cut \cup {Innermost.message}
    BY <1>6 DEF HandlerRaises
  <2> QED
    BY <2>1, <2>2, <2>3
<1>7. CASE PublishReturns
  BY <1>7, EndEffect DEF PublishReturns
<1>8. CASE CallHandler(Start)
  <2> DEFINE i == calls[Len(calls)].message
             s == SubjectOf(i)
             k == calls[Len(calls)].called + 1
  <2>1. /\ s \in Subjects /\ i \in Nat /\ k \in 1..Len(handlers[s])
        /\ calls' \in Seq(CallsOfPublish)
        /\ UNCHANGED <<handlers, published, cut>>
        /\ heard' = [heard EXCEPT ![s][k] = Append(heard[s][k], i)]
    BY <1>8, CallEffect
  <2>2. k \in DOMAIN heard[s] /\ heard[s][k] \in Seq(Nat)
    BY <2>1, SubscriptionType
  <2>3. heard \in [Subjects -> Seq(Seq(Nat))] /\ heard[s] \in Seq(Seq(Nat))
    BY <2>1
  <2> HIDE DEF i, s, k
  <2>4. Append(heard[s][k], i) \in Seq(Nat)
    BY <2>1, <2>2
  <2>5. [heard[s] EXCEPT ![k] = Append(heard[s][k], i)] \in Seq(Seq(Nat))
    BY <2>2, <2>3, <2>4, ReplacedIn
  <2>6. heard' \in [Subjects -> Seq(Seq(Nat))]
    BY <2>1, <2>3, <2>5
  <2> QED
    BY <2>1, <2>6
<1>9. CASE UNCHANGED busVars
  BY <1>9 DEF busVars
<1> QED
  BY <1>1, <1>3, <1>4, <1>5, <1>6, <1>7, <1>8, <1>9 DEF BusStep

\* Every step keeps what the bus keeps.
LEMMA BusInvStep ==
  ASSUME BusInv, [Next]_vars
  PROVE  BusInv'
<1>1. BusStep
  BY NextIsBusStep DEF BusInv
<1>2. TypeOK'
  BY TypeStep
<1> QED
  BY <1>1, <1>2, SubscribeKeeps, PublishKeeps, ContinueKeeps, EndKeeps, CallKeeps,
     BusUnchangedKeeps DEF BusStep

\* It holds before the first subscription.
LEMMA InitBusInv == Init => BusInv
<1> SUFFICES ASSUME Init PROVE BusInv
  OBVIOUS
<1>1. /\ handlers = [s \in Subjects |-> <<>>] /\ published = <<>> /\ calls = <<>>
      /\ heard = [s \in Subjects |-> <<>>] /\ cut = {} /\ now = 0 /\ assessments = {}
  BY DEF Init, BusInit
<1>2. DOMAIN published = {} /\ DOMAIN calls = {} /\ \A s \in Subjects : DOMAIN heard[s] = {}
  BY <1>1
<1>3. TypeOK
  BY <1>1, LoopBounds DEF TypeOK
<1>4. Subscriptions
  BY <1>1 DEF Subscriptions
<1> QED
  BY <1>2, <1>3, <1>4 DEF BusInv, CallsInv, Nested, Audiences, HeardIsPublished, HeardOnce,
     CalledHaveHeard, FinishedAreHeard, LaterIsInside, OvertakenOnlyByNested

\* So it always holds.
LEMMA BusInvAlways == Spec => []BusInv
<1>1. BusInv /\ [Next]_vars => BusInv'
  BY BusInvStep
<1> QED
  BY InitBusInv, <1>1, PTL DEF Spec

-----------------------------------------------------------------------------
(* What the bus promises.                                                  *)

\* The lists of handlers, the messages, the calls in progress and what was heard stay what
\* publish() and subscribe() make of them, whatever handlers do while they run.
THEOREM SignalLoopTypeOK == Spec => []TypeOK
BY BusInvAlways, PTL DEF BusInv

\* A finished delivery served its audience: everyone subscribed when publish() was called has
\* heard the message once, though handlers publish, subscribe and raise inside deliveries.
THEOREM AudienceIsServed == Spec => []AudienceServed
<1>1. BusInv => AudienceServed
  <2> SUFFICES ASSUME BusInv, NEW i \in DOMAIN published, i \notin InProgress, i \notin cut,
                      NEW k \in 1..published[i].audience
               PROVE  \E a \in DOMAIN heard[SubjectOf(i)][k] :
                        /\ heard[SubjectOf(i)][k][a] = i
                        /\ \A b \in DOMAIN heard[SubjectOf(i)][k] :
                             heard[SubjectOf(i)][k][b] = i => b = a
    BY DEF AudienceServed
  <2>1. Heard(SubjectOf(i), k, i)
    BY DEF BusInv, FinishedAreHeard
  <2>2. SubjectOf(i) \in Subjects /\ published[i].audience \in Nat
    BY PublishedType DEF BusInv
  <2>3. k \in DOMAIN heard[SubjectOf(i)]
    BY <2>2, SubscriptionType DEF BusInv, Audiences
  <2> QED
    BY <2>1, <2>2, <2>3 DEF BusInv, HeardOnce, Heard
<1> QED
  BY <1>1, BusInvAlways, PTL

\* Messages reach a subscriber in the order of publication, unless the later one was
\* published inside the delivery of the earlier by a handler subscribed before.
THEOREM OnlyNestedOvertakes == Spec => []OvertakenOnlyByNested
BY BusInvAlways, PTL DEF BusInv
-----------------------------------------------------------------------------
(* What the investigators keep.                                            *)

\* subscription k owes no assessment of message i
Done(i, k) ==
  \/ Own(i)
  \/ CoveredSince(i)
  \/ handlers[SubjectOf(i)][k] \notin Investigators
  \/ <<i, k>> \in assessments

\* only an investigator that has told its candidate waits for the bus, or a handler that does
\* not investigate
OuterHaveTold == \A d \in DOMAIN calls : d < Len(calls) => calls[d].doing \in {"told", "running"}

\* subscription k to the subject of message i is an investigator's
Investigates(i, k) == handlers[SubjectOf(i)][k] \in Investigators

OthersRun ==
  \A d \in DOMAIN calls : calls[d].doing = "running" =>
    ~Investigates(calls[d].message, calls[d].called)

\* no context is read, and nothing told, about an own candidate
OwnAreScreened ==
  \A d \in DOMAIN calls : calls[d].doing \in Range(ContextLevels) \cup {"told"} =>
    ~Own(calls[d].message)

BusyWereCalled == \A d \in DOMAIN calls : calls[d].doing # Idle => calls[d].called >= 1

InsideForeign ==
  \A i \in DOMAIN published : \A outer \in published[i].inside :
    /\ outer.message \in DOMAIN published
    /\ outer.called \in DOMAIN handlers[SubjectOf(outer.message)]
    /\ Investigates(outer.message, outer.called) => ~Own(outer.message)

StampedByNow == \A i \in DOMAIN published : published[i].payload.at <= now

\* the handlers called are done, but for one that is still at work
CalledAreDone ==
  \A d \in DOMAIN calls : \A k \in 1..calls[d].called :
    k < calls[d].called \/ calls[d].doing \in {Idle, "running", "told"} =>
      Done(calls[d].message, k)

FinishedAreDone ==
  \A i \in DOMAIN published \ (InProgress \cup cut) : \A k \in 1..published[i].audience :
    Done(i, k)

LoopInv ==
  /\ OuterHaveTold
  /\ OthersRun
  /\ OwnAreScreened
  /\ BusyWereCalled
  /\ InsideForeign
  /\ StampedByNow
  /\ CalledAreDone
  /\ FinishedAreDone

\* An assessment done, or not owed, is never owed again.
LEMMA DoneIsStable ==
  ASSUME BusInv, [Next]_vars, DOMAIN published \subseteq DOMAIN published',
         \A i \in DOMAIN published : published'[i] = published[i],
         NEW i \in DOMAIN published, NEW k \in 1..Len(handlers[SubjectOf(i)]),
         handlers'[SubjectOf(i)][k] = handlers[SubjectOf(i)][k], Done(i, k)
  PROVE  Done(i, k)'
<1>1. published'[i] = published[i]
  OBVIOUS
<1>2. Own(i)' <=> Own(i)
  BY <1>1 DEF Own, Signal
<1>3. CoveredSince(i) => CoveredSince(i)'
  <2>1. now \in Nat /\ now' \in Nat /\ now' >= now
    BY ClockAndAssessments, LoopBounds DEF BusInv, TypeOK
  <2> SUFFICES ASSUME NEW t \in Tombstones,
                      t.signal_signature = Signal(i).signature,
                      t.entity_refs \cap Signal(i).entity_refs # {},
                      t.valid_from <= now, published[i].payload.at <= t.valid_until
               PROVE  CoveredSince(i)'
    BY DEF CoveredSince
  <2>2. t.valid_from <= now'
    BY <2>1, TombstonesAssumption
  <2> QED
    BY <1>1, <2>2 DEF CoveredSince, Signal
<1>4. assessments \subseteq assessments'
  BY ClockAndAssessments
<1> QED
  BY <1>1, <1>2, <1>3, <1>4 DEF Done, SubjectOf

\* Messages and subscriptions are only added.
LEMMA OnlyAdded ==
  ASSUME BusInv, [Next]_vars
  PROVE  /\ DOMAIN published \subseteq DOMAIN published'
         /\ \A i \in DOMAIN published : published'[i] = published[i]
         /\ \A s \in Subjects : \A k \in DOMAIN handlers[s] :
              k \in DOMAIN handlers'[s] /\ handlers'[s][k] = handlers[s][k]
<1> USE DEF BusInv
<1>1. BusStep
  BY NextIsBusStep
<1>2. ASSUME NEW s \in Subjects, NEW h \in Handlers, Subscribe(s, h)
      PROVE  /\ published' = published
             /\ \A t \in Subjects : \A k \in DOMAIN handlers[t] :
                  k \in DOMAIN handlers'[t] /\ handlers'[t][k] = handlers[t][k]
  <2>1. /\ \A t \in Subjects : t # s => handlers'[t] = handlers[t]
        /\ handlers'[s] = Append(handlers[s], h)
        /\ published' = published
    BY <1>2, SubscribeEffect
  <2>2. handlers[s] \in Seq(Handlers)
    BY DEF TypeOK
  <2>3. \A k \in DOMAIN handlers[s] :
          k \in DOMAIN handlers'[s] /\ handlers'[s][k] = handlers[s][k]
    BY <2>1, <2>2
  <2> QED
    BY <2>1, <2>3
<1>3. ASSUME NEW s \in Subjects, NEW signal \in AnySignal, NEW then \in Stages \cup {Idle},
             Publish(s, Payload(signal), then)
      PROVE  /\ handlers' = handlers
             /\ DOMAIN published \subseteq DOMAIN published'
             /\ \A i \in DOMAIN published : published'[i] = published[i]
  <2> DEFINE msg == Message(s, Payload(signal))
  <2>1. published' = Append(published, msg) /\ msg \in PublishedMessages /\ handlers' = handlers
    BY <1>3, PublishEffect
  <2>2. published \in Seq(PublishedMessages)
    BY DEF TypeOK
  <2> HIDE DEF msg
  <2> QED
    BY <2>1, <2>2
<1>4. ASSUME NEW doing \in Stages \cup {Idle}, HandlerContinues(doing)
      PROVE  handlers' = handlers /\ published' = published
  BY <1>4 DEF HandlerContinues
<1>5. CASE HandlerRaises \/ PublishReturns \/ CallHandler(Start) \/ UNCHANGED busVars
  BY <1>5 DEF HandlerRaises, PublishReturns, CallHandler, busVars
<1> QED
  BY <1>1, <1>2, <1>3, <1>4, <1>5 DEF BusStep

\* Who is an own candidate does not change, and what is done stays done.
LEMMA DoneStays ==
  ASSUME BusInv, [Next]_vars
  PROVE  /\ \A i \in DOMAIN published : Own(i)' <=> Own(i)
         /\ \A i \in DOMAIN published : \A k \in 1..Len(handlers[SubjectOf(i)]) :
              Done(i, k) => Done(i, k)'
<1>1. ASSUME NEW i \in DOMAIN published PROVE Own(i)' <=> Own(i)
  BY OnlyAdded DEF Own, Signal
<1>2. ASSUME NEW i \in DOMAIN published, NEW k \in 1..Len(handlers[SubjectOf(i)]), Done(i, k)
      PROVE  Done(i, k)'
  <2>1. SubjectOf(i) \in Subjects /\ k \in DOMAIN handlers[SubjectOf(i)]
    BY PublishedType, SubscriptionType DEF BusInv
  <2> QED
    BY <1>2, <2>1, OnlyAdded, DoneIsStable
<1> QED
  BY <1>1, <1>2

\* The subscriptions that were called, and those of an audience, exist.
LEMMA CalledExist ==
  ASSUME BusInv
  PROVE  /\ \A d \in DOMAIN calls : \A k \in 1..calls[d].called :
              k \in 1..Len(handlers[SubjectOf(calls[d].message)])
         /\ \A i \in DOMAIN published : \A k \in 1..published[i].audience :
              k \in 1..Len(handlers[SubjectOf(i)])
<1>1. ASSUME NEW d \in DOMAIN calls, NEW k \in 1..calls[d].called
      PROVE  k \in 1..Len(handlers[SubjectOf(calls[d].message)])
  <2>1. /\ calls[d].called \in 0..Len(handlers[SubjectOf(calls[d].message)])
        /\ SubjectOf(calls[d].message) \in Subjects
    BY CallType DEF BusInv, CallsInv
  <2>2. Len(handlers[SubjectOf(calls[d].message)]) \in Nat
    BY <2>1, SubscriptionType DEF BusInv
  <2> QED
    BY <2>1, <2>2
<1>2. ASSUME NEW i \in DOMAIN published, NEW k \in 1..published[i].audience
      PROVE  k \in 1..Len(handlers[SubjectOf(i)])
  <2>1. /\ published[i].audience <= Len(handlers[SubjectOf(i)]) /\ published[i].audience \in Nat
        /\ SubjectOf(i) \in Subjects
    BY PublishedType DEF BusInv, Audiences
  <2>2. Len(handlers[SubjectOf(i)]) \in Nat
    BY <2>1, SubscriptionType DEF BusInv
  <2> QED
    BY <2>1, <2>2
<1> QED
  BY <1>1, <1>2

\* Whose subscription one is does not change.
LEMMA InvestigatesStays ==
  ASSUME BusInv, [Next]_vars, NEW i \in DOMAIN published, NEW k \in DOMAIN handlers[SubjectOf(i)]
  PROVE  /\ Investigates(i, k)' <=> Investigates(i, k)
         /\ (k \in DOMAIN handlers[SubjectOf(i)])'
<1>1. SubjectOf(i) \in Subjects /\ SubjectOf(i)' = SubjectOf(i)
  BY PublishedType, OnlyAdded DEF BusInv, SubjectOf
<1>2. /\ handlers'[SubjectOf(i)][k] = handlers[SubjectOf(i)][k]
      /\ k \in DOMAIN handlers'[SubjectOf(i)]
  BY <1>1, OnlyAdded
<1> QED
  BY <1>1, <1>2 DEF Investigates

\* The subscription whose handler is at work exists.
LEMMA BusyExist ==
  ASSUME BusInv, LoopInv, NEW d \in DOMAIN calls, calls[d].doing # Idle
  PROVE  /\ calls[d].message \in DOMAIN published
         /\ calls[d].called \in DOMAIN handlers[SubjectOf(calls[d].message)]
<1>1. calls[d].message \in DOMAIN published /\ calls[d].called \in Nat
  BY CallType DEF BusInv
<1>2. calls[d].called \in 1..calls[d].called
  BY <1>1 DEF LoopInv, BusyWereCalled
<1>3. calls[d].called \in 1..Len(handlers[SubjectOf(calls[d].message)])
  BY <1>2, CalledExist
<1> QED
  BY <1>1, <1>3, PublishedType, SubscriptionType DEF BusInv

\* What runs, but is no investigator, stays none.
LEMMA OthersStay ==
  ASSUME BusInv, LoopInv, [Next]_vars, NEW d \in DOMAIN calls, calls[d].doing = "running",
         NEW i, i = calls[d].message, NEW k, k = calls[d].called
  PROVE  ~Investigates(i, k)'
<1>1. i \in DOMAIN published /\ k \in DOMAIN handlers[SubjectOf(i)]
  BY BusyExist, StagesAreNotIdle
<1>2. ~Investigates(i, k)
  BY DEF LoopInv, OthersRun
<1> QED
  BY <1>1, <1>2, InvestigatesStays

\* The calls a message was published inside of are as they were.
LEMMA InsideStays ==
  ASSUME BusInv, LoopInv, [Next]_vars,
         NEW i \in DOMAIN published, NEW outer \in published[i].inside
  PROVE  /\ outer.message \in DOMAIN published'
         /\ (outer.called \in DOMAIN handlers[SubjectOf(outer.message)])'
         /\ Investigates(outer.message, outer.called)' => ~Own(outer.message)'
<1>1. /\ outer.message \in DOMAIN published
      /\ outer.called \in DOMAIN handlers[SubjectOf(outer.message)]
      /\ Investigates(outer.message, outer.called) => ~Own(outer.message)
  BY DEF LoopInv, InsideForeign
<1>2. outer.message \in DOMAIN published'
  BY <1>1, OnlyAdded
<1>3. Own(outer.message)' <=> Own(outer.message)
  BY <1>1, DoneStays
<1> QED
  BY <1>1, <1>2, <1>3, InvestigatesStays

\* A step that leaves messages and calls alone.
LEMMA QuietKeeps ==
  ASSUME BusInv, LoopInv, [Next]_vars, published' = published, calls' = calls, cut' = cut
  PROVE  LoopInv'
<1> USE DEF LoopInv
<1>1. \A i \in DOMAIN published : Own(i)' <=> Own(i)
  BY DoneStays
<1>2. \A d \in DOMAIN calls : calls[d].message \in DOMAIN published
  BY DEF BusInv, CallsInv
<1>3. OuterHaveTold' /\ BusyWereCalled'
  BY DEF OuterHaveTold, BusyWereCalled
<1>9. OthersRun'
  BY OthersStay DEF OthersRun
<1>4. OwnAreScreened'
  BY <1>1, <1>2 DEF OwnAreScreened
<1>5. InsideForeign'
  BY InsideStays DEF InsideForeign
<1>6. StampedByNow'
  <2>1. now \in Nat /\ now' \in Nat /\ now' >= now
    BY ClockAndAssessments, LoopBounds DEF BusInv, TypeOK
  <2> SUFFICES ASSUME NEW i \in DOMAIN published PROVE published[i].payload.at <= now'
    BY DEF StampedByNow
  <2>2. published[i].payload.at \in Nat
    BY PublishedType, LoopBounds DEF BusInv, PublishedMessages
  <2> QED
    BY <2>1, <2>2 DEF StampedByNow
<1>7. CalledAreDone'
  <2> SUFFICES ASSUME NEW d \in DOMAIN calls, NEW k \in 1..calls[d].called,
                      k < calls[d].called \/ calls[d].doing \in {Idle, "running", "told"},
                      NEW i \in DOMAIN published, i = calls[d].message
               PROVE  Done(i, k)'
    BY <1>2 DEF CalledAreDone
  <2>1. Done(i, k)
    BY DEF CalledAreDone
  <2>2. k \in 1..Len(handlers[SubjectOf(i)])
    BY CalledExist
  <2> QED
    BY <2>1, <2>2, DoneStays
<1>8. FinishedAreDone'
  <2> SUFFICES ASSUME NEW i \in DOMAIN published, i \notin InProgress, i \notin cut,
                      NEW k \in 1..published[i].audience
               PROVE  Done(i, k)'
    BY DEF FinishedAreDone, InProgress
  <2>1. Done(i, k) /\ k \in 1..Len(handlers[SubjectOf(i)])
    BY CalledExist DEF FinishedAreDone
  <2> QED
    BY <2>1, DoneStays
<1> QED
  BY <1>3, <1>4, <1>5, <1>6, <1>7, <1>8, <1>9

\* What was done stays done in the steps that end no delivery.
LEMMA FinishedStayDone ==
  ASSUME BusInv, LoopInv, [Next]_vars, cut' = cut, InProgress \subseteq InProgress',
         DOMAIN published' \ DOMAIN published \subseteq InProgress'
  PROVE  FinishedAreDone'
<1> SUFFICES ASSUME NEW i \in DOMAIN published', i \notin InProgress', i \notin cut,
                    NEW k \in 1..published'[i].audience
             PROVE  Done(i, k)'
  BY DEF FinishedAreDone
<1>1. i \in DOMAIN published /\ i \notin InProgress /\ published'[i] = published[i]
  BY OnlyAdded
<1>2. Done(i, k) /\ k \in 1..Len(handlers[SubjectOf(i)])
  BY <1>1, CalledExist DEF LoopInv, FinishedAreDone
<1> QED
  BY <1>1, <1>2, DoneStays

\* A publication from outside, of the candidate of an investigator that has assessed, or of
\* another handler.
LEMMA PublishKeepsLoop ==
  ASSUME BusInv, LoopInv, [Next]_vars, NEW s \in Subjects, NEW signal \in AnySignal,
         NEW then \in Stages \cup {Idle}, Publish(s, Payload(signal), then),
         \/ calls = <<>>
         \/ /\ then = "told" /\ ~Own(Innermost.message) /\ Innermost.called >= 1
            /\ \E i, k : i = Innermost.message /\ k = Innermost.called /\ Done(i, k)'
         \/ then = "running" /\ Innermost.doing = "running",
         now' = now
  PROVE  LoopInv'
<1> USE DEF BusInv, LoopInv
<1> DEFINE n == Len(published) + 1
           m == Len(calls) + 1
           msg == Message(s, Payload(signal))
<1>1. /\ published' = Append(published, msg)
      /\ msg \in PublishedMessages
      /\ calls' \in Seq(CallsOfPublish)
      /\ Len(calls') = Len(calls) + 1
      /\ \A d \in DOMAIN calls : /\ calls'[d].message = calls[d].message
                                 /\ calls'[d].called = calls[d].called
                                 /\ d # Len(calls) => calls'[d].doing = calls[d].doing
                                 /\ d = Len(calls) => calls'[d].doing = then
      /\ calls'[Len(calls')] = Call(Len(published) + 1, 0, Idle)
      /\ UNCHANGED <<handlers, heard, cut>>
  BY PublishEffect
<1>2. /\ DOMAIN published' = DOMAIN published \cup {n}
      /\ \A i \in DOMAIN published : published'[i] = published[i]
      /\ published'[n] = msg
  <2>1. published \in Seq(PublishedMessages)
    BY DEF TypeOK
  <2> HIDE DEF msg
  <2> QED
    BY <1>1, <2>1
<1>3. /\ DOMAIN calls' = DOMAIN calls \cup {m}
      /\ m \in Nat /\ m \notin DOMAIN calls
      /\ \A d \in DOMAIN calls : d \in Nat /\ d < m
      /\ Len(calls') = m /\ Len(calls) + 1 = m /\ Len(calls) \in Nat
      /\ calls # <<>> => Len(calls) \in DOMAIN calls
      /\ calls'[m].message = n /\ calls'[m].called = 0 /\ calls'[m].doing = Idle
  <2>1. calls \in Seq(CallsOfPublish)
    BY DEF TypeOK
  <2>2. calls'[m] = Call(n, 0, Idle)
    BY <1>1
  <2> HIDE DEF n
  <2>3. calls'[m].message = n /\ calls'[m].called = 0 /\ calls'[m].doing = Idle
    BY <2>2 DEF Call
  <2> QED
    BY <1>1, <2>1, <2>3
<1>4. \A d \in DOMAIN calls : calls[d].message \in DOMAIN published /\ calls[d].called \in Nat
  BY CallType
<1>5. \A i \in DOMAIN published : Own(i)' <=> Own(i)
  BY DoneStays
\* whoever is in progress has told of a foreign signal, or does not investigate
<1>6. ASSUME NEW d \in DOMAIN calls
      PROVE  /\ \/ calls'[d].doing = "told" /\ ~Own(calls[d].message)
                \/ calls'[d].doing = "running" /\ calls[d].doing = "running"
             /\ d # Len(calls) => calls'[d].doing = calls[d].doing
             /\ calls[d].called >= 1
  <2>1. calls # <<>>
    OBVIOUS
  <2>2. CASE d = Len(calls) /\ then = "told" /\ ~Own(Innermost.message) /\ Innermost.called >= 1
    BY <1>1, <2>1, <2>2 DEF Innermost
  <2>3. CASE d = Len(calls) /\ then = "running" /\ Innermost.doing = "running"
    BY <1>1, <2>1, <2>3, StagesAreNotIdle DEF Innermost, BusyWereCalled
  <2>4. CASE d # Len(calls)
    <3>1. d < Len(calls)
      BY <1>3, <2>4
    <3>2. calls'[d].doing = calls[d].doing /\ calls[d].doing \in {"told", "running"}
      BY <1>1, <2>4, <3>1 DEF OuterHaveTold
    <3>3. calls[d].doing = "told" => ~Own(calls[d].message)
      BY DEF OwnAreScreened
    <3> QED
      BY <3>2, <3>3, StagesAreNotIdle DEF BusyWereCalled
  <2> QED
    BY <2>1, <2>2, <2>3, <2>4
<1>14. "running" # "told" /\ "running" \notin Range(ContextLevels)
  BY DEF ContextLevels, Range
<1> HIDE DEF n, m, msg
<1>7. OuterHaveTold'
  BY <1>3, <1>6 DEF OuterHaveTold
<1>15. OthersRun'
  <2> SUFFICES ASSUME NEW d \in DOMAIN calls', calls'[d].doing = "running",
                      NEW i, i = calls'[d].message, NEW k, k = calls'[d].called
               PROVE  ~Investigates(i, k)'
    BY DEF OthersRun
  <2>1. d \in DOMAIN calls /\ i = calls[d].message /\ k = calls[d].called
    BY <1>1, <1>3, StagesAreNotIdle
  <2>2. calls[d].doing = "running"
    BY <1>6, <1>14, <2>1
  <2> QED
    BY <2>1, <2>2, OthersStay
<1>8. OwnAreScreened'
  <2> SUFFICES ASSUME NEW d \in DOMAIN calls',
                      calls'[d].doing \in Range(ContextLevels) \cup {"told"},
                      NEW i, i = calls'[d].message
               PROVE  ~Own(i)'
    BY DEF OwnAreScreened
  <2>1. d # m
    BY <1>3, StagesAreNotIdle
  <2>2. d \in DOMAIN calls /\ i = calls[d].message
    BY <1>1, <1>3, <2>1
  <2> QED
    BY <1>4, <1>5, <1>6, <1>14, <2>2
<1>9. BusyWereCalled'
  <2> SUFFICES ASSUME NEW d \in DOMAIN calls', calls'[d].doing # Idle
               PROVE  calls'[d].called >= 1
    BY DEF BusyWereCalled
  <2> QED
    BY <1>1, <1>3, <1>6
<1>10. InsideForeign'
  <2> SUFFICES ASSUME NEW i \in DOMAIN published', NEW outer \in published'[i].inside
               PROVE  /\ outer.message \in DOMAIN published'
                      /\ (outer.called \in DOMAIN handlers[SubjectOf(outer.message)])'
                      /\ Investigates(outer.message, outer.called)' => ~Own(outer.message)'
    BY DEF InsideForeign
  <2>1. CASE i \in DOMAIN published
    BY <1>2, <2>1, InsideStays
  <2>2. CASE i = n
    <3>1. outer \in {[message |-> c.message, called |-> c.called] : c \in Range(calls)}
      BY <1>2, <2>2 DEF msg, Message
    <3>2. PICK d \in DOMAIN calls : outer.message = calls[d].message /\ outer.called = calls[d].called
      BY <3>1 DEF Range
    <3>3. outer.message \in DOMAIN published /\ outer.called \in DOMAIN handlers[SubjectOf(outer.message)]
      <4>1. outer.called \in 1..calls[d].called
        BY <1>4, <1>6, <3>2
      <4>2. outer.called \in 1..Len(handlers[SubjectOf(outer.message)])
        BY <3>2, <4>1, CalledExist
      <4>3. outer.message \in DOMAIN published
        BY <1>4, <3>2
      <4> QED
        BY <4>2, <4>3, PublishedType, SubscriptionType
    <3>4. Investigates(outer.message, outer.called) => ~Own(outer.message)
      <4>1. CASE ~Own(calls[d].message)
        BY <3>2, <4>1
      <4>2. CASE calls[d].doing = "running"
        BY <3>2, <4>2 DEF OthersRun
      <4> QED
        BY <1>6, <4>1, <4>2
    <3> QED
      BY <1>2, <1>5, <3>3, <3>4, InvestigatesStays
  <2> QED
    BY <1>2, <2>1, <2>2
<1>11. StampedByNow'
  <2>1. msg.payload.at = now
    BY DEF msg, Message, Payload
  <2>2. now \in Nat
    BY LoopBounds DEF TypeOK
  <2> QED
    BY <1>2, <2>1, <2>2 DEF StampedByNow
<1>12. CalledAreDone'
  <2> SUFFICES ASSUME NEW d \in DOMAIN calls', NEW k \in 1..calls'[d].called,
                      k < calls'[d].called \/ calls'[d].doing \in {Idle, "running", "told"},
                      NEW i, i = calls'[d].message
               PROVE  Done(i, k)'
    BY DEF CalledAreDone
  <2>1. d \in DOMAIN calls /\ i = calls[d].message /\ calls'[d].called = calls[d].called
        /\ calls[d].called \in Nat /\ i \in DOMAIN published
    BY <1>1, <1>3, <1>4
  <2>2. CASE d # Len(calls) \/ k < calls[d].called
    <3>1. Done(i, k)
      BY <1>1, <1>6, <2>1, <2>2 DEF CalledAreDone
    <3>2. k \in 1..Len(handlers[SubjectOf(i)])
      BY <2>1, CalledExist
    <3> QED
      BY <2>1, <3>1, <3>2, DoneStays
  <2>3. CASE d = Len(calls) /\ ~(k < calls[d].called)
    <3>1. k = calls[d].called
      BY <2>1, <2>3
    <3>2. calls # <<>> /\ i = Innermost.message /\ k = Innermost.called
      BY <2>1, <2>3, <3>1 DEF Innermost
    <3>3. CASE calls[d].doing = "running"
      <4>1. Done(i, k) /\ k \in 1..Len(handlers[SubjectOf(i)])
        BY <2>1, <3>1, <3>3, CalledExist DEF CalledAreDone
      <4> QED
        BY <2>1, <4>1, DoneStays
    <3>4. CASE Innermost.doing # "running"
      BY <3>2, <3>4
    <3> QED
      BY <2>3, <3>3, <3>4 DEF Innermost
  <2> QED
    BY <2>2, <2>3
<1>13. FinishedAreDone'
  <2>1. InProgress \subseteq InProgress' /\ n \in InProgress'
    BY <1>1, <1>3 DEF InProgress, Range
  <2> QED
    BY <1>1, <1>2, <2>1, FinishedStayDone
<1> QED
  BY <1>7, <1>8, <1>9, <1>10, <1>11, <1>12, <1>13, <1>15

\* An investigator goes on to a level of context for a foreign signal, or a handler is done.
LEMMA ContinueKeepsLoop ==
  ASSUME BusInv, LoopInv, [Next]_vars, NEW doing \in Stages \cup {Idle}, HandlerContinues(doing),
         \/ /\ doing \in Range(ContextLevels)
            /\ ~Own(Innermost.message)
         \/ /\ doing = Idle
            /\ \E i, k : i = Innermost.message /\ k = Innermost.called /\ Done(i, k)'
  PROVE  LoopInv'
<1> USE DEF BusInv, LoopInv
<1>1. /\ calls' \in Seq(CallsOfPublish)
      /\ Len(calls') = Len(calls) /\ Len(calls) \in DOMAIN calls
      /\ calls[Len(calls)].doing # Idle
      /\ \A d \in DOMAIN calls : /\ calls'[d].message = calls[d].message
                                 /\ calls'[d].called = calls[d].called
                                 /\ d # Len(calls) => calls'[d].doing = calls[d].doing
                                 /\ d = Len(calls) => calls'[d].doing = doing
      /\ UNCHANGED <<handlers, published, heard, cut>>
  BY ContinueEffect
<1>2. DOMAIN calls' = DOMAIN calls /\ \A d \in DOMAIN calls : d \in Nat /\ d <= Len(calls)
  BY <1>1 DEF TypeOK
<1>3. \A d \in DOMAIN calls : calls[d].message \in DOMAIN published /\ calls[d].called \in Nat
  BY CallType
<1>4. \A i \in DOMAIN published : Own(i)' <=> Own(i)
  BY DoneStays
<1>5. OuterHaveTold'
  <2> SUFFICES ASSUME NEW d \in DOMAIN calls, d < Len(calls) PROVE calls'[d].doing \in {"told", "running"}
    BY <1>1, <1>2 DEF OuterHaveTold
  <2>1. Len(calls) \in Nat /\ d # Len(calls)
    BY <1>1, <1>2 DEF TypeOK
  <2> QED
    BY <1>1, <2>1 DEF OuterHaveTold
<1>6. OwnAreScreened'
  <2> SUFFICES ASSUME NEW d \in DOMAIN calls,
                      calls'[d].doing \in Range(ContextLevels) \cup {"told"},
                      NEW i, i = calls'[d].message
               PROVE  ~Own(i)'
    BY <1>2 DEF OwnAreScreened
  <2>1. i = calls[d].message /\ i \in DOMAIN published
    BY <1>1, <1>3
  <2>2. CASE d # Len(calls)
    BY <1>1, <1>4, <2>1, <2>2 DEF OwnAreScreened
  <2>3. CASE d = Len(calls)
    BY <1>1, <1>4, <2>1, <2>3, StagesAreNotIdle DEF Innermost
  <2> QED
    BY <2>2, <2>3
<1>7. BusyWereCalled'
  BY <1>1, <1>2 DEF BusyWereCalled
<1>8. InsideForeign'
  BY <1>1, InsideStays DEF InsideForeign
<1>12. OthersRun'
  <2> SUFFICES ASSUME NEW d \in DOMAIN calls, calls'[d].doing = "running",
                      NEW i, i = calls'[d].message, NEW k, k = calls'[d].called
               PROVE  ~Investigates(i, k)'
    BY <1>2 DEF OthersRun
  <2>1. d # Len(calls)
    <3>1. "running" \notin Range(ContextLevels)
      BY DEF ContextLevels, Range
    <3> QED
      BY <1>1, <3>1, StagesAreNotIdle
  <2> QED
    BY <1>1, <2>1, OthersStay
<1>9. StampedByNow'
  <2>1. now \in Nat /\ now' \in Nat /\ now' >= now
    BY ClockAndAssessments, LoopBounds DEF TypeOK
  <2> SUFFICES ASSUME NEW i \in DOMAIN published PROVE published[i].payload.at <= now'
    BY <1>1 DEF StampedByNow
  <2>2. published[i].payload.at \in Nat
    BY PublishedType, LoopBounds DEF PublishedMessages
  <2> QED
    BY <2>1, <2>2 DEF StampedByNow
<1>10. CalledAreDone'
  <2> SUFFICES ASSUME NEW d \in DOMAIN calls, NEW k \in 1..calls'[d].called,
                      k < calls'[d].called \/ calls'[d].doing \in {Idle, "running", "told"},
                      NEW i, i = calls'[d].message
               PROVE  Done(i, k)'
    BY <1>2 DEF CalledAreDone
  <2>1. i = calls[d].message /\ calls'[d].called = calls[d].called
        /\ calls[d].called \in Nat /\ i \in DOMAIN published
    BY <1>1, <1>3
  <2>2. CASE d # Len(calls) \/ k < calls[d].called
    <3>1. Done(i, k)
      BY <1>1, <2>1, <2>2 DEF CalledAreDone
    <3>2. k \in 1..Len(handlers[SubjectOf(i)])
      BY <2>1, CalledExist
    <3> QED
      BY <2>1, <3>1, <3>2, DoneStays
  <2>3. CASE d = Len(calls) /\ ~(k < calls[d].called)
    <3>1. k = calls[d].called
      BY <2>1, <2>3
    <3>2. i = Innermost.message /\ k = Innermost.called
      BY <2>1, <2>3, <3>1 DEF Innermost
    <3>3. doing \notin Range(ContextLevels)
      <4>1. calls'[d].doing = doing /\ doing \in {Idle, "running", "told"}
        BY <1>1, <2>1, <2>3
      <4>2. "running" \notin Range(ContextLevels) /\ "told" \notin Range(ContextLevels)
        BY DEF ContextLevels, Range
      <4> QED
        BY <4>1, <4>2, StagesAreNotIdle
    <3> QED
      BY <3>2, <3>3
  <2> QED
    BY <2>2, <2>3
<1>11. FinishedAreDone'
  <2>1. InProgress \subseteq InProgress'
    BY <1>1, <1>2 DEF InProgress, Range
  <2> QED
    BY <1>1, <2>1, FinishedStayDone
<1> QED
  BY <1>5, <1>6, <1>7, <1>8, <1>9, <1>10, <1>11, <1>12

\* A call of publish() ends: by an exception, or with its audience done.
LEMMA EndKeepsLoop ==
  ASSUME BusInv, LoopInv, [Next]_vars, HandlerRaises \/ PublishReturns
  PROVE  LoopInv'
<1> USE DEF BusInv, LoopInv
<1>1. /\ calls' \in Seq(CallsOfPublish)
      /\ Len(calls) \in DOMAIN calls
      /\ Len(calls') = Len(calls) - 1
      /\ \A d \in DOMAIN calls' : d \in DOMAIN calls /\ calls'[d] = calls[d]
      /\ handlers' = handlers /\ published' = published /\ heard' = heard
  BY EndEffect
<1> DEFINE last == calls[Len(calls)].message
<1>2. \A d \in DOMAIN calls : d # Len(calls) => d \in DOMAIN calls' /\ calls'[d] = calls[d]
  BY <1>1 DEF TypeOK
<1>3. \A i \in InProgress : i \in InProgress' \/ i = last
  BY <1>1, <1>2 DEF InProgress, Range
<1>4. cut \subseteq cut' /\ (PublishReturns \/ last \in cut')
  BY DEF HandlerRaises, PublishReturns, Innermost
<1>5. \A i \in DOMAIN published : Own(i)' <=> Own(i)
  BY DoneStays
<1>6. \A d \in DOMAIN calls : calls[d].message \in DOMAIN published
  BY CallType
<1>7. OuterHaveTold'
  <2> SUFFICES ASSUME NEW d \in DOMAIN calls', d < Len(calls') PROVE calls[d].doing \in {"told", "running"}
    BY <1>1 DEF OuterHaveTold
  <2>1. d \in DOMAIN calls /\ d \in Nat /\ Len(calls) \in Nat
    BY <1>1, CallType
  <2> QED
    BY <1>1, <2>1 DEF OuterHaveTold
<1>8. OwnAreScreened'
  <2> SUFFICES ASSUME NEW d \in DOMAIN calls',
                      calls'[d].doing \in Range(ContextLevels) \cup {"told"},
                      NEW i, i = calls'[d].message
               PROVE  ~Own(i)'
    BY DEF OwnAreScreened
  <2> QED
    BY <1>1, <1>5, <1>6 DEF OwnAreScreened
<1>9. BusyWereCalled'
  BY <1>1 DEF BusyWereCalled
<1>10. InsideForeign'
  BY <1>1, InsideStays DEF InsideForeign
<1>14. OthersRun'
  BY <1>1, OthersStay DEF OthersRun
<1>11. StampedByNow'
  <2>1. now \in Nat /\ now' \in Nat /\ now' >= now
    BY ClockAndAssessments, LoopBounds DEF TypeOK
  <2> SUFFICES ASSUME NEW i \in DOMAIN published PROVE published[i].payload.at <= now'
    BY <1>1 DEF StampedByNow
  <2>2. published[i].payload.at \in Nat
    BY PublishedType, LoopBounds DEF PublishedMessages
  <2> QED
    BY <2>1, <2>2 DEF StampedByNow
<1>12. CalledAreDone'
  <2> SUFFICES ASSUME NEW d \in DOMAIN calls', NEW k \in 1..calls'[d].called,
                      k < calls'[d].called \/ calls'[d].doing \in {Idle, "running", "told"},
                      NEW i, i = calls'[d].message
               PROVE  Done(i, k)'
    BY DEF CalledAreDone
  <2>1. d \in DOMAIN calls /\ calls'[d] = calls[d] /\ i \in DOMAIN published
    BY <1>1, <1>6
  <2>2. Done(i, k) /\ k \in 1..Len(handlers[SubjectOf(i)])
    BY <2>1, CalledExist DEF CalledAreDone
  <2> QED
    BY <2>1, <2>2, DoneStays
<1>13. FinishedAreDone'
  <2> SUFFICES ASSUME NEW i \in DOMAIN published, i \notin InProgress', i \notin cut',
                      NEW k \in 1..published[i].audience
               PROVE  Done(i, k)'
    BY <1>1 DEF FinishedAreDone
  <2>1. k \in 1..Len(handlers[SubjectOf(i)])
    BY CalledExist
  <2>2. CASE i \notin InProgress
    BY <1>4, <2>1, <2>2, DoneStays DEF FinishedAreDone
  <2>3. CASE i \in InProgress
    <3>1. i = last /\ PublishReturns
      BY <1>3, <1>4, <2>3
    <3>2. /\ SubjectOf(i) \in Subjects /\ published[i].audience \in Nat
          /\ Len(handlers[SubjectOf(i)]) \in Nat
      BY PublishedType, SubscriptionType
    <3>3. /\ calls[Len(calls)].called \in Nat
          /\ calls[Len(calls)].doing = Idle
          /\ ~(calls[Len(calls)].called < Len(handlers[SubjectOf(i)]))
      BY <1>1, <3>1, CallType DEF PublishReturns, HandlersLeft, Innermost
    <3>4. k \in 1..calls[Len(calls)].called
      BY <2>1, <3>2, <3>3
    <3>5. Done(i, k)
      BY <1>1, <3>1, <3>3, <3>4 DEF CalledAreDone
    <3> QED
      BY <2>1, <3>5, DoneStays
  <2> QED
    BY <2>2, <2>3
<1> QED
  BY <1>7, <1>8, <1>9, <1>10, <1>11, <1>12, <1>13, <1>14

\* The loop of publish() calls its next handler; the one before it has returned.
LEMMA CallKeepsLoop ==
  ASSUME BusInv, LoopInv, [Next]_vars, CallHandler(Start), now' = now
  PROVE  LoopInv'
<1> USE DEF BusInv, LoopInv
<1> DEFINE c == Len(calls)
           j == calls[c].message
           s == SubjectOf(j)
           n == calls[c].called + 1
<1>1. /\ c \in DOMAIN calls /\ s \in Subjects /\ j \in Nat /\ j \in DOMAIN published
      /\ calls[c].doing = Idle
      /\ n \in 1..Len(handlers[s])
      /\ calls' \in Seq(CallsOfPublish)
      /\ Len(calls') = Len(calls)
      /\ \A e \in DOMAIN calls : e # c => calls'[e] = calls[e]
      /\ calls'[c] = Call(j, n, Start[handlers[s][n]])
      /\ handlers' = handlers /\ published' = published /\ cut' = cut
  BY CallEffect
<1>2. /\ DOMAIN calls' = DOMAIN calls
      /\ calls'[c].message = j /\ calls'[c].called = n
      /\ calls'[c].doing = Start[handlers[s][n]]
  <2>1. calls \in Seq(CallsOfPublish)
    BY DEF TypeOK
  <2> HIDE DEF c, j, s, n
  <2> QED
    BY <1>1, <2>1 DEF Call, c
<1>3. /\ calls[c].called \in Nat /\ c \in Nat
      /\ \A d \in DOMAIN calls : calls[d].message \in DOMAIN published
  BY <1>1, CallType
<1>4. \A i \in DOMAIN published : Own(i)' <=> Own(i)
  BY DoneStays
<1>5. handlers[s][n] \in Handlers
  BY <1>1 DEF TypeOK
<1>6. /\ handlers[s][n] \in Investigators => Start[handlers[s][n]] = "received"
      /\ handlers[s][n] \notin Investigators => Start[handlers[s][n]] = "running"
      /\ Start[handlers[s][n]] \notin Range(ContextLevels) \cup {"told", Idle}
  <2>1. "running" \notin Range(ContextLevels) /\ "received" \notin Range(ContextLevels)
    BY DEF ContextLevels, Range
  <2> QED
    BY <1>5, <2>1, StagesAreNotIdle DEF Start
<1> HIDE DEF c, j, s, n
<1>7. OuterHaveTold'
  <2> SUFFICES ASSUME NEW d \in DOMAIN calls, d < Len(calls) PROVE calls'[d].doing \in {"told", "running"}
    BY <1>1, <1>2 DEF OuterHaveTold
  <2> QED
    BY <1>1, <1>3 DEF OuterHaveTold, c
<1>8. OwnAreScreened'
  <2> SUFFICES ASSUME NEW d \in DOMAIN calls,
                      calls'[d].doing \in Range(ContextLevels) \cup {"told"},
                      NEW i, i = calls'[d].message
               PROVE  ~Own(i)'
    BY <1>2 DEF OwnAreScreened
  <2>1. d # c
    BY <1>2, <1>6
  <2> QED
    BY <1>1, <1>3, <1>4, <2>1 DEF OwnAreScreened
<1>9. BusyWereCalled'
  <2> SUFFICES ASSUME NEW d \in DOMAIN calls, calls'[d].doing # Idle PROVE calls'[d].called >= 1
    BY <1>2 DEF BusyWereCalled
  <2>1. CASE d = c
    BY <1>2, <1>3, <2>1 DEF n
  <2>2. CASE d # c
    BY <1>1, <2>2 DEF BusyWereCalled
  <2> QED
    BY <2>1, <2>2
<1>10. InsideForeign'
  BY <1>1, InsideStays DEF InsideForeign
<1>14. OthersRun'
  <2> SUFFICES ASSUME NEW d \in DOMAIN calls, calls'[d].doing = "running",
                      NEW i, i = calls'[d].message, NEW k, k = calls'[d].called
               PROVE  ~Investigates(i, k)'
    BY <1>2 DEF OthersRun
  <2>1. CASE d # c
    BY <1>1, <2>1, OthersStay
  <2>2. CASE d = c
    <3>1. handlers[s][n] \notin Investigators
      BY <1>2, <1>6, <2>2
    <3>2. i = j /\ k = n /\ published'[i].subject = s /\ handlers' = handlers
      BY <1>1, <1>2, <2>2 DEF s, SubjectOf
    <3> QED
      BY <3>1, <3>2 DEF Investigates, SubjectOf
  <2> QED
    BY <2>1, <2>2
<1>11. StampedByNow'
  BY <1>1 DEF StampedByNow
<1>12. CalledAreDone'
  <2> SUFFICES ASSUME NEW d \in DOMAIN calls, NEW k \in 1..calls'[d].called,
                      k < calls'[d].called \/ calls'[d].doing \in {Idle, "running", "told"},
                      NEW i, i = calls'[d].message
               PROVE  Done(i, k)'
    BY <1>2 DEF CalledAreDone
  <2>1. CASE d # c
    <3>1. calls'[d] = calls[d] /\ i \in DOMAIN published
      BY <1>1, <1>3, <2>1
    <3>2. Done(i, k) /\ k \in 1..Len(handlers[SubjectOf(i)])
      BY <3>1, CalledExist DEF CalledAreDone
    <3> QED
      BY <3>1, <3>2, DoneStays
  <2>2. CASE d = c /\ k # n
    <3>1. i = calls[c].message /\ k \in 1..calls[c].called /\ i \in DOMAIN published
      BY <1>1, <1>2, <1>3, <2>2 DEF j, n
    <3>2. Done(i, k) /\ k \in 1..Len(handlers[SubjectOf(i)])
      BY <1>1, <3>1, CalledExist DEF CalledAreDone
    <3> QED
      BY <3>1, <3>2, DoneStays
  <2>3. CASE d = c /\ k = n
    <3>1. handlers[s][n] \notin Investigators
      <4>1. Start[handlers[s][n]] \in {Idle, "running", "told"}
        BY <1>2, <1>3, <2>3 DEF n
      <4> QED
        BY <1>6, <4>1
    <3>2. i = j /\ published'[i].subject = s /\ handlers' = handlers
      BY <1>1, <1>2, <2>3 DEF s, SubjectOf
    <3> QED
      BY <2>3, <3>1, <3>2 DEF Done, SubjectOf
  <2> QED
    BY <2>1, <2>2, <2>3
<1>13. FinishedAreDone'
  <2>1. \A d \in DOMAIN calls : calls'[d].message = calls[d].message
    BY <1>1, <1>2 DEF j
  <2>2. InProgress \subseteq InProgress'
    BY <1>2, <2>1 DEF InProgress, Range
  <2> QED
    BY <1>1, <2>2, FinishedStayDone
<1> QED
  BY <1>7, <1>8, <1>9, <1>10, <1>11, <1>12, <1>13, <1>14

-----------------------------------------------------------------------------
(* Every step of the loop.                                                 *)

\* The innermost call of publish() is of a published message, for a subscription that exists.
LEMMA InnermostType ==
  ASSUME BusInv, LoopInv, calls # <<>>
  PROVE  /\ Len(calls) \in DOMAIN calls
         /\ Innermost.message \in DOMAIN published
         /\ SubjectOf(Innermost.message) \in Subjects
         /\ Signal(Innermost.message) \in AnySignal
         /\ Innermost.doing # Idle =>
              Innermost.called \in 1..Len(handlers[SubjectOf(Innermost.message)])
<1>1. Len(calls) \in DOMAIN calls
  BY DEF BusInv, TypeOK
<1>2. /\ Innermost.message \in DOMAIN published
      /\ SubjectOf(Innermost.message) \in Subjects
      /\ Innermost.called \in Nat
  BY <1>1, CallType DEF BusInv, Innermost
<1>3. Innermost.doing # Idle => Innermost.called \in 1..Innermost.called
  BY <1>1, <1>2 DEF LoopInv, BusyWereCalled, Innermost
<1>4. Signal(Innermost.message) \in AnySignal
  BY <1>2, PublishedType DEF BusInv, PublishedMessages, Signal
<1> QED
  BY <1>1, <1>2, <1>3, <1>4, CalledExist DEF Innermost

\* A signal that is not wanted is ARGOS's own, or covered by a tombstone in force.
LEMMA UnwantedIsDone ==
  ASSUME BusInv, NEW i \in DOMAIN published, NEW k, LoopInv, ~Wanted(Signal(i))
  PROVE  Done(i, k)
<1>1. CASE ~ShouldTriggerNewInvestigation(Signal(i))
  BY <1>1 DEF ShouldTriggerNewInvestigation, Done, Own
<1>2. CASE IsSignalTombstoned(Signal(i).entity_refs, Signal(i).signature, Tombstones, now)
  <2>1. PICK t \in Tombstones :
          /\ t.signal_signature = Signal(i).signature
          /\ Signal(i).entity_refs \cap t.entity_refs # {}
          /\ t.valid_from <= now /\ now <= t.valid_until
    BY <1>2 DEF IsSignalTombstoned
  <2>2. /\ published[i].payload.at \in Nat /\ now \in Nat
        /\ published[i].payload.at <= now
    <3>1. now \in Nat
      BY LoopBounds DEF BusInv, TypeOK
    <3>2. published[i].payload.at \in Nat
      BY PublishedType, LoopBounds DEF BusInv, PublishedMessages
    <3> QED
      BY <3>1, <3>2 DEF LoopInv, StampedByNow
  <2>3. published[i].payload.at <= t.valid_until
    BY <2>1, <2>2, TombstonesAssumption
  <2>4. t.entity_refs \cap Signal(i).entity_refs # {}
    BY <2>1
  <2> QED
    BY <2>1, <2>3, <2>4 DEF Done, CoveredSince
<1> QED
  BY <1>1, <1>2 DEF Wanted

\* An investigator screens its signal: it goes on, or owes no assessment.
LEMMA ScreenKeeps ==
  ASSUME BusInv, LoopInv, [Next]_vars, Screen
  PROVE  LoopInv'
<1>1. calls # <<>> /\ Innermost.doing # Idle
  BY StagesAreNotIdle DEF Screen, At
<1>2. CASE Wanted(Signal(Innermost.message))
  <2>1. HandlerContinues(PlanNextContextLevel(None, TRUE))
    BY <1>2 DEF Screen
  <2>2. ~Own(Innermost.message)
    BY <1>2 DEF Wanted, ShouldTriggerNewInvestigation, Own
  <2> QED
    BY <2>1, <2>2, FirstLevel, ContinueKeepsLoop DEF Stages
<1>3. CASE ~Wanted(Signal(Innermost.message))
  <2>1. HandlerContinues(Idle)
    BY <1>3 DEF Screen, HandlerReturns
  <2>2. \E i, k : i = Innermost.message /\ k = Innermost.called /\ Done(i, k)'
    <3>1. PICK i \in DOMAIN published, k \in Nat :
            /\ i = Innermost.message /\ k = Innermost.called
            /\ k \in 1..Len(handlers[SubjectOf(i)])
      BY <1>1, InnermostType
    <3>2. Done(i, k)
      BY <1>3, <3>1, UnwantedIsDone
    <3> QED
      BY <3>1, <3>2, DoneStays
  <2> QED
    BY <2>1, <2>2, ContinueKeepsLoop
<1> QED
  BY <1>2, <1>3

\* An investigator reads the next level of context.
LEMMA ExpandKeeps ==
  ASSUME BusInv, LoopInv, [Next]_vars, NEW open \in BOOLEAN, Expand(open)
  PROVE  LoopInv'
<1>1. calls # <<>> /\ Innermost.doing \in Range(ContextLevels)
  BY DEF Expand, InContext
<1>2. ~Own(Innermost.message)
  BY <1>1, InnermostType DEF LoopInv, OwnAreScreened, Innermost
<1>3. PlanNextContextLevel(Innermost.doing, open) \in Range(ContextLevels)
  BY <1>1, NextLevel DEF Expand
<1> QED
  BY <1>2, <1>3, ContinueKeepsLoop DEF Expand, Stages

\* An investigator concludes: assessed and told, or an exception.
LEMMA ConcludeKeeps ==
  ASSUME BusInv, LoopInv, [Next]_vars, NEW open \in BOOLEAN, NEW refs \in SUBSET {"evidence"},
         Conclude(open, refs)
  PROVE  LoopInv'
<1>1. calls # <<>> /\ Innermost.doing \in Range(ContextLevels) /\ now' = now
  BY DEF Conclude, InContext
<1>2. ~Own(Innermost.message)
  BY <1>1, InnermostType DEF LoopInv, OwnAreScreened, Innermost
<1>3. CASE Assessable({Innermost.message}, refs)
  <2>1. /\ <<Innermost.message, Innermost.called>> \in assessments'
        /\ Publish(SubjectOf(Innermost.message),
                   Payload(Candidate(Signal(Innermost.message))), "told")
    BY <1>3 DEF Conclude
  <2>2. \E i, k : i = Innermost.message /\ k = Innermost.called /\ Done(i, k)'
    BY <2>1 DEF Done
  <2>3. /\ SubjectOf(Innermost.message) \in Subjects
        /\ Candidate(Signal(Innermost.message)) \in AnySignal
    BY <1>1, InnermostType, CandidateAgain
  <2>4. Innermost.called >= 1
    BY <1>1, InnermostType, StagesAreNotIdle DEF LoopInv, BusyWereCalled, Innermost
  <2> QED
    BY <1>1, <1>2, <2>1, <2>2, <2>3, <2>4, PublishKeepsLoop DEF Stages
<1>4. CASE ~Assessable({Innermost.message}, refs)
  BY <1>4, EndKeepsLoop DEF Conclude
<1> QED
  BY <1>3, <1>4

\* A handler returns or raises.
LEMMA FinishKeeps ==
  ASSUME BusInv, LoopInv, [Next]_vars, Finish
  PROVE  LoopInv'
<1>1. calls # <<>> /\ Innermost.doing \in {"running", "told"} /\ Innermost.doing # Idle
  BY StagesAreNotIdle DEF Finish, At
<1>2. CASE HandlerRaises
  BY <1>2, EndKeepsLoop
<1>3. CASE HandlerReturns
  <2>1. PICK i \in DOMAIN published, k \in Nat :
          /\ i = Innermost.message /\ k = Innermost.called
          /\ k \in 1..Len(handlers[SubjectOf(i)])
    BY <1>1, InnermostType
  <2>2. Len(calls) \in DOMAIN calls /\ k \in 1..calls[Len(calls)].called
    BY <1>1, <2>1, InnermostType, CallType DEF BusInv, Innermost
  <2>3. Done(i, k)
    BY <1>1, <2>1, <2>2 DEF LoopInv, CalledAreDone, Innermost
  <2>4. \E a, b : a = Innermost.message /\ b = Innermost.called /\ Done(a, b)'
    BY <2>1, <2>3, DoneStays
  <2> QED
    BY <1>3, <2>4, ContinueKeepsLoop DEF HandlerReturns
<1> QED
  BY <1>2, <1>3 DEF Finish

\* Every step keeps what the investigators keep.
LEMMA LoopInvStep ==
  ASSUME BusInv, LoopInv, [Next]_vars
  PROVE  LoopInv'
<1>1. ASSUME NEW s \in Subjects, NEW signal \in Signals, Source(s, signal) PROVE LoopInv'
  <2>1. /\ Publish(s, Payload(signal), "running") /\ now' = now
        /\ calls = <<>> \/ Innermost.doing = "running"
    BY <1>1 DEF Source, At
  <2>2. signal \in AnySignal
    BY DEF AnySignal
  <2> QED
    BY <2>1, <2>2, PublishKeepsLoop DEF Stages
<1>2. CASE Tick
  BY <1>2, QuietKeeps DEF Tick, busVars
<1>3. ASSUME NEW s \in Subjects, NEW h \in Handlers, Subscribes(s, h) PROVE LoopInv'
  BY <1>3, QuietKeeps DEF Subscribes, Subscribe
<1>4. CASE Deliver
  BY <1>4, CallKeepsLoop, EndKeepsLoop DEF Deliver
<1>5. CASE Screen
  BY <1>5, ScreenKeeps
<1>6. ASSUME NEW open \in BOOLEAN, Expand(open) PROVE LoopInv'
  BY <1>6, ExpandKeeps
<1>7. ASSUME NEW open \in BOOLEAN, NEW refs \in SUBSET {"evidence"}, Conclude(open, refs)
      PROVE  LoopInv'
  BY <1>7, ConcludeKeeps
<1>8. CASE Finish
  BY <1>8, FinishKeeps
<1>9. CASE UNCHANGED vars
  BY <1>9, QuietKeeps DEF vars
<1> QED
  BY <1>1, <1>2, <1>3, <1>4, <1>5, <1>6, <1>7, <1>8, <1>9 DEF Next, Investigate

\* Both invariants always hold.
LEMMA LoopInvAlways == Spec => [](BusInv /\ LoopInv)
<1>1. Init => LoopInv
  <2> SUFFICES ASSUME Init PROVE LoopInv
    OBVIOUS
  <2>1. DOMAIN published = {} /\ DOMAIN calls = {}
    BY DEF Init, BusInit
  <2> QED
    BY <2>1 DEF LoopInv, OuterHaveTold, OthersRun, OwnAreScreened, BusyWereCalled, InsideForeign,
       StampedByNow, CalledAreDone, FinishedAreDone
<1>2. BusInv /\ LoopInv /\ [Next]_vars => BusInv' /\ LoopInv'
  BY BusInvStep, LoopInvStep
<1> QED
  BY InitBusInv, <1>1, <1>2, PTL DEF Spec

-----------------------------------------------------------------------------
(* What the investigators promise.                                         *)

\* In doubt a signal is investigated: when its delivery has ended without an exception, every
\* investigator of its audience has assessed it, unless it was ARGOS's own or a tombstone in
\* force covered it.
THEOREM ForeignSignalsAreAssessed == Spec => []ForeignSignalIsAssessed
<1>1. BusInv /\ LoopInv => ForeignSignalIsAssessed
  BY DEF LoopInv, FinishedAreDone, Done, ForeignSignalIsAssessed
<1> QED
  BY <1>1, LoopInvAlways, PTL

\* ARGOS does not feed itself: nothing is published from inside an investigator's handling of
\* one of its own candidates, however many investigators listen, however calls of publish()
\* nest and whatever other handlers publish.
THEOREM NoCandidateCascade == Spec => []CandidatesNeverCascade
<1>1. LoopInv => CandidatesNeverCascade
  BY DEF LoopInv, InsideForeign, Investigates, CandidatesNeverCascade
<1> QED
  BY <1>1, LoopInvAlways, PTL
====

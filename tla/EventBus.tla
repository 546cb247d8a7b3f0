------------------------------- MODULE EventBus -------------------------------
(***************************************************************************)
(* libs/argos_events, InMemoryEventBus: publish() calls the handlers of    *)
(* its subject one after the other, in the thread of the caller.  A        *)
(* handler may publish, subscribe or raise while it runs, so calls of      *)
(* publish nest, the list of handlers grows under the loop that walks it,  *)
(* and an exception leaves that loop early.                                *)
(***************************************************************************)
EXTENDS Integers, Sequences, SequencesExt

CONSTANTS
  Subjects,          \* subjects messages are published on
  Handlers,          \* callables that may be subscribed
  Idle,              \* of a call of publish: none of its handlers runs
  MaxPublished,      \* bound: messages published in one behaviour
  MaxSubscriptions   \* bound: subscriptions per subject

ASSUME BusBounds == MaxPublished \in Nat /\ MaxSubscriptions \in Nat

VARIABLES
  handlers,   \* _handlers: the handlers of each subject, in order of subscription
  published,  \* the messages published: subject and payload; and, as history, how many handlers
              \* the subject had (audience) and the calls the publisher was inside of
  calls,      \* the calls of publish in progress, innermost last: which message, how many
              \* handlers have been called, and what the running one does (Idle: none)
  heard,      \* history: per subscription the numbers of the messages it was called with
  cut         \* history: the messages whose publish() an exception has left

busVars == <<handlers, published, calls, heard, cut>>

Innermost == calls[Len(calls)]

\* a call of publish(): of which message, handlers called so far, what the running one does
Call(i, called, doing) == [message |-> i, called |-> called, doing |-> doing]

SubjectOf(i) == published[i].subject

\* the code of a caller or a handler has the thread, not the loop of publish()
CallerRuns == calls # <<>> => Innermost.doing # Idle

-----------------------------------------------------------------------------
(* What callers and handlers do.                                           *)

Subscribe(subject, h) ==
  /\ CallerRuns
  /\ Len(handlers[subject]) < MaxSubscriptions
  /\ handlers' = [handlers EXCEPT ![subject] = Append(@, h)]
  /\ heard' = [heard EXCEPT ![subject] = Append(@, <<>>)]
  /\ UNCHANGED <<published, calls, cut>>

Message(subject, payload) ==
  [subject |-> subject, payload |-> payload, audience |-> Len(handlers[subject]),
   inside |-> {[message |-> c.message, called |-> c.called] : c \in Range(calls)}]

\* the calls in progress once the running code, if any, is at `doing`
CallsWith(doing) ==
  IF calls = <<>> THEN calls
  ELSE [calls EXCEPT ![Len(calls)] = Call(Innermost.message, Innermost.called, doing)]

\* the message is kept before the first handler is called; the publisher goes on at `then`
Publish(subject, payload, then) ==
  /\ CallerRuns
  /\ Len(published) < MaxPublished
  /\ published' = Append(published, Message(subject, payload))
  /\ calls' = Append(CallsWith(then), Call(Len(published) + 1, 0, Idle))
  /\ UNCHANGED <<handlers, heard, cut>>

\* what the running handler does next, without the bus
HandlerContinues(doing) ==
  /\ calls # <<>>
  /\ Innermost.doing # Idle
  /\ calls' = CallsWith(doing)
  /\ UNCHANGED <<handlers, published, heard, cut>>

HandlerReturns == HandlerContinues(Idle)

\* the exception leaves publish(); whoever had called that catches it, or raises in turn
HandlerRaises ==
  /\ calls # <<>>
  /\ Innermost.doing # Idle
  /\ calls' = Front(calls)
  /\ cut' = cut \cup {Innermost.message}
  /\ UNCHANGED <<handlers, published, heard>>

-----------------------------------------------------------------------------
(* The loop of publish().                                                  *)

\* variant of NextHandler: the last one subscribed first
NextHandlerReversed(subject, called) == Len(handlers[subject]) - called

NextHandler(subject, called) == called + 1

\* variant of HandlersLeft: the last handler is left out
HandlersLeftShort(subject, called) == called + 1 < Len(handlers[subject])

\* the list is read at each turn: a handler subscribed meanwhile is called too
HandlersLeft(subject, called) == called < Len(handlers[subject])

\* begin[h]: where the code of handler h starts
CallHandler(begin) ==
  /\ calls # <<>>
  /\ Innermost.doing = Idle
  /\ LET i == Innermost.message
         k == NextHandler(SubjectOf(i), Innermost.called)
     IN  /\ HandlersLeft(SubjectOf(i), Innermost.called)
         /\ calls' = [calls EXCEPT ![Len(calls)] =
              Call(i, Innermost.called + 1, begin[handlers[SubjectOf(i)][k]])]
         /\ heard' = [heard EXCEPT ![SubjectOf(i)][k] = Append(@, i)]
  /\ UNCHANGED <<handlers, published, cut>>

PublishReturns ==
  /\ calls # <<>>
  /\ Innermost.doing = Idle
  /\ ~HandlersLeft(SubjectOf(Innermost.message), Innermost.called)
  /\ calls' = Front(calls)
  /\ UNCHANGED <<handlers, published, heard, cut>>

BusInit ==
  /\ handlers = [subject \in Subjects |-> <<>>]
  /\ published = <<>>
  /\ calls = <<>>
  /\ heard = [subject \in Subjects |-> <<>>]
  /\ cut = {}

-----------------------------------------------------------------------------
(* Properties.                                                             *)

InProgress == {c.message : c \in Range(calls)}

\* A call of publish() that has returned has served its audience (publish): each handler
\* subscribed when the message was published has heard it once, whatever was published,
\* subscribed or raised in between; only an exception that left this very call excuses it.
AudienceServed ==
  \A i \in DOMAIN published \ (InProgress \cup cut) : \A k \in 1..published[i].audience :
    \E a \in DOMAIN heard[SubjectOf(i)][k] :
      /\ heard[SubjectOf(i)][k][a] = i
      /\ \A b \in DOMAIN heard[SubjectOf(i)][k] : heard[SubjectOf(i)][k][b] = i => b = a

\* Handlers hear messages in the order of publication but for one case (publish): the later
\* message was published inside the delivery of the earlier one, by a handler subscribed
\* before, so that later subscribers hear the effect before its cause.
OvertakenOnlyByNested ==
  \A subject \in Subjects : \A k \in DOMAIN heard[subject] :
    \A b \in DOMAIN heard[subject][k] : \A a \in 1..(b - 1) :
      heard[subject][k][a] > heard[subject][k][b] =>
        \E outer \in published[heard[subject][k][a]].inside :
          outer.message = heard[subject][k][b] /\ outer.called < k
=============================================================================

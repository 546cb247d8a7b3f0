------------------------------ MODULE SignalLoop ------------------------------
(***************************************************************************)
(* Investigators on the event bus.  Sources publish signals; a subscribed  *)
(* investigator screens each, reads context level by level, assesses, and  *)
(* publishes its candidate on the subject it listens to, from inside the   *)
(* delivery: the loop AI Candidate -> bus -> AI Candidate that             *)
(* should_trigger_new_investigation exists to cut.  Other subscribers      *)
(* publish signals of their own, subscribe more handlers, return or raise. *)
(* Bus and decisions are the code of EventBus and Investigator; the        *)
(* handler that calls them is the deployment's (BLOCKED_EXTERNAL in the    *)
(* investigator's docstring).                                              *)
(***************************************************************************)
EXTENDS EventBus, Investigator

CONSTANTS
  Investigators,  \* the handlers that investigate
  Signals,        \* what sources and other handlers publish: [source_mode, origin_system, entity_refs, signature]
  Tombstones,     \* [entity_refs, signal_signature, valid_from, valid_until]
  MaxSignals,     \* bound: signals not ARGOS's own in one behaviour
  MaxTime         \* bound: the clock

ASSUME LoopBounds == MaxSignals \in Nat /\ MaxTime \in Nat
ASSUME TombstonesAssumption ==
  \A t \in Tombstones : t.valid_from \in Nat /\ t.valid_until \in Nat

\* what the code of a handler may be at; an investigator's is at "received", then at a level of
\* context, then at "told"
Stages == {"received", "running", "told"} \cup Range(ContextLevels)

ASSUME IdleAssumption == Idle \notin Stages

VARIABLES
  now,         \* the time passed to is_signal_tombstoned
  assessments  \* history: <<message, subscription>> for each ThreatAssessment built

vars == <<handlers, published, calls, heard, cut, now, assessments>>

Signal(i) == published[i].payload.signal

Own(i) == Signal(i).source_mode = "CANDIDATE" /\ Signal(i).origin_system = "argos-ai"

-----------------------------------------------------------------------------

\* payloads carry the time of publication, as envelopes do
Payload(signal) == [signal |-> signal, at |-> now]

At(stage) == calls # <<>> /\ Innermost.doing = stage

\* a source publishes, or from inside its delivery a handler that does not investigate
Source(subject, signal) ==
  /\ calls = <<>> \/ At("running")
  /\ Cardinality({i \in DOMAIN published : ~Own(i)}) < MaxSignals
  /\ Publish(subject, Payload(signal), "running")
  /\ UNCHANGED <<now, assessments>>

Tick ==
  /\ now < MaxTime
  /\ now' = now + 1
  /\ UNCHANGED <<busVars, assessments>>

Subscribes(subject, h) ==
  /\ calls = <<>> \/ At("running")
  /\ Subscribe(subject, h)
  /\ UNCHANGED <<now, assessments>>

\* the loop of publish()
Start == [h \in Handlers |-> IF h \in Investigators THEN "received" ELSE "running"]

Deliver ==
  /\ CallHandler(Start) \/ PublishReturns
  /\ UNCHANGED <<now, assessments>>

-----------------------------------------------------------------------------
(* The investigator's handler, and any other.                              *)

Wanted(signal) ==
  /\ ShouldTriggerNewInvestigation(signal)
  /\ ~IsSignalTombstoned(signal.entity_refs, signal.signature, Tombstones, now)

Screen ==
  /\ At("received")
  /\ IF Wanted(Signal(Innermost.message))
     THEN HandlerContinues(PlanNextContextLevel(None, TRUE))
     ELSE HandlerReturns
  /\ UNCHANGED <<now, assessments>>

InContext == calls # <<>> /\ Innermost.doing \in Range(ContextLevels)

\* open: whether what was read at this level leaves the hypothesis open
Expand(open) ==
  /\ InContext
  /\ PlanNextContextLevel(Innermost.doing, open) # None
  /\ HandlerContinues(PlanNextContextLevel(Innermost.doing, open))
  /\ UNCHANGED <<now, assessments>>

Candidate(signal) == [signal EXCEPT !.source_mode = "CANDIDATE", !.origin_system = "argos-ai"]

\* no more context to read: without evidence build_threat_assessment raises
Conclude(open, evidence_refs) ==
  /\ InContext
  /\ PlanNextContextLevel(Innermost.doing, open) = None
  /\ IF Assessable({Innermost.message}, evidence_refs)
     THEN /\ assessments' = assessments \cup {<<Innermost.message, Innermost.called>>}
          /\ Publish(SubjectOf(Innermost.message),
                     Payload(Candidate(Signal(Innermost.message))), "told")
     ELSE HandlerRaises /\ UNCHANGED assessments
  /\ UNCHANGED now

\* other handlers, and an investigator after its candidate was published (or an exception of
\* another handler came back from there)
Finish ==
  /\ At("running") \/ At("told")
  /\ HandlerReturns \/ HandlerRaises
  /\ UNCHANGED <<now, assessments>>

Investigate ==
  \/ Screen
  \/ \E open \in BOOLEAN : Expand(open)
  \/ \E open \in BOOLEAN, evidence_refs \in SUBSET {"evidence"} : Conclude(open, evidence_refs)

Init == BusInit /\ now = 0 /\ assessments = {}

Next ==
  \/ \E subject \in Subjects, signal \in Signals : Source(subject, signal)
  \/ Tick
  \/ \E subject \in Subjects, h \in Handlers : Subscribes(subject, h)
  \/ Deliver
  \/ Investigate
  \/ Finish

Spec == Init /\ [][Next]_vars

\* The bus is a loop in the thread of its caller and handlers are code that ends, so both go
\* on; no source has to publish, no one has to subscribe and the clock need not move.
FairSpec == Spec /\ WF_vars(Deliver) /\ WF_vars(Investigate) /\ WF_vars(Finish)

-----------------------------------------------------------------------------
(* Properties.                                                             *)

AnySignal == Signals \cup {Candidate(s) : s \in Signals}

PublishedMessages ==
  [subject : Subjects, payload : [signal : AnySignal, at : 0..MaxTime], audience : Nat,
   inside : SUBSET [message : Nat, called : Nat]]

CallsOfPublish == [message : Nat, called : Nat, doing : Stages \cup {Idle}]

\* Type invariant.
TypeOK ==
  /\ handlers \in [Subjects -> Seq(Handlers)]
  /\ published \in Seq(PublishedMessages)
  /\ calls \in Seq(CallsOfPublish)
  /\ heard \in [Subjects -> Seq(Seq(Nat))]
  /\ cut \in SUBSET Nat
  /\ now \in 0..MaxTime
  /\ assessments \in SUBSET (Nat \X Nat)

\* a tombstone covers the signal and held at some moment since its publication
CoveredSince(i) ==
  \E t \in Tombstones :
    /\ t.signal_signature = Signal(i).signature
    /\ t.entity_refs \cap Signal(i).entity_refs # {}
    /\ t.valid_from <= now /\ published[i].payload.at <= t.valid_until

\* "In doubt the signal is investigated" (is_signal_tombstoned) and only ARGOS's own
\* candidates are not (should_trigger_new_investigation): a foreign signal, CANDIDATE or not,
\* whose delivery ended without an exception was assessed by every investigator subscribed,
\* unless a tombstone in force covered it; one that has expired suppresses nothing.
ForeignSignalIsAssessed ==
  \A i \in DOMAIN published \ (InProgress \cup cut) :
    ~Own(i) /\ ~CoveredSince(i) =>
      \A k \in 1..published[i].audience :
        handlers[SubjectOf(i)][k] \in Investigators => <<i, k>> \in assessments

\* ARGOS does not feed itself (should_trigger_new_investigation): nothing is ever published,
\* at any depth, from inside an investigator's handling of one of ARGOS's own candidates,
\* however many investigators listen and whatever other handlers publish on their way.
CandidatesNeverCascade ==
  \A i \in DOMAIN published : \A outer \in published[i].inside :
    handlers[SubjectOf(outer.message)][outer.called] \in Investigators => ~Own(outer.message)

\* publish() and the investigators end by themselves (publish, plan_next_context_level): once
\* the other handlers neither publish nor subscribe any more, each call of publish() returns
\* to its caller, with an exception or without.  Handlers that go on for ever keep it for
\* ever: nothing in the code stops them.
EveryPublishReturns ==
  <>[][At("running") => UNCHANGED <<handlers, published>>]_vars => (calls # <<>> ~> calls = <<>>)
=============================================================================

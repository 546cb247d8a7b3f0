--------------------------- MODULE TemporalKnowledge ---------------------------
(***************************************************************************)
(* temporal_knowledge: facts about subjects (an entity and an attribute),  *)
(* and what the base answers when asked what was known at a given time.    *)
(***************************************************************************)
EXTENDS Integers, Sequences, FiniteSets

CONSTANTS
  Subjects,  \* <<entity_id, attribute>> pairs
  None,      \* the value None of the source
  MaxFacts,  \* bound: facts added in one behaviour
  MaxTime    \* bound: the clock

ASSUME KnowledgeAssumption == None \notin Nat
ASSUME KnowledgeBounds == MaxFacts \in Nat /\ MaxTime \in Nat

VARIABLES
  facts,  \* TemporalKnowledgeBase._facts; a fact is identified by its place in it
  now     \* utc_now_iso()

vars == <<facts, now>>

Times == 0..MaxTime

TemporalFact ==
  [subject : Subjects, observed_at : Times, valid_from : Times,
   valid_until : Times \cup {None}, superseded_at : Times \cup {None}]

-----------------------------------------------------------------------------

\* make_fact: the time of the observation is the caller's, or now; the validity starts when the
\* caller says, or with the observation.  Both may be dated back or ahead
MakeFact(subject, observed_at, valid_from, valid_until) ==
  LET observed == IF observed_at = None THEN now ELSE observed_at
  IN  [subject |-> subject,
       observed_at |-> observed,
       valid_from |-> IF valid_from = None THEN observed ELSE valid_from,
       valid_until |-> valid_until,
       superseded_at |-> None]

AddFact(fact) ==
  /\ Len(facts) < MaxFacts
  /\ facts' = Append(facts, fact)
  /\ UNCHANGED now

\* the entry is replaced by a copy with superseded_at set; LookupError on an unknown fact_id
\* leaves the base as it was.  The method asks neither for the time nor for an earlier
\* supersession of the fact
Supersede(i, at) ==
  /\ facts' = [facts EXCEPT ![i].superseded_at = at]
  /\ UNCHANGED now

Tick ==
  /\ now < MaxTime
  /\ now' = now + 1
  /\ UNCHANGED facts

-----------------------------------------------------------------------------
(* query_at.                                                               *)

\* query_at that asks only whether the fact was valid
InForceByValidity(fact, subject, t) ==
  /\ fact.subject = subject
  /\ fact.valid_from <= t
  /\ fact.valid_until = None \/ t < fact.valid_until
  /\ fact.superseded_at = None \/ t < fact.superseded_at

\* observed by then, valid then, and not superseded by then
InForce(fact, subject, t) ==
  /\ fact.subject = subject
  /\ fact.observed_at <= t
  /\ fact.valid_from <= t
  /\ fact.valid_until = None \/ t < fact.valid_until
  /\ fact.superseded_at = None \/ t < fact.superseded_at

\* query_at that returns the candidate recorded last, without looking at its validity
QueryAtLastRecorded(subject, t) ==
  LET candidates == {i \in DOMAIN facts : InForce(facts[i], subject, t)}
  IN  IF candidates = {} THEN 0 ELSE CHOOSE i \in candidates : \A j \in candidates : j <= i

\* max(candidates, key=valid_from): the first of the latest ones; 0 is None
QueryAt(subject, t) ==
  LET candidates == {i \in DOMAIN facts : InForce(facts[i], subject, t)}
      latest == {i \in candidates :
                   \A j \in candidates : facts[j].valid_from <= facts[i].valid_from}
  IN  IF candidates = {} THEN 0 ELSE CHOOSE i \in latest : \A j \in latest : i <= j

-----------------------------------------------------------------------------

Init == facts = <<>> /\ now = 0

Next ==
  \/ \E subject \in Subjects, observed_at, valid_from, valid_until \in Times \cup {None} :
       AddFact(MakeFact(subject, observed_at, valid_from, valid_until))
  \/ \E i \in DOMAIN facts, at \in Times : Supersede(i, at)
  \/ Tick

Spec == Init /\ [][Next]_vars

-----------------------------------------------------------------------------
(* Properties.                                                             *)

\* Type invariant.
TypeOK == facts \in Seq(TemporalFact) /\ now \in Times

\* "What ARGOS knew at time T" (docstring): the answer for a time that has passed never changes,
\* whatever validity later facts claim and whatever stands is superseded, as long as a fact is
\* added with the time of its observation or later, and superseded as of now or later (make_fact,
\* query_at, supersede; the code asks callers for neither).
PastAnswersHold ==
  [][ /\ \A i \in DOMAIN facts' \ DOMAIN facts : facts'[i].observed_at >= now
      /\ \A i \in DOMAIN facts :
           facts'[i].superseded_at # facts[i].superseded_at =>
             facts[i].superseded_at = None /\ facts'[i].superseded_at >= now
      => \A subject \in Subjects : \A t \in 0..(now - 1) :
           QueryAt(subject, t)' = QueryAt(subject, t) ]_vars

\* However callers date what they add and supersede, the answer for any time changes in two ways
\* only (query_at): a fact of that subject observed by then is superseded as of then, or had been
\* by then and is superseded again; or the fact just added says it was observed by then, and it
\* is the new answer, there having been none or one whose validity starts earlier.
OnlyClaimsOfThenRewrite ==
  [][\A subject \in Subjects, t \in Times :
       \/ QueryAt(subject, t)' = QueryAt(subject, t)
       \/ \E i \in DOMAIN facts :
            LET before == facts[i].superseded_at
                after == facts'[i].superseded_at
            IN  /\ facts[i].subject = subject /\ facts[i].observed_at <= t
                /\ before # after
                /\ \E at \in {before, after} \ {None} : at <= t
       \/ LET added == Len(facts) + 1
              answer == QueryAt(subject, t)
          IN  /\ added \in DOMAIN facts'
              /\ QueryAt(subject, t)' = added
              /\ facts'[added].observed_at <= t
              /\ answer # 0 => facts[answer].valid_from < facts'[added].valid_from]_vars

\* The versions of a fact are kept for audit (supersede, history_for): a fact stays at its
\* place with all it said but for when it was superseded.
VersionsKept ==
  [][\A i \in DOMAIN facts :
       /\ i \in DOMAIN facts'
       /\ facts'[i] = [facts[i] EXCEPT !.superseded_at = facts'[i].superseded_at]]_vars
=============================================================================

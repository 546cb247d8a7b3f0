------------------------ MODULE TemporalKnowledgeProofs ------------------------
(***************************************************************************)
(* Proofs about TemporalKnowledge, for any number of facts and times.      *)
(***************************************************************************)
EXTENDS TemporalKnowledge, WellFoundedInduction, TLAPS

USE KnowledgeAssumption, KnowledgeBounds

-----------------------------------------------------------------------------

\* The base and the clock have their types at the start.
LEMMA InitType == Init => TypeOK
BY DEF Init, TypeOK, Times

\* make_fact gives a fact that is not superseded, observed when the caller says or now.
LEMMA MadeFact ==
  ASSUME now \in Times, NEW subject \in Subjects, NEW observed_at \in Times \cup {None},
         NEW valid_from \in Times \cup {None}, NEW valid_until \in Times \cup {None}
  PROVE  MakeFact(subject, observed_at, valid_from, valid_until) \in TemporalFact
BY DEF MakeFact, TemporalFact

\* Every step is the addition of a fact, a supersession, or leaves the facts as they are.
LEMMA StepOfTheBase ==
  ASSUME TypeOK, [Next]_vars
  PROVE  \/ \E fact \in TemporalFact : AddFact(fact)
         \/ \E k \in DOMAIN facts, at \in Times : Supersede(k, at)
         \/ facts' = facts /\ (Tick \/ UNCHANGED vars)
<1>1. ASSUME NEW subject \in Subjects, NEW observed_at \in Times \cup {None},
             NEW valid_from \in Times \cup {None}, NEW valid_until \in Times \cup {None},
             AddFact(MakeFact(subject, observed_at, valid_from, valid_until))
      PROVE  \E fact \in TemporalFact : AddFact(fact)
  <2>1. MakeFact(subject, observed_at, valid_from, valid_until) \in TemporalFact
    BY MadeFact DEF TypeOK
  <2> QED
    BY <1>1, <2>1
<1>2. CASE Tick \/ UNCHANGED vars
  BY <1>2 DEF Tick, vars
<1> QED
  BY <1>1, <1>2 DEF Next

\* What add_fact does to the base.
LEMMA Added ==
  ASSUME TypeOK, NEW fact \in TemporalFact, AddFact(fact)
  PROVE  /\ facts' \in Seq(TemporalFact)
         /\ DOMAIN facts' = DOMAIN facts \cup {Len(facts) + 1}
         /\ Len(facts) + 1 \notin DOMAIN facts
         /\ facts'[Len(facts) + 1] = fact
         /\ \A i \in DOMAIN facts : facts'[i] = facts[i]
BY DEF AddFact, TypeOK

\* What supersede does to the base.
LEMMA Superseded ==
  ASSUME TypeOK, NEW k \in DOMAIN facts, NEW at \in Times, Supersede(k, at)
  PROVE  /\ facts' \in Seq(TemporalFact)
         /\ DOMAIN facts' = DOMAIN facts
         /\ \A i \in DOMAIN facts : i # k => facts'[i] = facts[i]
         /\ facts'[k].subject = facts[k].subject
         /\ facts'[k].observed_at = facts[k].observed_at
         /\ facts'[k].valid_from = facts[k].valid_from
         /\ facts'[k].valid_until = facts[k].valid_until
         /\ facts'[k].superseded_at = at
<1>1. facts' = [facts EXCEPT ![k] = [facts[k] EXCEPT !.superseded_at = at]]
  BY DEF Supersede
<1>2. facts[k] \in TemporalFact /\ facts \in Seq(TemporalFact)
  BY DEF TypeOK
<1>3. [facts[k] EXCEPT !.superseded_at = at] \in TemporalFact
  BY <1>2 DEF TemporalFact
<1>4. facts' \in Seq(TemporalFact)
  BY <1>1, <1>2, <1>3
<1>5. facts'[k] = [facts[k] EXCEPT !.superseded_at = at]
  BY <1>1
<1> QED
  BY <1>1, <1>2, <1>4, <1>5 DEF TemporalFact

\* Every step keeps the types.
LEMMA NextType == TypeOK /\ [Next]_vars => TypeOK'
<1> SUFFICES ASSUME TypeOK, [Next]_vars PROVE TypeOK'
  OBVIOUS
<1>1. ASSUME NEW fact \in TemporalFact, AddFact(fact) PROVE TypeOK'
  <2>1. facts' \in Seq(TemporalFact)
    BY <1>1, Added
  <2> QED
    BY <1>1, <2>1 DEF AddFact, TypeOK
<1>2. ASSUME NEW k \in DOMAIN facts, NEW at \in Times, Supersede(k, at) PROVE TypeOK'
  <2>1. facts' \in Seq(TemporalFact)
    BY <1>2, Superseded
  <2> QED
    BY <1>2, <2>1 DEF Supersede, TypeOK
<1>3. ASSUME facts' = facts, Tick \/ UNCHANGED vars PROVE TypeOK'
  BY <1>3 DEF Tick, vars, TypeOK, Times
<1> QED
  BY <1>1, <1>2, <1>3, StepOfTheBase

\* Type correctness of the temporal base (TemporalKnowledgeBase).
THEOREM TypeCorrect == Spec => []TypeOK
BY InitType, NextType, PTL DEF Spec

-----------------------------------------------------------------------------

\* The facts in force for a subject at a time.
Candidates(base, subject, t) == {i \in DOMAIN base : InForce(base[i], subject, t)}

\* Those of them whose validity starts last.
Latest(base, subject, t) ==
  {i \in Candidates(base, subject, t) :
     \A j \in Candidates(base, subject, t) : base[j].valid_from <= base[i].valid_from}

\* The first of them.
First(S) == IF S = {} THEN 0 ELSE CHOOSE i \in S : \A j \in S : i <= j

\* A set of numbers that is not empty has a least one.
LEMMA LeastNat ==
  ASSUME NEW S \in SUBSET Nat, S # {}
  PROVE  \E m \in S : \A k \in S : m <= k
<1> DEFINE R == {p \in Nat \X Nat : p[1] < p[2]}
<1>1. R = OpToRel(<, Nat)
  BY DEF OpToRel
<1>2. IsWellFoundedOn(R, Nat)
  BY <1>1, NatLessThanWellFounded
<1> HIDE DEF R
<1>3. PICK m \in S : \A k \in S : ~ (<<k, m>> \in R)
  BY <1>2, WFMin
<1>4. ASSUME NEW k \in S  PROVE m <= k
  <2>1. k \in Nat /\ m \in Nat
    OBVIOUS
  <2>2. k < m => <<k, m>> \in R
    BY <2>1 DEF R
  <2> QED
    BY <1>3, <2>1, <2>2
<1> QED
  BY <1>3, <1>4

\* The first of some places is one of them, and none is before it.
LEMMA FirstIsLeast ==
  ASSUME NEW S \in SUBSET Nat, S # {}
  PROVE  First(S) \in S /\ \A j \in S : First(S) <= j
<1>1. \E m \in S : \A k \in S : m <= k
  BY LeastNat
<1> QED
  BY <1>1 DEF First

\* What TemporalFact says of the moments of a fact.
LEMMA FactMoments ==
  ASSUME NEW base \in Seq(TemporalFact), NEW i \in DOMAIN base
  PROVE  /\ base[i] \in TemporalFact
         /\ base[i].observed_at \in Nat
         /\ base[i].valid_from \in Nat
<1>1. base[i] \in TemporalFact
  OBVIOUS
<1> QED
  BY <1>1 DEF TemporalFact, Times

\* Whenever some fact is in force, one is in force that none is valid from later than.
LEMMA SomeLatest ==
  ASSUME NEW base \in Seq(TemporalFact), NEW subject \in Subjects, NEW t \in Times,
         Candidates(base, subject, t) # {}
  PROVE  Latest(base, subject, t) # {}
<1> DEFINE C == Candidates(base, subject, t)
           Distance(i) == t - base[i].valid_from
           D == {Distance(i) : i \in C}
<1>1. \A i \in C : i \in DOMAIN base /\ base[i].valid_from \in Nat /\ Distance(i) \in Nat
  <2> SUFFICES ASSUME NEW i \in C
               PROVE  i \in DOMAIN base /\ base[i].valid_from \in Nat /\ Distance(i) \in Nat
    OBVIOUS
  <2>1. i \in DOMAIN base /\ base[i].valid_from <= t
    BY DEF Candidates, InForce
  <2>2. base[i].valid_from \in Nat /\ t \in Nat
    BY <2>1, FactMoments DEF Times
  <2> QED
    BY <2>1, <2>2
<1>2. D \in SUBSET Nat /\ D # {}
  BY <1>1
<1>3. PICK m \in D : \A d \in D : m <= d
  BY <1>2, LeastNat
<1>4. PICK i \in C : m = Distance(i)
  BY <1>3
<1>5. \A j \in C : base[j].valid_from <= base[i].valid_from
  <2> SUFFICES ASSUME NEW j \in C PROVE base[j].valid_from <= base[i].valid_from
    OBVIOUS
  <2>1. Distance(i) <= Distance(j)
    BY <1>3, <1>4
  <2>2. base[i].valid_from \in Nat /\ base[j].valid_from \in Nat /\ t \in Nat
    BY <1>1 DEF Times
  <2> QED
    BY <2>1, <2>2
<1> QED
  BY <1>4, <1>5 DEF Latest

\* query_at in those terms, before and after a step.
LEMMA Answer ==
  ASSUME NEW base \in Seq(TemporalFact), NEW subject \in Subjects, NEW t \in Times
  PROVE  /\ facts = base => QueryAt(subject, t) = First(Latest(base, subject, t))
         /\ facts' = base => QueryAt(subject, t)' = First(Latest(base, subject, t))
<1> DEFINE C == Candidates(base, subject, t)
           L == Latest(base, subject, t)
           A == IF C = {} THEN 0 ELSE CHOOSE i \in L : \A j \in L : i <= j
<1>1. facts = base => QueryAt(subject, t) = A
  BY DEF QueryAt, Candidates, Latest
<1>2. facts' = base => QueryAt(subject, t)' = A
  BY DEF QueryAt, Candidates, Latest
<1>3. C = {} => L = {}
  BY DEF Latest
<1>4. C # {} => L # {}
  BY SomeLatest
<1>5. A = First(L)
  BY <1>3, <1>4 DEF First
<1> HIDE DEF A
<1> QED
  BY <1>1, <1>2, <1>5

\* An answer is one of the latest facts in force, the first of them.
LEMMA AnswerIsLatest ==
  ASSUME NEW base \in Seq(TemporalFact), NEW subject \in Subjects, NEW t \in Times
  PROVE  LET answer == First(Latest(base, subject, t))
         IN  /\ Candidates(base, subject, t) # {} =>
                  /\ answer \in Latest(base, subject, t)
                  /\ \A i \in Latest(base, subject, t) : answer <= i
             /\ answer # 0 => Candidates(base, subject, t) # {}
<1>1. Latest(base, subject, t) \in SUBSET Nat
  BY DEF Latest, Candidates
<1>2. Candidates(base, subject, t) # {} => Latest(base, subject, t) # {}
  BY SomeLatest
<1>3. Candidates(base, subject, t) = {} => First(Latest(base, subject, t)) = 0
  BY DEF Latest, First
<1>4. Latest(base, subject, t) # {} =>
        LET answer == First(Latest(base, subject, t))
        IN  /\ answer \in Latest(base, subject, t)
            /\ \A i \in Latest(base, subject, t) : answer <= i
  BY <1>1, FirstIsLeast
<1> QED
  BY <1>2, <1>3, <1>4

\* The answer depends only on which facts are in force and on when their validity starts.
LEMMA SameCandidatesSameAnswer ==
  ASSUME TypeOK, TypeOK', NEW subject \in Subjects, NEW t \in Times,
         Candidates(facts', subject, t) = Candidates(facts, subject, t),
         \A i \in Candidates(facts, subject, t) : facts'[i].valid_from = facts[i].valid_from
  PROVE  QueryAt(subject, t)' = QueryAt(subject, t)
<1>1. Latest(facts', subject, t) = Latest(facts, subject, t)
  BY DEF Latest
<1>2. facts \in Seq(TemporalFact) /\ facts' \in Seq(TemporalFact)
  BY DEF TypeOK
<1> QED
  BY <1>1, <1>2, Answer

\* A step supersedes a fact of the subject, observed by then, as of then or earlier, or again
\* though it had been by then.
Rewritten(subject, t) ==
  \E i \in DOMAIN facts :
    LET before == facts[i].superseded_at
        after == facts'[i].superseded_at
    IN  /\ facts[i].subject = subject /\ facts[i].observed_at <= t
        /\ before # after
        /\ \E at \in {before, after} \ {None} : at <= t

\* Any other supersession leaves the facts in force at that time as they were.
LEMMA SupersededLater ==
  ASSUME TypeOK, TypeOK', NEW subject \in Subjects, NEW t \in Times,
         NEW k \in DOMAIN facts, NEW at \in Times, Supersede(k, at), ~Rewritten(subject, t)
  PROVE  QueryAt(subject, t)' = QueryAt(subject, t)
<1>1. /\ DOMAIN facts' = DOMAIN facts
      /\ \A i \in DOMAIN facts : i # k => facts'[i] = facts[i]
      /\ facts'[k].subject = facts[k].subject
      /\ facts'[k].observed_at = facts[k].observed_at
      /\ facts'[k].valid_from = facts[k].valid_from
      /\ facts'[k].valid_until = facts[k].valid_until
      /\ facts'[k].superseded_at = at
  BY Superseded
<1>2. InForce(facts'[k], subject, t) <=> InForce(facts[k], subject, t)
  <2> DEFINE before == facts[k].superseded_at
  <2>0. facts[k] \in TemporalFact /\ t \in Nat
    BY DEF TypeOK, Times
  <2>1. before \in Nat \cup {None} /\ at \in Nat
    BY <2>0 DEF TemporalFact, Times
  <2>2. CASE before = at
    BY <1>1, <2>2 DEF InForce
  <2>3. CASE ~(facts[k].subject = subject /\ facts[k].observed_at <= t)
    BY <1>1, <2>3 DEF InForce
  <2>4. CASE before # at /\ facts[k].subject = subject /\ facts[k].observed_at <= t
    <3>1. \A moment \in {before, at} \ {None} : ~(moment <= t)
      BY <1>1, <2>4 DEF Rewritten
    <3>2. at # None /\ (before # None => before \in Nat)
      BY <2>1, KnowledgeAssumption
    <3>3. ~(at <= t) /\ (before # None => ~(before <= t))
      BY <3>1, <3>2
    <3>4. t < at /\ (before = None \/ t < before)
      BY <2>0, <2>1, <3>2, <3>3
    <3>5. facts'[k].superseded_at = at /\ facts[k].superseded_at = before
      BY <1>1
    <3> HIDE DEF before
    <3> QED
      BY <1>1, <3>4, <3>5 DEF InForce
  <2> QED
    BY <2>2, <2>3, <2>4
<1>3. \A i \in DOMAIN facts : InForce(facts'[i], subject, t) <=> InForce(facts[i], subject, t)
  BY <1>1, <1>2
<1>4. /\ Candidates(facts', subject, t) = Candidates(facts, subject, t)
      /\ \A i \in Candidates(facts, subject, t) : facts'[i].valid_from = facts[i].valid_from
  BY <1>1, <1>3 DEF Candidates
<1> QED
  BY <1>4, SameCandidatesSameAnswer

\* A fact added that is not in force at a time leaves the answer for it.
LEMMA AddedLater ==
  ASSUME TypeOK, TypeOK', NEW subject \in Subjects, NEW t \in Times,
         NEW fact \in TemporalFact, AddFact(fact), ~InForce(fact, subject, t)
  PROVE  QueryAt(subject, t)' = QueryAt(subject, t)
<1>1. /\ DOMAIN facts' = DOMAIN facts \cup {Len(facts) + 1}
      /\ facts'[Len(facts) + 1] = fact
      /\ \A i \in DOMAIN facts : facts'[i] = facts[i]
  BY Added
<1>2. /\ Candidates(facts', subject, t) = Candidates(facts, subject, t)
      /\ \A i \in Candidates(facts, subject, t) : facts'[i].valid_from = facts[i].valid_from
  BY <1>1 DEF Candidates
<1> QED
  BY <1>2, SameCandidatesSameAnswer

\* A fact added leaves the answer, or is the answer and valid from later than the one before.
LEMMA AddedIsTheAnswer ==
  ASSUME TypeOK, TypeOK', NEW subject \in Subjects, NEW t \in Times,
         NEW fact \in TemporalFact, AddFact(fact),
         QueryAt(subject, t)' # QueryAt(subject, t)
  PROVE  /\ Len(facts) + 1 \in DOMAIN facts'
         /\ QueryAt(subject, t)' = Len(facts) + 1
         /\ facts'[Len(facts) + 1].observed_at <= t
         /\ QueryAt(subject, t) # 0 =>
              facts[QueryAt(subject, t)].valid_from < facts'[Len(facts) + 1].valid_from
<1> DEFINE added == Len(facts) + 1
           base == facts'
           C == Candidates(facts, subject, t)
           D == Candidates(facts', subject, t)
           L == Latest(facts, subject, t)
           M == Latest(facts', subject, t)
           old == QueryAt(subject, t)
           new == QueryAt(subject, t)'
<1>0. facts \in Seq(TemporalFact) /\ facts' \in Seq(TemporalFact)
  BY DEF TypeOK
<1>1. /\ DOMAIN facts' = DOMAIN facts \cup {added}
      /\ facts'[added] = fact
      /\ \A i \in DOMAIN facts : facts'[i] = facts[i]
  BY Added
<1>2. \A i \in DOMAIN facts : i \in Nat /\ i < added
  BY <1>0
<1>3. InForce(fact, subject, t)
  BY AddedLater
<1>4. D = C \cup {added} /\ C \subseteq DOMAIN facts
  BY <1>1, <1>3 DEF Candidates
<1>5. old = First(L) /\ new = First(M)
  BY <1>0, Answer
<1>6. /\ new \in M /\ \A i \in M : new <= i
      /\ old # 0 => C # {}
      /\ C # {} => old \in L /\ \A i \in L : old <= i
  BY <1>0, <1>4, <1>5, AnswerIsLatest
<1>7. \A i \in DOMAIN facts' : facts'[i].valid_from \in Nat
  BY <1>0, FactMoments
<1>8. L \subseteq C /\ M \subseteq D
  BY DEF Latest
<1> HIDE DEF C, D, L, M, old, new, added
<1>9. new = added
  <2> SUFFICES ASSUME new # added PROVE FALSE
    OBVIOUS
  <2>1. new \in C /\ C # {}
    BY <1>4, <1>6, <1>8
  <2>2. old \in L
    BY <1>6, <2>1
  <2>3. facts[old].valid_from = facts[new].valid_from
    <3>1. facts[new].valid_from <= facts[old].valid_from
      BY <2>1, <2>2 DEF Latest, L, C
    <3>2. facts'[old].valid_from <= facts'[new].valid_from
      BY <1>4, <1>6, <1>8, <2>2 DEF Latest, M, D
    <3> QED
      BY <1>1, <1>4, <1>7, <1>8, <2>1, <2>2, <3>1, <3>2
  <2>4. new \in L
    BY <2>1, <2>2, <2>3 DEF Latest, L, C
  <2>5. old \in M
    <3>1. \A j \in D : facts'[j].valid_from <= facts'[new].valid_from
      BY <1>6 DEF Latest, M, D
    <3>2. facts'[old].valid_from = facts'[new].valid_from /\ old \in D
      BY <1>1, <1>4, <1>8, <2>1, <2>2, <2>3
    <3> QED
      BY <3>1, <3>2 DEF Latest, M, D
  <2>6. old <= new /\ new <= old
    BY <1>6, <2>1, <2>4, <2>5
  <2>7. old = new
    BY <1>2, <1>4, <1>8, <2>1, <2>2, <2>6
  <2> QED
    BY <2>7 DEF old, new
<1>10. ASSUME old # 0 PROVE facts[old].valid_from < fact.valid_from
  <2>1. old \in L /\ old \in C /\ old \in D
    BY <1>4, <1>6, <1>8, <1>10
  <2>2. facts'[old].valid_from <= facts'[new].valid_from
    BY <1>6, <2>1 DEF Latest, M, D
  <2>3. facts'[old].valid_from = facts[old].valid_from /\ facts'[new] = fact
    BY <1>1, <1>4, <1>9, <2>1
  <2>4. facts[old].valid_from # fact.valid_from
    <3> SUFFICES ASSUME facts[old].valid_from = fact.valid_from PROVE FALSE
      OBVIOUS
    <3>1. old \in M
      BY <1>6, <2>1, <2>3 DEF Latest, M, D
    <3>2. new <= old
      BY <1>6, <3>1
    <3> QED
      BY <1>2, <1>4, <1>9, <2>1, <3>2 DEF added
  <2>5. facts[old].valid_from \in Nat /\ fact.valid_from \in Nat
    BY <1>1, <1>4, <1>7, <2>1, <2>3
  <2> QED
    BY <2>2, <2>3, <2>4, <2>5
<1>11. fact.observed_at <= t
  BY <1>3 DEF InForce
<1> QED
  BY <1>1, <1>9, <1>10, <1>11 DEF new, old, added

\* Whatever callers claim, an answer changes for one of three reasons.
LEMMA AnswerChanges ==
  ASSUME TypeOK, [Next]_vars, NEW subject \in Subjects, NEW t \in Times
  PROVE  \/ QueryAt(subject, t)' = QueryAt(subject, t)
         \/ Rewritten(subject, t)
         \/ /\ Len(facts) + 1 \in DOMAIN facts'
            /\ QueryAt(subject, t)' = Len(facts) + 1
            /\ facts'[Len(facts) + 1].observed_at <= t
            /\ QueryAt(subject, t) # 0 =>
                 facts[QueryAt(subject, t)].valid_from < facts'[Len(facts) + 1].valid_from
<1>0. TypeOK'
  BY NextType
<1>1. ASSUME NEW fact \in TemporalFact, AddFact(fact)
      PROVE  \/ QueryAt(subject, t)' = QueryAt(subject, t)
             \/ /\ Len(facts) + 1 \in DOMAIN facts'
                /\ QueryAt(subject, t)' = Len(facts) + 1
                /\ facts'[Len(facts) + 1].observed_at <= t
                /\ QueryAt(subject, t) # 0 =>
                     facts[QueryAt(subject, t)].valid_from < facts'[Len(facts) + 1].valid_from
  BY <1>0, <1>1, AddedIsTheAnswer
<1>2. ASSUME NEW k \in DOMAIN facts, NEW at \in Times, Supersede(k, at)
      PROVE  QueryAt(subject, t)' = QueryAt(subject, t) \/ Rewritten(subject, t)
  BY <1>0, <1>2, SupersededLater
<1>3. ASSUME facts' = facts PROVE QueryAt(subject, t)' = QueryAt(subject, t)
  BY <1>0, <1>3, SameCandidatesSameAnswer
<1> QED
  BY <1>1, <1>2, <1>3, StepOfTheBase

\* The answer of query_at for any time is changed only by superseding, as of then or earlier, a
\* fact that was known then, and by adding a fact that says it was.
THEOREM RewritingIsClaimed == Spec => OnlyClaimsOfThenRewrite
<1>1. TypeOK /\ [Next]_vars =>
        [\A subject \in Subjects, t \in Times :
           \/ QueryAt(subject, t)' = QueryAt(subject, t)
           \/ \E i \in DOMAIN facts :
                LET before == facts[i].superseded_at
                    after == facts'[i].superseded_at
                IN  /\ facts[i].subject = subject /\ facts[i].observed_at <= t
                    /\ before # after
                    /\ \E at \in {before, after} \ {None} : at <= t
           \/ LET added == Len(facts) + 1
                  answer == QueryAt(subject, t)
              IN  /\ added \in DOMAIN facts'
                  /\ QueryAt(subject, t)' = added
                  /\ facts'[added].observed_at <= t
                  /\ answer # 0 => facts[answer].valid_from < facts'[added].valid_from]_vars
  BY AnswerChanges DEF Rewritten
<1> QED
  BY <1>1, TypeCorrect, PTL DEF Spec, OnlyClaimsOfThenRewrite

\* What stood and is superseded as of now or later rewrites no answer about the past.
LEMMA NothingRewritten ==
  ASSUME TypeOK, [Next]_vars, NEW subject \in Subjects, NEW t \in 0..(now - 1),
         \A i \in DOMAIN facts :
           facts'[i].superseded_at # facts[i].superseded_at =>
             facts[i].superseded_at = None /\ facts'[i].superseded_at >= now
  PROVE  ~Rewritten(subject, t)
<1> SUFFICES ASSUME NEW i \in DOMAIN facts, facts'[i].superseded_at # facts[i].superseded_at,
                    NEW at \in {facts[i].superseded_at, facts'[i].superseded_at} \ {None}
             PROVE  ~(at <= t)
  BY DEF Rewritten
<1>1. now \in Nat /\ t \in Nat /\ t < now
  BY DEF TypeOK, Times
<1>2. at = facts'[i].superseded_at /\ at >= now
  OBVIOUS
<1>3. ASSUME NEW fact \in TemporalFact, AddFact(fact) PROVE FALSE
  BY <1>3, Added
<1>4. ASSUME NEW k \in DOMAIN facts, NEW moment \in Times, Supersede(k, moment)
      PROVE  ~(at <= t)
  <2>1. i = k /\ facts'[k].superseded_at = moment
    BY <1>4, Superseded
  <2>2. at \in Nat
    BY <1>2, <2>1 DEF Times
  <2> QED
    BY <1>1, <1>2, <2>2
<1> QED
  BY <1>3, <1>4, StepOfTheBase

\* A fact that says it was observed now or later is no answer about the past.
LEMMA NothingBackdated ==
  ASSUME TypeOK, [Next]_vars, NEW t \in 0..(now - 1),
         Len(facts) + 1 \in DOMAIN facts',
         \A i \in DOMAIN facts' \ DOMAIN facts : facts'[i].observed_at >= now
  PROVE  ~(facts'[Len(facts) + 1].observed_at <= t)
<1>1. now \in Nat /\ t \in Nat /\ t < now /\ facts \in Seq(TemporalFact)
  BY DEF TypeOK, Times
<1>2. facts' \in Seq(TemporalFact)
  BY NextType DEF TypeOK
<1>3. facts'[Len(facts) + 1].observed_at \in Nat
  BY <1>2, FactMoments
<1>4. Len(facts) + 1 \notin DOMAIN facts
  BY <1>1
<1> QED
  BY <1>1, <1>3, <1>4

\* The answer of query_at for a time that has passed never changes, as long as what is added was
\* observed now or later, and what is superseded stood till then and is as of now or later.
THEOREM PastIsSettled == Spec => PastAnswersHold
<1>1. TypeOK /\ [Next]_vars =>
        [ /\ \A i \in DOMAIN facts' \ DOMAIN facts : facts'[i].observed_at >= now
          /\ \A i \in DOMAIN facts :
               facts'[i].superseded_at # facts[i].superseded_at =>
                 facts[i].superseded_at = None /\ facts'[i].superseded_at >= now
          => \A subject \in Subjects : \A t \in 0..(now - 1) :
               QueryAt(subject, t)' = QueryAt(subject, t) ]_vars
  <2> SUFFICES ASSUME TypeOK, [Next]_vars,
                      \A i \in DOMAIN facts' \ DOMAIN facts : facts'[i].observed_at >= now,
                      \A i \in DOMAIN facts :
                        facts'[i].superseded_at # facts[i].superseded_at =>
                          facts[i].superseded_at = None /\ facts'[i].superseded_at >= now,
                      NEW subject \in Subjects, NEW t \in 0..(now - 1)
               PROVE  QueryAt(subject, t)' = QueryAt(subject, t)
    OBVIOUS
  <2>1. t \in Times
    BY DEF TypeOK, Times
  <2>2. ~Rewritten(subject, t)
    BY NothingRewritten
  <2>3. Len(facts) + 1 \in DOMAIN facts' => ~(facts'[Len(facts) + 1].observed_at <= t)
    BY NothingBackdated
  <2> QED
    BY <2>1, <2>2, <2>3, AnswerChanges
<1> QED
  BY <1>1, TypeCorrect, PTL DEF Spec, PastAnswersHold

\* The versions of a fact are kept, whatever callers supersede.
THEOREM VersionsAreKept == Spec => VersionsKept
<1>1. TypeOK /\ [Next]_vars =>
        [\A i \in DOMAIN facts :
           /\ i \in DOMAIN facts'
           /\ facts'[i] = [facts[i] EXCEPT !.superseded_at = facts'[i].superseded_at]]_vars
  <2> SUFFICES ASSUME TypeOK, Next, NEW i \in DOMAIN facts
               PROVE  /\ i \in DOMAIN facts'
                      /\ facts'[i] = [facts[i] EXCEPT !.superseded_at = facts'[i].superseded_at]
    BY DEF vars
  <2>0. facts[i] \in TemporalFact /\ facts \in Seq(TemporalFact)
    BY DEF TypeOK
  <2>1. facts[i] = [facts[i] EXCEPT !.superseded_at = facts[i].superseded_at]
    BY <2>0 DEF TemporalFact
  <2>2. ASSUME NEW fact, AddFact(fact)
        PROVE  i \in DOMAIN facts' /\ facts'[i] = facts[i]
    BY <2>0, <2>2 DEF AddFact
  <2>3. ASSUME NEW k \in DOMAIN facts, NEW at, Supersede(k, at)
        PROVE  /\ i \in DOMAIN facts'
               /\ facts'[i] = facts[i] \/ facts'[i] = [facts[i] EXCEPT !.superseded_at = at]
    BY <2>3 DEF Supersede
  <2>4. ASSUME NEW at, facts'[i] = [facts[i] EXCEPT !.superseded_at = at]
        PROVE  facts'[i] = [facts[i] EXCEPT !.superseded_at = facts'[i].superseded_at]
    BY <2>0, <2>4 DEF TemporalFact
  <2>5. CASE Tick
    BY <2>1, <2>5 DEF Tick
  <2> QED
    BY <2>1, <2>2, <2>3, <2>4, <2>5 DEF Next
<1> QED
  BY <1>1, TypeCorrect, PTL DEF Spec, VersionsKept
=============================================================================

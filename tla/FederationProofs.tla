--------------------------- MODULE FederationProofs ---------------------------
(***************************************************************************)
(* Proofs about Federation, for any artifacts, domains, calls and rules.   *)
(***************************************************************************)
EXTENDS Federation, SequenceTheorems, WellFoundedInduction, TLAPS

\* What the ledger knows of a copy: its artifact is whole, and its hash is the one recorded.
Known(h) ==
  /\ VerifyContentHash(h.artifact)
  /\ h.artifact.artifact_id \in DOMAIN ledger
  /\ ledger[h.artifact.artifact_id] = h.artifact.content_hash

\* Every copy descends from an artifact the ledger knows.
LedgerInv == \A h \in holdings : Known(h)

\* The levels of a copy are known ones, and what its label respects.
Labelled(h) ==
  /\ h.classification \in Classifications
  /\ h.artifact.origin_classification \in Classifications
  /\ Rank(h.classification) < Rank(h.artifact.origin_classification) => h.approved
  /\ h.artifact.origin_trust \in {"UNTRUSTED", "UNKNOWN"} /\ h.domain # LocalDomain
       => h.approved

LabelInv == \A h \in holdings : Labelled(h)

-----------------------------------------------------------------------------

\* check_and_record keeps what the ledger knows, and adds the artifact when its id is new.
LEMMA LedgerKeepsFirst ==
  ASSUME NEW a, ledger' = CheckAndRecord(a)
  PROVE  /\ \A id \in DOMAIN ledger : id \in DOMAIN ledger' /\ ledger'[id] = ledger[id]
         /\ a.artifact_id \in DOMAIN ledger'
         /\ ~ReplayConflict(a) => ledger'[a.artifact_id] = a.content_hash
BY DEF CheckAndRecord, ReplayConflict

\* An accepted artifact is whole, of a known level, and no replay conflict.
LEMMA AcceptedIsClean ==
  ASSUME NEW a, NEW call,
         LET dims == Dimensions(a, call.remote, call.evidence)
         IN  Decision({d \in DOMAIN dims : dims[d] = FALSE},
                      {d \in DOMAIN dims : dims[d] = None}, call.conflict_state) = "ACCEPT"
  PROVE  /\ VerifyContentHash(a)
         /\ ~ReplayConflict(a)
         /\ a.origin_classification \in Classifications
         /\ a.artifact_id \notin revoked
         /\ a.valid_until = None \/ now <= a.valid_until
<1> DEFINE dims == Dimensions(a, call.remote, call.evidence)
           violated == {d \in DOMAIN dims : dims[d] = FALSE}
<1>1. violated = {}
  BY DEF Decision
<1>2. /\ "hash_valid" \in DOMAIN dims
      /\ "no_replay_conflict" \in DOMAIN dims
      /\ "classification_compatible" \in DOMAIN dims
      /\ "not_revoked" \in DOMAIN dims
      /\ "fresh_enough" \in DOMAIN dims
  BY DEF Dimensions
<1>3. /\ dims["hash_valid"] = VerifyContentHash(a)
      /\ dims["no_replay_conflict"] = ~ReplayConflict(a)
      /\ dims["classification_compatible"] = (a.origin_classification \in Classifications)
      /\ dims["not_revoked"] = (a.artifact_id \notin revoked)
      /\ dims["fresh_enough"] = (a.valid_until = None \/ now <= a.valid_until)
  BY DEF Dimensions
<1>4. /\ dims["hash_valid"] # FALSE
      /\ dims["no_replay_conflict"] # FALSE
      /\ dims["classification_compatible"] # FALSE
      /\ dims["not_revoked"] # FALSE
      /\ dims["fresh_enough"] # FALSE
  BY <1>1, <1>2
<1> HIDE DEF dims
<1>5. VerifyContentHash(a)
  BY <1>3, <1>4 DEF VerifyContentHash
<1>6. ~ReplayConflict(a)
  BY <1>3, <1>4
<1>9. a.origin_classification \in Classifications
  <2> SUFFICES ASSUME a.origin_classification \notin Classifications PROVE FALSE
    OBVIOUS
  <2>1. (a.origin_classification \in Classifications) = FALSE
    OBVIOUS
  <2> QED
    BY <2>1, <1>3, <1>4, Zenon
<1>7. a.artifact_id \notin revoked
  BY <1>3, <1>4
<1>8. a.valid_until = None \/ now <= a.valid_until
  BY <1>3, <1>4
<1> QED
  BY <1>5, <1>6, <1>7, <1>8, <1>9

-----------------------------------------------------------------------------

\* The copies of accepted artifacts stay those the ledger knows.
LEMMA LedgerStep == LedgerInv /\ [Next]_vars => LedgerInv'
<1> SUFFICES ASSUME LedgerInv, [Next]_vars PROVE LedgerInv'
  OBVIOUS
<1>1. ASSUME ledger' = ledger, NEW h, Known(h)
      PROVE  Known(h)'
  BY <1>1 DEF Known, VerifyContentHash
<1>2. ASSUME NEW a \in received, NEW call \in CallContexts, EvaluateFederation(a, call)
      PROVE  LedgerInv'
  <2>1. ledger' = CheckAndRecord(a)
    BY <1>2 DEF EvaluateFederation
  <2>2. ASSUME NEW h \in holdings PROVE Known(h)'
    <3>1. Known(h)
      BY DEF LedgerInv
    <3> QED
      BY <2>1, <3>1, LedgerKeepsFirst DEF Known, VerifyContentHash
  <2>3. ASSUME NEW h \in holdings', h \notin holdings PROVE Known(h)'
    <3>1. /\ h = LocalCopy(a)
          /\ LET dims == Dimensions(a, call.remote, call.evidence)
             IN  Decision({d \in DOMAIN dims : dims[d] = FALSE},
                          {d \in DOMAIN dims : dims[d] = None}, call.conflict_state) = "ACCEPT"
      BY <1>2, <2>3 DEF EvaluateFederation
    <3>2. VerifyContentHash(a) /\ ~ReplayConflict(a)
      BY <3>1, AcceptedIsClean
    <3>3. h.artifact = a
      BY <3>1 DEF LocalCopy
    <3> QED
      BY <2>1, <3>2, <3>3, LedgerKeepsFirst DEF Known, VerifyContentHash
  <2> QED
    BY <2>2, <2>3 DEF LedgerInv
<1>3. ASSUME NEW h \in holdings, NEW destination \in Domains, NEW requested \in Classifications,
             NEW rules \in RuleSets, NEW approved \in BOOLEAN,
             Transfer(h, destination, requested, rules, approved)
      PROVE  LedgerInv'
  <2>1. ledger' = ledger
    BY <1>3 DEF Transfer
  <2>2. \A copy \in holdings' : \E g \in holdings : copy.artifact = g.artifact
    BY <1>3 DEF Transfer
  <2> QED
    BY <2>1, <2>2 DEF LedgerInv, Known, VerifyContentHash
<1>4. CASE \/ \E a \in Artifacts : Send(a)
           \/ Receive
           \/ Tick
           \/ \E id \in ArtifactIds : Revoke(id)
           \/ UNCHANGED vars
  <2>1. ledger' = ledger /\ holdings' = holdings
    BY <1>4 DEF Send, Receive, Tick, Revoke, vars
  <2> QED
    BY <1>1, <2>1 DEF LedgerInv
<1> QED
  BY <1>2, <1>3, <1>4 DEF Next

\* One content is ever accepted under an artifact_id (FederationLedger, verify_content_hash).
THEOREM AcceptedContentUnique == Spec => []AcceptedContentIsUnique
<1>1. Init => LedgerInv
  BY DEF Init, LedgerInv
<1>2. LedgerInv => AcceptedContentIsUnique
  <2> SUFFICES ASSUME LedgerInv, NEW h \in holdings, NEW g \in holdings,
                      h.artifact.artifact_id = g.artifact.artifact_id
               PROVE  h.artifact.payload = g.artifact.payload
    BY DEF AcceptedContentIsUnique, Accepted
  <2>1. Sha256(h.artifact.payload) = Sha256(g.artifact.payload)
    BY DEF LedgerInv, Known, VerifyContentHash
  <2>2. Sha256(h.artifact.payload).sha256 = Sha256(g.artifact.payload).sha256
    BY <2>1
  <2> QED
    BY <2>2 DEF Sha256
<1> QED
  BY <1>1, <1>2, LedgerStep, PTL DEF Spec

-----------------------------------------------------------------------------

\* What the ledger knows of the artifacts accepted clears them when they are evaluated.
LEMMA KnownIsNoViolation ==
  ASSUME NEW a, NEW call, VerifyContentHash(a), ~ReplayConflict(a)
  PROVE  LET dims == Dimensions(a, call.remote, call.evidence)
         IN  {"no_replay_conflict", "hash_valid"} \cap {d \in DOMAIN dims : dims[d] = FALSE} = {}
<1> DEFINE dims == Dimensions(a, call.remote, call.evidence)
<1>1. /\ dims["hash_valid"] = VerifyContentHash(a)
      /\ dims["no_replay_conflict"] = ~ReplayConflict(a)
  BY DEF Dimensions
<1> HIDE DEF dims
<1>2. VerifyContentHash(a) = TRUE
  BY DEF VerifyContentHash
<1>3. (~ReplayConflict(a)) = TRUE
  OBVIOUS
<1>4. dims["hash_valid"] # FALSE /\ dims["no_replay_conflict"] # FALSE
  BY <1>1, <1>2, <1>3
<1> QED
  BY <1>4 DEF dims

\* Evaluating an artifact that was accepted, now or before, finds no replay conflict.
LEMMA RetryStep == LedgerInv /\ AcceptSurvivesRetry /\ [Next]_vars => AcceptSurvivesRetry'
<1> SUFFICES ASSUME LedgerInv, AcceptSurvivesRetry, [Next]_vars PROVE AcceptSurvivesRetry'
  OBVIOUS
<1>1. ASSUME NEW a \in received, NEW call \in CallContexts, EvaluateFederation(a, call),
             a \in Accepted'
      PROVE  {"no_replay_conflict", "hash_valid"} \cap result'.violated = {}
  <2> DEFINE dims == Dimensions(a, call.remote, call.evidence)
             violated == {d \in DOMAIN dims : dims[d] = FALSE}
             decision == Decision(violated, {d \in DOMAIN dims : dims[d] = None},
                                  call.conflict_state)
  <2>1. /\ result'.violated = violated
        /\ holdings' = IF decision = "ACCEPT" THEN holdings \cup {LocalCopy(a)} ELSE holdings
    BY <1>1 DEF EvaluateFederation
  <2>2. VerifyContentHash(a) /\ ~ReplayConflict(a)
    <3>1. CASE decision = "ACCEPT"
      BY <3>1, AcceptedIsClean
    <3>2. CASE decision # "ACCEPT"
      <4>1. holdings' = holdings
        BY <2>1, <3>2
      <4>2. PICK h \in holdings : h.artifact = a
        BY <1>1, <4>1 DEF Accepted
      <4> QED
        BY <4>2 DEF LedgerInv, Known, ReplayConflict
    <3> QED
      BY <3>1, <3>2
  <2> QED
    BY <2>1, <2>2, KnownIsNoViolation
<1>2. ASSUME NEW a \in received, NEW call \in CallContexts, EvaluateFederation(a, call)
      PROVE  result'.artifact = a
  BY <1>2 DEF EvaluateFederation
<1>3. ASSUME NEW h, NEW destination, NEW requested, NEW rules, NEW approved,
             Transfer(h, destination, requested, rules, approved)
      PROVE  ~Evaluated'
  BY <1>3 DEF Transfer, RequestCrossDomainTransfer, Evaluated
<1>4. CASE \/ \E a \in Artifacts : Send(a)
           \/ Receive
           \/ Tick
           \/ \E id \in ArtifactIds : Revoke(id)
           \/ UNCHANGED vars
  <2>1. result' = result /\ holdings' = holdings
    BY <1>4 DEF Send, Receive, Tick, Revoke, vars
  <2> QED
    BY <2>1 DEF AcceptSurvivesRetry, Evaluated, Accepted
<1> QED
  BY <1>1, <1>2, <1>3, <1>4 DEF Next, AcceptSurvivesRetry

\* An artifact that was accepted is whole and no replay conflict whenever it is evaluated again,
\* after whatever arrived under its identifier in between (check_and_record).
THEOREM AcceptsSurviveRetry == Spec => []AcceptSurvivesRetry
<1>1. Init => LedgerInv /\ AcceptSurvivesRetry
  BY DEF Init, LedgerInv, AcceptSurvivesRetry, Evaluated
<1> QED
  BY <1>1, LedgerStep, RetryStep, PTL DEF Spec

-----------------------------------------------------------------------------

\* Every ACCEPT, the first or a repeated one, is of an artifact that is neither revoked nor
\* expired when it is given (_evaluate_dimensions).
THEOREM AcceptsAreCurrent == Spec => AcceptIsCurrent
<1> DEFINE Current ==
      Evaluated' /\ result' # result /\ result'.decision = "ACCEPT" =>
        /\ result'.artifact.artifact_id \notin revoked
        /\ result'.artifact.valid_until # None => now <= result'.artifact.valid_until
<1>1. [Next]_vars => [Current]_vars
  <2> SUFFICES ASSUME Next PROVE Current
    OBVIOUS
  <2>1. ASSUME NEW a \in received, NEW call \in CallContexts, EvaluateFederation(a, call),
               result'.decision = "ACCEPT"
        PROVE  /\ result'.artifact.artifact_id \notin revoked
               /\ result'.artifact.valid_until # None => now <= result'.artifact.valid_until
    <3>1. /\ result'.artifact = a
          /\ LET dims == Dimensions(a, call.remote, call.evidence)
             IN  Decision({d \in DOMAIN dims : dims[d] = FALSE},
                          {d \in DOMAIN dims : dims[d] = None}, call.conflict_state) = "ACCEPT"
      BY <2>1 DEF EvaluateFederation
    <3> QED
      BY <3>1, AcceptedIsClean
  <2>2. ASSUME NEW h, NEW destination, NEW requested, NEW rules, NEW approved,
               Transfer(h, destination, requested, rules, approved)
        PROVE  ~Evaluated'
    BY <2>2 DEF Transfer, RequestCrossDomainTransfer, Evaluated
  <2>3. CASE \/ \E a \in Artifacts : Send(a)
             \/ Receive
             \/ Tick
             \/ \E id \in ArtifactIds : Revoke(id)
    BY <2>3 DEF Send, Receive, Tick, Revoke
  <2> QED
    BY <2>1, <2>2, <2>3 DEF Next
<1> QED
  BY <1>1, PTL DEF Spec, AcceptIsCurrent

-----------------------------------------------------------------------------

\* The levels are numbered from the least restrictive one.
LEMMA RankType == ASSUME NEW c \in Classifications PROVE Rank(c) \in Int
<1>1. PICK i \in DOMAIN CLASSIFICATION_LEVELS : CLASSIFICATION_LEVELS[i] = c
  BY DEF Classifications, Range
<1>2. i \in 1..3
  BY DEF CLASSIFICATION_LEVELS
<1>3. Rank(c) \in 1..3
  BY <1>1, <1>2 DEF Rank
<1> QED
  BY <1>3

\* What is accepted enters with its own label, in the local domain.
LEMMA EnteredLabel ==
  ASSUME NEW a, a.origin_classification \in Classifications
  PROVE  Labelled(LocalCopy(a))
<1>1. Rank(a.origin_classification) \in Int
  BY RankType
<1>2. /\ LocalCopy(a).classification = a.origin_classification
      /\ LocalCopy(a).artifact = a
      /\ LocalCopy(a).domain = LocalDomain
  BY DEF LocalCopy
<1> QED
  BY <1>1, <1>2 DEF Labelled

\* Nothing is released below its level, or from an untrusted origin, without an approval.
LEMMA ReleasedLabel ==
  ASSUME NEW payload, NEW label, NEW source, NEW destination, NEW requested \in Classifications,
         NEW rules, NEW approved \in BOOLEAN,
         label.classification \in Classifications,
         RequestCrossDomainTransfer(payload, label, source, destination, requested, rules,
                                    approved).outcome = "RELEASED"
  PROVE  LET t == RequestCrossDomainTransfer(payload, label, source, destination, requested,
                                             rules, approved)
         IN  /\ t.released_classification = requested
             /\ t.decision_ref # "REQUIRE_APPROVAL" =>
                  /\ Rank(label.classification) <= Rank(requested)
                  /\ label.trust \notin {"UNTRUSTED", "UNKNOWN"}
<1> DEFINE t == RequestCrossDomainTransfer(payload, label, source, destination, requested,
                                           rules, approved)
<1>1. t.released_classification = requested /\ t.decision_ref = EvaluateIfc(label, source, destination, requested)
  BY DEF RequestCrossDomainTransfer
<1>2. t.decision_ref # "DENY"
  BY DEF RequestCrossDomainTransfer
<1>3. t.decision_ref # "REQUIRE_APPROVAL" => ~NeedsApproval(label, source, requested)
  BY <1>1, <1>2 DEF EvaluateIfc
<1>4. Rank(label.classification) \in Int /\ Rank(requested) \in Int
  BY RankType
<1> HIDE DEF t
<1> QED
  BY <1>1, <1>3, <1>4 DEF NeedsApproval, t

\* Labels are respected by every step, however many transfers a copy has been through.
LEMMA LabelStep == LabelInv /\ [Next]_vars => LabelInv'
<1> SUFFICES ASSUME LabelInv, [Next]_vars PROVE LabelInv'
  OBVIOUS
<1>1. ASSUME NEW a \in received, NEW call \in CallContexts, EvaluateFederation(a, call)
      PROVE  LabelInv'
  <2>1. ASSUME NEW h \in holdings', h \notin holdings PROVE Labelled(h)
    <3>1. /\ h = LocalCopy(a)
          /\ LET dims == Dimensions(a, call.remote, call.evidence)
             IN  Decision({d \in DOMAIN dims : dims[d] = FALSE},
                          {d \in DOMAIN dims : dims[d] = None}, call.conflict_state) = "ACCEPT"
      BY <1>1, <2>1 DEF EvaluateFederation
    <3> QED
      BY <3>1, AcceptedIsClean, EnteredLabel
  <2> QED
    BY <2>1 DEF LabelInv, Labelled
<1>2. ASSUME NEW h \in holdings, NEW destination \in Domains, NEW requested \in Classifications,
             NEW rules \in RuleSets, NEW approved \in BOOLEAN,
             Transfer(h, destination, requested, rules, approved)
      PROVE  LabelInv'
  <2> DEFINE t == RequestCrossDomainTransfer(h.payload, Label(h), h.domain, destination,
                                             requested, rules, approved)
  <2>1. Labelled(h)
    BY DEF LabelInv
  <2>2. Label(h).classification = h.classification /\ Label(h).trust = h.artifact.origin_trust
    BY DEF Label
  <2>3. Rank(h.classification) \in Int /\ Rank(requested) \in Int
        /\ Rank(h.artifact.origin_classification) \in Int
    BY <2>1, RankType DEF Labelled
  <2>4. ASSUME NEW copy \in holdings', copy \notin holdings PROVE Labelled(copy)
    <3>1. /\ t.outcome = "RELEASED"
          /\ copy.artifact = h.artifact
          /\ copy.classification = t.released_classification
          /\ copy.approved = (h.approved \/ t.decision_ref = "REQUIRE_APPROVAL")
      BY <1>2, <2>4 DEF Transfer
    <3>2. /\ t.released_classification = requested
          /\ t.decision_ref # "REQUIRE_APPROVAL" =>
               /\ Rank(h.classification) <= Rank(requested)
               /\ h.artifact.origin_trust \notin {"UNTRUSTED", "UNKNOWN"}
      BY <2>1, <2>2, <3>1, ReleasedLabel DEF Labelled
    <3> HIDE DEF t
    <3>3. CASE t.decision_ref = "REQUIRE_APPROVAL"
      BY <2>1, <3>1, <3>2, <3>3 DEF Labelled
    <3>4. CASE t.decision_ref # "REQUIRE_APPROVAL"
      <4>1. h.approved => copy.approved
        BY <3>1, <3>4
      <4> QED
        BY <2>1, <2>3, <3>1, <3>2, <3>4, <4>1 DEF Labelled
    <3> QED
      BY <3>3, <3>4
  <2> QED
    BY <2>4 DEF LabelInv, Labelled
<1>3. CASE \/ \E a \in Artifacts : Send(a)
           \/ Receive
           \/ Tick
           \/ \E id \in ArtifactIds : Revoke(id)
           \/ UNCHANGED vars
  BY <1>3 DEF LabelInv, Labelled, Send, Receive, Tick, Revoke, vars
<1> QED
  BY <1>1, <1>2, <1>3 DEF Next

\* Along any chain of transfers, a level is lowered only with an approval (evaluate_ifc).
THEOREM DowngradesAreApproved == Spec => []DowngradeOnlyApproved
<1>1. Init => LabelInv
  BY DEF Init, LabelInv
<1>2. LabelInv => DowngradeOnlyApproved
  BY DEF LabelInv, Labelled, DowngradeOnlyApproved
<1> QED
  BY <1>1, <1>2, LabelStep, PTL DEF Spec

\* What is of untrusted origin leaves the local domain only with an approval (evaluate_ifc).
THEOREM UntrustedLeavesApproved == Spec => []UntrustedLeavesOnlyApproved
<1>1. Init => LabelInv
  BY DEF Init, LabelInv
<1>2. LabelInv => UntrustedLeavesOnlyApproved
  BY DEF LabelInv, Labelled, UntrustedLeavesOnlyApproved
<1> QED
  BY <1>1, <1>2, LabelStep, PTL DEF Spec

-----------------------------------------------------------------------------
(* Sanitization.                                                           *)

Paths == Range(FieldPaths)

\* The payload at a point of the sanitization, and what was removed by then.
Sanitized(start, r) ==
  /\ DOMAIN r.payload \subseteq DOMAIN start
  /\ Nested(r.payload)
  /\ \A p \in r.fields_removed : \A q \in DOMAIN r.payload : ~IsPrefix(p, q)

\* A path leads through itself and, when it is that of a child, through its parent.
LEMMA PrefixOfPath ==
  ASSUME NEW p \in Paths, NEW q \in Paths
  PROVE  /\ IsPrefix(p, p)
         /\ Len(q) = 2 => /\ q = <<q[1], q[2]>>
                          /\ IsPrefix(p, <<q[1]>>) => p = <<q[1]>> /\ IsPrefix(p, q)
<1>1. p = <<p[1]>> \/ p = <<p[1], p[2]>>
  BY PathsAssumption DEF Paths
<1>2. IsPrefix(p, p)
  BY <1>1 DEF IsPrefix
<1>3. ASSUME Len(q) = 2
      PROVE  q = <<q[1], q[2]>>
  <2>1. q = <<q[1]>> \/ q = <<q[1], q[2]>>
    BY PathsAssumption DEF Paths
  <2>2. Len(<<q[1]>>) = 1
    OBVIOUS
  <2> QED
    BY <1>3, <2>1, <2>2
<1>4. ASSUME NEW x, NEW y, IsPrefix(p, <<x>>)
      PROVE  p = <<x>> /\ IsPrefix(p, <<x, y>>)
  <2>1. p = <<p[1]>>
    <3> SUFFICES ASSUME p = <<p[1], p[2]>> PROVE FALSE
      BY <1>1
    <3>1. Len(p) = 2 /\ Len(<<x>>) = 1
      OBVIOUS
    <3> QED
      BY <1>4, <3>1 DEF IsPrefix
  <2> DEFINE a == p[1]
  <2>2. p = <<a>> /\ IsPrefix(<<a>>, <<x>>)
    BY <1>4, <2>1
  <2> HIDE DEF a
  <2>3. a = x
    BY <2>2 DEF IsPrefix
  <2>4. IsPrefix(<<x>>, <<x, y>>)
    BY DEF IsPrefix
  <2> QED
    BY <2>2, <2>3, <2>4
<1> QED
  BY <1>2, <1>3, <1>4

\* A rule leaves nothing below its path, and of the rest every value.
LEMMA TransformedTells ==
  ASSUME NEW payload, NEW rule, rule.field_path \in DOMAIN payload, rule.field_path \in Paths
  PROVE  LET new == Transformed(payload, rule)
         IN  /\ DOMAIN new \subseteq DOMAIN payload
             /\ \A q \in DOMAIN payload :
                  ~IsPrefix(rule.field_path, q) => q \in DOMAIN new /\ new[q] = payload[q]
             /\ \A q \in DOMAIN new :
                  IsPrefix(rule.field_path, q) => q = rule.field_path /\ ~Removes(rule)
<1> DEFINE f == rule.field_path
           kept == Without(payload, f)
<1>1. /\ DOMAIN kept = {q \in DOMAIN payload : ~IsPrefix(f, q)}
      /\ \A q \in DOMAIN kept : kept[q] = payload[q]
  BY DEF Without, Restrict
<1>2. IsPrefix(f, f)
  BY PrefixOfPath
<1>3. CASE Removes(rule)
  <2>1. Transformed(payload, rule) = kept
    BY <1>3 DEF Transformed
  <2> QED
    BY <1>1, <2>1
<1>4. CASE ~Removes(rule)
  <2> DEFINE new == [q \in DOMAIN kept \cup {f} |->
                       IF q = f THEN NewValue(payload, rule) ELSE kept[q]]
  <2>1. Transformed(payload, rule) = new
    BY <1>4 DEF Transformed
  <2>2. DOMAIN new = DOMAIN kept \cup {f} /\ \A q \in DOMAIN kept : q # f => new[q] = kept[q]
    OBVIOUS
  <2> HIDE DEF new, kept, f
  <2>3. f \in DOMAIN payload
    BY DEF f
  <2> QED
    BY <1>1, <1>2, <1>4, <2>1, <2>2, <2>3 DEF f
<1> QED
  BY <1>3, <1>4

\* Each rule keeps a child below its dictionary, and what was removed away (_apply_one).
LEMMA ApplyOneKeeps ==
  ASSUME NEW start, DOMAIN start \subseteq Paths, NEW r, Sanitized(start, r), NEW rule
  PROVE  Sanitized(start, ApplyOne(r, rule))
<1> DEFINE f == rule.field_path
           next == ApplyOne(r, rule)
           new == Transformed(r.payload, rule)
<1>1. CASE f \notin DOMAIN r.payload
  BY <1>1 DEF ApplyOne
<1>2. CASE f \in DOMAIN r.payload
  <2>1. /\ next.payload = new
        /\ next.fields_removed = IF Removes(rule) THEN r.fields_removed \cup {f}
                                 ELSE r.fields_removed
    BY <1>2 DEF ApplyOne
  <2>2. f \in Paths /\ DOMAIN r.payload \subseteq Paths
    BY <1>2 DEF Sanitized
  <2>3. /\ DOMAIN new \subseteq DOMAIN r.payload
        /\ \A q \in DOMAIN r.payload :
             ~IsPrefix(f, q) => q \in DOMAIN new /\ new[q] = r.payload[q]
        /\ \A q \in DOMAIN new : IsPrefix(f, q) => q = f /\ ~Removes(rule)
    BY <1>2, <2>2, TransformedTells
  <2> HIDE DEF new, next
  <2>4. ASSUME NEW q \in DOMAIN new, Len(q) = 2
        PROVE  <<q[1]>> \in DOMAIN new /\ new[<<q[1]>>] = Dict
    <3>1. q \in DOMAIN r.payload /\ <<q[1]>> \in DOMAIN r.payload /\ r.payload[<<q[1]>>] = Dict
      BY <2>3, <2>4 DEF Sanitized, Nested
    <3>2. ~IsPrefix(f, <<q[1]>>)
      <4> SUFFICES ASSUME IsPrefix(f, <<q[1]>>) PROVE FALSE
        OBVIOUS
      <4>1. f = <<q[1]>> /\ IsPrefix(f, q)
        BY <2>2, <2>4, <3>1, PrefixOfPath
      <4>2. q = f
        BY <2>3, <4>1
      <4>3. Len(<<q[1]>>) = 1
        OBVIOUS
      <4> QED
        BY <2>4, <4>1, <4>2, <4>3
    <3> QED
      BY <2>3, <3>1, <3>2
  <2>5. ASSUME NEW p \in next.fields_removed, NEW q \in DOMAIN new
        PROVE  ~IsPrefix(p, q)
    <3>1. CASE p \in r.fields_removed
      BY <2>3, <3>1 DEF Sanitized
    <3>2. CASE Removes(rule) /\ p = f
      BY <2>3, <3>2
    <3> QED
      BY <2>1, <2>5, <3>1, <3>2
  <2> QED
    BY <2>1, <2>3, <2>4, <2>5 DEF Sanitized, Nested, next
<1> QED
  BY <1>1, <1>2

\* The natural numbers are well ordered.
LEMMA LeastNat ==
  ASSUME NEW S \in SUBSET Nat, S # {}
  PROVE  \E m \in S : \A k \in S : m <= k
<1> DEFINE R == {p \in Nat \X Nat : p[1] < p[2]}
<1>1. R = OpToRel(<, Nat)
  BY DEF OpToRel
<1>2. IsWellFoundedOn(R, Nat)
  BY <1>1, NatLessThanWellFounded
<1> HIDE DEF R
<1>3. PICK m \in S : \A k \in S : ~ (<<k, m>> \in R)
  BY <1>2, WFMin
<1>4. ASSUME NEW k \in S  PROVE m <= k
  <2>1. k \in Nat /\ m \in Nat
    OBVIOUS
  <2>2. k < m => <<k, m>> \in R
    BY <2>1 DEF R
  <2> QED
    BY <1>3, <2>1, <2>2
<1> QED
  BY <1>3, <1>4

Untouched(payload) == [payload |-> payload, transformations |-> <<>>, fields_removed |-> {}]

\* g records the results after each of the first n rules
Recorded(g, payload, rules, n) ==
  g = [i \in 0..n |-> IF i = 0 THEN Untouched(payload) ELSE ApplyOne(g[i - 1], rules[i])]

\* One more rule can be applied to whatever was recorded.
LEMMA RecordExtends ==
  ASSUME NEW payload, NEW rules, NEW n \in Nat \ {0}, NEW g, Recorded(g, payload, rules, n - 1)
  PROVE  \E h : Recorded(h, payload, rules, n)
<1> DEFINE h == [i \in 0..n |-> IF i = n THEN ApplyOne(g[n - 1], rules[n]) ELSE g[i]]
<1>1. \A i \in 0..(n - 1) :
        g[i] = IF i = 0 THEN Untouched(payload) ELSE ApplyOne(g[i - 1], rules[i])
  BY DEF Recorded
<1>2. ASSUME NEW i \in 0..n
      PROVE  h[i] = IF i = 0 THEN Untouched(payload) ELSE ApplyOne(h[i - 1], rules[i])
  <2>1. CASE i = n
    <3>1. h[n - 1] = g[n - 1]
      OBVIOUS
    <3>2. h[i] = ApplyOne(g[n - 1], rules[n])
      BY <2>1
    <3> QED
      BY <2>1, <3>1, <3>2
  <2>2. CASE i # n
    <3>1. i \in 0..(n - 1) /\ h[i] = g[i]
      BY <2>2
    <3>2. i # 0 => h[i - 1] = g[i - 1]
      BY <2>2
    <3> HIDE DEF h
    <3> QED
      BY <1>1, <3>1, <3>2
  <2> QED
    BY <2>1, <2>2
<1>3. h = [i \in 0..n |-> h[i]]
  OBVIOUS
<1> HIDE DEF h
<1>4. h = [i \in 0..n |-> IF i = 0 THEN Untouched(payload) ELSE ApplyOne(h[i - 1], rules[i])]
  BY <1>2, <1>3
<1> QED
  BY <1>4 DEF Recorded

\* The results after any number of rules are recorded by a function.
LEMMA RecordExists ==
  ASSUME NEW payload, NEW rules, NEW n \in Nat
  PROVE  \E g : Recorded(g, payload, rules, n)
<1> DEFINE None0 == {m \in Nat : ~\E g : Recorded(g, payload, rules, m)}
<1>1. 0 \notin None0
  <2> DEFINE g == [i \in 0..0 |-> Untouched(payload)]
  <2>1. g = [i \in 0..0 |-> IF i = 0 THEN Untouched(payload) ELSE ApplyOne(g[i - 1], rules[i])]
    OBVIOUS
  <2>2. Recorded(g, payload, rules, 0)
    BY <2>1 DEF Recorded
  <2> QED
    BY <2>2
<1>2. None0 = {}
  <2> SUFFICES ASSUME None0 # {} PROVE FALSE
    OBVIOUS
  <2>0. None0 \in SUBSET Nat
    OBVIOUS
  <2>1. PICK m \in None0 : \A k \in None0 : m <= k
    <3> HIDE DEF None0
    <3> QED
      BY <2>0, LeastNat
  <2>2. m \in Nat \ {0} /\ m - 1 \in Nat /\ ~(m <= m - 1)
    BY <1>1
  <2>3. PICK g : Recorded(g, payload, rules, m - 1)
    BY <2>1, <2>2
  <2> QED
    BY <2>2, <2>3, RecordExtends
<1> QED
  BY <1>2

\* apply_sanitization applies one rule after the other.
LEMMA ResultsStepByStep ==
  ASSUME NEW payload, NEW rules, Len(rules) \in Nat
  PROVE  /\ Results(payload, rules)[0] = Untouched(payload)
         /\ \A i \in 1..Len(rules) :
              Results(payload, rules)[i] = ApplyOne(Results(payload, rules)[i - 1], rules[i])
<1> DEFINE n == Len(rules)
           after == Results(payload, rules)
<1>1. after = CHOOSE g : Recorded(g, payload, rules, n)
  BY DEF Results, Recorded, Untouched
<1>2. Recorded(after, payload, rules, n)
  BY <1>1, RecordExists
<1> HIDE DEF after, n
<1>3. /\ n \in Nat
      /\ after = [i \in 0..n |-> IF i = 0 THEN Untouched(payload) ELSE ApplyOne(after[i - 1], rules[i])]
  BY <1>2 DEF Recorded, n
<1>4. \A i \in 0..n : after[i] = IF i = 0 THEN Untouched(payload) ELSE ApplyOne(after[i - 1], rules[i])
  BY <1>3
<1> QED
  BY <1>3, <1>4 DEF after, n

\* sorted() neither loses nor adds a rule.
LEMMA SortKeepsLength ==
  ASSUME NEW rules, rules \in Seq(Range(rules))
  PROVE  Len(rules) \in Nat /\ Len(SortRules(rules)) = Len(rules)
<1> DEFINE n == Len(rules)
           sorted == SortRules(rules)
           S == {sorted[k] : k \in 1..n}
<1>1. n \in Nat /\ DOMAIN rules = 1..n
  BY LenProperties
<1>2. DOMAIN sorted = 1..n /\ sorted = [k \in 1..n |-> sorted[k]]
  BY <1>1 DEF SortRules
<1> HIDE DEF sorted, n
<1>3. sorted \in [1..n -> S]
  BY <1>2
<1>4. sorted \in Seq(S)
  BY <1>1, <1>3, SeqDef
<1>5. Len(sorted) \in Nat /\ DOMAIN sorted = 1..Len(sorted)
  BY <1>4, LenProperties
<1>6. Len(sorted) = n
  BY <1>1, <1>2, <1>5
<1> QED
  BY <1>1, <1>6 DEF sorted, n

\* What a sanitization releases of a nested payload, whatever its rules: no path that was not
\* there, a child only below its dictionary, and nothing at or below a path it removed.
THEOREM SanitizationKeeps ==
  ASSUME NEW payload, DOMAIN payload \subseteq Range(FieldPaths), Nested(payload),
         NEW rules, rules \in Seq(Range(rules))
  PROVE  LET sanitized == ApplySanitization(payload, rules)
         IN  /\ DOMAIN sanitized.payload \subseteq DOMAIN payload
             /\ Nested(sanitized.payload)
             /\ \A p \in sanitized.fields_removed :
                  ~\E q \in DOMAIN sanitized.payload : IsPrefix(p, q)
<1> DEFINE sorted == SortRules(rules)
           after == Results(payload, sorted)
           n == Len(rules)
           Bad == {i \in 0..n : ~Sanitized(payload, after[i])}
<1>1. n \in Nat /\ Len(sorted) = n
  BY SortKeepsLength
<1>2. /\ after[0] = Untouched(payload)
      /\ \A i \in 1..n : after[i] = ApplyOne(after[i - 1], sorted[i])
  BY <1>1, ResultsStepByStep
<1>3. ApplySanitization(payload, rules) = after[n]
  BY DEF ApplySanitization
<1> HIDE DEF after, sorted, n
<1>4. Sanitized(payload, after[0])
  BY <1>2 DEF Sanitized, Untouched
<1>5. \A i \in 1..n : Sanitized(payload, after[i - 1]) => Sanitized(payload, after[i])
  BY <1>2, ApplyOneKeeps DEF Paths
<1>6. Bad = {}
  <2> SUFFICES ASSUME Bad # {} PROVE FALSE
    OBVIOUS
  <2>0. Bad \in SUBSET Nat
    BY <1>1
  <2>1. PICK m \in Bad : \A k \in Bad : m <= k
    <3> HIDE DEF Bad
    <3> QED
      BY <2>0, LeastNat
  <2>2. m \in 1..n
    BY <1>1, <1>4
  <2>3. m - 1 \in 0..n /\ ~(m <= m - 1)
    BY <1>1, <2>2
  <2>4. Sanitized(payload, after[m - 1])
    BY <2>1, <2>3
  <2> QED
    BY <1>5, <2>2, <2>4
<1>7. Sanitized(payload, after[n])
  BY <1>1, <1>6
<1> QED
  BY <1>3, <1>7 DEF Sanitized

-----------------------------------------------------------------------------
(* Type correctness, and what was removed.                                 *)

\* A copy is what is left of an artifact that was received.
Copied(h) ==
  /\ h.artifact \in received
  /\ h.domain \in Domains
  /\ h.classification \in Classifications
  /\ DOMAIN h.payload \subseteq DOMAIN h.artifact.payload
  /\ Nested(h.payload)
  /\ \A p \in h.removed : ~\E q \in DOMAIN h.payload : IsPrefix(p, q)

CopyInv == received \subseteq Artifacts /\ \A h \in holdings : Copied(h)

\* What is accepted is the artifact as it was received.
LEMMA LocalCopyIsCopied ==
  ASSUME NEW a \in received, received \subseteq Artifacts,
         a.origin_classification \in Classifications
  PROVE  Copied(LocalCopy(a))
<1>1. Nested(a.payload)
  BY PayloadsAssumption
<1> QED
  BY <1>1, DomainsAssumption DEF Copied, LocalCopy

\* What is released of a copy is a copy again, without what was removed from it before or now.
LEMMA ReleasedIsCopied ==
  ASSUME CopyInv, NEW h \in holdings, NEW destination \in Domains,
         NEW requested \in Classifications, NEW rules \in RuleSets, NEW approved \in BOOLEAN,
         Transfer(h, destination, requested, rules, approved)
  PROVE  \A copy \in holdings' : copy \in holdings \/ Copied(copy)
<1> SUFFICES ASSUME NEW copy \in holdings', copy \notin holdings PROVE Copied(copy)
  OBVIOUS
<1> DEFINE t == RequestCrossDomainTransfer(h.payload, Label(h), h.domain, destination,
                                           requested, rules, approved)
           sanitized == ApplySanitization(h.payload, rules)
<1>1. /\ t.outcome = "RELEASED"
      /\ copy.artifact = h.artifact
      /\ copy.domain = destination
      /\ copy.classification = t.released_classification
      /\ copy.payload = t.released_hash.sha256
      /\ copy.removed = h.removed \cup t.fields_removed
  BY DEF Transfer
<1>2. /\ t.released_classification = requested
      /\ t.released_hash = Sha256(sanitized.payload)
      /\ t.fields_removed = sanitized.fields_removed
  BY <1>1 DEF RequestCrossDomainTransfer
<1>3. copy.payload = sanitized.payload
  BY <1>1, <1>2 DEF Sha256
<1> HIDE DEF t, sanitized
<1>4. Copied(h) /\ h.artifact \in Artifacts
  BY DEF CopyInv, Copied
<1>5. DOMAIN h.payload \subseteq Range(FieldPaths) /\ Nested(h.payload)
  BY <1>4, PayloadsAssumption DEF Copied
<1>6. rules \in Seq(Range(rules))
  BY RulesAssumption
<1>7. /\ DOMAIN sanitized.payload \subseteq DOMAIN h.payload
      /\ Nested(sanitized.payload)
      /\ \A p \in sanitized.fields_removed :
           ~\E q \in DOMAIN sanitized.payload : IsPrefix(p, q)
  BY <1>5, <1>6, SanitizationKeeps DEF sanitized
<1> QED
  BY <1>1, <1>2, <1>3, <1>4, <1>7 DEF Copied

\* Every step keeps copies what they are.
LEMMA CopyStep == CopyInv /\ inbox \in Seq(Artifacts) /\ [Next]_vars => CopyInv'
<1> SUFFICES ASSUME CopyInv, inbox \in Seq(Artifacts), [Next]_vars PROVE CopyInv'
  OBVIOUS
<1>1. ASSUME NEW h, Copied(h), received \subseteq received'
      PROVE  Copied(h)'
  BY <1>1 DEF Copied
<1>2. ASSUME NEW a \in received, NEW call \in CallContexts, EvaluateFederation(a, call)
      PROVE  CopyInv'
  <2>1. received' = received
    BY <1>2 DEF EvaluateFederation
  <2>2. ASSUME NEW h \in holdings', h \notin holdings PROVE Copied(h)
    <3>1. /\ h = LocalCopy(a)
          /\ LET dims == Dimensions(a, call.remote, call.evidence)
             IN  Decision({d \in DOMAIN dims : dims[d] = FALSE},
                          {d \in DOMAIN dims : dims[d] = None}, call.conflict_state) = "ACCEPT"
      BY <1>2, <2>2 DEF EvaluateFederation
    <3> QED
      BY <3>1, AcceptedIsClean, LocalCopyIsCopied DEF CopyInv
  <2> QED
    BY <1>1, <2>1, <2>2 DEF CopyInv
<1>3. ASSUME NEW h \in holdings, NEW destination \in Domains, NEW requested \in Classifications,
             NEW rules \in RuleSets, NEW approved \in BOOLEAN,
             Transfer(h, destination, requested, rules, approved)
      PROVE  CopyInv'
  <2>1. received' = received
    BY <1>3 DEF Transfer
  <2>2. \A copy \in holdings' : copy \in holdings \/ Copied(copy)
    BY <1>3, ReleasedIsCopied
  <2> QED
    BY <1>1, <2>1, <2>2 DEF CopyInv
<1>4. CASE \/ \E a \in Artifacts : Send(a)
           \/ Receive
           \/ Tick
           \/ \E id \in ArtifactIds : Revoke(id)
           \/ UNCHANGED vars
  <2>1. holdings' = holdings /\ (received' = received \/ received' = received \cup Range(inbox))
    BY <1>4 DEF Send, Receive, Tick, Revoke, vars
  <2>2. Range(inbox) \subseteq Artifacts
    BY ElementOfSeq, LenProperties DEF Range
  <2> QED
    BY <1>1, <2>1, <2>2 DEF CopyInv
<1> QED
  BY <1>2, <1>3, <1>4 DEF Next

\* The rest of the type invariant.
CallInv ==
  /\ inbox \in Seq(Artifacts)
  /\ sends \in 0..MaxSends
  /\ DOMAIN ledger \subseteq ArtifactIds
  /\ revoked \in SUBSET ArtifactIds
  /\ now \in 0..MaxTime
  /\ Evaluated => result.artifact \in received /\ result.decision \in Outcomes
  /\ Transferred => result.outcome \in {"RELEASED", "DENIED", "PENDING_APPROVAL"}

\* Every operation leaves the transport, the ledger, the registry and the clock in their types,
\* and returns one of its outcomes.
LEMMA CallStep == CallInv /\ received \subseteq Artifacts /\ [Next]_vars => CallInv'
<1> SUFFICES ASSUME CallInv, received \subseteq Artifacts, [Next]_vars PROVE CallInv'
  OBVIOUS
<1>1. ASSUME NEW a \in Artifacts, Send(a) PROVE CallInv'
  <2>1. Append(inbox, a) \in Seq(Artifacts)
    BY AppendProperties DEF CallInv
  <2>2. sends + 1 \in 0..MaxSends
    BY <1>1, FederationBounds DEF CallInv, Send
  <2> QED
    BY <1>1, <2>1, <2>2 DEF Send, CallInv, Evaluated, Transferred
<1>2. CASE Receive
  <2>1. <<>> \in Seq(Artifacts)
    BY EmptySeq
  <2> QED
    BY <1>2, <2>1 DEF Receive, CallInv, Evaluated, Transferred
<1>3. CASE Tick
  <2>1. now + 1 \in 0..MaxTime
    BY <1>3, FederationBounds DEF CallInv, Tick
  <2> QED
    BY <1>3, <2>1 DEF Tick, CallInv, Evaluated, Transferred
<1>4. ASSUME NEW id \in ArtifactIds, Revoke(id) PROVE CallInv'
  BY <1>4 DEF Revoke, CallInv, Evaluated, Transferred
<1>5. ASSUME NEW a \in received, NEW call \in CallContexts, EvaluateFederation(a, call)
      PROVE  CallInv'
  <2>1. DOMAIN ledger' \subseteq ArtifactIds
    <3>1. ledger' = CheckAndRecord(a) /\ a.artifact_id \in ArtifactIds
      BY <1>5 DEF EvaluateFederation, ArtifactIds
    <3> QED
      BY <3>1 DEF CheckAndRecord, CallInv
  <2>2. /\ result'.call = "evaluate_federation"
        /\ result'.artifact = a
        /\ result'.decision \in Outcomes
    <3>1. \A v, u, c : Decision(v, u, c) \in Outcomes
      BY DEF Decision, Outcomes
    <3> QED
      BY <1>5, <3>1 DEF EvaluateFederation
  <2>3. UNCHANGED <<inbox, sends, received, revoked, now>>
    BY <1>5 DEF EvaluateFederation
  <2> QED
    BY <2>1, <2>2, <2>3 DEF CallInv, Evaluated, Transferred
<1>6. ASSUME NEW h, NEW destination, NEW requested, NEW rules, NEW approved,
             Transfer(h, destination, requested, rules, approved)
      PROVE  CallInv'
  <2>1. /\ result'.call = "request_cross_domain_transfer"
        /\ result'.outcome \in {"RELEASED", "DENIED", "PENDING_APPROVAL"}
    BY <1>6 DEF Transfer, RequestCrossDomainTransfer
  <2>2. UNCHANGED <<inbox, sends, received, ledger, revoked, now>>
    BY <1>6 DEF Transfer
  <2> QED
    BY <2>1, <2>2 DEF CallInv, Evaluated, Transferred
<1>7. CASE UNCHANGED vars
  BY <1>7 DEF vars, CallInv, Evaluated, Transferred
<1> QED
  BY <1>1, <1>2, <1>3, <1>4, <1>5, <1>6, <1>7 DEF Next

LEMMA CopyAlways == Spec => [](CopyInv /\ CallInv)
<1>1. Init => CopyInv /\ CallInv
  <2>1. <<>> \in Seq(Artifacts)
    BY EmptySeq
  <2> QED
    BY <2>1, FederationBounds DEF Init, CopyInv, CallInv, Evaluated, Transferred
<1>2. CopyInv /\ CallInv /\ [Next]_vars => CopyInv' /\ CallInv'
  BY CopyStep, CallStep DEF CopyInv, CallInv
<1> QED
  BY <1>1, <1>2, PTL DEF Spec

\* Every reachable state is well typed; a child stays below a dictionary in every copy, whatever
\* rules it went through (evaluate_federation, request_cross_domain_transfer).
THEOREM FederationTypeOK == Spec => []TypeOK
<1>1. CopyInv /\ CallInv => TypeOK
  BY DEF CopyInv, CallInv, TypeOK, Copied
<1> QED
  BY <1>1, CopyAlways, PTL

\* No rule of any later transfer brings back what a transfer removed (apply_sanitization).
THEOREM RemovedStaysRemoved == Spec => []RemovedNeverReleased
<1>1. CopyInv => RemovedNeverReleased
  BY DEF CopyInv, Copied, RemovedNeverReleased
<1> QED
  BY <1>1, CopyAlways, PTL
=============================================================================

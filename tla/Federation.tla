------------------------------ MODULE Federation ------------------------------
(***************************************************************************)
(* federation: artifacts arrive over a transport that may repeat, alter or *)
(* reissue them; the local domain decides on each against its ledger and   *)
(* its revocation registry, as often as its callers ask; what was accepted *)
(* is transferred from domain to domain.                                   *)
(***************************************************************************)
EXTENDS CrossDomainTransfer, FiniteSets

CONSTANTS
  Artifacts,       \* the federated artifacts that may be sent
  Domains,         \* the security domains
  LocalDomain,     \* the one that evaluates
  KnownInstances,  \* known_source_instances
  RuleSets,        \* the sanitization policies callers use
  CallContexts,    \* [remote, evidence, conflict_state]: what callers pass besides the artifact
  MaxSends,        \* bound: artifacts sent in one behaviour
  MaxRevoked,      \* bound: artifacts revoked in one behaviour
  MaxHoldings,     \* bound: copies of accepted artifacts held in one behaviour
  MaxTime          \* bound: the clock

ASSUME DomainsAssumption == LocalDomain \in Domains
ASSUME PayloadsAssumption ==
  \A a \in Artifacts : DOMAIN a.payload \subseteq Range(FieldPaths) /\ Nested(a.payload)
ASSUME RulesAssumption == \A rules \in RuleSets : rules \in Seq(Range(rules))
ASSUME CallsAssumption ==
  CallContexts \subseteq
    [remote : Domains, evidence : BOOLEAN \cup {None},
     conflict_state : {"CONSISTENT", "CONFLICT", "UNKNOWN", "REQUIRES_AUTHORITY"}]
ASSUME FederationBounds ==
  MaxSends \in Nat /\ MaxRevoked \in Nat /\ MaxHoldings \in Nat /\ MaxTime \in Nat

VARIABLES
  inbox,     \* InProcessTestTransport._inbox
  sends,     \* length of InProcessTestTransport._outbox
  received,  \* artifacts receive() has returned
  ledger,    \* FederationLedger._seen: artifact_id -> content_hash
  revoked,   \* RevocationRegistry._revoked
  now,       \* the clock
  holdings,  \* copies held: [artifact, domain, payload, classification, approved, removed]
  result     \* what the last evaluation or transfer returned

vars == <<inbox, sends, received, ledger, revoked, now, holdings, result>>

ArtifactIds == {a.artifact_id : a \in Artifacts}

Outcomes == {"ACCEPT", "QUARANTINE", "REJECT", "LOCAL_REVALIDATION_REQUIRED"}

-----------------------------------------------------------------------------
(* The transport and the passing of time.                                  *)

\* the peer sends an artifact for the first time or again; the altered ones are in Artifacts
Send(a) ==
  /\ sends < MaxSends
  /\ inbox' = Append(inbox, a)
  /\ sends' = sends + 1
  /\ UNCHANGED <<received, ledger, revoked, now, holdings, result>>

Receive ==
  /\ inbox # <<>>
  /\ received' = received \cup Range(inbox)
  /\ inbox' = <<>>
  /\ UNCHANGED <<sends, ledger, revoked, now, holdings, result>>

Tick ==
  /\ now < MaxTime
  /\ now' = now + 1
  /\ UNCHANGED <<inbox, sends, received, ledger, revoked, holdings, result>>

Revoke(id) ==
  /\ revoked' = revoked \cup {id}
  /\ Cardinality(revoked') <= MaxRevoked
  /\ UNCHANGED <<inbox, sends, received, ledger, now, holdings, result>>

-----------------------------------------------------------------------------
(* evaluate_federation.                                                    *)

VerifyContentHash(a) == Sha256(a.payload) = a.content_hash

ReplayConflict(a) ==
  a.artifact_id \in DOMAIN ledger /\ ledger[a.artifact_id] # a.content_hash

\* check_and_record that keeps the last hash
LedgerKeepsLast(a) == (a.artifact_id :> a.content_hash) @@ ledger

\* the first hash seen for an id stays, whatever else is wrong with the artifact
CheckAndRecord(a) ==
  [id \in DOMAIN ledger \cup {a.artifact_id} |->
     IF id \in DOMAIN ledger THEN ledger[id] ELSE a.content_hash]

\* _evaluate_dimensions that trusts what the ledger already holds
DimensionsCached(a, remote, evidence) ==
  LET seen == a.artifact_id \in DOMAIN ledger
  IN  [schema_valid |-> TRUE,
       hash_valid |-> VerifyContentHash(a),
       provenance_present |-> a.has_provenance,
       source_known |-> a.origin_instance \in KnownInstances,
       source_allowed |-> FederationAllowed(LocalDomain, remote.domain_id),
       classification_compatible |-> a.origin_classification \in Classifications,
       domain_transfer_allowed |-> TransferAllowed(remote, LocalDomain),
       fresh_enough |-> seen \/ a.valid_until = None \/ now <= a.valid_until,
       not_revoked |-> seen \/ a.artifact_id \notin revoked,
       not_authoritative_by_default |-> a.origin_trust # "AUTHORITATIVE",
       no_replay_conflict |-> ~ReplayConflict(a),
       evidence_resolvable |-> evidence]

\* TRUE, FALSE, or None for what could not be confirmed
Dimensions(a, remote, evidence) ==
  [schema_valid |-> TRUE,
   hash_valid |-> VerifyContentHash(a),
   provenance_present |-> a.has_provenance,
   source_known |-> a.origin_instance \in KnownInstances,
   source_allowed |-> FederationAllowed(LocalDomain, remote.domain_id),
   classification_compatible |-> a.origin_classification \in Classifications,
   domain_transfer_allowed |-> TransferAllowed(remote, LocalDomain),
   fresh_enough |-> a.valid_until = None \/ now <= a.valid_until,
   not_revoked |-> a.artifact_id \notin revoked,
   not_authoritative_by_default |-> a.origin_trust # "AUTHORITATIVE",
   no_replay_conflict |-> ~ReplayConflict(a),
   evidence_resolvable |-> evidence]

Decision(violated, unevaluated, conflict_state) ==
  IF violated # {} THEN "REJECT"
  ELSE IF conflict_state \in {"CONFLICT", "REQUIRES_AUTHORITY"} THEN "QUARANTINE"
  ELSE IF unevaluated # {} THEN "LOCAL_REVALIDATION_REQUIRED"
  ELSE "ACCEPT"

LocalCopy(a) ==
  [artifact |-> a, domain |-> LocalDomain, payload |-> a.payload,
   classification |-> a.origin_classification, approved |-> FALSE, removed |-> {}]

\* the ledger records the artifact even when the decision rejects it; the caller keeps what
\* was accepted
EvaluateFederation(a, call) ==
  LET dims == Dimensions(a, call.remote, call.evidence)
      violated == {d \in DOMAIN dims : dims[d] = FALSE}
      unevaluated == {d \in DOMAIN dims : dims[d] = None}
      decision == Decision(violated, unevaluated, call.conflict_state)
  IN  /\ a \in received
      /\ ledger' = CheckAndRecord(a)
      /\ result' = [call |-> "evaluate_federation", artifact |-> a, decision |-> decision,
                    violated |-> violated]
      /\ holdings' = IF decision = "ACCEPT" THEN holdings \cup {LocalCopy(a)} ELSE holdings
      /\ Cardinality(holdings') <= MaxHoldings
      /\ UNCHANGED <<inbox, sends, received, revoked, now>>

-----------------------------------------------------------------------------
(* request_cross_domain_transfer, for a copy a domain holds and with the   *)
(* label of that copy.                                                     *)

Label(h) ==
  [classification |-> h.classification, exportability |-> h.artifact.exportability,
   trust |-> h.artifact.origin_trust]

Transfer(h, destination, requested, rules, approved) ==
  LET t == RequestCrossDomainTransfer(h.payload, Label(h), h.domain, destination,
                                      requested, rules, approved)
      copy == [artifact |-> h.artifact, domain |-> destination,
               payload |-> t.released_hash.sha256,
               classification |-> t.released_classification,
               approved |-> h.approved \/ t.decision_ref = "REQUIRE_APPROVAL",
               removed |-> h.removed \cup t.fields_removed]
  IN  /\ result' = t
      /\ holdings' = IF t.outcome = "RELEASED" THEN holdings \cup {copy} ELSE holdings
      /\ Cardinality(holdings') <= MaxHoldings
      /\ UNCHANGED <<inbox, sends, received, ledger, revoked, now>>

-----------------------------------------------------------------------------

Init ==
  /\ inbox = <<>>
  /\ sends = 0
  /\ received = {}
  /\ ledger = [id \in {} |-> None]
  /\ revoked = {}
  /\ now = 0
  /\ holdings = {}
  /\ result = None

Next ==
  \/ \E a \in Artifacts : Send(a)
  \/ Receive
  \/ Tick
  \/ \E id \in ArtifactIds : Revoke(id)
  \/ \E a \in received, call \in CallContexts : EvaluateFederation(a, call)
  \/ \E h \in holdings, destination \in Domains, requested \in Classifications,
        rules \in RuleSets, approved \in BOOLEAN :
       Transfer(h, destination, requested, rules, approved)

Spec == Init /\ [][Next]_vars

-----------------------------------------------------------------------------
(* Properties.                                                             *)

Accepted == {h.artifact : h \in holdings}

Evaluated == result # None /\ result.call = "evaluate_federation"

Transferred == result # None /\ result.call = "request_cross_domain_transfer"

\* Type invariant.
TypeOK ==
  /\ inbox \in Seq(Artifacts)
  /\ sends \in 0..MaxSends
  /\ received \in SUBSET Artifacts
  /\ DOMAIN ledger \subseteq ArtifactIds
  /\ revoked \in SUBSET ArtifactIds
  /\ now \in 0..MaxTime
  /\ \A h \in holdings :
       /\ h.artifact \in received
       /\ h.domain \in Domains
       /\ h.classification \in Classifications
       /\ DOMAIN h.payload \subseteq DOMAIN h.artifact.payload
       /\ Nested(h.payload)
  /\ Evaluated => result.artifact \in received /\ result.decision \in Outcomes
  /\ Transferred => result.outcome \in {"RELEASED", "DENIED", "PENDING_APPROVAL"}

\* "Same artifact_id with different content: a real conflict, never silent" (ledger.py,
\* docstring): one content is ever accepted under an id, in whatever order the genuine
\* artifact, altered copies and reissues of it arrive and are evaluated.
AcceptedContentIsUnique ==
  \A a, b \in Accepted : a.artifact_id = b.artifact_id => a.payload = b.payload

\* An artifact that was accepted stays a known one: evaluated again, after whatever else was
\* evaluated under its id, it is no replay conflict ("a retry is idempotent", ledger.py).
AcceptSurvivesRetry ==
  Evaluated /\ result.artifact \in Accepted =>
    {"no_replay_conflict", "hash_valid"} \cap result.violated = {}

\* Having been accepted before buys nothing: every ACCEPT is of an artifact that is neither
\* revoked nor expired at that moment (_evaluate_dimensions).
AcceptIsCurrent ==
  [][ /\ Evaluated'
      /\ result' # result
      /\ result'.decision = "ACCEPT"
      => /\ result'.artifact.artifact_id \notin revoked
         /\ result'.artifact.valid_until # None => now <= result'.artifact.valid_until ]_vars

\* However many transfers a copy has been through, its level is below that of the artifact
\* only if someone approved a step of the way (evaluate_ifc).
DowngradeOnlyApproved ==
  \A h \in holdings :
    Rank(h.classification) < Rank(h.artifact.origin_classification) => h.approved

\* A copy of an artifact of untrusted origin leaves the local domain only with an approval
\* (evaluate_ifc).
UntrustedLeavesOnlyApproved ==
  \A h \in holdings :
    h.artifact.origin_trust \in {"UNTRUSTED", "UNKNOWN"} /\ h.domain # LocalDomain
      => h.approved

\* "No rule can bring back a field that was removed" (sanitizer.py, docstring), neither in
\* the transfer that removes it nor in a later one with other rules.
RemovedNeverReleased ==
  \A h \in holdings : \A p \in h.removed :
    ~\E q \in DOMAIN h.payload : IsPrefix(p, q)
=============================================================================

-------------------------- MODULE CrossDomainTransfer --------------------------
(***************************************************************************)
(* federation.security_domain, federation.ifc and                          *)
(* federation.cross_domain_transfer: who may send what to whom, and what a *)
(* transfer between two domains releases.  A domain is a record            *)
(* [domain_id, classification, allowed_federation, allowed_destinations].  *)
(***************************************************************************)
EXTENDS Integers, Sanitizer

CONSTANT None   \* the value None of the source

CLASSIFICATION_LEVELS == <<"internal", "confidential", "restricted">>

Classifications == Range(CLASSIFICATION_LEVELS)

Rank(classification) == CHOOSE i \in 1..3 : CLASSIFICATION_LEVELS[i] = classification

TrustLabels == {"TRUSTED", "EXTERNAL", "UNTRUSTED", "UNKNOWN"}

TransferAllowed(source, destination) ==
  \/ source.domain_id = destination.domain_id
  \/ destination.domain_id \in source.allowed_destinations

FederationAllowed(local, remote_domain_id) == remote_domain_id \in local.allowed_federation

\* a datum carries a label [classification, exportability, trust]

Denied(label, source, destination) ==
  ~TransferAllowed(source, destination) \/ label.exportability = "forbidden"

\* approval that compares the level asked for with that of the source domain
NeedsApprovalByDomain(label, source, requested) ==
  \/ Rank(requested) < Rank(source.classification)
  \/ label.trust \in {"UNTRUSTED", "UNKNOWN"}

\* approval for the untrusted only when the level changes
NeedsApprovalOnChange(label, source, requested) ==
  \/ Rank(requested) < Rank(label.classification)
  \/ label.trust \in {"UNTRUSTED", "UNKNOWN"} /\ requested # label.classification

\* a lower level than the datum's is asked for, or the origin is not trusted
NeedsApproval(label, source, requested) ==
  \/ Rank(requested) < Rank(label.classification)
  \/ label.trust \in {"UNTRUSTED", "UNKNOWN"}

EvaluateIfc(label, source, destination, requested) ==
  IF Denied(label, source, destination) THEN "DENY"
  ELSE IF NeedsApproval(label, source, requested) THEN "REQUIRE_APPROVAL"
  ELSE IF destination.classification # label.classification THEN "SANITIZE"
  ELSE "ALLOW"

\* rules are optional whatever the outcome of evaluate_ifc; approved is approver_ref is not None
RequestCrossDomainTransfer(payload, label, source, destination, requested, rules, approved) ==
  LET ifc == EvaluateIfc(label, source, destination, requested)
      sanitized == ApplySanitization(payload, rules)
      outcome == CASE ifc = "DENY" -> "DENIED"
                   [] ifc = "REQUIRE_APPROVAL" /\ ~approved -> "PENDING_APPROVAL"
                   [] OTHER -> "RELEASED"
      released == outcome = "RELEASED"
  IN  [call |-> "request_cross_domain_transfer",
       decision_ref |-> ifc,
       approved |-> approved,
       outcome |-> outcome,
       original_classification |-> label.classification,
       released_classification |-> IF released THEN requested ELSE None,
       fields_removed |-> IF released THEN sanitized.fields_removed ELSE {},
       transformations |-> IF released THEN sanitized.transformations ELSE <<>>,
       original_hash |-> IF released THEN Sha256(payload) ELSE None,
       released_hash |-> IF released THEN Sha256(sanitized.payload) ELSE None]
=============================================================================

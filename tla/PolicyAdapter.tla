----------------------------- MODULE PolicyAdapter -----------------------------
(* services/policy_adapter: InMemoryPolicyDecisionPoint.evaluate.              *)

PolicyResults == {"DENY", "APPROVAL_REQUIRED", "ALLOW_DRY_RUN"}

PolicyResult(action, target, allowlist) ==
  CASE target \notin allowlist -> "DENY"
    [] target \in allowlist /\ action = "execute" -> "APPROVAL_REQUIRED"
    [] target \in allowlist /\ action = "dry-run" -> "ALLOW_DRY_RUN"
    [] OTHER -> "DENY"
=============================================================================

-------------------------- MODULE IndependentVerifier --------------------------
(***************************************************************************)
(* services/independent_verifier: a sealed envelope is verified again with *)
(* facts queried afresh, before any policy decision.                       *)
(***************************************************************************)
EXTENDS SafetyKernel

\* variant of MissionConstraints: the sealed hash is not compared
MissionConstraintsUnpinned(inp) ==
  IF inp.envelope.mission_bounds = None THEN None
  ELSE IF inp.fresh_mission_blast_radius \in {None, "INSUFFICIENT_CONTEXT"} THEN None
  ELSE IF inp.fresh_mission_blast_radius = "CRITICAL" THEN FALSE
  ELSE IF inp.unresolved_semantic_conflicts = None THEN None
  ELSE ~inp.unresolved_semantic_conflicts

\* _check_mission_constraints, with the order of its early returns
MissionConstraints(inp) ==
  LET bounds == inp.envelope.mission_bounds
      stale == /\ inp.fresh_mission_context_hash # None
               /\ bounds.mission_context_hash # None
               /\ inp.fresh_mission_context_hash # bounds.mission_context_hash
  IN  IF bounds = None THEN None
      ELSE IF stale THEN FALSE
      ELSE IF inp.fresh_mission_blast_radius \in {None, "INSUFFICIENT_CONTEXT"} THEN None
      ELSE IF inp.fresh_mission_blast_radius = "CRITICAL" THEN FALSE
      ELSE IF inp.unresolved_semantic_conflicts = None THEN None
      ELSE ~inp.unresolved_semantic_conflicts

\* variant of ReferencesResolve: only the tool's references are compared
ReferencesResolveTool(inp) == inp.envelope.runbook_tool = inp.tool_name

ReferencesResolve(inp) ==
  /\ inp.envelope.incident_ref = inp.incident_id
  /\ inp.envelope.runbook_tool = inp.tool_name

PreconditionsHold(inp) ==
  inp.target \in inp.target_allowlist /\ inp.target \in inp.envelope.target_set

VerifierChecks(inp) ==
  [references_resolve |-> Check(ReferencesResolve(inp)),
   facts_exist |-> Check(inp.incident_refs \/ inp.envelope.evidence_root # None),
   targets_exist |-> Check(inp.target_confirmed_live),
   runbook_exists |-> Check(inp.runbook_exists),
   preconditions_hold |-> Check(PreconditionsHold(inp)),
   \* verification_predicates always holds the rollback predicate
   postconditions_measurable |-> "PASS",
   rollback_executable |-> Check(inp.rollback_dry_run_ok),
   blast_radius_bounded |-> Check(IF inp.blast_radius_count = None THEN None
                                  ELSE inp.blast_radius_count <= inp.envelope.max_blast_radius),
   mission_constraints_respected |-> Check(MissionConstraints(inp))]

\* variant of DecideVerification: only a violation counts
DecideVerificationLenient(checks) ==
  IF \E c \in DOMAIN checks : checks[c] = "FAIL" THEN "REJECTED" ELSE "VERIFIED"

DecideVerification(checks) ==
  IF \E c \in DOMAIN checks : checks[c] = "FAIL" THEN "REJECTED"
  ELSE IF \E c \in DOMAIN checks : checks[c] = "NOT_EVALUATED" THEN "INCONCLUSIVE"
  ELSE "VERIFIED"

\* verify (an absent envelope raises InvalidVerificationInput before this)
Verify(inp) == DecideVerification(VerifierChecks(inp))

ZeroExecute(state) == state # "VERIFIED"
=============================================================================

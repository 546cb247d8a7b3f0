----------------------------- MODULE SafetyKernel -----------------------------
(***************************************************************************)
(* services/safety_kernel: the fourteen checks on a recommendation, the    *)
(* state they decide and the safety envelope that seals an action.         *)
(* A check is PASS (True), FAIL (False) or NOT_EVALUATED (None).           *)
(***************************************************************************)
EXTENDS MissionContext

CONSTANTS
  Incidents,    \* incident identifiers
  Tools,        \* tool names
  Targets       \* assets an action may be aimed at

MAX_BLAST_RADIUS == 2

Verdicts == {"PASS", "FAIL", "NOT_EVALUATED"}

\* a fact of type bool | None as the outcome of the check that reports it
Check(fact) ==
  IF fact = None THEN "NOT_EVALUATED" ELSE IF fact THEN "PASS" ELSE "FAIL"

ForbiddenEffects == {"IRREVERSIBLE", "DESTRUCTIVE"}

SideEffectClasses == {"READ_ONLY", "REVERSIBLE_WRITE"} \cup ForbiddenEffects

RunChecks(inp) ==
  [incident_valid |-> Check(inp.incident_valid),
   evidence_sufficient |-> Check(inp.incident_refs \/ inp.rationale_refs),
   target_exists |-> Check(IF inp.known_asset_ids = None THEN None
                           ELSE inp.target \in inp.known_asset_ids),
   target_in_scope |-> Check(inp.target \in inp.target_allowlist),
   tool_active |-> Check(inp.tool.known),
   tool_digest_valid |-> Check(inp.tool_digest_valid),
   runbook_signed |-> Check(None),
   action_reversible |-> Check(inp.tool.rollback_supported),
   rollback_available |-> Check(inp.tool.rollback_supported),
   blast_radius_bounded |-> Check(IF inp.blast_radius_count = None THEN None
                                  ELSE inp.blast_radius_count <= MAX_BLAST_RADIUS),
   mission_impact_bounded |->
     Check(IF inp.mission_blast_radius \in {None, "INSUFFICIENT_CONTEXT"} THEN None
           ELSE inp.mission_blast_radius # "CRITICAL"),
   runtime_trust_valid |-> Check(None),
   no_unresolved_critical_drift |-> Check(inp.no_critical_drift),
   no_prohibited_action |-> Check(inp.tool.side_effect_class \notin ForbiddenEffects)]

DecideState(checks) ==
  IF \E c \in DOMAIN checks : checks[c] = "FAIL" THEN "BLOCKED"
  ELSE IF \E c \in DOMAIN checks : checks[c] = "NOT_EVALUATED" THEN "INCONCLUSIVE"
  ELSE "SAFE_TO_EVALUATE"

\* the checks no caller can supply: neither a root of trust nor a runtime trust context exists
StructuralGaps == {"runbook_signed", "runtime_trust_valid"}

\* variant of AllowedActions: execute is offered whenever the tool can be rolled back
AllowedActionsRollbackOnly(tool) ==
  IF tool.side_effect_class \in ForbiddenEffects THEN {}
  ELSE {mode \in tool.modes : mode = "execute" => tool.rollback_supported}

AllowedActions(tool) ==
  IF tool.side_effect_class \in ForbiddenEffects THEN {}
  ELSE {mode \in tool.modes :
          mode = "execute" =>
            tool.rollback_supported /\ tool.side_effect_class = "REVERSIBLE_WRITE"}

MissionBounds(inp) ==
  IF inp.mission_blast_radius \in {None, "INSUFFICIENT_CONTEXT"} THEN None
  ELSE [mission_blast_radius |-> inp.mission_blast_radius,
        mission_context_hash |-> inp.mission_context_hash]

\* _build_envelope_payload.  valid_until, envelope_hash and signature are written and never
\* read by any service; the runbook and rollback references are the tool's name.
EnvelopePayload(inp) ==
  [incident_ref |-> inp.incident_id,
   evidence_root |-> inp.evidence_manifest_id,
   target_set |-> {inp.target},
   allowed_actions |-> AllowedActions(inp.tool),
   max_blast_radius |-> MAX_BLAST_RADIUS,
   runbook_tool |-> inp.tool.name,
   mission_bounds |-> MissionBounds(inp)]

\* evaluate(): the decision and, only when it is SAFE_TO_EVALUATE, the envelope.  It waives
\* nothing; a caller that builds the envelope without it, as the tests do, takes the checks
\* it waives for passed.
Evaluate(inp, waived) ==
  LET checks == RunChecks(inp)
      state == DecideState([c \in DOMAIN checks \ waived |-> checks[c]])
  IN  [state |-> state,
       envelope |-> IF state = "SAFE_TO_EVALUATE" THEN EnvelopePayload(inp) ELSE None]

ActionRequestWithinEnvelope(target, action, envelope) ==
  target \in envelope.target_set /\ action \in envelope.allowed_actions
=============================================================================

--------------------------- MODULE ResponsePipeline ---------------------------
(***************************************************************************)
(* One response through its barriers: safety_kernel evaluates a request    *)
(* and seals an envelope, independent_verifier verifies an envelope with   *)
(* fresh facts, policy_adapter decides, and the gateway outside this       *)
(* repository admits the action.  The facts the barriers are given change  *)
(* between any two of these calls.                                         *)
(***************************************************************************)
EXTENDS IndependentVerifier, PolicyAdapter, FiniteSets

CONSTANTS
  Requests,      \* [incident, tool, target, incident_valid, incident_refs, rationale_refs]
                 \* records: incident_valid is what the schema says of the incident
  Counts,        \* affected resources a blast-radius query may report
  MaxChanges,    \* bound: changes of the world in one behaviour
  MaxEnvelopes,  \* bound: envelopes sealed in one behaviour
  MaxMissing     \* bound: facts a caller leaves out of one call

ASSUME NoneAssumption ==
  /\ None \notin BOOLEAN /\ None \notin Nat /\ None \notin Incidents
  /\ None \notin MissionContexts
ASSUME CountsAssumption == MAX_BLAST_RADIUS \in Counts /\ Counts \subseteq Nat
\* the catalogue has one tool of a name
ASSUME CatalogueAssumption == \A r, s \in Requests : r.tool.name = s.tool.name => r.tool = s.tool
ASSUME TargetsAssumption == \A r \in Requests : r.target \in Targets
ASSUME PipelineBounds == MaxChanges \in Nat /\ MaxEnvelopes \in Nat /\ MaxMissing \in Nat

VARIABLES
  world,      \* what is true of each target now
  allowlist,  \* the targets actions are allowed on now
  now,        \* changes of the world so far: the clock of valid_from
  seals,      \* envelopes sealed so far, each with the request and context it is for
  verdict,    \* the last verification if VERIFIED: [request, seal, supplied]; else None
  admitted    \* the (request, action) pairs the gateway admitted

vars == <<world, allowlist, now, seals, verdict, admitted>>

Facts ==
  [live : BOOLEAN, count : Counts, context : MissionContexts \cup {None},
   drift : BOOLEAN, conflict : BOOLEAN, rollback_ok : BOOLEAN]

KernelFacts == {"inventory", "digest", "blast_radius", "drift", "mission", "mission_hash"}

VerifierFacts ==
  {"live", "runbook", "rollback", "blast_radius", "mission_hash", "mission", "conflicts"}

-----------------------------------------------------------------------------
(* What the callers of the two barriers supply: a fact as it is now, or    *)
(* None when they did not query it.                                        *)

\* what a caller queried: all the facts, or all but a few
Queried(facts) == {supplied \in SUBSET facts : Cardinality(facts \ supplied) <= MaxMissing}

Supply(name, supplied, value) == IF name \in supplied THEN value ELSE None

KernelInput(r, supplied) ==
  LET w == world[r.target]
  IN  [incident_id |-> r.incident,
       incident_valid |-> r.incident_valid,
       incident_refs |-> r.incident_refs,
       rationale_refs |-> r.rationale_refs,
       evidence_manifest_id |-> None,
       tool |-> r.tool,
       target |-> r.target,
       target_allowlist |-> allowlist,
       known_asset_ids |-> Supply("inventory", supplied, {t \in Targets : world[t].live}),
       tool_digest_valid |-> Supply("digest", supplied, TRUE),
       blast_radius_count |-> Supply("blast_radius", supplied, w.count),
       no_critical_drift |-> Supply("drift", supplied, ~w.drift),
       mission_blast_radius |-> Supply("mission", supplied, MissionLevel(w.context, w.count)),
       mission_context_hash |->
         Supply("mission_hash", supplied, MissionContextHash(w.context))]

VerifierInput(r, envelope, supplied) ==
  LET w == world[r.target]
  IN  [envelope |-> envelope,
       incident_id |-> r.incident,
       incident_refs |-> r.incident_refs,
       tool_name |-> r.tool.name,
       target |-> r.target,
       target_allowlist |-> allowlist,
       target_confirmed_live |-> Supply("live", supplied, w.live),
       runbook_exists |-> Supply("runbook", supplied, TRUE),
       rollback_dry_run_ok |-> Supply("rollback", supplied, w.rollback_ok),
       blast_radius_count |-> Supply("blast_radius", supplied, w.count),
       fresh_mission_context_hash |->
         Supply("mission_hash", supplied, MissionContextHash(w.context)),
       fresh_mission_blast_radius |->
         Supply("mission", supplied, MissionLevel(w.context, w.count)),
       unresolved_semantic_conflicts |-> Supply("conflicts", supplied, w.conflict)]

-----------------------------------------------------------------------------
(* The barriers.                                                           *)

\* evaluate() stops at INCONCLUSIVE on the structural gaps (waived = {}); the tests of the
\* vertical slice waive those two checks and call _build_envelope_payload
SealEnvelope(r, supplied, waived) ==
  LET inp == KernelInput(r, supplied)
      outcome == Evaluate(inp, waived)
  IN  /\ outcome.state = "SAFE_TO_EVALUATE"
      /\ Cardinality(seals) < MaxEnvelopes
      /\ seals' = seals \cup
           {[envelope |-> outcome.envelope, request |-> r, context |-> world[r.target].context]}
      /\ UNCHANGED <<world, allowlist, now, verdict, admitted>>

\* the caller may hand any envelope it holds to the verifier, with any request;
\* INCONCLUSIVE and REJECTED have the same effect, ZERO EXECUTE
VerifyRequest(r, seal, supplied) ==
  /\ verdict' = IF ZeroExecute(Verify(VerifierInput(r, seal.envelope, supplied)))
                THEN None
                ELSE [request |-> r, seal |-> seal, supplied |-> supplied]
  /\ UNCHANGED <<world, allowlist, now, seals, admitted>>

\* the gateway: a verified request, an action of its envelope, and a policy decision that
\* does not deny it (human approval of an execute is granted or not)
AdmitAction(action) ==
  /\ verdict # None
  /\ ActionRequestWithinEnvelope(verdict.request.target, action, verdict.seal.envelope)
  /\ PolicyResult(action, verdict.request.target, allowlist) # "DENY"
  /\ admitted' = admitted \cup {[request |-> verdict.request, action |-> action]}
  /\ UNCHANGED <<world, allowlist, now, seals, verdict>>

-----------------------------------------------------------------------------
(* The world changes on its own.                                           *)

Change(t, facts) ==
  /\ now < MaxChanges
  /\ now' = now + 1
  /\ world' = [world EXCEPT ![t] = facts]
  /\ UNCHANGED <<allowlist, seals, verdict, admitted>>

\* an inventory, drift, conflict or rollback fact flips, or an attack spreads
FactChanges(t) ==
  LET w == world[t]
  IN  \/ Change(t, [w EXCEPT !.live = ~w.live])
      \/ Change(t, [w EXCEPT !.drift = ~w.drift])
      \/ Change(t, [w EXCEPT !.conflict = ~w.conflict])
      \/ Change(t, [w EXCEPT !.rollback_ok = ~w.rollback_ok])
      \/ \E n \in Counts \ {w.count} : Change(t, [w EXCEPT !.count = n])

\* build_mission_context runs again for the target
ContextRebuilt(t) ==
  \E criticality \in {None, "low"}, crown \in BOOLEAN \cup {None} :
    Change(t, [world[t] EXCEPT !.context =
                 [criticality |-> criticality, crown_jewel |-> crown,
                  valid_from |-> now + 1]])

AllowlistChanges(t) ==
  /\ now < MaxChanges
  /\ now' = now + 1
  /\ allowlist' = IF t \in allowlist THEN allowlist \ {t} ELSE allowlist \cup {t}
  /\ UNCHANGED <<world, seals, verdict, admitted>>

WorldChanges ==
  \E t \in Targets : FactChanges(t) \/ ContextRebuilt(t) \/ AllowlistChanges(t)

-----------------------------------------------------------------------------

Init ==
  /\ world = [t \in Targets |->
       [live |-> TRUE, count |-> MAX_BLAST_RADIUS, drift |-> FALSE, conflict |-> FALSE,
        rollback_ok |-> TRUE,
        context |-> [criticality |-> "low", crown_jewel |-> FALSE, valid_from |-> 0]]]
  /\ allowlist = Targets
  /\ now = 0
  /\ seals = {}
  /\ verdict = None
  /\ admitted = {}

Next ==
  \/ \E r \in Requests, supplied \in Queried(KernelFacts), waived \in {{}, StructuralGaps} :
       SealEnvelope(r, supplied, waived)
  \/ \E r \in Requests, seal \in seals, supplied \in Queried(VerifierFacts) :
       VerifyRequest(r, seal, supplied)
  \/ \E action \in {"dry-run", "execute"} : AdmitAction(action)
  \/ WorldChanges

Spec == Init /\ [][Next]_vars

-----------------------------------------------------------------------------
(* Properties.                                                             *)

\* What a person would call a target that may be acted on now.
ActionableNow(r) ==
  LET w == world[r.target]
  IN  /\ w.live /\ w.rollback_ok /\ ~w.conflict
      /\ r.target \in allowlist
      /\ w.count <= MAX_BLAST_RADIUS
      /\ w.context.criticality # None
      /\ w.count > 0 => w.context.crown_jewel = FALSE

\* "What the envelope produced is still true" (independent_verifier, docstring): whenever
\* verify() returns VERIFIED the target can be acted on at that moment, whatever changed
\* since the envelope was sealed.
VerifiedOnlyWhenActionable ==
  [][verdict' \notin {verdict, None} => ActionableNow(verdict'.request)]_vars

\* When the caller supplied the fresh hash and the envelope sealed one, VERIFIED means the
\* mission context is the very one the envelope was sealed under: not a later one, and not
\* a later one with the same facts (MissionContextHash, _check_mission_constraints).
VerifiedContextIsSealed ==
  [][ /\ verdict' \notin {verdict, None}
      /\ "mission_hash" \in verdict'.supplied
      /\ verdict'.seal.envelope.mission_bounds.mission_context_hash # None
      => world[verdict'.request.target].context = verdict'.seal.context ]_vars

\* An envelope never verifies a request other than the one it was sealed for, even one for
\* the same target or of the same incident (references_resolve, preconditions_hold).
EnvelopeBindsRequest ==
  verdict # None =>
    /\ verdict.request.incident = verdict.seal.request.incident
    /\ verdict.request.tool = verdict.seal.request.tool
    /\ verdict.request.target = verdict.seal.request.target

\* "UNKNOWN nunca se convierte en VERIFIED" (_check_mission_constraints, docstring): no
\* request is verified while a fact the verifier asks for afresh was not supplied; here of
\* envelopes that seal a hash the fresh one could be compared with.
UnsuppliedFactNeverVerifies ==
  verdict # None /\ verdict.seal.envelope.mission_bounds.mission_context_hash # None =>
    VerifierFacts \subseteq verdict.supplied

\* The hash of the mission context is the only fact the above is not true of: none of the
\* others can be left out of a verification that says VERIFIED (decide_state).
OnlyTheHashMayBeMissing ==
  verdict # None =>
    VerifierFacts \ {"mission_hash"} \subseteq verdict.supplied

\* Nothing is executed that cannot be rolled back, and nothing at all by a destructive tool,
\* however verdicts, envelopes and policy decisions were combined (_build_envelope_payload).
AdmittedIsReversible ==
  \A a \in admitted :
    /\ a.request.tool.side_effect_class \notin ForbiddenEffects
    /\ a.action = "execute" =>
         a.request.tool.rollback_supported /\ a.request.tool.side_effect_class = "REVERSIBLE_WRITE"
=============================================================================

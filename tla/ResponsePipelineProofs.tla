------------------------- MODULE ResponsePipelineProofs -------------------------
(***************************************************************************)
(* Proofs about ResponsePipeline, for any incidents, targets, tools,       *)
(* counts and bounds: what the verifier's VERIFIED means at that moment,   *)
(* and what the barriers together let through.                             *)
(***************************************************************************)
EXTENDS ResponsePipeline, TLAPS

\* The world is what the callers of the barriers can query.
TypeOK ==
  /\ world \in [Targets -> Facts]
  /\ allowlist \subseteq Targets
  /\ now \in Nat

\* An envelope says what it was sealed for, and under which mission context.
Seals ==
  \A seal \in seals :
    /\ seal.request \in Requests
    /\ seal.envelope.incident_ref = seal.request.incident
    /\ seal.envelope.runbook_tool = seal.request.tool.name
    /\ seal.envelope.target_set = {seal.request.target}
    /\ seal.envelope.allowed_actions = AllowedActions(seal.request.tool)
    /\ seal.envelope.max_blast_radius = MAX_BLAST_RADIUS
    /\ seal.envelope.mission_bounds # None =>
         seal.envelope.mission_bounds.mission_context_hash \in {None, seal.context}

\* What a verdict keeps of the verification it is from.
Verdict ==
  verdict # None =>
    /\ verdict.seal \in seals
    /\ verdict.request \in Requests
    /\ verdict.request.incident = verdict.seal.request.incident
    /\ verdict.request.tool.name = verdict.seal.request.tool.name
    /\ verdict.request.target = verdict.seal.request.target
    /\ VerifierFacts \ {"mission_hash"} \subseteq verdict.supplied

Inv == TypeOK /\ Seals /\ Verdict /\ AdmittedIsReversible

-----------------------------------------------------------------------------
(* The decisions.                                                          *)

\* A check passes only on a fact that was supplied and holds (Check).
LEMMA PassedCheck ==
  ASSUME NEW fact, Check(fact) = "PASS"
  PROVE  fact # None /\ fact
BY DEF Check

\* Every check has one of three outcomes.
LEMMA CheckOutcomes == \A fact : Check(fact) \in {"PASS", "FAIL", "NOT_EVALUATED"}
BY DEF Check

\* VERIFIED is the verdict of checks that all passed (decide_state of the verifier).
LEMMA AllPassed ==
  ASSUME NEW inp, Verify(inp) = "VERIFIED"
  PROVE  /\ Check(ReferencesResolve(inp)) = "PASS"
         /\ Check(inp.target_confirmed_live) = "PASS"
         /\ Check(inp.runbook_exists) = "PASS"
         /\ Check(PreconditionsHold(inp)) = "PASS"
         /\ Check(inp.rollback_dry_run_ok) = "PASS"
         /\ Check(IF inp.blast_radius_count = None THEN None
                  ELSE inp.blast_radius_count <= inp.envelope.max_blast_radius) = "PASS"
         /\ Check(MissionConstraints(inp)) = "PASS"
<1> DEFINE checks == VerifierChecks(inp)
<1>1. \A c \in DOMAIN checks : checks[c] \notin {"FAIL", "NOT_EVALUATED"}
  BY DEF Verify, DecideVerification
<1>2. /\ DOMAIN checks = {"references_resolve", "facts_exist", "targets_exist",
                          "runbook_exists", "preconditions_hold", "postconditions_measurable",
                          "rollback_executable", "blast_radius_bounded",
                          "mission_constraints_respected"}
      /\ checks.references_resolve = Check(ReferencesResolve(inp))
      /\ checks.targets_exist = Check(inp.target_confirmed_live)
      /\ checks.runbook_exists = Check(inp.runbook_exists)
      /\ checks.preconditions_hold = Check(PreconditionsHold(inp))
      /\ checks.rollback_executable = Check(inp.rollback_dry_run_ok)
      /\ checks.blast_radius_bounded =
           Check(IF inp.blast_radius_count = None THEN None
                 ELSE inp.blast_radius_count <= inp.envelope.max_blast_radius)
      /\ checks.mission_constraints_respected = Check(MissionConstraints(inp))
  BY DEF VerifierChecks
<1> HIDE DEF checks
<1> QED
  BY <1>1, <1>2, CheckOutcomes

\* The constraints of the mission hold only when each fresh fact they look at was supplied,
\* the hash excepted, and none forbids the action (_check_mission_constraints).
LEMMA ConstraintsHold ==
  ASSUME NEW inp, Check(MissionConstraints(inp)) = "PASS"
  PROVE  /\ inp.envelope.mission_bounds # None
         /\ inp.fresh_mission_blast_radius \notin {None, "INSUFFICIENT_CONTEXT", "CRITICAL"}
         /\ inp.unresolved_semantic_conflicts # None
         /\ ~inp.unresolved_semantic_conflicts
         /\ inp.fresh_mission_context_hash # None =>
              inp.envelope.mission_bounds.mission_context_hash
                \in {None, inp.fresh_mission_context_hash}
<1>1. MissionConstraints(inp) # None /\ MissionConstraints(inp)
  BY PassedCheck
<1> QED
  BY <1>1 DEF MissionConstraints

\* A level other than these comes from a sufficient context (build_mission_impact).
LEMMA LevelTells ==
  ASSUME NEW ctx \in MissionContexts \cup {None}, NEW count \in Nat,
         MissionLevel(ctx, count) \notin {"INSUFFICIENT_CONTEXT", "CRITICAL"}
  PROVE  /\ ctx.criticality # None
         /\ count > 0 => ctx.crown_jewel = FALSE
<1>1. ctx # None /\ HasSufficientContext(ctx)
  BY DEF MissionLevel
<1>2. ctx.crown_jewel \in BOOLEAN /\ ctx.criticality # None
  BY <1>1 DEF HasSufficientContext, MissionContexts
<1>3. ASSUME count > 0, ctx.crown_jewel = TRUE PROVE FALSE
  <2>1. MissionLevel(ctx, count) = "CRITICAL"
    BY <1>1, <1>3, NoneAssumption DEF MissionLevel
  <2> QED
    BY <2>1
<1> QED
  BY <1>2, <1>3

\* What a verification that passed tells of the request, the envelope and the world.
LEMMA VerifiedTells ==
  ASSUME Inv, NEW r \in Requests, NEW seal \in seals, NEW supplied,
         Verify(VerifierInput(r, seal.envelope, supplied)) = "VERIFIED"
  PROVE  /\ r.incident = seal.request.incident
         /\ r.tool.name = seal.request.tool.name
         /\ r.target = seal.request.target
         /\ VerifierFacts \ {"mission_hash"} \subseteq supplied
         /\ ActionableNow(r)
         /\ "mission_hash" \in supplied
            /\ seal.envelope.mission_bounds.mission_context_hash # None =>
                 world[r.target].context = seal.context
<1> DEFINE inp == VerifierInput(r, seal.envelope, supplied)
           w == world[r.target]
<1>1. w \in Facts
  BY TargetsAssumption DEF Inv, TypeOK
<1>2. /\ w.live \in BOOLEAN /\ w.rollback_ok \in BOOLEAN /\ w.conflict \in BOOLEAN
      /\ w.count \in Nat /\ w.context \in MissionContexts \cup {None}
  BY <1>1, CountsAssumption DEF Facts
<1>3. /\ inp.envelope = seal.envelope
      /\ inp.incident_id = r.incident /\ inp.tool_name = r.tool.name /\ inp.target = r.target
      /\ inp.target_allowlist = allowlist
      /\ inp.target_confirmed_live = Supply("live", supplied, w.live)
      /\ inp.runbook_exists = Supply("runbook", supplied, TRUE)
      /\ inp.rollback_dry_run_ok = Supply("rollback", supplied, w.rollback_ok)
      /\ inp.blast_radius_count = Supply("blast_radius", supplied, w.count)
      /\ inp.fresh_mission_context_hash =
           Supply("mission_hash", supplied, MissionContextHash(w.context))
      /\ inp.fresh_mission_blast_radius =
           Supply("mission", supplied, MissionLevel(w.context, w.count))
      /\ inp.unresolved_semantic_conflicts = Supply("conflicts", supplied, w.conflict)
  BY DEF VerifierInput
<1> HIDE DEF inp, w
<1>4. Verify(inp) = "VERIFIED"
  BY DEF inp
<1>5. ReferencesResolve(inp) /\ PreconditionsHold(inp)
  BY <1>4, AllPassed, PassedCheck
<1>6. /\ r.incident = seal.request.incident /\ r.tool.name = seal.request.tool.name
      /\ r.target = seal.request.target /\ r.target \in allowlist
  BY <1>3, <1>5 DEF ReferencesResolve, PreconditionsHold, Inv, Seals
<1>7. "live" \in supplied /\ w.live
  <2>1. Supply("live", supplied, w.live) # None /\ Supply("live", supplied, w.live)
    BY <1>3, <1>4, AllPassed, PassedCheck
  <2> QED
    BY <2>1 DEF Supply
<1>8. "rollback" \in supplied /\ w.rollback_ok
  <2>1. Supply("rollback", supplied, w.rollback_ok) # None
        /\ Supply("rollback", supplied, w.rollback_ok)
    BY <1>3, <1>4, AllPassed, PassedCheck
  <2> QED
    BY <2>1 DEF Supply
<1>9. "runbook" \in supplied
  <2>1. Supply("runbook", supplied, TRUE) # None
    BY <1>3, <1>4, AllPassed, PassedCheck
  <2> QED
    BY <2>1 DEF Supply
<1>10. "blast_radius" \in supplied /\ w.count <= MAX_BLAST_RADIUS
  <2>1. inp.blast_radius_count # None /\ inp.blast_radius_count <= inp.envelope.max_blast_radius
    <3> DEFINE fact == IF inp.blast_radius_count = None THEN None
                       ELSE inp.blast_radius_count <= inp.envelope.max_blast_radius
    <3>1. Check(fact) = "PASS"
      BY <1>4, AllPassed
    <3> HIDE DEF fact
    <3>2. fact # None /\ fact
      BY <3>1, PassedCheck
    <3> QED
      BY <3>2 DEF fact
  <2>2. "blast_radius" \in supplied /\ inp.blast_radius_count = w.count
    BY <1>3, <2>1 DEF Supply
  <2> QED
    BY <1>3, <2>1, <2>2 DEF Inv, Seals
<1>11. /\ inp.envelope.mission_bounds # None
       /\ inp.fresh_mission_blast_radius \notin {None, "INSUFFICIENT_CONTEXT", "CRITICAL"}
       /\ inp.unresolved_semantic_conflicts # None
       /\ ~inp.unresolved_semantic_conflicts
       /\ inp.fresh_mission_context_hash # None =>
            inp.envelope.mission_bounds.mission_context_hash
              \in {None, inp.fresh_mission_context_hash}
  BY <1>4, AllPassed, ConstraintsHold
<1>12. "conflicts" \in supplied /\ ~w.conflict
  BY <1>3, <1>11 DEF Supply
<1>13. "mission" \in supplied
       /\ MissionLevel(w.context, w.count) \notin {"INSUFFICIENT_CONTEXT", "CRITICAL"}
  BY <1>3, <1>11 DEF Supply
<1>14. w.context.criticality # None /\ (w.count > 0 => w.context.crown_jewel = FALSE)
  BY <1>2, <1>13, LevelTells
<1>15. w.context # None
  BY <1>13 DEF MissionLevel
<1>16. ASSUME "mission_hash" \in supplied,
              seal.envelope.mission_bounds.mission_context_hash # None
       PROVE  w.context = seal.context
  <2>1. inp.fresh_mission_context_hash = w.context
    BY <1>3, <1>16 DEF Supply, MissionContextHash
  <2>2. seal.envelope.mission_bounds.mission_context_hash \in {None, w.context}
    BY <1>3, <1>11, <1>15, <2>1
  <2>3. seal.envelope.mission_bounds.mission_context_hash \in {None, seal.context}
    BY <1>3, <1>11 DEF Inv, Seals
  <2> QED
    BY <1>16, <2>2, <2>3
<1>17. ActionableNow(r)
  BY <1>6, <1>7, <1>8, <1>10, <1>12, <1>14 DEF ActionableNow, w
<1>18. VerifierFacts \ {"mission_hash"} \subseteq supplied
  BY <1>7, <1>8, <1>9, <1>10, <1>12, <1>13 DEF VerifierFacts
<1> QED
  BY <1>6, <1>16, <1>17, <1>18 DEF w

-----------------------------------------------------------------------------
(* The steps.                                                              *)

\* Whatever is sealed says what it was sealed for (_build_envelope_payload).
LEMMA SealKeeps ==
  ASSUME Inv, NEW r \in Requests, NEW supplied, NEW waived, SealEnvelope(r, supplied, waived)
  PROVE  Inv'
<1> DEFINE inp == KernelInput(r, supplied)
           new == [envelope |-> Evaluate(inp, waived).envelope, request |-> r,
                   context |-> world[r.target].context]
<1>1. seals' = seals \cup {new} /\ UNCHANGED <<world, allowlist, now, verdict, admitted>>
  BY DEF SealEnvelope
<1>2. Evaluate(inp, waived).envelope = EnvelopePayload(inp)
  BY DEF SealEnvelope, Evaluate
<1>3. /\ inp.incident_id = r.incident /\ inp.tool = r.tool /\ inp.target = r.target
      /\ inp.mission_context_hash \in {None, world[r.target].context}
  BY DEF KernelInput, Supply, MissionContextHash
<1> HIDE DEF inp
<1>4. /\ new.envelope.mission_bounds = MissionBounds(inp)
      /\ new.context = world[r.target].context
      /\ new.request = r
      /\ new.envelope.incident_ref = r.incident
      /\ new.envelope.runbook_tool = r.tool.name
      /\ new.envelope.target_set = {r.target}
      /\ new.envelope.allowed_actions = AllowedActions(r.tool)
      /\ new.envelope.max_blast_radius = MAX_BLAST_RADIUS
  BY <1>2, <1>3 DEF EnvelopePayload
<1>5. MissionBounds(inp) # None =>
        MissionBounds(inp).mission_context_hash \in {None, world[r.target].context}
  BY <1>3 DEF MissionBounds
<1> HIDE DEF new
<1>6. Seals'
  <2> SUFFICES ASSUME NEW seal \in seals'
               PROVE  /\ seal.request \in Requests
                      /\ seal.envelope.incident_ref = seal.request.incident
                      /\ seal.envelope.runbook_tool = seal.request.tool.name
                      /\ seal.envelope.target_set = {seal.request.target}
                      /\ seal.envelope.allowed_actions = AllowedActions(seal.request.tool)
                      /\ seal.envelope.max_blast_radius = MAX_BLAST_RADIUS
                      /\ seal.envelope.mission_bounds # None =>
                           seal.envelope.mission_bounds.mission_context_hash
                             \in {None, seal.context}
    BY DEF Seals
  <2>1. CASE seal \in seals
    BY <2>1 DEF Inv, Seals
  <2>2. CASE seal = new
    BY <1>4, <1>5, <2>2
  <2> QED
    BY <1>1, <2>1, <2>2
<1>7. TypeOK' /\ Verdict' /\ AdmittedIsReversible'
  BY <1>1 DEF Inv, TypeOK, Verdict, AdmittedIsReversible
<1> QED
  BY <1>6, <1>7 DEF Inv

\* A verdict keeps what verify() was told and found.
LEMMA VerifyKeeps ==
  ASSUME Inv, NEW r \in Requests, NEW seal \in seals, NEW supplied,
         VerifyRequest(r, seal, supplied)
  PROVE  Inv'
<1>1. UNCHANGED <<world, allowlist, now, seals, admitted>>
  BY DEF VerifyRequest
<1>2. TypeOK' /\ Seals' /\ AdmittedIsReversible'
  BY <1>1 DEF Inv, TypeOK, Seals, AdmittedIsReversible
<1>3. CASE verdict' = None
  BY <1>2, <1>3 DEF Inv, Verdict
<1>4. CASE verdict' # None
  <2>1. /\ verdict' = [request |-> r, seal |-> seal, supplied |-> supplied]
        /\ Verify(VerifierInput(r, seal.envelope, supplied)) = "VERIFIED"
    BY <1>4 DEF VerifyRequest, ZeroExecute
  <2>2. verdict'.request = r /\ verdict'.seal = seal /\ verdict'.supplied = supplied
    BY <2>1
  <2>3. /\ r.incident = seal.request.incident /\ r.tool.name = seal.request.tool.name
        /\ r.target = seal.request.target
        /\ VerifierFacts \ {"mission_hash"} \subseteq supplied
    BY <2>1, VerifiedTells
  <2> QED
    BY <1>1, <1>2, <2>2, <2>3 DEF Inv, Verdict
<1> QED
  BY <1>3, <1>4

\* What the gateway admits is in an envelope of the request's own tool.
LEMMA AdmitKeeps ==
  ASSUME Inv, NEW action, AdmitAction(action)
  PROVE  Inv'
<1> DEFINE r == verdict.request
<1>1. /\ admitted' = admitted \cup {[request |-> r, action |-> action]}
      /\ UNCHANGED <<world, allowlist, now, seals, verdict>>
  BY DEF AdmitAction
<1>2. action \in verdict.seal.envelope.allowed_actions
  BY DEF AdmitAction, ActionRequestWithinEnvelope
<1>3. action \in AllowedActions(r.tool)
  <2>1. /\ verdict.seal \in seals /\ r \in Requests
        /\ r.tool.name = verdict.seal.request.tool.name
    BY DEF Inv, Verdict, AdmitAction
  <2>2. /\ verdict.seal.request \in Requests
        /\ verdict.seal.envelope.allowed_actions = AllowedActions(verdict.seal.request.tool)
    BY <2>1 DEF Inv, Seals
  <2>3. r.tool = verdict.seal.request.tool
    BY <2>1, <2>2, CatalogueAssumption
  <2> QED
    BY <1>2, <2>2, <2>3
<1>4. /\ r.tool.side_effect_class \notin ForbiddenEffects
      /\ action = "execute" =>
           r.tool.rollback_supported /\ r.tool.side_effect_class = "REVERSIBLE_WRITE"
  BY <1>3 DEF AllowedActions
<1> HIDE DEF r
<1>5. AdmittedIsReversible'
  <2> SUFFICES ASSUME NEW a \in admitted'
               PROVE  /\ a.request.tool.side_effect_class \notin ForbiddenEffects
                      /\ a.action = "execute" =>
                           a.request.tool.rollback_supported
                           /\ a.request.tool.side_effect_class = "REVERSIBLE_WRITE"
    BY DEF AdmittedIsReversible
  <2>1. CASE a \in admitted
    BY <2>1 DEF Inv, AdmittedIsReversible
  <2>2. CASE a = [request |-> r, action |-> action]
    BY <1>4, <2>2
  <2> QED
    BY <1>1, <2>1, <2>2
<1> QED
  BY <1>1, <1>5 DEF Inv, TypeOK, Seals, Verdict

\* A change of the world leaves it a world, and touches no envelope, verdict or admission.
LEMMA ChangeKeeps ==
  ASSUME Inv, WorldChanges
  PROVE  Inv' /\ verdict' = verdict
<1>1. ASSUME NEW t \in Targets, NEW facts \in Facts, Change(t, facts)
      PROVE  TypeOK' /\ UNCHANGED <<seals, verdict, admitted>>
  BY <1>1 DEF Change, Inv, TypeOK
<1>2. ASSUME NEW t \in Targets, AllowlistChanges(t)
      PROVE  TypeOK' /\ UNCHANGED <<seals, verdict, admitted>>
  BY <1>2 DEF AllowlistChanges, Inv, TypeOK
<1>3. ASSUME NEW t \in Targets, FactChanges(t)
      PROVE  \E facts \in Facts : Change(t, facts)
  <2> DEFINE w == world[t]
  <2>1. w \in Facts
    BY DEF Inv, TypeOK
  <2>2. /\ [w EXCEPT !.live = ~w.live] \in Facts
        /\ [w EXCEPT !.drift = ~w.drift] \in Facts
        /\ [w EXCEPT !.conflict = ~w.conflict] \in Facts
        /\ [w EXCEPT !.rollback_ok = ~w.rollback_ok] \in Facts
        /\ \A n \in Counts : [w EXCEPT !.count = n] \in Facts
    <3> HIDE DEF w
    <3> QED
      BY <2>1 DEF Facts
  <2> QED
    BY <1>3, <2>2 DEF FactChanges
<1>4. ASSUME NEW t \in Targets, ContextRebuilt(t)
      PROVE  \E facts \in Facts : Change(t, facts)
  <2>1. PICK criticality \in {None, "low"}, crown \in BOOLEAN \cup {None} :
          Change(t, [world[t] EXCEPT !.context = [criticality |-> criticality,
                                                  crown_jewel |-> crown,
                                                  valid_from |-> now + 1]])
    BY <1>4 DEF ContextRebuilt
  <2>2. world[t] \in Facts /\ now + 1 \in Nat
    BY DEF Inv, TypeOK
  <2>3. [criticality |-> criticality, crown_jewel |-> crown, valid_from |-> now + 1]
          \in MissionContexts
    BY <2>2 DEF MissionContexts, Criticalities
  <2>4. \A c \in MissionContexts : [world[t] EXCEPT !.context = c] \in Facts
    BY <2>2 DEF Facts
  <2> QED
    BY <2>1, <2>3, <2>4
<1>5. TypeOK' /\ UNCHANGED <<seals, verdict, admitted>>
  BY <1>1, <1>2, <1>3, <1>4 DEF WorldChanges
<1> QED
  BY <1>5 DEF Inv, Seals, Verdict, AdmittedIsReversible

\* Every step of the three barriers, of their callers and of the world keeps the invariant.
LEMMA InvStep ==
  ASSUME Inv, [Next]_vars
  PROVE  Inv'
<1>1. CASE UNCHANGED vars
  BY <1>1 DEF vars, Inv, TypeOK, Seals, Verdict, AdmittedIsReversible
<1> QED
  BY <1>1, SealKeeps, VerifyKeeps, AdmitKeeps, ChangeKeeps DEF Next

\* It holds before anything is sealed.
LEMMA InitInv == Init => Inv
<1> SUFFICES ASSUME Init PROVE Inv
  OBVIOUS
<1> DEFINE start == [live |-> TRUE, count |-> MAX_BLAST_RADIUS, drift |-> FALSE, conflict |-> FALSE,
                     rollback_ok |-> TRUE,
                     context |-> [criticality |-> "low", crown_jewel |-> FALSE,
                                  valid_from |-> 0]]
<1>1. start \in Facts
  <2>1. start.context \in MissionContexts
    BY DEF MissionContexts, Criticalities
  <2> QED
    BY <2>1, CountsAssumption DEF Facts
<1> HIDE DEF start
<1>2. world = [t \in Targets |-> start]
  BY DEF Init, start
<1> QED
  BY <1>1, <1>2 DEF Init, Inv, TypeOK, Seals, Verdict, AdmittedIsReversible

\* Hence it holds of every reachable state.
LEMMA InvAlways == Spec => []Inv
<1>1. Inv /\ [Next]_vars => Inv'
  BY InvStep
<1> QED
  BY InitInv, <1>1, PTL DEF Spec

-----------------------------------------------------------------------------
(* The theorems.                                                           *)

\* Envelopes, verdicts and the world stay what the callers of the barriers make of them.
THEOREM PipelineTypeOK == Spec => []TypeOK
BY InvAlways, PTL DEF Inv

\* An envelope verifies only the request it was sealed for.
THEOREM EnvelopesBindRequests == Spec => []EnvelopeBindsRequest
<1>1. Inv => EnvelopeBindsRequest
  BY CatalogueAssumption DEF Inv, Verdict, Seals, EnvelopeBindsRequest
<1> QED
  BY <1>1, InvAlways, PTL

\* Of the facts the verifier queries again, only the hash can be left out of what verified.
THEOREM OnlyHashMayBeMissing == Spec => []OnlyTheHashMayBeMissing
<1>1. Inv => OnlyTheHashMayBeMissing
  BY DEF Inv, Verdict, OnlyTheHashMayBeMissing
<1> QED
  BY <1>1, InvAlways, PTL

\* Nothing irreversible passes the gateway, however verdicts, envelopes and policy decisions
\* were combined.
THEOREM AdmittedAreReversible == Spec => []AdmittedIsReversible
BY InvAlways, PTL DEF Inv

\* A new verdict is of a verification of this step, and the world it saw is the world now.
LEMMA NewVerdict ==
  ASSUME Inv, [Next]_vars, verdict' \notin {verdict, None}
  PROVE  /\ ActionableNow(verdict'.request)
         /\ "mission_hash" \in verdict'.supplied
            /\ verdict'.seal.envelope.mission_bounds.mission_context_hash # None =>
                 world[verdict'.request.target].context = verdict'.seal.context
<1>1. PICK r \in Requests, seal \in seals, supplied \in Queried(VerifierFacts) :
        VerifyRequest(r, seal, supplied)
  BY ChangeKeeps DEF Next, SealEnvelope, AdmitAction, vars
<1>2. /\ verdict' = [request |-> r, seal |-> seal, supplied |-> supplied]
      /\ Verify(VerifierInput(r, seal.envelope, supplied)) = "VERIFIED"
  BY <1>1 DEF VerifyRequest, ZeroExecute
<1>3. verdict'.request = r /\ verdict'.seal = seal /\ verdict'.supplied = supplied
  BY <1>2
<1> QED
  BY <1>2, <1>3, VerifiedTells

\* What the envelope produced is still true: VERIFIED is returned only for a target that can be
\* acted on at that moment, whatever changed since the envelope was sealed.
THEOREM VerifiedIsActionable == Spec => VerifiedOnlyWhenActionable
<1>1. Inv /\ [Next]_vars =>
        [verdict' \notin {verdict, None} => ActionableNow(verdict'.request)]_vars
  BY NewVerdict
<1> QED
  BY <1>1, InvAlways, PTL DEF Spec, VerifiedOnlyWhenActionable

\* With the fresh hash supplied and one sealed, VERIFIED means the very mission context the
\* envelope was sealed under.
THEOREM VerifiedIsSealedContext == Spec => VerifiedContextIsSealed
<1>1. Inv /\ [Next]_vars =>
        [ /\ verdict' \notin {verdict, None}
          /\ "mission_hash" \in verdict'.supplied
          /\ verdict'.seal.envelope.mission_bounds.mission_context_hash # None
          => world[verdict'.request.target].context = verdict'.seal.context ]_vars
  BY NewVerdict
<1> QED
  BY <1>1, InvAlways, PTL DEF Spec, VerifiedContextIsSealed
=============================================================================

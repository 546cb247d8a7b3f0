----------------------------- MODULE MCFederation -----------------------------
(* A small instance of Federation: four domains, and the artifacts that the *)
(* dimensions and the labels tell apart.                                   *)
EXTENDS Federation

CONSTANTS a1, a2, v1, v2, coarse, peer, stranger

MCFieldPaths == << <<"ioc">>, <<"meta">>, <<"meta", "note">> >>

MCDomain(id, classification, federates, sends_to) ==
  [domain_id |-> id, classification |-> classification,
   allowed_federation |-> federates, allowed_destinations |-> sends_to]

MCLocal == MCDomain("local", "internal", {"partner"}, {"partner", "vault"})
MCPartner == MCDomain("partner", "internal", {"local"}, {"local"})
MCVault == MCDomain("vault", "restricted", {}, {"partner"})
MCOutside == MCDomain("outside", "internal", {}, {"local"})
MCDomains == {MCLocal, MCPartner, MCVault, MCOutside}

MCPayload(ioc) == <<"ioc">> :> ioc
MCNested == (<<"ioc">> :> v1) @@ (<<"meta">> :> Dict) @@ (<<"meta", "note">> :> v2)

MCGenuine ==
  [artifact_id |-> a1, origin_instance |-> peer, has_provenance |-> TRUE,
   payload |-> MCPayload(v1), content_hash |-> Sha256(MCPayload(v1)),
   origin_classification |-> "confidential", origin_trust |-> "TRUSTED",
   exportability |-> "restricted", valid_until |-> 0]

\* altered on the way, issued again under the same id, sent by an unknown instance
MCTampered == [MCGenuine EXCEPT !.payload = MCPayload(v2)]
MCReissued ==
  [MCGenuine EXCEPT !.payload = MCPayload(v2), !.content_hash = Sha256(MCPayload(v2)),
                    !.valid_until = None]
MCForged == [MCReissued EXCEPT !.origin_instance = stranger, !.has_provenance = FALSE]

MCUntrusted ==
  [MCGenuine EXCEPT !.artifact_id = a2, !.origin_classification = "restricted",
                    !.origin_trust = "UNTRUSTED", !.valid_until = None]

MCArtifacts == {MCGenuine, MCTampered, MCReissued, MCForged, MCUntrusted}

\* the artifacts whose labels differ, for the runs about transfers
MCLabelled(classification, trust, exportability) ==
  [MCGenuine EXCEPT !.payload = MCNested, !.content_hash = Sha256(MCNested),
                    !.origin_classification = classification, !.origin_trust = trust,
                    !.exportability = exportability]
MCReleasable ==
  {MCLabelled("confidential", "TRUSTED", "restricted"),
   MCLabelled("restricted", "UNTRUSTED", "restricted"),
   MCLabelled("internal", "EXTERNAL", "forbidden")}

MCNoTransfers == {}

MCRule(path, operation) == [field_path |-> path, operation |-> operation, detail |-> coarse]

\* no policy; a policy whose second rule meets what the first removed; one that keeps a trace
MCRuleSets ==
  {<<>>,
   <<MCRule(<<"meta", "note">>, "REDACT_FIELD"), MCRule(<<"meta">>, "REMOVE_FIELD")>>,
   <<MCRule(<<"ioc">>, "TOKENIZE_FIELD"), MCRule(<<"meta", "note">>, "GENERALIZE_VALUE")>>}

MCKnownInstances == {peer}

MCCall(remote, evidence, conflict_state) ==
  [remote |-> remote, evidence |-> evidence, conflict_state |-> conflict_state]

\* the call that accepts, and the ones that do not
MCAccepting == {MCCall(MCPartner, TRUE, "UNKNOWN")}
MCCalls ==
  MCAccepting \cup
    {MCCall(MCPartner, None, "CONSISTENT"), MCCall(MCPartner, FALSE, "UNKNOWN"),
     MCCall(MCPartner, TRUE, "CONFLICT"), MCCall(MCPartner, TRUE, "REQUIRES_AUTHORITY"),
     MCCall(MCOutside, TRUE, "UNKNOWN"), MCCall(MCVault, TRUE, "UNKNOWN")}
=============================================================================

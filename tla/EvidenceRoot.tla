----------------------------- MODULE EvidenceRoot -----------------------------
(***************************************************************************)
(* services/evidence_writer and services/evidence_root: the manifest of an *)
(* artifact, the root that aggregates the manifests of a run, and the      *)
(* replay that checks a run against its root and the transparency log.     *)
(* SHA-256 is injective: a digest is what was hashed, under a label.       *)
(***************************************************************************)
EXTENDS Sequences, FiniteSets, SequencesExt

CONSTANT Missing   \* a manifest that is None or lacks its artifact_id or sha256

Sha256(content) == <<"sha256", content>>

\* EvidenceWriter.write_bytes; artifact_id is new, object_ref follows from the digest
Manifest(artifact_id, content) == [artifact_id |-> artifact_id, sha256 |-> Sha256(content)]

-----------------------------------------------------------------------------
(* build_evidence_root.                                                    *)

Listed(manifests) == Range(manifests) \ {Missing}

\* what is aggregated: one reference per artifact_id, of which the order is of no account
ArtifactRefs(manifests) == Listed(manifests)

\* _canonical_hash
CanonicalHash(artifact_refs) == <<"root", artifact_refs>>

Root(artifact_refs) == [artifact_refs |-> artifact_refs, root_hash |-> CanonicalHash(artifact_refs)]

\* variant of CanAggregate: what is missing is skipped in critical mode too
CanAggregateSkipping(manifests, critical) ==
  \A a, b \in Listed(manifests) : a.artifact_id = b.artifact_id => a = b

\* else MissingCriticalEvidence or InconsistentEvidenceRoot is raised
CanAggregate(manifests, critical) ==
  /\ critical => Missing \notin Range(manifests)
  /\ \A a, b \in Listed(manifests) : a.artifact_id = b.artifact_id => a = b

BuildEvidenceRoot(manifests) == Root(ArtifactRefs(manifests))

VerifyEvidenceRoot(root) == CanonicalHash(root.artifact_refs) = root.root_hash

-----------------------------------------------------------------------------
(* replay_and_verify.                                                      *)

Ids(refs) == {r.artifact_id : r \in refs}

\* manifest_by_id: of two manifests with one id the later counts
Declared(manifests, id) ==
  manifests[CHOOSE i \in DOMAIN manifests :
              /\ manifests[i].artifact_id = id
              /\ \A j \in DOMAIN manifests : manifests[j].artifact_id = id => j <= i].sha256

\* variant of SomeArtifactMissing: only manifests are looked up in the root
SomeManifestUnrooted(manifests, root) ==
  ~(Ids(Range(manifests)) \subseteq Ids(root.artifact_refs))

\* a manifest the root does not have, or the other way round; digests are not compared
SomeArtifactMissing(manifests, root) == Ids(Range(manifests)) # Ids(root.artifact_refs)

\* contents: the bytes supplied, per artifact_id
ContentMismatch(manifests, contents) ==
  \E id \in DOMAIN contents : Sha256(contents[id]) # Declared(manifests, id)

\* chain: whether verify_chain passed; seen: the event types the log has for the run
ReplayAndVerify(manifests, root, contents, chain, seen, required) ==
  IF ~chain THEN "BROKEN_CHAIN"
  ELSE IF ~VerifyEvidenceRoot(root) THEN "HASH_MISMATCH"
  ELSE IF SomeArtifactMissing(manifests, root) \/ ~(DOMAIN contents \subseteq Ids(Range(manifests)))
  THEN "MISSING_ARTIFACT"
  ELSE IF ContentMismatch(manifests, contents) THEN "HASH_MISMATCH"
  ELSE IF ~(required \subseteq seen) THEN "INCOMPLETE"
  ELSE "VERIFIED"
=============================================================================

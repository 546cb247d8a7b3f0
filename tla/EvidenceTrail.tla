----------------------------- MODULE EvidenceTrail -----------------------------
(***************************************************************************)
(* The evidence of one run: contents are written and get manifests, what   *)
(* was done is logged, the manifests are aggregated in a root, the root is *)
(* logged, and anyone replays the run from what is stored: contents,       *)
(* manifests, root and log.                                                *)
(***************************************************************************)
EXTENDS TransparencyLog, EvidenceRoot

CONSTANTS
  Contents,      \* what is written as evidence: the canonical JSON of a result or a record
  RootCreated,   \* the event type EVIDENCE_ROOT_CREATED
  RootId,        \* the identifier of the root
  MaxArtifacts   \* bound: artifacts written in one behaviour

ASSUME TrailBounds == MaxArtifacts \in Nat
ASSUME RootAssumption == RootId \in ObjectIds
ASSUME MissingAssumption ==
  \A id \in 1..MaxArtifacts, content \in Contents : Missing # Manifest(id, content)

VARIABLES
  store,   \* the artifacts stored, each with its content and its manifest
  root,    \* the EvidenceRoot, or Missing
  sealed   \* history: store and root as they were when the root was built, and `critical`

evidence == <<store, root, sealed>>

Manifests == [i \in DOMAIN store |-> store[i].manifest]

-----------------------------------------------------------------------------
(* The run.  Evidence is written while the process that keeps the log runs. *)

WriteEvidence(content) ==
  /\ mode # "down"
  /\ Len(store) < MaxArtifacts
  /\ store' = Append(store, [content |-> content, manifest |-> Manifest(Len(store) + 1, content)])
  /\ UNCHANGED <<vars, root, sealed>>

\* what a caller may pass as manifests: of what is stored some are None or incomplete, and the
\* identifier of an artifact may be declared once more, with its content or another
Declaration(available, again) ==
  [i \in DOMAIN store |-> IF i \in available THEN Manifests[i] ELSE Missing] \o again

Repeated == {<<>>} \cup {<<Manifest(id, content)>> : id \in DOMAIN store, content \in Contents}

Declarations ==
  {Declaration(available, again) : available \in SUBSET DOMAIN store, again \in Repeated}

\* build_evidence_root; when it raises nothing changes
AggregateEvidence(manifests, critical) ==
  /\ mode # "down"
  /\ root = Missing
  /\ CanAggregate(manifests, critical)
  /\ root' = BuildEvidenceRoot(manifests)
  /\ sealed' = [store |-> store, root |-> root', critical |-> critical]
  /\ UNCHANGED <<vars, store>>

\* record_federation_evidence, record_mission_decision_evidence: the record is written and is
\* the only artifact of a root of its own
RecordDecision(content) ==
  LET manifest == Manifest(Len(store) + 1, content)
      stored == [content |-> content, manifest |-> manifest]
  IN  /\ mode # "down"
      /\ Len(store) < MaxArtifacts
      /\ root = Missing
      /\ store' = Append(store, stored)
      /\ root' = BuildEvidenceRoot(<<manifest>>)
      /\ sealed' = [store |-> <<stored>>, root |-> root', critical |-> TRUE]
      /\ UNCHANGED vars

\* the root is logged once it exists, an action once its result is evidence
Logged ==
  IF root = Missing
  THEN {happened \in (ValidEventTypes \ {RootCreated}) \X (ObjectIds \ {RootId}) :
          store # <<>>}
  ELSE {<<RootCreated, RootId>>}

Log ==
  /\ \/ OpenInMemory \/ OpenFresh \/ LoadLog \/ Exit
     \/ \E happened \in Logged : \/ AppendEntry(happened[1], happened[2])
                                 \/ AppendWriteFails(happened[1], happened[2])
     \/ \E type \in {happened[1] : happened \in Logged}, tears \in BOOLEAN : AppendCrash(type, tears)
     \/ \E object \in ObjectIds : IssueReceipt(object)
  /\ UNCHANGED evidence

-----------------------------------------------------------------------------

TrailInit == Init /\ store = <<>> /\ root = Missing /\ sealed = Missing

TrailNext ==
  \/ \E content \in Contents : WriteEvidence(content) \/ RecordDecision(content)
  \/ \E manifests \in Declarations, critical \in BOOLEAN : AggregateEvidence(manifests, critical)
  \/ Log
  \/ EditContent /\ UNCHANGED evidence

TrailSpec == TrailInit /\ [][TrailNext]_<<vars, evidence>>

-----------------------------------------------------------------------------
(* Properties.                                                             *)

\* the replay of a run from what is stored of it, with every content supplied
Replay(stored, evidence_root, log) ==
  ReplayAndVerify([i \in DOMAIN stored |-> stored[i].manifest], evidence_root,
    [id \in {a.manifest.artifact_id : a \in Range(stored)} |->
       (CHOOSE a \in Range(stored) : a.manifest.artifact_id = id).content],
    ChainOk(log), {e.event_type : e \in Range(log)}, {RootCreated})

Logs == {entries, file}

\* the root was built in critical mode and nothing was written since
Complete == root # Missing /\ sealed.critical /\ store = sealed.store

\* A genuine trail goes on verifying (build_evidence_root, replay_and_verify): a root built in
\* critical mode, whatever was declared to it, has the digest of every artifact stored and no
\* other, and the run replays as VERIFIED against every intact log that has its event, in memory,
\* and on disk after any crashes and restarts.
GenuineTrailVerifies ==
  Complete =>
    /\ root.artifact_refs = Range(Manifests)
    /\ \A log \in Logs :
         ChainOk(log) /\ (\E e \in Range(log) : e.event_type = RootCreated) =>
           Replay(store, root, log) = "VERIFIED"

\* what is stored after one edit of a content, of a manifest's sha256, or the loss of an artifact
EditedStores ==
  (UNION {{[store EXCEPT ![i].content = content],
           [store EXCEPT ![i].manifest.sha256 = Sha256(content)],
           RemoveAt(store, i)} : i \in DOMAIN store, content \in Contents}) \ {store}

\* the root after one edit of its references, with its hash recomputed or not
EditedRoots ==
  LET refs == root.artifact_refs
      edited == {refs \ {ref} : ref \in refs} \cup
                {(refs \ {ref}) \cup {[ref EXCEPT !.sha256 = Sha256(content)]} :
                   ref \in refs, content \in Contents}
  IN  (UNION {{Root(e), [root EXCEPT !.artifact_refs = e]} : e \in edited}) \ {root}

\* One edit of the evidence is told (replay_and_verify): whichever content, manifest, artifact
\* or reference of the root is edited, the run no longer replays as VERIFIED, against any log;
\* but for a sha256 rewritten in the root and its hash with it, which nothing compares.
OneEditIsTold ==
  Complete =>
    \A log \in Logs :
      /\ \A edited \in EditedStores : Replay(edited, root, log) # "VERIFIED"
      /\ \A edited \in EditedRoots :
           Replay(store, edited, log) = "VERIFIED" =>
             VerifyEvidenceRoot(edited) /\ Ids(edited.artifact_refs) = Ids(root.artifact_refs)
=============================================================================

----------------------------- MODULE MissionRecord -----------------------------
(***************************************************************************)
(* What ARGOS knew when it decided.  Snapshots, findings and incidents     *)
(* become entities; graphs are built from them, more than one and each in  *)
(* its own order; a decision is recorded with the hash of the graph it     *)
(* was taken on, and graphs go on changing.                                *)
(***************************************************************************)
EXTENDS SemanticGraph, VulnerabilityAdapter

CONSTANTS
  Graphs,       \* SemanticGraph instances
  Snapshots,    \* AssetSnapshots of the reconciler: [asset_id, criticality_esp]
  Incidents,    \* Incidents of the correlator: [incident_id, severity]
  RawFindings,  \* what scanners report (VulnerabilityAdapter)
  MaxEntities,  \* bound: entities made
  MaxRelations, \* bound: relations made
  MaxListed,    \* bound: relations in one graph
  MaxReplaced,  \* bound: copies of an entity under its identifier
  MaxRecords,   \* bound: decisions recorded
  MaxRestarts   \* bound: restarts of the vulnerability adapter

ASSUME RecordBounds ==
  {MaxEntities, MaxRelations, MaxListed, MaxReplaced, MaxRecords, MaxRestarts} \subseteq Nat

VARIABLES
  graphs,     \* the graphs
  entities,   \* every entity object made
  relations,  \* every relation object made
  records,    \* the decisions recorded; the graph itself as history
  seen,       \* VulnerabilityAdapter._seen
  findings,   \* the findings delivered since the adapter started
  restarts    \* its restarts so far

vars == <<graphs, entities, relations, records, seen, findings, restarts>>

Ids == {e.entity_id : e \in entities}

\* utc_now_iso(), told apart as often as objects are made
Now == Cardinality(entities) + Cardinality(relations)

-----------------------------------------------------------------------------

Make(entity) ==
  /\ Cardinality(Ids) < MaxEntities
  /\ entities' = entities \cup {entity}
  /\ UNCHANGED <<graphs, relations, records>>

FreshId == Cardinality(Ids) + 1

MakeFromAsset(snapshot) ==
  /\ Make(EntityFromAssetSnapshot(FreshId, snapshot, Now))
  /\ UNCHANGED <<seen, findings, restarts>>

MakeFromIncident(incident) ==
  /\ Make(EntityFromIncident(FreshId, incident, Now))
  /\ UNCHANGED <<seen, findings, restarts>>

\* normalize_trivy_finding; a duplicate gives None and an invalid finding raises, and neither
\* changes anything
NormalizeTrivyFinding(raw) ==
  /\ Recognized(raw)
  /\ FindingKey(raw) \notin seen
  /\ seen' = SeenAfterFinding(seen, raw)
  /\ IF Validates(raw)
     THEN /\ findings' = Append(findings, FindingKey(raw))
          /\ Make(EntityFromVulnerabilityFinding(FreshId, VulnerabilityFinding(raw), Now))
     ELSE UNCHANGED <<findings, graphs, entities, relations, records>>
  /\ UNCHANGED restarts

RestartAdapter ==
  /\ restarts < MaxRestarts
  /\ restarts' = restarts + 1
  /\ seen' = {}
  /\ findings' = <<>>
  /\ UNCHANGED <<graphs, entities, relations, records>>

\* dataclasses.replace, as the tests use it: observed again, alone or with another attribute
Replace(entity, attributes) ==
  /\ Cardinality(entities) - Cardinality(Ids) < MaxReplaced
  /\ entities' = entities \cup {[entity EXCEPT !.attributes = attributes, !.observed_at = Now]}
  /\ UNCHANGED <<graphs, relations, records, seen, findings, restarts>>

AddEntity(g, entity) ==
  /\ graphs' = [graphs EXCEPT ![g] = WithEntity(@, entity)]
  /\ UNCHANGED <<entities, relations, records, seen, findings, restarts>>

\* relation_depends_on and the others: made and added to a graph
Relate(g, relation_type, source, target) ==
  LET relation == MakeRelation(Cardinality(relations) + 1, relation_type, source, target, Now)
  IN  /\ Cardinality(relations) < MaxRelations
      /\ CanRelate(graphs[g], relation)
      /\ relations' = relations \cup {relation}
      /\ graphs' = [graphs EXCEPT ![g] = WithRelation(@, relation)]
      /\ UNCHANGED <<entities, records, seen, findings, restarts>>

\* a relation made for another graph, or this one
AddRelation(g, relation) ==
  /\ Len(graphs[g].relations) < MaxListed
  /\ CanRelate(graphs[g], relation)
  /\ graphs' = [graphs EXCEPT ![g] = WithRelation(@, relation)]
  /\ UNCHANGED <<entities, relations, records, seen, findings, restarts>>

\* build_mission_decision_record, of which only what the graph determines
RecordMissionDecision(g) ==
  /\ Cardinality(records) < MaxRecords
  /\ records' = records \cup
       {[semantic_graph_snapshot_hash |-> SnapshotHash(graphs[g]), graph |-> graphs[g]]}
  /\ UNCHANGED <<graphs, entities, relations, seen, findings, restarts>>

Init ==
  /\ graphs = [g \in Graphs |-> EmptyGraph]
  /\ entities = {}
  /\ relations = {}
  /\ records = {}
  /\ seen = {}
  /\ findings = <<>>
  /\ restarts = 0

Next ==
  \/ \E snapshot \in Snapshots : MakeFromAsset(snapshot)
  \/ \E incident \in Incidents : MakeFromIncident(incident)
  \/ \E raw \in RawFindings : NormalizeTrivyFinding(raw)
  \/ RestartAdapter
  \/ \E entity \in entities : \E other \in {entity} \cup
       {e \in entities : e.entity_type = entity.entity_type} : Replace(entity, other.attributes)
  \/ \E g \in Graphs, entity \in entities : AddEntity(g, entity)
  \/ \E g \in Graphs, type \in RELATION_TYPES, source \in Ids :
       \E target \in Ids \ {source} : Relate(g, type, source, target)
  \/ \E g \in Graphs, relation \in relations : AddRelation(g, relation)
  \/ \E g \in Graphs : RecordMissionDecision(g)

Spec == Init /\ [][Next]_vars

-----------------------------------------------------------------------------
(* Properties.                                                             *)

\* two graphs say the same: of the same entities, but for when they were observed, and with the
\* same relations, each as often
SameKnowledge(a, b) ==
  /\ DOMAIN a.entities = DOMAIN b.entities
  /\ \A id \in DOMAIN a.entities :
       [a.entities[id] EXCEPT !.observed_at = 0] = [b.entities[id] EXCEPT !.observed_at = 0]
  /\ \A relation \in relations :
       Cardinality({i \in DOMAIN a.relations : a.relations[i] = relation}) =
       Cardinality({i \in DOMAIN b.relations : b.relations[i] = relation})

\* "A later change of the graph does not rewrite what ARGOS knew" (docstring of
\* mission_context/evidence.py): the hash in a record is that of a graph exactly if the graph
\* says now what the graph of the decision said then, built in whatever order (snapshot_hash).
RecordTellsWhatWasKnown ==
  \A record \in records : \A g \in Graphs :
    SnapshotHash(graphs[g]) = record.semantic_graph_snapshot_hash <=>
      SameKnowledge(graphs[g], record.graph)

\* The adapter delivers once per asset, CVE and package (normalize_trivy_finding): OncePerKey,
\* where what it refuses is _seen.  A finding that failed validation can be corrected.
Findings == INSTANCE OncePerKey
  WITH Keys <- {FindingKey(raw) : raw \in RawFindings}, delivered <- findings, refused <- seen
OneFindingPerPackage == Findings!Spec
=============================================================================

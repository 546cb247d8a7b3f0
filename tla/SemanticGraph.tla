----------------------------- MODULE SemanticGraph -----------------------------
(***************************************************************************)
(* services/semantic_graph: entities and relations made from facts that    *)
(* other services established, the graph that holds them, and the hash     *)
(* that says what a graph knew.  SHA-256 is injective: a digest is what    *)
(* was hashed.                                                             *)
(***************************************************************************)
EXTENDS Integers, Sequences, FiniteSets, Functions

CONSTANT RELATION_TYPES   \* of RELATION_TYPES, the types used

ASSUME RelationTypesAssumption ==
  RELATION_TYPES \subseteq
    {"DEPENDS_ON", "CAN_ACCESS", "AFFECTS", "EXPLOITS", "MITIGATES", "SUPPORTS", "IMPACTS"}

\* _make_entity: an identifier of its own at each call
MakeEntity(entity_id, entity_type, attributes, now) ==
  [entity_id |-> entity_id, entity_type |-> entity_type, attributes |-> attributes,
   observed_at |-> now]

EntityFromAssetSnapshot(id, snapshot, now) ==
  MakeEntity(id, "Asset",
    [asset_id |-> snapshot.asset_id, criticality_esp |-> snapshot.criticality_esp], now)

\* neither the asset nor the package of the finding is kept
EntityFromVulnerabilityFinding(id, finding, now) ==
  MakeEntity(id, "Vulnerability", [cve_id |-> finding.cve_id, purl |-> finding.purl], now)

EntityFromIncident(id, incident, now) ==
  MakeEntity(id, "Incident",
    [incident_id |-> incident.incident_id, severity |-> incident.severity], now)

\* _make_relation
MakeRelation(relation_id, relation_type, source_entity_id, target_entity_id, now) ==
  [relation_id |-> relation_id, relation_type |-> relation_type,
   source_entity_id |-> source_entity_id, target_entity_id |-> target_entity_id,
   observed_at |-> now]

-----------------------------------------------------------------------------
(* The graph: entities by identifier, and a list of relations.             *)

EmptyGraph == [entities |-> <<>>, relations |-> <<>>]

\* an entity already there under the identifier is replaced
WithEntity(graph, entity) ==
  [graph EXCEPT !.entities =
     [id \in DOMAIN graph.entities \cup {entity.entity_id} |->
        IF id = entity.entity_id THEN entity ELSE graph.entities[id]]]

\* DanglingRelation is raised otherwise
CanRelate(graph, relation) ==
  {relation.source_entity_id, relation.target_entity_id} \subseteq DOMAIN graph.entities

WithRelation(graph, relation) == [graph EXCEPT !.relations = Append(@, relation)]

\* variant of Content: the whole object is hashed
ContentWhole(object) == object

\* what content_hash covers: everything but observed_at
Content(object) == [field \in DOMAIN object \ {"observed_at"} |-> object[field]]

\* the elements of a sequence with how often each occurs, whatever their order
Sorted(s) == [x \in Range(s) |-> Cardinality({i \in DOMAIN s : s[i] = x})]

SnapshotHash(graph) ==
  [entities |-> {Content(e) : e \in Range(graph.entities)},
   relations |-> Sorted([i \in DOMAIN graph.relations |-> Content(graph.relations[i])])]
=============================================================================

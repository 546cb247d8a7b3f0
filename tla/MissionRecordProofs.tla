-------------------------- MODULE MissionRecordProofs --------------------------
(***************************************************************************)
(* Proofs about MissionRecord, for any findings, snapshots and incidents.  *)
(***************************************************************************)
EXTENDS MissionRecord, FiniteSetTheorems, SequenceTheorems, TLAPS

\* A finding that is delivered is one the abstract service may deliver; every other step leaves
\* what was delivered and what is refused alone, or forgets both.
LEMMA StepDelivers ==
  ASSUME [Next]_vars
  PROVE  [Findings!Next]_<<findings, seen>>
<1>1. ASSUME NEW raw \in RawFindings, NormalizeTrivyFinding(raw)
      PROVE  [Findings!Next]_<<findings, seen>>
  <2>1. CASE Validates(raw)
    <3>1. Findings!Deliver(FindingKey(raw))
      BY <1>1, <2>1 DEF NormalizeTrivyFinding, SeenAfterFinding, Findings!Deliver
    <3> QED
      BY <3>1 DEF Findings!Next
  <2>2. CASE ~Validates(raw)
    BY <1>1, <2>2 DEF NormalizeTrivyFinding, SeenAfterFinding
  <2> QED
    BY <2>1, <2>2
<1>2. ASSUME RestartAdapter
      PROVE  Findings!Forget
  BY <1>2 DEF RestartAdapter, Findings!Forget
<1>3. ASSUME NEW snapshot \in Snapshots, MakeFromAsset(snapshot)
      PROVE  UNCHANGED <<findings, seen>>
  BY <1>3 DEF MakeFromAsset
<1>4. ASSUME NEW incident \in Incidents, MakeFromIncident(incident)
      PROVE  UNCHANGED <<findings, seen>>
  BY <1>4 DEF MakeFromIncident
<1>5. ASSUME NEW entity, NEW other, Replace(entity, other.attributes)
      PROVE  UNCHANGED <<findings, seen>>
  BY <1>5, Zenon DEF Replace
<1>6. ASSUME NEW g, NEW entity, AddEntity(g, entity)
      PROVE  UNCHANGED <<findings, seen>>
  BY <1>6 DEF AddEntity
<1>7. ASSUME NEW g, NEW type, NEW source, NEW target, Relate(g, type, source, target)
      PROVE  UNCHANGED <<findings, seen>>
  BY <1>7 DEF Relate
<1>8. ASSUME NEW g, NEW relation, AddRelation(g, relation)
      PROVE  UNCHANGED <<findings, seen>>
  BY <1>8 DEF AddRelation
<1>9. ASSUME NEW g, RecordMissionDecision(g)
      PROVE  UNCHANGED <<findings, seen>>
  BY <1>9 DEF RecordMissionDecision
<1>10. CASE UNCHANGED vars
  BY <1>10 DEF vars
<1> QED
  BY <1>1, <1>2, <1>3, <1>4, <1>5, <1>6, <1>7, <1>8, <1>9, <1>10 DEF Next, Findings!Next

\* The vulnerability adapter implements the abstract service that drops duplicates: once per
\* asset, CVE and package until it restarts, and a finding that failed validation is not lost
\* when it comes again (normalize_trivy_finding).
THEOREM FindingsAreDeliveredOnce == Spec => OneFindingPerPackage
<1>1. Init => Findings!Init
  BY DEF Init, Findings!Init
<1>2. [Next]_vars => [Findings!Next]_<<findings, seen>>
  BY StepDelivers
<1> QED
  BY <1>1, <1>2, PTL DEF Spec, OneFindingPerPackage, Findings!Spec, Findings!vars

-----------------------------------------------------------------------------
(* What a hash tells: Content forgets observed_at and nothing else.        *)

IsEntity(e) ==
  e = [entity_id |-> e.entity_id, entity_type |-> e.entity_type, attributes |-> e.attributes,
       observed_at |-> e.observed_at]

IsRelation(r) ==
  r = [relation_id |-> r.relation_id, relation_type |-> r.relation_type,
       source_entity_id |-> r.source_entity_id, target_entity_id |-> r.target_entity_id,
       observed_at |-> r.observed_at]

\* The fields of an entity that are hashed.
Says(e) == <<e.entity_id, e.entity_type, e.attributes>>

LEMMA EntityContent ==
  ASSUME NEW e, NEW f, IsEntity(e), IsEntity(f)
  PROVE  /\ Content(e) = Content(f) <=> Says(e) = Says(f)
         /\ [e EXCEPT !.observed_at = 0] = [f EXCEPT !.observed_at = 0] <=> Says(e) = Says(f)
         /\ Content(e) = Content(f) => e.entity_id = f.entity_id
<1> DEFINE hashed == {"entity_id", "entity_type", "attributes"}
<1>1. /\ DOMAIN e = hashed \cup {"observed_at"} /\ DOMAIN f = hashed \cup {"observed_at"}
  BY DEF IsEntity
<1>2. DOMAIN e \ {"observed_at"} = hashed /\ DOMAIN f \ {"observed_at"} = hashed
  BY <1>1
<1>3. Content(e) = [field \in hashed |-> e[field]] /\ Content(f) = [field \in hashed |-> f[field]]
  BY <1>2 DEF Content
<1>4. Content(e) = Content(f) => Says(e) = Says(f) /\ e.entity_id = f.entity_id
  <2> SUFFICES ASSUME Content(e) = Content(f)
               PROVE  Says(e) = Says(f) /\ e.entity_id = f.entity_id
    OBVIOUS
  <2>1. \A field \in hashed : e[field] = f[field]
    BY <1>3
  <2> QED
    BY <2>1 DEF Says
<1>5. Says(e) = Says(f) => Content(e) = Content(f)
  <2> SUFFICES ASSUME Says(e) = Says(f) PROVE Content(e) = Content(f)
    OBVIOUS
  <2>1. \A field \in hashed : e[field] = f[field]
    BY DEF Says
  <2> QED
    BY <1>3, <2>1
<1>6. [e EXCEPT !.observed_at = 0] =
        [entity_id |-> e.entity_id, entity_type |-> e.entity_type, attributes |-> e.attributes,
         observed_at |-> 0]
  BY DEF IsEntity
<1>7. [f EXCEPT !.observed_at = 0] =
        [entity_id |-> f.entity_id, entity_type |-> f.entity_type, attributes |-> f.attributes,
         observed_at |-> 0]
  BY DEF IsEntity
<1>8. [e EXCEPT !.observed_at = 0] = [f EXCEPT !.observed_at = 0] <=> Says(e) = Says(f)
  BY <1>6, <1>7 DEF Says
<1> QED
  BY <1>4, <1>5, <1>8

LEMMA RelationContent ==
  ASSUME NEW r, NEW q, IsRelation(r), IsRelation(q), Content(r) = Content(q)
  PROVE  r.relation_id = q.relation_id
<1>1. "relation_id" \in DOMAIN r \ {"observed_at"} /\ "relation_id" \in DOMAIN q \ {"observed_at"}
  BY DEF IsRelation
<1>2. Content(r)["relation_id"] = r.relation_id /\ Content(q)["relation_id"] = q.relation_id
  BY <1>1 DEF Content
<1> QED
  BY <1>2

-----------------------------------------------------------------------------
(* What the graphs hold.                                                   *)

\* Entities under their own identifiers, and a list of relations, all of them made.
GraphOK(graph, made, related) ==
  /\ graph = [entities |-> graph.entities, relations |-> graph.relations]
  /\ \A id \in DOMAIN graph.entities :
       graph.entities[id] \in made /\ graph.entities[id].entity_id = id
  /\ graph.relations \in Seq(related)

\* A relation's identifier is its own.
RelationsOK ==
  /\ IsFiniteSet(relations)
  /\ \A r \in relations : IsRelation(r) /\ r.relation_id \in 1..Cardinality(relations)
  /\ \A r, q \in relations : r.relation_id = q.relation_id => r = q

RecordInv ==
  /\ \A e \in entities : IsEntity(e)
  /\ RelationsOK
  /\ graphs = [g \in Graphs |-> graphs[g]]
  /\ \A g \in Graphs : GraphOK(graphs[g], entities, relations)
  /\ \A record \in records :
       /\ GraphOK(record.graph, entities, relations)
       /\ record.semantic_graph_snapshot_hash = SnapshotHash(record.graph)

\* Entities under their identifiers hash alike exactly if they say the same.
LEMMA SameEntities ==
  ASSUME \A e \in entities : IsEntity(e),
         NEW a, NEW b, GraphOK(a, entities, relations), GraphOK(b, entities, relations)
  PROVE  {Content(e) : e \in Range(a.entities)} = {Content(e) : e \in Range(b.entities)}
           <=> /\ DOMAIN a.entities = DOMAIN b.entities
               /\ \A id \in DOMAIN a.entities :
                    [a.entities[id] EXCEPT !.observed_at = 0] =
                    [b.entities[id] EXCEPT !.observed_at = 0]
<1> DEFINE A == a.entities
           B == b.entities
<1>1. /\ \A id \in DOMAIN A : IsEntity(A[id]) /\ A[id].entity_id = id
      /\ \A id \in DOMAIN B : IsEntity(B[id]) /\ B[id].entity_id = id
  BY DEF GraphOK
<1>2. /\ {Content(e) : e \in Range(A)} = {Content(A[id]) : id \in DOMAIN A}
      /\ {Content(e) : e \in Range(B)} = {Content(B[id]) : id \in DOMAIN B}
  BY DEF Range
<1> HIDE DEF A, B
<1>3. \A id \in DOMAIN A, jd \in DOMAIN B :
        /\ Content(A[id]) = Content(B[jd]) => id = jd
        /\ Content(A[id]) = Content(B[jd]) <=>
             [A[id] EXCEPT !.observed_at = 0] = [B[jd] EXCEPT !.observed_at = 0]
  BY <1>1, EntityContent
<1>4. ASSUME {Content(A[id]) : id \in DOMAIN A} = {Content(B[id]) : id \in DOMAIN B}
      PROVE  /\ DOMAIN A = DOMAIN B
             /\ \A id \in DOMAIN A :
                  [A[id] EXCEPT !.observed_at = 0] = [B[id] EXCEPT !.observed_at = 0]
  <2>1. \A id \in DOMAIN A : \E jd \in DOMAIN B : Content(A[id]) = Content(B[jd])
    BY <1>4
  <2>2. \A jd \in DOMAIN B : \E id \in DOMAIN A : Content(A[id]) = Content(B[jd])
    BY <1>4
  <2>3. \A id \in DOMAIN A : id \in DOMAIN B /\ Content(A[id]) = Content(B[id])
    BY <1>3, <2>1
  <2>4. \A jd \in DOMAIN B : jd \in DOMAIN A
    BY <1>3, <2>2
  <2> QED
    BY <1>3, <2>3, <2>4
<1>5. ASSUME DOMAIN A = DOMAIN B,
             \A id \in DOMAIN A :
               [A[id] EXCEPT !.observed_at = 0] = [B[id] EXCEPT !.observed_at = 0]
      PROVE  {Content(A[id]) : id \in DOMAIN A} = {Content(B[id]) : id \in DOMAIN B}
  <2>1. \A id \in DOMAIN A : Content(A[id]) = Content(B[id])
    BY <1>3, <1>5
  <2> QED
    BY <1>5, <2>1
<1> QED
  BY <1>2, <1>4, <1>5 DEF A, B

\* How often a relation is in a list.
Times(list, relation) == {i \in DOMAIN list : list[i] = relation}

\* The contents of a list of relations, as they are hashed.
Contents(list) == [i \in DOMAIN list |-> Content(list[i])]

LEMMA ContentCounts ==
  ASSUME RelationsOK, NEW list \in Seq(relations)
  PROVE  /\ \A r \in relations : IsFiniteSet(Times(list, r)) /\ Cardinality(Times(list, r)) \in Nat
         /\ \A r \in relations : Cardinality(Times(list, r)) = 0 <=> r \notin Range(list)
         /\ \A r \in relations : Content(r) \in Range(Contents(list)) <=> r \in Range(list)
         /\ \A r \in Range(list) :
              Sorted(Contents(list))[Content(r)] = Cardinality(Times(list, r))
         /\ \A c \in Range(Contents(list)) : \E r \in relations : r \in Range(list) /\ c = Content(r)
<1> DEFINE n == Len(list)
           hashed == Contents(list)
<1>1. n \in Nat /\ DOMAIN list = 1..n /\ \A i \in DOMAIN list : list[i] \in relations
  BY LenProperties, ElementOfSeq
<1> HIDE DEF n
<1>2. DOMAIN hashed = DOMAIN list /\ \A i \in DOMAIN list : hashed[i] = Content(list[i])
  BY DEF Contents
<1>3. \A r, q \in relations : Content(r) = Content(q) => r = q
  BY RelationContent DEF RelationsOK
<1> HIDE DEF hashed
<1>4. ASSUME NEW r \in relations
      PROVE  IsFiniteSet(Times(list, r)) /\ Cardinality(Times(list, r)) \in Nat
  <2>1. IsFiniteSet(1..n)
    BY <1>1, FS_Interval
  <2>2. Times(list, r) \subseteq 1..n
    BY <1>1 DEF Times
  <2> QED
    BY <2>1, <2>2, FS_Subset, FS_CardinalityType
<1>5. ASSUME NEW r \in relations
      PROVE  Cardinality(Times(list, r)) = 0 <=> r \notin Range(list)
  <2>1. Cardinality(Times(list, r)) = 0 <=> Times(list, r) = {}
    BY <1>4, FS_EmptySet
  <2> QED
    BY <2>1 DEF Times, Range
<1>6. ASSUME NEW c \in Range(hashed)
      PROVE  \E r \in relations : r \in Range(list) /\ c = Content(r)
  <2>1. PICK i \in DOMAIN list : c = Content(list[i])
    BY <1>2 DEF Range
  <2> QED
    BY <1>1, <2>1 DEF Range
<1>7. ASSUME NEW r \in relations
      PROVE  Content(r) \in Range(hashed) <=> r \in Range(list)
  <2>1. r \in Range(list) => Content(r) \in Range(hashed)
    BY <1>2 DEF Range
  <2>2. Content(r) \in Range(hashed) => r \in Range(list)
    BY <1>3, <1>6
  <2> QED
    BY <2>1, <2>2
<1>8. ASSUME NEW r \in Range(list)
      PROVE  Sorted(hashed)[Content(r)] = Cardinality(Times(list, r))
  <2>1. r \in relations
    BY <1>1 DEF Range
  <2>2. Content(r) \in Range(hashed)
    BY <1>7, <2>1
  <2>3. Sorted(hashed)[Content(r)] = Cardinality({i \in DOMAIN hashed : hashed[i] = Content(r)})
    BY <2>2 DEF Sorted
  <2>4. {i \in DOMAIN hashed : hashed[i] = Content(r)} = Times(list, r)
    BY <1>1, <1>2, <1>3, <2>1 DEF Times
  <2> QED
    BY <2>3, <2>4
<1> QED
  BY <1>4, <1>5, <1>6, <1>7, <1>8 DEF hashed

\* Lists of relations hash alike exactly if they hold the same relations as often.
LEMMA SameRelations ==
  ASSUME RelationsOK, NEW a \in Seq(relations), NEW b \in Seq(relations)
  PROVE  Sorted(Contents(a)) = Sorted(Contents(b))
           <=> \A r \in relations : Cardinality(Times(a, r)) = Cardinality(Times(b, r))
<1>1. DOMAIN Sorted(Contents(a)) = Range(Contents(a)) /\ DOMAIN Sorted(Contents(b)) = Range(Contents(b))
  BY DEF Sorted
<1>2. ASSUME Sorted(Contents(a)) = Sorted(Contents(b)), NEW r \in relations
      PROVE  Cardinality(Times(a, r)) = Cardinality(Times(b, r))
  <2>1. Range(Contents(a)) = Range(Contents(b))
    BY <1>1, <1>2
  <2>2. r \in Range(a) <=> r \in Range(b)
    BY <2>1, ContentCounts
  <2>3. CASE r \in Range(a)
    BY <1>2, <2>2, <2>3, ContentCounts
  <2>4. CASE r \notin Range(a)
    <3>1. Cardinality(Times(a, r)) = 0 /\ Cardinality(Times(b, r)) = 0
      BY <2>2, <2>4, ContentCounts
    <3> QED
      BY <3>1
  <2> QED
    BY <2>3, <2>4
<1>3. ASSUME \A r \in relations : Cardinality(Times(a, r)) = Cardinality(Times(b, r))
      PROVE  Sorted(Contents(a)) = Sorted(Contents(b))
  <2>1. \A r \in relations : r \in Range(a) <=> r \in Range(b)
    BY <1>3, ContentCounts
  <2>2. \A c \in Range(Contents(a)) : c \in Range(Contents(b))
    BY <2>1, ContentCounts
  <2>3. \A c \in Range(Contents(b)) : c \in Range(Contents(a))
    BY <2>1, ContentCounts
  <2>4. Range(Contents(a)) = Range(Contents(b))
    BY <2>2, <2>3
  <2>5. ASSUME NEW c \in Range(Contents(a))
        PROVE  Sorted(Contents(a))[c] = Sorted(Contents(b))[c]
    <3>1. PICK r \in relations : r \in Range(a) /\ c = Content(r)
      BY ContentCounts
    <3>2. r \in Range(b)
      BY <2>1, <3>1
    <3> QED
      BY <1>3, <3>1, <3>2, ContentCounts
  <2>6. /\ Sorted(Contents(a)) = [c \in Range(Contents(a)) |-> Sorted(Contents(a))[c]]
        /\ Sorted(Contents(b)) = [c \in Range(Contents(b)) |-> Sorted(Contents(b))[c]]
    BY DEF Sorted
  <2> HIDE DEF Sorted
  <2> QED
    BY <2>4, <2>5, <2>6
<1> QED
  BY <1>2, <1>3

\* The hash tells graphs apart exactly if they say something different.
LEMMA HashTells ==
  ASSUME RecordInv, NEW a, NEW b, GraphOK(a, entities, relations), GraphOK(b, entities, relations)
  PROVE  SnapshotHash(a) = SnapshotHash(b) <=> SameKnowledge(a, b)
<1>1. /\ a.relations \in Seq(relations) /\ b.relations \in Seq(relations)
      /\ RelationsOK /\ \A e \in entities : IsEntity(e)
  BY DEF GraphOK, RecordInv
<1>2. SnapshotHash(a) = SnapshotHash(b)
        <=> /\ {Content(e) : e \in Range(a.entities)} = {Content(e) : e \in Range(b.entities)}
            /\ Sorted(Contents(a.relations)) = Sorted(Contents(b.relations))
  BY DEF SnapshotHash, Contents
<1>3. SameKnowledge(a, b)
        <=> /\ DOMAIN a.entities = DOMAIN b.entities
            /\ \A id \in DOMAIN a.entities :
                 [a.entities[id] EXCEPT !.observed_at = 0] =
                 [b.entities[id] EXCEPT !.observed_at = 0]
            /\ \A r \in relations :
                 Cardinality(Times(a.relations, r)) = Cardinality(Times(b.relations, r))
  BY DEF SameKnowledge, Times
<1>4. {Content(e) : e \in Range(a.entities)} = {Content(e) : e \in Range(b.entities)}
           <=> /\ DOMAIN a.entities = DOMAIN b.entities
               /\ \A id \in DOMAIN a.entities :
                    [a.entities[id] EXCEPT !.observed_at = 0] =
                    [b.entities[id] EXCEPT !.observed_at = 0]
  BY <1>1, SameEntities
<1>5. Sorted(Contents(a.relations)) = Sorted(Contents(b.relations))
           <=> \A r \in relations :
                 Cardinality(Times(a.relations, r)) = Cardinality(Times(b.relations, r))
  BY <1>1, SameRelations
<1> QED
  BY <1>2, <1>3, <1>4, <1>5

-----------------------------------------------------------------------------
(* The invariant.                                                          *)

LEMMA MoreRelations ==
  ASSUME NEW S, NEW T, S \subseteq T, NEW list \in Seq(S)
  PROVE  list \in Seq(T)
<1>1. Len(list) \in Nat /\ list \in [1..Len(list) -> S]
  BY LenProperties
<1>2. list \in [1..Len(list) -> T]
  BY <1>1
<1> QED
  BY <1>1, <1>2, SeqDef

\* What is made is never taken away, so a graph that held what was made still does.
LEMMA GraphStays ==
  ASSUME NEW made, NEW more, made \subseteq more, NEW related, NEW others, related \subseteq others,
         NEW graph, GraphOK(graph, made, related)
  PROVE  GraphOK(graph, more, others)
<1>1. graph.relations \in Seq(others)
  BY MoreRelations DEF GraphOK
<1> QED
  BY <1>1 DEF GraphOK

\* A graph with one more entity, or another copy of it.
LEMMA OneMoreEntity ==
  ASSUME NEW made, NEW related, NEW graph, GraphOK(graph, made, related), NEW entity \in made
  PROVE  GraphOK(WithEntity(graph, entity), made, related)
<1> DEFINE ids == DOMAIN graph.entities \cup {entity.entity_id}
           held == [id \in ids |-> IF id = entity.entity_id THEN entity ELSE graph.entities[id]]
           new == WithEntity(graph, entity)
<1>1. new = [entities |-> held, relations |-> graph.relations]
  BY DEF WithEntity, GraphOK
<1>2. \A id \in ids : held[id] \in made /\ held[id].entity_id = id
  BY DEF GraphOK
<1>3. DOMAIN held = ids
  OBVIOUS
<1> HIDE DEF held, ids, new
<1>4. new.entities = held /\ new.relations = graph.relations
  BY <1>1
<1> QED
  BY <1>1, <1>2, <1>3, <1>4 DEF GraphOK, new

\* A graph with one more relation.
LEMMA OneMoreRelation ==
  ASSUME NEW made, NEW related, NEW graph, GraphOK(graph, made, related), NEW relation \in related
  PROVE  GraphOK(WithRelation(graph, relation), made, related)
<1>1. WithRelation(graph, relation) =
        [entities |-> graph.entities, relations |-> Append(graph.relations, relation)]
  BY DEF WithRelation, GraphOK
<1>2. Append(graph.relations, relation) \in Seq(related)
  BY AppendProperties DEF GraphOK
<1> QED
  BY <1>1, <1>2 DEF GraphOK

\* A step that makes things, and changes no graph and no record.
LEMMA MakingKeeps ==
  ASSUME RecordInv, UNCHANGED <<graphs, relations, records>>,
         entities \subseteq entities', \A e \in entities' : IsEntity(e)
  PROVE  RecordInv'
<1>1. RelationsOK'
  BY DEF RecordInv, RelationsOK
<1>2. \A graph : GraphOK(graph, entities, relations) => GraphOK(graph, entities', relations')
  BY GraphStays
<1> QED
  BY <1>1, <1>2 DEF RecordInv

LEMMA MadeEntities ==
  ASSUME RecordInv, NEW id, NEW type, NEW attributes, NEW t,
         Make(MakeEntity(id, type, attributes, t))
  PROVE  RecordInv'
<1>1. IsEntity(MakeEntity(id, type, attributes, t))
  BY DEF MakeEntity, IsEntity
<1>2. /\ entities' = entities \cup {MakeEntity(id, type, attributes, t)}
      /\ UNCHANGED <<graphs, relations, records>>
  BY DEF Make
<1>3. entities \subseteq entities' /\ \A e \in entities' : IsEntity(e)
  BY <1>1, <1>2 DEF RecordInv
<1> QED
  BY <1>2, <1>3, MakingKeeps

LEMMA ReplaceKeeps ==
  ASSUME RecordInv, NEW entity \in entities, NEW attributes, Replace(entity, attributes)
  PROVE  RecordInv'
<1> DEFINE copy == [entity EXCEPT !.attributes = attributes, !.observed_at = Now]
<1>1. IsEntity(copy)
  <2>1. IsEntity(entity)
    BY DEF RecordInv
  <2>2. copy = [entity_id |-> entity.entity_id, entity_type |-> entity.entity_type,
                attributes |-> attributes, observed_at |-> Now]
    <3>1. DOMAIN entity = {"entity_id", "entity_type", "attributes", "observed_at"}
      BY <2>1 DEF IsEntity
    <3>2. /\ DOMAIN copy = {"entity_id", "entity_type", "attributes", "observed_at"}
          /\ copy.entity_id = entity.entity_id /\ copy.entity_type = entity.entity_type
          /\ copy.attributes = attributes /\ copy.observed_at = Now
          /\ copy = [field \in DOMAIN copy |-> copy[field]]
      BY <3>1
    <3> HIDE DEF copy
    <3> QED
      BY <3>2
  <2> QED
    BY <2>2 DEF IsEntity
<1>2. entities' = entities \cup {copy} /\ UNCHANGED <<graphs, relations, records>>
  BY DEF Replace
<1> HIDE DEF copy
<1>3. entities \subseteq entities' /\ \A e \in entities' : IsEntity(e)
  BY <1>1, <1>2 DEF RecordInv
<1> QED
  BY <1>2, <1>3, MakingKeeps

\* A step that changes one graph, and may make a relation.
LEMMA GraphChangeKeeps ==
  ASSUME RecordInv, NEW g \in Graphs, NEW graph, GraphOK(graph, entities', relations'),
         graphs' = [graphs EXCEPT ![g] = graph],
         UNCHANGED <<entities, records>>, relations \subseteq relations', RelationsOK'
  PROVE  RecordInv'
<1>1. \A h : GraphOK(h, entities, relations) => GraphOK(h, entities', relations')
  BY GraphStays
<1>2. graphs' = [h \in Graphs |-> IF h = g THEN graph ELSE graphs[h]]
  BY DEF RecordInv
<1>3. \A h \in Graphs : GraphOK(graphs'[h], entities', relations')
  BY <1>1, <1>2 DEF RecordInv
<1>4. \A record \in records' :
        /\ GraphOK(record.graph, entities', relations')
        /\ record.semantic_graph_snapshot_hash = SnapshotHash(record.graph)
  BY <1>1 DEF RecordInv
<1>5. graphs' = [h \in Graphs |-> graphs'[h]]
  BY <1>2
<1> QED
  BY <1>3, <1>4, <1>5 DEF RecordInv

LEMMA AddEntityKeeps ==
  ASSUME RecordInv, NEW g \in Graphs, NEW entity \in entities, AddEntity(g, entity)
  PROVE  RecordInv'
<1>1. GraphOK(WithEntity(graphs[g], entity), entities, relations)
  BY OneMoreEntity DEF RecordInv
<1>2. /\ graphs' = [graphs EXCEPT ![g] = WithEntity(graphs[g], entity)]
      /\ UNCHANGED <<entities, relations, records>>
  BY DEF AddEntity
<1>3. RelationsOK'
  BY <1>2 DEF RecordInv, RelationsOK
<1> QED
  BY <1>1, <1>2, <1>3, GraphChangeKeeps

LEMMA AddRelationKeeps ==
  ASSUME RecordInv, NEW g \in Graphs, NEW relation \in relations, AddRelation(g, relation)
  PROVE  RecordInv'
<1>1. GraphOK(WithRelation(graphs[g], relation), entities, relations)
  BY OneMoreRelation DEF RecordInv
<1>2. /\ graphs' = [graphs EXCEPT ![g] = WithRelation(graphs[g], relation)]
      /\ UNCHANGED <<entities, relations, records>>
  BY DEF AddRelation
<1>3. RelationsOK'
  BY <1>2 DEF RecordInv, RelationsOK
<1> QED
  BY <1>1, <1>2, <1>3, GraphChangeKeeps

LEMMA RelateKeeps ==
  ASSUME RecordInv, NEW g \in Graphs, NEW type, NEW source, NEW target,
         Relate(g, type, source, target)
  PROVE  RecordInv'
<1> DEFINE n == Cardinality(relations)
           relation == MakeRelation(n + 1, type, source, target, Now)
<1>1. /\ relations' = relations \cup {relation}
      /\ graphs' = [graphs EXCEPT ![g] = WithRelation(graphs[g], relation)]
      /\ UNCHANGED <<entities, records>>
  BY DEF Relate
<1>2. IsRelation(relation) /\ relation.relation_id = n + 1
  BY DEF MakeRelation, IsRelation
<1>3. RelationsOK /\ GraphOK(graphs[g], entities, relations)
  BY DEF RecordInv
<1> HIDE DEF relation
<1>4. RelationsOK'
  <2>1. n \in Nat /\ IsFiniteSet(relations)
    BY <1>3, FS_CardinalityType DEF RelationsOK
  <2>2. \A r \in relations : r.relation_id \in 1..n /\ IsRelation(r)
    BY <1>3 DEF RelationsOK
  <2>3. \A r \in relations : r.relation_id # relation.relation_id
    BY <1>2, <2>1, <2>2
  <2>4. IsFiniteSet(relations') /\ Cardinality(relations') = n + 1
    BY <1>1, <2>1, <2>3, FS_AddElement
  <2> HIDE DEF n
  <2>5. \A r \in relations' : IsRelation(r) /\ r.relation_id \in 1..(n + 1)
    BY <1>1, <1>2, <2>1, <2>2
  <2>6. \A r, q \in relations : r.relation_id = q.relation_id => r = q
    BY <1>3 DEF RelationsOK
  <2>7. \A r, q \in relations' : r.relation_id = q.relation_id => r = q
    BY <1>1, <2>3, <2>6
  <2> QED
    BY <2>4, <2>5, <2>7 DEF RelationsOK
<1>5. relations \subseteq relations' /\ relation \in relations'
  BY <1>1
<1>6. GraphOK(graphs[g], entities, relations')
  BY <1>3, <1>5, GraphStays
<1>7. GraphOK(WithRelation(graphs[g], relation), entities', relations')
  BY <1>1, <1>5, <1>6, OneMoreRelation
<1> QED
  BY <1>1, <1>4, <1>5, <1>7, GraphChangeKeeps

LEMMA RecordMissionDecisionKeeps ==
  ASSUME RecordInv, NEW g \in Graphs, RecordMissionDecision(g)
  PROVE  RecordInv'
<1> DEFINE record == [semantic_graph_snapshot_hash |-> SnapshotHash(graphs[g]), graph |-> graphs[g]]
<1>1. records' = records \cup {record} /\ UNCHANGED <<graphs, entities, relations>>
  BY DEF RecordMissionDecision
<1>2. RelationsOK'
  BY <1>1 DEF RecordInv, RelationsOK
<1>3. /\ GraphOK(record.graph, entities, relations)
      /\ record.semantic_graph_snapshot_hash = SnapshotHash(record.graph)
  BY DEF RecordInv
<1> HIDE DEF record
<1> QED
  BY <1>1, <1>2, <1>3 DEF RecordInv

LEMMA InitRecord == Init => RecordInv
<1> SUFFICES ASSUME Init PROVE RecordInv
  OBVIOUS
<1>1. /\ entities = {} /\ relations = {} /\ records = {}
      /\ graphs = [g \in Graphs |-> EmptyGraph]
  BY DEF Init
<1>2. RelationsOK
  BY <1>1, FS_EmptySet DEF RelationsOK
<1>3. GraphOK(EmptyGraph, entities, relations)
  BY EmptySeq DEF EmptyGraph, GraphOK
<1> QED
  BY <1>1, <1>2, <1>3 DEF RecordInv

LEMMA NextRecord == RecordInv /\ [Next]_vars => RecordInv'
<1> SUFFICES ASSUME RecordInv, [Next]_vars PROVE RecordInv'
  OBVIOUS
<1>1. ASSUME NEW snapshot \in Snapshots, MakeFromAsset(snapshot) PROVE RecordInv'
  BY <1>1, MadeEntities DEF MakeFromAsset, EntityFromAssetSnapshot
<1>2. ASSUME NEW incident \in Incidents, MakeFromIncident(incident) PROVE RecordInv'
  BY <1>2, MadeEntities DEF MakeFromIncident, EntityFromIncident
<1>3. ASSUME UNCHANGED <<graphs, entities, relations, records>> PROVE RecordInv'
  BY <1>3, MakingKeeps DEF RecordInv
<1>4. ASSUME NEW raw \in RawFindings, NormalizeTrivyFinding(raw) PROVE RecordInv'
  <2>1. CASE Validates(raw)
    BY <1>4, <2>1, MadeEntities DEF NormalizeTrivyFinding, EntityFromVulnerabilityFinding
  <2>2. CASE ~Validates(raw)
    BY <1>3, <1>4, <2>2 DEF NormalizeTrivyFinding
  <2> QED
    BY <2>1, <2>2
<1>5. CASE RestartAdapter \/ UNCHANGED vars
  BY <1>3, <1>5 DEF RestartAdapter, vars
<1> QED
  BY <1>1, <1>2, <1>4, <1>5, ReplaceKeeps, AddEntityKeeps, RelateKeeps, AddRelationKeeps,
     RecordMissionDecisionKeeps DEF Next

LEMMA RecordInvariant == Spec => []RecordInv
<1> QED
  BY InitRecord, NextRecord, PTL DEF Spec

LEMMA ToldByInv == RecordInv => RecordTellsWhatWasKnown
<1> SUFFICES ASSUME RecordInv, NEW record \in records, NEW g \in Graphs
             PROVE  SnapshotHash(graphs[g]) = record.semantic_graph_snapshot_hash <=>
                      SameKnowledge(graphs[g], record.graph)
  BY DEF RecordTellsWhatWasKnown
<1>1. /\ GraphOK(graphs[g], entities, relations) /\ GraphOK(record.graph, entities, relations)
      /\ record.semantic_graph_snapshot_hash = SnapshotHash(record.graph)
  BY DEF RecordInv
<1> QED
  BY <1>1, HashTells

\* The hash in a record is that of a graph exactly if the graph says what the graph of the
\* decision said: for any graphs, whatever is made, replaced, added or related since, and in
\* whatever order (snapshot_hash).
THEOREM RecordsTell == Spec => []RecordTellsWhatWasKnown
<1> QED
  BY RecordInvariant, ToldByInv, PTL
=============================================================================

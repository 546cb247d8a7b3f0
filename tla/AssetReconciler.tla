---------------------------- MODULE AssetReconciler ----------------------------
(***************************************************************************)
(* asset_reconciler: connectors report fragments of an asset in any order  *)
(* and as often as they like; a snapshot reconciles those reported so far, *)
(* and drift is what differs between a snapshot as designed and one as     *)
(* built.                                                                  *)
(***************************************************************************)
EXTENDS SemanticConflict, Sequences, Functions

CONSTANTS
  Fragments,   \* [source, asset_id, fields] records connectors may report
  Rankings,    \* authority rankings callers pass; None for no ranking
  MaxReports   \* bound: fragments reported in one behaviour

ASSUME ReportBound == MaxReports \in Nat
ASSUME SourcesAssumption == \A f \in Fragments : f.source # None
ASSUME RankingsAssumption ==
  \A ranking \in Rankings \ {None} : \A source \in DOMAIN ranking : ranking[source] \in Int

VARIABLES
  fragments,    \* the fragments reported so far, in order
  as_designed,  \* the snapshot the asset should match, or None
  as_built      \* the last snapshot: [ranking, reports, merged, conflicts, payload], or None

vars == <<fragments, as_designed, as_built>>

_MERGEABLE_FIELDS == {"workload_id", "image_ref", "node", "namespace", "criticality_esp"}

AssetIds == {f.asset_id : f \in Fragments}

Sources == {f.source : f \in Fragments}

-----------------------------------------------------------------------------
(* reconcile.                                                              *)

\* The fragments of a call are a function from places, in the order of the list.

With(field, frags) == {p \in DOMAIN frags : field \in DOMAIN frags[p].fields}

By(source, field, frags) == {p \in With(field, frags) : frags[p].source = source}

SeenFields(frags) == {field \in _MERGEABLE_FIELDS : With(field, frags) # {}}

\* what a source says of a field in the end
LastWord(source, field, frags) == frags[Max(By(source, field, frags))].fields[field]

\* seen_by_field[field]: each source once, where it first spoke, with the last it said
SeenByField(field, frags) ==
  LET firsts == {p \in With(field, frags) :
                   \A q \in By(frags[p].source, field, frags) : p <= q}
  IN  [p \in firsts |->
         [source |-> frags[p].source,
          value |-> LastWord(frags[p].source, field, frags),
          observed_at |-> 0]]   \* the same utc_now_iso() for all

LastValue(field, frags) == frags[Max(With(field, frags))].fields[field]

\* a field is in conflict when a report differs from the one just before it
InConflictWithNext(field, frags) ==
  LET spoke == With(field, frags)
      others == spoke \ {Max(spoke)}
  IN  others # {} /\ frags[Max(others)].fields[field] # frags[Max(spoke)].fields[field]

InConflict(field, frags) ==
  LET claims == SeenByField(field, frags)
  IN  ~Agree(claims, DOMAIN claims)

ValueOf(source, claims) ==
  claims[CHOOSE p \in DOMAIN claims : claims[p].source = source].value

\* the fields left after resolution that keeps the last report of what it cannot decide
GovernedFieldsKept(frags, ranking) == SeenFields(frags)

\* a field in conflict stays only if someone has the authority to decide it
GovernedFields(frags, ranking) ==
  {field \in SeenFields(frags) :
     \/ ~InConflict(field, frags)
     \/ ranking = None
     \/ ResolveConflict(SeenByField(field, frags), ranking).winning_source # None}

\* the winner is worked out and reported, and the last report is kept
MergedValueLast(field, frags, ranking) == LastValue(field, frags)

MergedValue(field, frags, ranking) ==
  LET claims == SeenByField(field, frags)
      winner == ResolveConflict(claims, ranking).winning_source
  IN  IF InConflict(field, frags) /\ ranking # None /\ winner # None
      THEN ValueOf(winner, claims)
      ELSE LastValue(field, frags)

Conflict(field, frags, ranking) ==
  [field |-> field, values |-> SeenByField(field, frags),
   resolution |-> IF ranking = None THEN None
                  ELSE ResolveConflict(SeenByField(field, frags), ranking)]

Reconcile(frags, ranking) ==
  [merged |-> [field \in GovernedFields(frags, ranking) |-> MergedValue(field, frags, ranking)],
   conflicts |-> {Conflict(field, frags, ranking) :
                    field \in {f \in SeenFields(frags) : InConflict(f, frags)}}]

\* reconcile raises ValueError otherwise
Reconcilable(frags) ==
  /\ DOMAIN frags # {}
  /\ \A p, q \in DOMAIN frags : frags[p].asset_id = frags[q].asset_id

\* payload.setdefault
Payload(merged) ==
  [field \in DOMAIN merged \cup {"namespace", "criticality_esp"} |->
     IF field \in DOMAIN merged THEN merged[field]
     ELSE IF field = "namespace" THEN "unknown" ELSE "medium"]

-----------------------------------------------------------------------------
(* The calls.                                                              *)

Report(fragment) ==
  /\ Len(fragments) < MaxReports
  /\ fragments' = Append(fragments, fragment)
  /\ UNCHANGED <<as_designed, as_built>>

\* build_asset_snapshot_payload on all that was reported of an asset
BuildAssetSnapshot(asset_id, ranking) ==
  LET frags == Restrict(fragments, {p \in DOMAIN fragments : fragments[p].asset_id = asset_id})
      result == Reconcile(frags, ranking)
  IN  /\ Reconcilable(frags)
      /\ as_built' = [asset_id |-> asset_id, ranking |-> ranking, reports |-> frags,
                      merged |-> result.merged, conflicts |-> result.conflicts,
                      payload |-> Payload(result.merged)]
      /\ UNCHANGED <<fragments, as_designed>>

\* a caller takes the last snapshot for the state the asset is to keep
KeepAsDesigned ==
  /\ as_built # None
  /\ as_designed' = as_built
  /\ UNCHANGED <<fragments, as_built>>

Get(payload, field) == IF field \in DOMAIN payload THEN payload[field] ELSE None

\* the fields detect_drift returns
DetectDrift(designed, built) ==
  {field \in _MERGEABLE_FIELDS : Get(designed, field) # Get(built, field)}

-----------------------------------------------------------------------------

Init == fragments = <<>> /\ as_designed = None /\ as_built = None

Next ==
  \/ \E fragment \in Fragments : Report(fragment)
  \/ \E asset_id \in AssetIds, ranking \in Rankings : BuildAssetSnapshot(asset_id, ranking)
  \/ KeepAsDesigned

Spec == Init /\ [][Next]_vars

-----------------------------------------------------------------------------
(* Properties.                                                             *)

Snapshots == {s \in {as_designed, as_built} : s # None}

\* the sources that say anything of a field, and what they say in the end
Speakers(field, frags) == {frags[p].source : p \in With(field, frags)}

LastWords(sources, field, frags) == {LastWord(source, field, frags) : source \in sources}

\* the speakers no ranked speaker outranks
Authorities(field, frags, ranking) ==
  {source \in Speakers(field, frags) \cap DOMAIN ranking :
     \A other \in Speakers(field, frags) \cap DOMAIN ranking : ranking[other] <= ranking[source]}

\* the one value the speakers agree on, else the one the highest of them agree on when all
\* are ranked, else none
GovernedValues(field, frags, ranking) ==
  LET speakers == Speakers(field, frags)
      all == LastWords(speakers, field, frags)
      highest == LastWords(Authorities(field, frags, ranking), field, frags)
  IN  IF \E v \in all : all = {v} THEN all
      ELSE IF speakers \subseteq DOMAIN ranking /\ \E v \in highest : highest = {v} THEN highest
      ELSE {}

\* "Real authority policy, never order of arrival" (asset_reconciler.py, docstring): under a
\* ranking each field has its governed value, and is not merged when there is none; whoever
\* came last.
SnapshotIsGoverned ==
  \A s \in {s \in Snapshots : s.ranking # None} : \A field \in SeenFields(s.reports) :
    LET governed == GovernedValues(field, s.reports, s.ranking)
    IN  IF governed = {} THEN field \notin DOMAIN s.merged
        ELSE field \in DOMAIN s.merged /\ s.merged[field] \in governed

\* "Reported as a conflict instead of one source overwriting the other in silence"
\* (docstring): with or without a ranking, and however often the sources reported.
ConflictNeverSilent ==
  \A s \in Snapshots : \A field \in SeenFields(s.reports) :
    LET said == LastWords(Speakers(field, s.reports), field, s.reports)
    IN  (\E v, w \in said : v # w) =>
          \E c \in s.conflicts : c.field = field /\ ClaimValues(c.values) = said

\* When the highest authority, alone at its rank, changes its word on a field between the
\* snapshot as designed and the one as built, the field is reported as drift, whatever the
\* other sources said in between (detect_drift, reconcile).
DriftSeesTheAuthority ==
  as_designed # None /\ as_built # None =>
    (/\ as_designed.asset_id = as_built.asset_id
     /\ as_designed.ranking = as_built.ranking
     /\ as_built.ranking # None
     /\ Sources \subseteq DOMAIN as_built.ranking
     => \A field \in SeenFields(as_designed.reports) :
        \A source \in Speakers(field, as_designed.reports) :
          LET before == LastWord(source, field, as_designed.reports)
              after == LastWord(source, field, as_built.reports)
          IN  /\ \A other \in Sources \ {source} :
                   as_built.ranking[other] < as_built.ranking[source]
              /\ before # after
              => field \in DetectDrift(as_designed.payload, as_built.payload))
=============================================================================

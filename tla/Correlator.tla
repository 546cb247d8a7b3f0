------------------------------ MODULE Correlator ------------------------------
(***************************************************************************)
(* services/correlator: events marked as one activity are collapsed, what  *)
(* is left is grouped by asset and sliding window, and each group becomes  *)
(* an incident.  A batch is the sequence in which the caller hands events  *)
(* over; an event is a record [id, asset_id, observed_at, severity, key],  *)
(* and refs once collapsed.                                                *)
(***************************************************************************)
EXTENDS Normalizer, Ordering, Sequences, Functions, FiniteSetsExt

CONSTANT Window   \* longest gap between two events of one incident

ASSUME WindowAssumption == Window \in Nat

\* the events of a batch at the places a list gives
Listed(batch, order) == [k \in DOMAIN order |-> batch[order[k]]]

\* the events at some places of a batch, as they arrived
InArrivalOrder(batch, places) ==
  Listed(batch, Arranged(places, {pair \in places \X places : pair[1] < pair[2]}))

\* sort(key=observed_at) of the events at some places of a batch: stable
SortedByTime(batch, places) ==
  LET Before(p, q) == \/ batch[p].observed_at < batch[q].observed_at
                      \/ batch[p].observed_at = batch[q].observed_at /\ p < q
  IN  Listed(batch, Arranged(places, {pair \in places \X places : Before(pair[1], pair[2])}))

-----------------------------------------------------------------------------
(* dedupe_by_correlation_key.                                              *)

PlacesOf(batch, key) == {p \in DOMAIN batch : batch[p].key = key}

\* related_event_refs of what the base stands in for, without the base
CollapsedOthers(members) ==
  [members[1] EXCEPT !.refs = {members[k].id : k \in 2..Len(members)},
                     !.first_seen = members[1].observed_at,
                     !.last_seen = members[Len(members)].observed_at,
                     !.occurrence_count = Len(members)]

\* the oldest event of the activity, with the references of all of them
Collapsed(members) ==
  [members[1] EXCEPT !.refs = {members[k].id : k \in DOMAIN members},
                     !.first_seen = members[1].observed_at,
                     !.last_seen = members[Len(members)].observed_at,
                     !.occurrence_count = Len(members)]

\* the places kept: every event without a key, and the first to arrive of each key
Leads(batch) ==
  {p \in DOMAIN batch : batch[p].key = None
     \/ \A q \in PlacesOf(batch, batch[p].key) : p <= q}

\* collapsing only what also names the same asset
DedupePerAsset(batch) ==
  LET Same(e) == {p \in PlacesOf(batch, e.key) : batch[p].asset_id = e.asset_id}
      kept == InArrivalOrder(batch, {p \in DOMAIN batch :
                batch[p].key = None \/ \A q \in Same(batch[p]) : p <= q})
  IN  [k \in DOMAIN kept |->
         IF kept[k].key = None THEN kept[k] ELSE Collapsed(SortedByTime(batch, Same(kept[k])))]

DedupeByCorrelationKey(batch) ==
  LET kept == InArrivalOrder(batch, Leads(batch))
  IN  [k \in DOMAIN kept |->
         IF kept[k].key = None THEN kept[k]
         ELSE Collapsed(SortedByTime(batch, PlacesOf(batch, kept[k].key)))]

-----------------------------------------------------------------------------
(* group_by_asset_and_window.                                              *)

\* the events of one asset in the order they are walked in
OfAssetAsArrived(events, asset_id) ==
  InArrivalOrder(events, {p \in DOMAIN events : events[p].asset_id = asset_id})

OfAsset(events, asset_id) ==
  SortedByTime(events, {p \in DOMAIN events : events[p].asset_id = asset_id})

\* the places where the gap with the event before exceeds the window, and the first
Openings(events) ==
  {k \in DOMAIN events :
     k = 1 \/ events[k].observed_at - events[k - 1].observed_at > Window}

\* from an opening to just before the next one
GroupAt(events, opening) ==
  LET later == {k \in Openings(events) : k > opening}
  IN  SubSeq(events, opening, IF later = {} THEN Len(events) ELSE Min(later) - 1)

\* asset_id None is grouped as "unknown"
GroupByAssetAndWindow(events) ==
  UNION {LET mine == OfAsset(events, asset_id)
         IN  {GroupAt(mine, opening) : opening \in Openings(mine)} :
         asset_id \in {events[p].asset_id : p \in DOMAIN events}}

-----------------------------------------------------------------------------
(* build_incident_payload.                                                 *)

\* the severity of the first member
SeverityOfFirst(members) == members[1].severity

SeverityOfMembers(members) ==
  Severities[Max({SeverityRank(members[k].severity) : k \in DOMAIN members})]

\* of the members themselves: what else a collapsed one refers to is not read
BuildIncident(members) ==
  [member_event_ids |-> [k \in DOMAIN members |-> members[k].id],
   timeline |-> [k \in DOMAIN members |-> members[k].observed_at],
   entities |-> {members[k].asset_id : k \in DOMAIN members} \ {None},
   severity |-> SeverityOfMembers(members),
   evidence_refs |-> {members[k].id : k \in DOMAIN members}]
=============================================================================

--------------------------- MODULE DetectionPipeline ---------------------------
(***************************************************************************)
(* From raw events to incidents.  Connectors report an alert as often as   *)
(* they like; the normalizer, whose memory a restart loses, makes events   *)
(* of them; the events reach the correlator's caller in any order, and the *)
(* caller correlates what it has whenever it likes.  What it has is also   *)
(* the history a rule is backtested on before it may be deployed.          *)
(***************************************************************************)
EXTENDS RuleEngineering

CONSTANTS
  RawEvents,    \* what connectors report: [source, native_ref, severity_native, asset_id, sid,
                \* source_ip, user, key]; key is the correlation_key the caller will attach, or None
  Rules,        \* rules backtested (RuleEngineering)
  MaxEvents,    \* bound: events accepted in one behaviour
  MaxRestarts,  \* bound: restarts of the normalizer in one behaviour
  MaxTime       \* bound: the clock

ASSUME PipelineBounds == MaxEvents \in Nat /\ MaxRestarts \in Nat /\ MaxTime \in Nat

VARIABLES
  seen,      \* Normalizer._seen
  events,    \* the events accepted, in order; an event's id is its place
  started,   \* how many had been accepted when the normalizer last started
  restarts,  \* restarts so far
  now,       \* utc_now_iso()
  pending,   \* the ids that reached the correlator's caller, in the order they did
  reached,   \* the ids that ever did
  incidents  \* per batch correlated: the ids handed over, and the incidents built of them

vars == <<seen, events, started, restarts, now, pending, reached, incidents>>

-----------------------------------------------------------------------------

\* process(): a duplicate raises RejectedEvent and changes nothing; so does what the schema
\* rejects, which may be reported again
Process(raw, valid) ==
  /\ DedupKey(raw) \notin seen
  /\ Len(events) < MaxEvents
  /\ seen' = SeenAfter(seen, raw, valid)
  /\ events' = IF valid THEN Append(events, SecurityEvent(raw, now)) ELSE events
  /\ UNCHANGED <<started, restarts, now, pending, reached, incidents>>

Restart ==
  /\ restarts < MaxRestarts
  /\ restarts' = restarts + 1
  /\ seen' = {}
  /\ started' = Len(events)
  /\ UNCHANGED <<events, now, pending, reached, incidents>>

Tick ==
  /\ now < MaxTime
  /\ now' = now + 1
  /\ UNCHANGED <<seen, events, started, restarts, pending, reached, incidents>>

Deliver(id) ==
  /\ id \notin reached
  /\ pending' = Append(pending, id)
  /\ reached' = reached \cup {id}
  /\ UNCHANGED <<seen, events, started, restarts, now, incidents>>

\* the caller marks the events with their keys
Batch ==
  [p \in DOMAIN pending |->
     LET e == events[pending[p]]
     IN  [id |-> pending[p], asset_id |-> e.asset_id, observed_at |-> e.observed_at,
          severity |-> e.severity, sid |-> e.raw.sid, source_ip |-> e.raw.source_ip,
          user |-> e.raw.user, key |-> e.raw.key, refs |-> {pending[p]},
          first_seen |-> e.observed_at, last_seen |-> e.observed_at, occurrence_count |-> 1]]

Correlate ==
  /\ pending # <<>>
  /\ incidents' = Append(incidents,
       [handed |-> Range(pending),
        told |-> {BuildIncident(group) :
                    group \in GroupByAssetAndWindow(DedupeByCorrelationKey(Batch))}])
  /\ pending' = <<>>
  /\ UNCHANGED <<seen, events, started, restarts, now, reached>>

Init ==
  /\ seen = {}
  /\ events = <<>>
  /\ started = 0
  /\ restarts = 0
  /\ now = 0
  /\ pending = <<>>
  /\ reached = {}
  /\ incidents = <<>>

Next ==
  \/ \E raw \in RawEvents, valid \in BOOLEAN : Process(raw, valid)
  \/ Restart
  \/ Tick
  \/ \E id \in DOMAIN events : Deliver(id)
  \/ Correlate

Spec == Init /\ [][Next]_vars

-----------------------------------------------------------------------------
(* Properties.                                                             *)

\* <<incident, place>>: what some incidents list
ListedBy(told) ==
  UNION {{<<incident, k>> : k \in DOMAIN incident.member_event_ids} : incident \in told}

ListedId(m) == m[1].member_event_ids[m[2]]

\* what is listed tells of an event: it is the event, or the oldest of its activity
TellsOf(m, id) ==
  LET listed == ListedId(m)
  IN  /\ \/ listed = id
         \/ events[id].raw.key # None /\ events[listed].raw.key = events[id].raw.key
      /\ events[listed].observed_at <= events[id].observed_at

\* Type invariant.
TypeOK ==
  /\ seen \subseteq {DedupKey(raw) : raw \in RawEvents}
  /\ \A i \in DOMAIN events :
       /\ events[i].raw \in RawEvents
       /\ events[i].observed_at \in 0..now
       /\ events[i].severity \in Range(Severities)
  /\ started \in 0..Len(events)
  /\ restarts \in 0..MaxRestarts
  /\ now \in 0..MaxTime
  /\ Range(pending) \subseteq reached /\ reached \subseteq DOMAIN events
  /\ \A batch \in Range(incidents) :
       /\ batch.handed \subseteq reached
       /\ \A incident \in batch.told : incident.evidence_refs \subseteq batch.handed

\* The normalizer delivers once per alert (process): OncePerKey, where what is delivered are
\* the events since it started and what it refuses is _seen.  A repeated alert never gives two
\* events, and one the schema rejected is not lost when it is reported again.
Alerts == INSTANCE OncePerKey
  WITH Keys <- {DedupKey(raw) : raw \in RawEvents},
       delivered <- [i \in 1..(Len(events) - started) |-> DedupKey(events[started + i].raw)],
       refused <- seen
OneEventPerAlert == Alerts!Spec

\* "No reference is ever lost" (docstring of dedupe_by_correlation_key): of the batch that
\* waits, each event would be referred to by exactly one of those that are left; and of each
\* batch correlated, each event is told of by exactly one event that one incident lists,
\* which is the event itself or the oldest its activity had in the batch, whatever the order
\* of arrival and however the rest was collapsed and grouped.
EveryEventAccountedOnce ==
  /\ LET deduped == DedupeByCorrelationKey(Batch)
     IN  \A id \in Range(pending) :
           Cardinality({k \in DOMAIN deduped : id \in deduped[k].refs}) = 1
  /\ \A batch \in Range(incidents) : \A id \in batch.handed :
       Cardinality({m \in ListedBy(batch.told) : TellsOf(m, id)}) = 1

\* "One activity is not turned into several incidents" (module docstring): of a batch at most
\* one incident tells of a correlation key, also when its events name several assets.
OneIncidentPerActivity ==
  \A batch \in Range(incidents) : \A m, n \in ListedBy(batch.told) :
    LET key == events[ListedId(m)].raw.key
    IN  key # None /\ key = events[ListedId(n)].raw.key => m[1] = n[1]

\* The sliding window splits the events of an asset where it should, however late they
\* arrive (group_by_asset_and_window): inside an incident no gap exceeds the window, and two
\* incidents of a batch about one asset are further apart than the window.
WindowSeparates ==
  \A batch \in Range(incidents) : \A a, b \in batch.told :
    /\ \A k \in 2..Len(a.timeline) : a.timeline[k] - a.timeline[k - 1] \in 0..Window
    /\ a # b /\ a.entities = b.entities =>
         \A k \in DOMAIN a.timeline, l \in DOMAIN b.timeline :
           a.timeline[k] - b.timeline[l] > Window \/ b.timeline[l] - a.timeline[k] > Window

\* No alert is played down on the way to an incident (normalize_severity,
\* build_incident_payload): the incident is as severe as each alert it lists as a member
\* when its source says so in the common scale.
SeverityNotUnderstated ==
  \A batch \in Range(incidents) : \A m \in ListedBy(batch.told) :
    LET said == events[ListedId(m)].raw.severity_native.text
    IN  (\E i \in 1..4 : Severities[i] = said) =>
          SeverityRank(said) <= SeverityRank(m[1].severity)

\* "The same temporal grouping as the correlator's" (docstring of backtest.py): whatever the
\* order of arrival, a rule that correlates by asset alone alerts once for each group the
\* correlator would make of the events it matches that has its frequency; one that also looks
\* at the address or the user only ever splits those groups.
BacktestFollowsCorrelator ==
  \A rule \in {r \in Rules : r.frequency \notin {None, 0} /\ r.timeframe = Window /\ Window > 0} :
    LET matched == Matched(Batch, rule)
        correlated == GroupByAssetAndWindow(matched)
    IN  /\ ~rule.same_source_ip /\ ~rule.same_user =>
             RunBacktest(Batch, rule).estimated_alerts =
               Cardinality({g \in correlated : Len(g) >= rule.frequency})
        /\ \A g \in GroupByKeyAndWindow(matched, rule) :
             \E c \in correlated : Range(g) \subseteq Range(c)

\* A rule the gate lets pass causes no alert storm (authorize_deployment): on the history it was
\* backtested on, no hour, wherever it begins, has more than twice the events the gate allows
\* per hour of the clock, however few alerts were estimated.
AuthorisedRuleIsQuiet ==
  \A rule \in Rules : \A max \in 1..MaxEvents :
    AuthorizeDeployment("CONFIRMED_THREAT", RunBacktest(Batch, rule), TRUE, max) =>
      \A from \in 0..now :
        LET matched == Matched(Batch, rule)
        IN  Cardinality({p \in DOMAIN matched :
              matched[p].observed_at \in from..(from + HourLength - 1)}) <= 2 * max
=============================================================================

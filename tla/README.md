# A TLA+ model of argos-core

argos-core is the control core of ARGOS: it turns alerts into incidents, reconciles what is
known of the assets, decides which response may be evaluated, exchanges artifacts with other
instances, and leaves a tamper-evident trail. This directory holds TLA+ modules of the parts
that carry that logic, TLC configurations that check them on small instances, and proofs,
checked by TLAPS, of every safety property the runs check.

    tlc -workers 2 -config Federation_intake.cfg MCFederation
    tlapm FederationProofs.tla

`PROJECT.json` lists the runs, the definitions with the source lines they translate, the known
hazards of the code, the findings, and for each checked property a small plausible change of
the code that breaks it. Such a variant is defined just before the definition it varies, with
a name that tells how it differs; no specification uses it.

## 1. The system

The services are Python packages under `src/services`. None of them starts a thread or a loop:
each is a class or a set of functions that a caller outside the repository (workers on NATS,
the SmartOps gateway, tests) invokes. What happens between two calls (another call, a change of
the world, the end of the process), and inside a call that calls back (the event bus), is
therefore where the difficulty lies.

| Component | State it keeps | Operations | Hard behaviour | What makes it correct |
|---|---|---|---|---|
| Transparency log (`evidence_root/transparency_log.py`) | entries in memory; optionally a JSONL file | append, load_log, verify_chain, issue_receipt, verify_receipt | crash or failed write between memory and file; reopening; edits of the file | the chain of an unedited file breaks only where a line was lost; a receipt certifies the history before it |
| Evidence root, replay, writer; evidence of federation and mission | contents and manifests in a store, the root | write_bytes, build_evidence_root, verify, replay_and_verify | partial checks that must add up; a crash between evidence, root and log | a root in critical mode stands for all that was written; a genuine run replays as VERIFIED, an edited one does not |
| Safety kernel, independent verifier, policy adapter, mission context | sealed envelopes and decisions, held by the caller | evaluate, verify, decide, assess_blast_radius | facts change between the barriers; facts missing; several requests under way | nothing passes that is irreversible, out of scope, stale or someone else's |
| Federation intake (`decision`, `ledger`, `revocation`, `transport`) | ledger, revocations, inbox | send, receive, revoke, evaluate_federation | duplicates, reissues, expiry, revocation in any order | one content per identifier; only what is current is accepted |
| Cross-domain transfer (`ifc`, `sanitizer`, `cross_domain_transfer`) | none; copies are held by domains | evaluate_ifc, apply_sanitization, request_cross_domain_transfer | chains of transfers; several rules on one field | no level is lowered and nothing untrusted leaves without approval |
| Temporal knowledge | facts with four times each | add_fact, supersede, query_at | observation and validity dated by the caller, late, back or ahead; superseding as of the past | the answer about a past time changes only by a claim about that time |
| Asset reconciler, semantic conflict | none; the caller keeps snapshots | reconcile, resolve_conflict, build_asset_snapshot_payload, detect_drift | order of arrival; a source contradicting itself | the governed value wins, no conflict is silent |
| Normalizer | memory of duplicates | process | rejection after the key was taken; restart | one event per alert, none lost |
| Correlator | none | dedupe_by_correlation_key, group_by_asset_and_window, build_incident_payload | late and reordered events, activities over several assets | each event told of once, by itself or the oldest of its activity; the window splits where it should |
| Rule engineering, backtest | none | run_backtest, authorize_deployment | windows and hours at their boundaries; a second copy of the grouping | the backtest groups as the correlator does; what the gate lets pass is quiet |
| Vulnerability adapter | memory of duplicates | normalize_trivy_finding | validation after the key was looked up; restart | one finding per asset, CVE and package, none lost |
| Semantic graph, mission decision record | entities by identifier, relations; the record | entity_from_*, relation_*, add_entity, add_relation, snapshot_hash, build_mission_decision_record | graphs built in any order and changed after the decision | the hash in a record tells what was known |
| Event bus (`libs/argos_events`) | handlers, published messages | publish, subscribe | handlers publish, subscribe and raise while publish walks them | each handler of the audience gets each message |
| Investigator | none | plan_next_context_level, should_trigger_new_investigation, is_signal_tombstoned, build_threat_assessment | its own candidates come back to it; tombstones expire | the ladder ends, foreign signals are assessed, ARGOS does not feed itself |
| SOC adapter, DMZ detector, risk engine, recommendation | none | conversions and scores | one bad item in a batch | |
| Connectors, telemetry, testing, scripts, deployment | none | stubs, I/O, configuration | none | |

How they meet: connectors give raw events to the normalizer; its events reach the correlator by
the bus or a broker, in no promised order; the same events are the history rules are backtested
on; incidents go to the investigator, which listens and publishes on the bus, and to the
recommendation; snapshots, findings and incidents become the semantic graph a decision is
recorded with; a proposed action goes to the safety kernel, whose envelope goes to the
independent verifier and then to the policy decision; the mission context is read by both
barriers, and the semantic conflicts of the reconciler and of federation reach them as facts.
Every decision leaves evidence, whose root is recorded in the transparency log. Federation takes
in artifacts of other instances and releases copies to other domains.

## 2. Modules

| Module | Models | State and actions, and the code they stand for |
|---|---|---|
| `Ordering` | Python's `sorted` | pure: the elements of a set in an order, each at the place its predecessors leave it |
| `AppendOnlyLog` | what a transparency log promises | `history` only grows, numbered and with unique event ids |
| `TransparencyLog` | `transparency_log.py` | `entries` is `_entries`, `file` the JSONL lines, `torn` a line cut short; `AppendEntry`, `AppendWriteFails`, `AppendCrash`, `LoadLog`, `OpenPersisting`, `IssueReceipt`, and the edits of the file |
| `EvidenceRoot` | `evidence_writer`, `evidence_root`, `replay.py` | pure: manifests, references, the root, the replay with its early returns in order |
| `EvidenceTrail` | the two above composed | `store` is contents and manifests, `root` the root, `sealed` both as they were then; `WriteEvidence`, `AggregateEvidence` of what a caller declares (some manifests missing, one repeated), `RecordDecision`, every operation of the log, failed writes included (`Log`), and `EditContent` of its file |
| `MissionContext`, `SafetyKernel`, `IndependentVerifier`, `PolicyAdapter` | one service each | pure: inputs are records, results the decision and the envelope; a check is TRUE, FALSE or `None` as in the code |
| `ResponsePipeline` | their composition | `world` is what callers query; `SealEnvelope`, `VerifyRequest` and `AdmitAction` are the three barriers; `WorldChanges` happens between any two |
| `Sanitizer`, `CrossDomainTransfer` | `sanitizer.py`, `ifc.py`, `cross_domain_transfer.py`, `security_domain.py` | pure: payloads are functions from field paths to values |
| `Federation` | intake and chains of transfers | `inbox` is the transport, `ledger` and `revoked` the registries, `holdings` the copies each domain has |
| `TemporalKnowledge` | `temporal_knowledge` | `facts` is `_facts`; `AddFact` of what `MakeFact` makes of a caller's `observed_at`, `valid_from` and `valid_until`, each given or not; `Supersede` as of any time; `Tick` |
| `SemanticConflict`, `AssetReconciler` | the services of those names | `reports` is the list of fragments; `BuildAssetSnapshot` is the whole chain to the snapshot with its defaults; `KeepAsDesigned` the caller that compares later |
| `OncePerKey` | what a service that drops duplicates promises | `Deliver` once per key until `Forget`; what is refused is what was delivered |
| `Normalizer`, `Correlator`, `RuleEngineering` | the services of those names | pure: the severity scale, what is remembered, collapsing, grouping, the incident, the backtest and the gate |
| `DetectionPipeline` | from raw events to incidents | `seen` is `_seen`; `incidents` has for each batch what was handed over and what was told of it; `Process`, `Restart`, `Deliver`, `Correlate`; `Batch` is what the correlator is given and rules are backtested on |
| `EventBus` | `libs/argos_events` | `handlers` is `_handlers`, `calls` the calls of `publish` in progress, innermost last; `Publish`, `Subscribe`, `CallHandler`, `PublishReturns`, `HandlerContinues`, `HandlerReturns`, `HandlerRaises` |
| `Investigator` | `investigator` | pure: the next context level, what starts an investigation, tombstones |
| `SignalLoop` | investigators on the bus | `Source`, `Screen`, `Expand`, `Conclude` (which publishes the candidate from inside the delivery), `Finish` of any other handler, `Deliver`; `Source` publishes from outside or from inside another handler |
| `VulnerabilityAdapter`, `SemanticGraph` | the services of those names | pure: the key, validation, entities, relations, the hash |
| `MissionRecord` | both, and `build_mission_decision_record` | `graphs`, the `entities` and `relations` made, `records`; `NormalizeTrivyFinding`, `AddEntity`, `Relate`, `AddRelation`, `Replace`, `RecordMissionDecision` |
| `MC*` | small instances | constants only |
| `*Proofs` | theorems | section 6 |

Conventions. SHA-256 is injective: a digest is the value that was hashed, or the sequence of
values for a chain. `None` is a model value. Generated identifiers are fresh (`nextId`, the
place in a sequence). A time is a number and `utc_now_iso` the variable `now`; the code compares
ISO strings, which order like the times as long as all have one format, as `utc_now_iso` gives
them. Schema validation needs the `argos-contracts` repository, which is not here: its verdict
is an input where something depends on it (`valid` in `Process`, `incident_valid` of a request), and
passing elsewhere. Texts,
reasons and the envelope fields nobody compares are left out.

Decisions a reader may question:

- `StructuralGaps`: the kernel has two checks that are constant `None` (runbook signature,
  runtime trust), so `evaluate` never reaches `SAFE_TO_EVALUATE`. The repository's vertical
  slice tests waive them and seal the envelope themselves; `SealEnvelope` has both ways
  (`waived`), and only the second seals.
- What `sorted` returns is defined by counting (`Arranged`), not by enumerating orders: it is
  what the key and the stability of the sort fix, and it can be reasoned about. The rules of a
  sanitization, the events of a batch and of a group are ordered with it.
- A payload of federation is a function from paths to values, one or two levels deep as the rules
  of the tests address it; removing a dictionary removes what is below it.
- The claims and fragments of the reconciler are functions from places, so that the fragments of
  one asset keep the order of the list.
- A rule with frequency or timeframe 0 declares no correlation (`if frequency and ...`), as one
  with `None`.
- The execution gateway is outside the repository. `AdmitAction` does what its envelope and
  policy APIs are for: asks `action_request_within_envelope` and the policy decision point.
- `request_cross_domain_transfer` returns the hash of the sanitized payload. `Transfer` gives the
  destination the payload that has this hash, as the caller that releases it must.
- The caller of the correlator attaches `correlation_key` and calls collapse, grouping and
  incident building in this order, once per batch (`Batch`, `Correlate`). The module docstring of
  the correlator gives the reason for the order: an activity is not to become several incidents.
- An event a caller has handed over is not handed over again (`reached`): the bus delivers once.
- The handler that calls the investigator's functions is the deployment's (`BLOCKED_EXTERNAL` in
  the investigator's docstring). `SignalLoop` calls them in the order of that docstring: guard,
  tombstones, levels, assessment; and publishes the candidate on the subject the signal came on,
  the one arrangement in which ARGOS could feed itself. Other handlers are arbitrary: they publish
  (`Source`), subscribe, raise or return.
- `Call` is not an object of the code but its stack: one record for each `publish` in progress.
- What is logged of a run, and when, is the caller's: an action once its result is evidence, the
  root once it exists (`Logged`), the order the vertical slice tests use. A root is built once per
  run. `RecordDecision` stands for both evidence services, which do the same with their record.
- A new entity object under an old identifier is made with `dataclasses.replace`, as the tests of
  the graph do (`Replace`).

## 3. Runs

| Run | What it asks | Bounds and why they suffice |
|---|---|---|
| `log_reopen` (violation) | may a log be opened on an existing file | 2 events: one in each life |
| `receipt_over_a_break` (violation) | does a receipt that verifies cover an intact chain | 1 artifact, up to 4 events, 1 edit of one line |
| `missing_hash` (violation) | may a fact that was not supplied be verified | as `response_pipeline` |
| `evidence_trail` | what no one edited survives failed writes, crashes and reloads, as a refinement of `AppendOnlyLog`; do replay, receipts and chain tell a genuine trail from an edited one | 2 artifacts of 2 contents that may be equal, so that identifiers and digests differ (the contents are interchangeable: symmetry); roots built of any declaration, with manifests missing or one repeated; 3 events: before, at and after the one of the root, or two lost and one written; 1 edit of the file: a line removed, or its object or sequence rewritten, rehashed or not; each single edit of store and root at every state |
| `response_pipeline` | the barriers over a changing world | 2 targets, 2 incidents and one the schema rejects, 3 tools (reversible, read-only, destructive), 2 changes, 1 envelope that any request may try, 1 unqueried fact per call; blast radius 0, at the limit and above it |
| `federation_intake` | duplicates, tampering, reissue, expiry, revocation | 5 artifacts of which 4 share an identifier, 3 sends, a time past the expiry; transfers are left to the next run |
| `federation_release` | chains of transfers | 4 domains on two levels, 3 label classes, 3 rule sets with overlapping rules, up to 3 copies: two hops out and back down |
| `temporal_knowledge` | what can change an answer about the past | 2 facts, for an answer is a choice between two; 3 times: one that has passed, one that is now, one to come; observed, valid and superseded at any of them; 2 subjects that are interchangeable (symmetry; the properties treat them alike) |
| `asset_reconciler` | order of reports, authority | 3 sources, 3 reports, a source that contradicts itself, no ranking, a strict one, a tie, a partial one |
| `detection_pipeline` | each alert told of once; does the backtest agree with the correlator | 4 alerts, 3 events, window 1 in times 0 to 3, an hour of 2, 1 restart: late arrival, a gap over and exactly at the window, an activity over two assets, a burst over the turn of an hour; 4 rules with and without frequency and finer key |
| `signal_loop` | nesting, exceptions, growing lists, feedback; does publish return | a foreign signal and a foreign candidate, a tombstone that expires, 2 signals, 3 subscriptions of an investigator and any other handler (two investigators and an observer, in each order), 8 messages, as many as 2 signals and the candidates of 3 investigators can be, so that no behaviour is cut there |
| `mission_record` | does a hash tell what was known; once per finding | 2 graphs (symmetry: nothing tells them apart), 2 entities, 2 relations, each listed twice at most, 1 entity replaced, 1 record, 1 restart, a finding that fails validation and is corrected: the smallest graphs that differ in order, in number and in one attribute |

All bounds are constants (`Max*`) in the guards of the actions; every behaviour ends at its
bounds, hence `CHECK_DEADLOCK FALSE`: the services are passive and stop when nobody calls.

### What the violations show

- `log_reopen`: `TransparencyLog(persist_path=p)` does not read `p`. If the file has entries, the
  new ones start again at sequence 0 and `GENESIS_HASH`, and the file no longer verifies though
  nobody edited it. `load_log` drops the path, so there is no way to continue a file.
- `receipt_over_a_break`: when the chain is broken, `verify_receipt` asks whether the first broken
  entry comes after the receipt's, and takes the sequence *stored* in that entry for its place. A
  line edited to say a later sequence is believed: the receipt of that very entry still verifies,
  against the docstring ("sigue siendo íntegra hasta ese punto"). It takes no edit: after writes
  that failed, the file begins at a later sequence; reloaded, its first entry is broken, the next
  one is appended at a lower sequence, and its receipt verifies (`ReceiptCoversIntactChain` is
  violated in both ways). `ReceiptPinsHistory`, checked and proved with the same edits, says that
  there is no other way past a receipt.
- `missing_hash`: `_check_mission_constraints` compares the fresh hash of the mission context with
  the sealed one only if the caller supplies it; without it the check may pass and the verifier say
  VERIFIED, against its docstring ("UNKNOWN nunca se convierte en VERIFIED", "nunca en True").
  `OnlyTheHashMayBeMissing`, checked and proved, says that it is the only such fact.

### Seen while modelling, without a run

- A failed write followed by a successful append leaves a gap in the file, which then does not
  verify although no one edited it; `ChainIntact` says that this is the only way it comes about.
  A torn line makes the whole file unloadable.
- What was observed when is the caller's word: `make_fact` takes any `observed_at`. A fact added
  late and dated back changes what the base says ARGOS knew then, though it did not have the fact
  ("ARGOS no podía saberlo todavía", says the docstring of what was not observed). So
  `PastAnswersHold` is stated of facts dated when they are added or later, and
  `OnlyClaimsOfThenRewrite` of all facts.
- A transfer with outcome `SANITIZE` and no rules is released as it is, though `ifc.py` says never
  raw. The origin domain of an artifact is not compared with the remote domain the caller names.
- An envelope's `valid_until`, `envelope_hash` and `signature` are read by nobody here.
- A rejected artifact takes its identifier in the ledger for good; ledger and revocations are in
  memory only.
- Replay compares the manifests with the contents, but neither with the digests in the root, nor
  the root with the hash its event recorded: contents and manifests rewritten together replay as
  VERIFIED. `OneEditIsTold` is about single edits and makes its one exception explicit.
- `publish` walks the live list and calls handlers in the thread of its caller: one that
  subscribes, or publishes on its own subject, at every call keeps it for ever. No code stops it,
  so `EveryPublishReturns` is conditional (section 5).
- A field the reconciler omits for want of authority gets a default value right after.
- Superseding a fact again, or as of a time that has passed, changes earlier answers; the method
  refuses neither, and no document says that callers may not.
- An activity collapsed to its oldest event keeps that event's severity and asset only. The
  references to the other events stay in the collapsed event's `correlation` and do not reach the
  incident, which lists the oldest alone (`test_correlator.py`, lines 170 to 171): which events it
  stands for, the incident does not say. Collapsing what was collapsed before loses the references
  of the first time.
- The deployment gate reads the backtest and not the rule; `max_alerts_per_hour` counts clock
  hours, so an hour that begins elsewhere may have twice as many (`AuthorisedRuleIsQuiet`).
- The entity made of a finding keeps neither its asset nor its package.

## 4. Properties

Each is stated in a comment where it is defined. The ones that take several steps of several
actors to break: `ReceiptPinsHistory` (append, failed write, receipt, exit, edit, load),
`GenuineTrailVerifies` (write, aggregate, log, crash, reload, replay), `AcceptSurvivesRetry` (two
senders and a retry),
`DowngradeOnlyApproved` (chains of transfers), `VerifiedOnlyWhenActionable` and
`VerifiedContextIsSealed` (changes between the barriers), `PastAnswersHold` and
`OnlyClaimsOfThenRewrite` (knowledge dated late, back and ahead, superseding in and out of time),
`DriftSeesTheAuthority` (two snapshots), `EveryEventAccountedOnce` (rejection, restart,
reordering, collapse), `AudienceServed` and `OvertakenOnlyByNested` (nested publication,
subscription, exception), `ForeignSignalIsAssessed` and `CandidatesNeverCascade` (two
investigators, a tombstone and the clock), `RecordTellsWhatWasKnown` (two graphs, a record and a
later change).

`BacktestFollowsCorrelator` compares two implementations of one grouping, that of the backtest
and that of the correlator. `SeverityNotUnderstated` speaks of an incident's members, not of the
events collapsed into a member: for those the code makes no such promise. `EveryEventAccountedOnce`
has two parts, for there are two records to go by: in what is left of a batch after collapsing, the
references to each event are in exactly one event; and in the incidents, which have no references,
one listed event is that event or the oldest of its activity.

Refinements: `DurableLogSpec` (each step that is not an edit by hand leaves what is on disk an
`AppendOnlyLog`, whatever writes fail), `OneEventPerAlert` and
`OneFindingPerPackage` (normalizer and vulnerability adapter are each a `OncePerKey`, though one
takes its key before validation and gives it back, and the other takes it after).

## 5. Fairness

`signal_loop` alone states fairness, in `FairSpec`: weak fairness of `Deliver` (the loop of
`publish` runs in the thread of its caller and has nothing to wait for), `Investigate` and
`Finish` (handlers are code that ends, by returning or by raising). Sources, subscribers and the
clock have none. `EveryPublishReturns` is what the bus and the investigators owe: *if* from some
time on no other handler publishes or subscribes any more, each outermost call of `publish` gives
its thread back. The condition is in the formula, not in the model: handlers that are not
investigators do publish and subscribe from inside a delivery, and the code would let them do so
for ever (`argos_events`, lines 43 to 47). `MaxSignals` and `MaxSubscriptions` make the state space
finite; every behaviour within them meets the condition, so what the run shows is only the
conditional property, for that many publications and subscriptions of others. What makes it true
is the guard against ARGOS's own candidates and the end of the ladder of levels; the mutant is a
ladder that starts again at L0.

No other liveness is claimed. No other code of the repository runs on its own: there is no
scheduler, retry loop or timer whose progress could be assumed, and whether a caller ever calls
again is not this code's to promise.

## 6. Proofs

For every value of the constants, under the `ASSUME`s of the modules: bounds are naturals, `None`,
`Idle` and `Missing` are none of the values they are told apart from, tombstones have times,
a catalogue has one tool of a name (`CatalogueAssumption`), requests name targets
(`TargetsAssumption`), the limit of the blast radius is a count there may be (`CountsAssumption`),
the local domain is a domain.

- `EvidenceTrailProofs`, first part: the log of a run, whose writes fail and whose file is edited.
  `LogInv` adds to the types what is left of the chain. A log that is being written to was written
  by `append` alone (`Appended`: numbered by place, linked, hashed, an event id of its own), and
  each line of its file is the entry the line's sequence names (`Mirrors`), in the order of
  sequences, with a digest over as many entries as its sequence says, verifying up to the first
  gap (`Kept`). The file stays `Kept` after the log is closed as long as no one edits it, and the
  entry of a receipt issued for what was on disk is still there (`Held`). `ChainIntact` alone is
  not inductive: the entry that goes to the file is linked to the last one in *memory*, which need
  not be on disk. From `LogAlways` follow `TypeCorrect`, `ChainStaysIntact`, `ReceiptsHold` (for a
  line at the place of its sequence no line before it was lost: `AtLeastPlace`, `NothingSkipped`)
  and, step by step, the refinement `DurableLogRefines`. `VerifiedReceiptPinsHistory` needs no
  invariant and no assumption: it is about any log at all, whoever wrote it and whatever its lines
  say of their sequence. It uses that a digest contains the digest before it and that a log that
  does not verify has a first broken entry (`FirstBroken`, by `LeastNat`). `ReceiptsPinHistory` is
  that, in every state. That two logs which verify and end alike are equal (`LastLineFixesLog`)
  gives `EditsBreakTheChain`.
- `EvidenceTrailProofs`, second part: the evidence. `TrailInv`: the identifier of an artifact is
  its place in the store, its manifest is that of its content, and a root built in critical mode
  refers to exactly what was stored then, for a declaration with a manifest missing or repeated is
  refused (`CriticalListsTheStore`). It says nothing of the log, so what follows holds whatever is
  done to the log. `ReplayTells` unfolds a replay into its checks; with it `GenuineTrailsVerify`
  is that all of them pass, and `EditsAreTold` that each edit fails one: a lost artifact that of
  the identifiers, an edited content or `sha256` that of the bytes.
- `ResponsePipelineProofs`. `Inv`: an envelope says for what and under which context it was sealed
  (`Seals`), and a verdict keeps that of its verification (`Verdict`). The core is `VerifiedTells`,
  about one call of the verifier: from VERIFIED alone, each of the nine checks passed on a fact
  that was supplied. The two action properties follow from it for the step that gives the verdict;
  the invariants need `Seals` to relate the envelope to its request. That the
  envelope keeps only the *name* of the tool is why the catalogue must have one tool of a name.
- `FederationProofs`. `LedgerInv`: whatever was accepted is recorded in the ledger with its hash,
  and its hash is that of its payload. With the injective hash, one content per identifier
  follows, and that a retry finds no conflict (`AcceptsSurviveRetry`). `LabelInv`: a copy without
  an approval has at least the level of its artifact and, if untrusted, has not left. Both release
  theorems follow for chains of any length. For what a copy holds, `SanitizationKeeps` is about
  `apply_sanitization` alone, with any rules in any order on any nested payload: no path appears, a
  child is only below its dictionary, nothing is left at or below a path it reports as removed. It
  goes step by step through the sorted rules (`Results` is a recursive function; that it is what
  its equation says is `RecordExists`, by the least number for which it could fail). `CopyInv` then
  carries through any chain of transfers that a copy has nothing at or below what was ever removed
  from it (`RemovedStaysRemoved`); that needs the nesting, since a removed child could otherwise
  come back with its parent. `CallInv` is the rest of `FederationTypeOK`.
- `AssetReconcilerProofs`. `IInv`: each of the two snapshots is `reconcile` of the fragments of its
  asset among those reported when it was built, and the one as built was built from no fewer than
  the one as designed. The rest is about `reconcile` on any fragments: `ClaimsTell` (each source is
  listed once, with its last word), `ConflictIsDisagreement` (a field is in conflict exactly if the
  last words differ), `AuthorityDecides` (`resolve_conflict` names a winner exactly if all
  claimants are ranked and the highest agree). From these `SnapshotsAreGoverned` and
  `ConflictsAreTold`; for `AuthorityDriftIsSeen`, that the authority's word is in both payloads and
  no default is in its place (`AuthorityHasIt`).
- `TemporalKnowledgeProofs`. `TypeOK` is inductive and enough, and says nothing of which time a fact
  was observed at. The answer to a question is the latest of the facts in force then; a step changes
  which facts these are only by one that is superseded, or said to be observed, as of then:
  `RewritingIsClaimed`, for all callers. `PastIsSettled` follows for callers that date what they add
  and supersede as of now or later. `VersionsAreKept`: `supersede` loses nothing but the time a fact
  was superseded at before.
- `SignalLoopProofs`. Every step of the loop is one of six of the bus or leaves it alone
  (`NextIsBusStep`), so `BusInv` is proved of the bus first. `AudienceServed` is about calls that
  have returned and says nothing of those in progress; `BusInv` does: handlers up to the number
  `called` have heard the message of each call (`CalledHaveHeard`), once (`HeardOnce`), and the
  list only grows, so a loop that has come to its end has passed its whole audience. For the order
  it needs that calls are nested in the order of publication (`Nested`) and that every message
  later than one in progress was published inside its delivery, by a handler called no later than
  the last one (`LaterIsInside`). `LoopInv` adds what a handler at a stage is and has decided: one
  that just runs is no investigator (`OthersRun`), an investigator that has a level wanted its signal
  then (`BusyWereCalled`, `OwnAreScreened`), one inside of which others are called is at `told`
  (`OuterHaveTold`), hence what is published inside of an investigator's handling is inside that of a
  foreign signal (`InsideForeign`); and one that was called and is done has assessed its signal or
  declined it rightly (`CalledAreDone`).
- `DetectionPipelineProofs`. `ArrangedLists` is what everything about order rests on: `Arranged`
  lists each element once, in the order given, when that order is strict and total. Hence
  `SortedLists` and `ArrivalLists`. `GroupSpan`, `InSomeGroup`, `InOneGroup` say that the groups of
  a list partition it into intervals; `NoGapInside` and `GapBetween` where they are cut;
  `DedupeTells` that collapsing keeps each reference in exactly one event and leaves one event per
  key; `Stands`, that one event left of a batch is another or the oldest of its activity; and
  `BatchAccounted` that each event of a batch is stood for in one place of one group. `ToldWell` says
  of a batch and its incidents, over the list of events, all that the properties say of one batch; it
  holds when the batch is correlated (`BatchTold`) and stays when the list goes on (`ToldStays`).
  `PipelineInv` is the types (`EventsInv`, `EventsTyped`), that what waits for the correlator are
  different events that reached it (`PendingTyped`), and that every batch is told well. It gives
  `TypeCorrect`, `EventsAreAccounted`, `ActivitiesGiveOneIncident`, `WindowsSeparate` and
  `SeverityIsKept`.
  `RunsAreGroups` shows that the backtest's grouping, a definition of its own, cuts where the
  correlator's does; `GroupsByAsset` and `GroupsRefine` make `BacktestIsTheCorrelators` of it.
  `AuthorisedRulesAreQuiet` is that a window as long as an hour meets at most two hours of the
  clock (`TwoHours`), neither with more events than the busiest (`BusiestHour`).
  The refinement of `OncePerKey`, `AlertsGiveOneEvent`, needs that the events since a restart are
  a suffix of a list that only grows (`EventsInv`, `ToldAppend`).
- `MissionRecordProofs`. `RecordInv`: a graph holds entities under their own identifiers and only
  relations that were made, no two relations share an identifier, and so it is for the graph in
  each record. Then entities hash alike exactly if they say the same (`SameEntities`), and lists of
  relations if each relation is in them as often (`SameRelations`, which counts: `ContentCounts`);
  together `HashTells`, and `RecordsTell`. The refinement `FindingsAreDeliveredOnce` needs no
  invariant.

Every safety property of a passing run is the statement of a theorem. Model-checked only:
liveness, which is out of the prover's reach, so `EveryPublishReturns` under `FairSpec`; and the
three violations, which are counterexamples. The library's induction theorems cannot be used (they
take a predicate as a parameter), so the proofs that go through a list or a recursive function
take a least counterexample instead (`LeastNat`). No module here declares a `RECURSIVE` operator.

## 7. Not modelled, and the plan

Not modelled: see the components of `PROJECT.json` with their reasons; in short, what is stateless
conversion or scoring (SOC adapter, DMZ detector, risk engine, recommendation, the XML of a
rule), I/O, or raises `NotImplementedError` (`OPAClient`, the LangGraph engine, the NATS bus,
`compile_decoder_spec_to_xml`, the connectors); a restart of the federation registries, which are
in memory only; concurrent access to one object by several threads, which the code does not
provide for.

Plan, in this order:

1. *Done*: the log and its refinement; the response pipeline; federation; temporal knowledge; the
   reconciler; detection and backtest; the evidence trail; the bus with the investigators; the
   graph and the mission record; the proofs above.
2. *Done*: a theorem for each safety property of each run.
3. Proofs of what the runs do not state: that `load_log` after edits rejects what `verify_chain`
   rejects; the order of `resolve_conflict`'s four outcomes; that no operation of a graph leaves a
   relation dangling.
4. `DetectionPipeline` on `EventBus`, with the DMZ detector as a source that reports a batch.

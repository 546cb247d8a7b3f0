---------------------------- MODULE RuleEngineering ----------------------------
(***************************************************************************)
(* services/rule_engineering: what a rule would have done on the events of *)
(* the past, and the gate a rule passes before it is deployed.  A rule is  *)
(* [parent_rule_sid, frequency, timeframe, same_source_ip, same_user],     *)
(* frequency and timeframe None when no correlation is declared.           *)
(***************************************************************************)
EXTENDS Correlator

CONSTANT HourLength   \* of a clock hour, in ticks of the clock

ASSUME HourAssumption == HourLength \in Nat \ {0}
ASSUME NoneAssumption == None \notin Nat

\* a rule without a parent matches the events that no rule produced
Matched(events, rule) ==
  InArrivalOrder(events, {p \in DOMAIN events : events[p].sid = rule.parent_rule_sid})

\* _correlation_key
CorrelationKey(event, rule) ==
  <<event.asset_id,
    IF rule.same_source_ip THEN event.source_ip ELSE None,
    IF rule.same_user THEN event.user ELSE None>>

\* variant of Apart: a gap of exactly the timeframe opens a group
ApartAtTimeframe(members, k, rule) ==
  members[k].observed_at - members[k - 1].observed_at >= rule.timeframe

Apart(members, k, rule) ==
  members[k].observed_at - members[k - 1].observed_at > rule.timeframe

\* the runs of events of one key in which no gap exceeds the timeframe, as long as can be
Runs(members, rule) ==
  LET n == Len(members)
      Whole(a, b) == /\ a = 1 \/ Apart(members, a, rule)
                     /\ b = n \/ Apart(members, b + 1, rule)
                     /\ \A k \in (a + 1)..b : ~Apart(members, k, rule)
  IN  {SubSeq(members, r[1], r[2]) : r \in {r \in (1..n) \X (1..n) : r[1] <= r[2] /\ Whole(r[1], r[2])}}

\* _group_by_key_and_window
GroupByKeyAndWindow(events, rule) ==
  LET Key(p) == CorrelationKey(events[p], rule)
  IN  UNION {Runs(SortedByTime(events, {q \in DOMAIN events : Key(q) = Key(p)}), rule) :
             p \in DOMAIN events}

\* 0 declares no correlation either
EstimatedAlerts(matched, rule) ==
  IF rule.frequency \in {None, 0} \/ rule.timeframe \in {None, 0} THEN Len(matched)
  ELSE Cardinality({g \in GroupByKeyAndWindow(matched, rule) : Len(g) >= rule.frequency})

Hour(event) == event.observed_at \div HourLength

\* events matched, not alerts: by the hour of the clock
MaxAlertsPerHour(matched) ==
  Max({0} \cup {Cardinality({q \in DOMAIN matched : Hour(matched[q]) = Hour(matched[p])}) :
                p \in DOMAIN matched})

RunBacktest(events, rule) ==
  LET matched == Matched(events, rule)
  IN  [events_matched |-> Len(matched),
       estimated_alerts |-> EstimatedAlerts(matched, rule),
       unique_assets |-> Cardinality({e.asset_id : e \in Range(matched)} \ {None}),
       unique_users |-> Cardinality({e.user : e \in Range(matched)} \ {None}),
       max_alerts_per_hour |-> MaxAlertsPerHour(matched)]

\* variant of AuthorizeDeployment: the volume compared is that of the estimate
AuthorizeByEstimate(decision, backtest_result, durable_approval_available, max_alerts_per_hour) ==
  /\ decision = "CONFIRMED_THREAT"
  /\ backtest_result # None
  /\ backtest_result.estimated_alerts <= max_alerts_per_hour
  /\ durable_approval_available

\* RuleDeploymentGate: the rule itself is not looked at
AuthorizeDeployment(decision, backtest_result, durable_approval_available, max_alerts_per_hour) ==
  /\ decision = "CONFIRMED_THREAT"
  /\ backtest_result # None
  /\ backtest_result.max_alerts_per_hour <= max_alerts_per_hour
  /\ durable_approval_available
=============================================================================

------------------------------ MODULE Normalizer ------------------------------
(***************************************************************************)
(* services/normalizer: a connector's raw event becomes a security event   *)
(* with a normalized severity, once per (source, native_ref).              *)
(***************************************************************************)
EXTENDS Integers

CONSTANT None   \* the value None of the source

Severities == <<"low", "medium", "high", "critical">>

SeverityRank(severity) == CHOOSE i \in 1..4 : Severities[i] = severity

\* _FALCO_PRIORITY_MAP, the priorities that are not already normalized
FalcoPriorities ==
  [emergency |-> "critical", alert |-> "critical", error |-> "high", warning |-> "medium",
   notice |-> "medium", informational |-> "low", debug |-> "low"]

\* _WAZUH_LEVEL_THRESHOLDS
WazuhSeverity(level) ==
  CASE level >= 13              -> "critical"
    [] level >= 10 /\ level < 13 -> "high"
    [] level >= 7 /\ level < 10  -> "medium"
    [] OTHER                     -> "low"

\* falling back on what the source said
NormalizeSeverityNative(source, native) ==
  IF source = "wazuh" /\ native.level # None THEN WazuhSeverity(native.level) ELSE native.text

\* native is [text, level]: the lower-cased text, and the number it reads as or None
NormalizeSeverity(source, native) ==
  IF \E i \in 1..4 : Severities[i] = native.text THEN native.text
  ELSE IF source = "wazuh" /\ native.level # None THEN WazuhSeverity(native.level)
  ELSE IF source = "falco" /\ native.text \in DOMAIN FalcoPriorities
  THEN FalcoPriorities[native.text]
  ELSE "medium"

DedupKey(raw) == <<raw.source, raw.native_ref>>

\* process() that takes the key before validating and keeps it
SeenAfterAlways(seen, raw, valid) == seen \cup {DedupKey(raw)}

\* an event that the schema rejects gives its key back
SeenAfter(seen, raw, valid) ==
  IF valid THEN seen \cup {DedupKey(raw)} ELSE seen \ {DedupKey(raw)}

\* the payload of a SecurityEvent; build_envelope stamps it with the time of the call
SecurityEvent(raw, now) ==
  [raw |-> raw, asset_id |-> raw.asset_id, observed_at |-> now,
   severity |-> NormalizeSeverity(raw.source, raw.severity_native)]
=============================================================================

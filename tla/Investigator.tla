----------------------------- MODULE Investigator -----------------------------
(***************************************************************************)
(* services/investigator: which context an investigation reads next, which *)
(* signals start one, and what an assessment must rest on.                 *)
(***************************************************************************)
EXTENDS Integers, Sequences, FiniteSets

CONSTANT None   \* the value None of the source

\* _CONTEXT_LEVELS
ContextLevels == <<"L0", "L1", "L2", "L3", "L4", "L5">>

IndexOf(level) == CHOOSE i \in DOMAIN ContextLevels : ContextLevels[i] = level

\* variant of PlanNextContextLevel: at the last level it starts again
PlanNextContextLevelCyclic(current_level, hypothesis_still_open) ==
  IF current_level = None THEN "L0"
  ELSE IF ~hypothesis_still_open THEN None
  ELSE ContextLevels[(IndexOf(current_level) % Len(ContextLevels)) + 1]

\* the level to expand to, or None to stop; the first is always read
PlanNextContextLevel(current_level, hypothesis_still_open) ==
  IF current_level = None THEN "L0"
  ELSE IF ~hypothesis_still_open \/ IndexOf(current_level) = Len(ContextLevels) THEN None
  ELSE ContextLevels[IndexOf(current_level) + 1]

\* variant of ShouldTriggerNewInvestigation: no guard
ShouldTriggerAlways(signal) == TRUE

\* only ARGOS's own candidates are not investigated
ShouldTriggerNewInvestigation(signal) ==
  ~(signal.source_mode = "CANDIDATE" /\ signal.origin_system = "argos-ai")

\* variant of IsSignalTombstoned: a tombstone does not end
IsSignalTombstonedForever(entity_refs, signal_signature, tombstones, now) ==
  \E t \in tombstones :
    /\ t.signal_signature = signal_signature
    /\ entity_refs \cap t.entity_refs # {}
    /\ t.valid_from <= now

IsSignalTombstoned(entity_refs, signal_signature, tombstones, now) ==
  \E t \in tombstones :
    /\ t.signal_signature = signal_signature
    /\ entity_refs \cap t.entity_refs # {}
    /\ t.valid_from <= now /\ now <= t.valid_until

\* build_threat_assessment raises ValueError otherwise
Assessable(investigation_refs, evidence_refs) ==
  investigation_refs # {} /\ evidence_refs # {}
=============================================================================

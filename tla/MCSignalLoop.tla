----------------------------- MODULE MCSignalLoop -----------------------------
(* A small instance of SignalLoop: a signal, a candidate of another origin *)
(* and a tombstone that expires.                                           *)
EXTENDS SignalLoop

CONSTANTS inv, obs, wazuh, host, ssh, scan

MCSignals ==
  {[source_mode |-> "REAL", origin_system |-> wazuh, entity_refs |-> {host}, signature |-> ssh],
   [source_mode |-> "CANDIDATE", origin_system |-> wazuh, entity_refs |-> {host},
    signature |-> scan]}

MCTombstones ==
  {[entity_refs |-> {host}, signal_signature |-> ssh, valid_from |-> 0, valid_until |-> 0]}
=============================================================================

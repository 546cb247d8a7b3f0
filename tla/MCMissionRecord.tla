---------------------------- MODULE MCMissionRecord ----------------------------
(* A small instance of MissionRecord: one asset, one incident, one CVE     *)
(* reported without a purl first.                                          *)
EXTENDS MissionRecord, TLC

CONSTANTS g1, g2, x, inc, cve, bad, openssl, purl

MCSnapshots == {[asset_id |-> x, criticality_esp |-> c] : c \in {"high", "low"}}
MCIncidents == {[incident_id |-> inc, severity |-> "high"]}

\* no definition tells one graph from another
GraphSymmetry == Permutations({g1, g2})

MCRawFinding(cve_id, locator) ==
  [asset_id |-> x, cve_id |-> cve_id, package |-> openssl, purl |-> locator, cpe |-> None]

MCRawFindings == {MCRawFinding(cve, None), MCRawFinding(cve, purl), MCRawFinding(bad, purl)}
=============================================================================

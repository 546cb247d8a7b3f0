-------------------------- MODULE VulnerabilityAdapter --------------------------
(***************************************************************************)
(* services/vulnerability_adapter: a scanner's raw finding becomes a       *)
(* VulnerabilityFinding, once per (asset, CVE, package).  raw is           *)
(* [asset_id, cve_id, package, purl, cpe].                                 *)
(***************************************************************************)
CONSTANTS
  CveIds,  \* identifiers that match _CVE_PATTERN
  None     \* the value None of the source

\* UnrecognizedCveId is raised otherwise, before anything else
Recognized(raw) == raw.cve_id \in CveIds

FindingKey(raw) == <<raw.asset_id, raw.cve_id, raw.package>>

\* the schema wants a purl or a cpe, and neither is made up
Validates(raw) == raw.purl # None \/ raw.cpe # None

\* variant of SeenAfterFinding: the key is marked before validation
SeenBeforeValidation(seen, raw) == seen \cup {FindingKey(raw)}

SeenAfterFinding(seen, raw) == IF Validates(raw) THEN seen \cup {FindingKey(raw)} ELSE seen

VulnerabilityFinding(raw) ==
  [asset_id |-> raw.asset_id, cve_id |-> raw.cve_id, package |-> raw.package,
   purl |-> raw.purl, cpe |-> IF raw.purl # None THEN None ELSE raw.cpe]
=============================================================================

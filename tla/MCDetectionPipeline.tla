-------------------------- MODULE MCDetectionPipeline --------------------------
(* A small instance of DetectionPipeline: four alerts, two of one activity *)
(* that spans two assets.                                                  *)
EXTENDS DetectionPipeline

CONSTANTS x, y, attack, ssh, ip1, ip2

MCRaw(source, native_ref, text, level, asset_id, source_ip, key) ==
  [source |-> source, native_ref |-> native_ref,
   severity_native |-> [text |-> text, level |-> level],
   asset_id |-> asset_id, sid |-> IF source = "wazuh" THEN ssh ELSE None,
   source_ip |-> source_ip, user |-> None, key |-> key]

MCRawEvents ==
  {MCRaw("wazuh", 1, "14", 14, x, ip1, None),
   MCRaw("wazuh", 2, "low", None, x, ip2, None),
   MCRaw("falco", 1, "critical", None, x, None, attack),
   MCRaw("falco", 2, "notice", None, y, None, attack)}

MCRule(parent_rule_sid, frequency, same_source_ip) ==
  [parent_rule_sid |-> parent_rule_sid, frequency |-> frequency, timeframe |-> Window,
   same_source_ip |-> same_source_ip, same_user |-> FALSE]

\* with a parent and without, and one that declares no correlation
MCRules ==
  {MCRule(ssh, 2, FALSE), MCRule(ssh, 1, TRUE), MCRule(None, 1, FALSE),
   [MCRule(ssh, None, FALSE) EXCEPT !.timeframe = None]}
=============================================================================

-------------------------- MODULE MCResponsePipeline --------------------------
(* A small instance of ResponsePipeline: two incidents, two targets, and the *)
(* tools that the barriers tell apart.                                      *)
EXTENDS ResponsePipeline

CONSTANTS inc1, inc2, t1, t2

MCTool(name, effect) ==
  [name |-> name, side_effect_class |-> effect, known |-> TRUE,
   rollback_supported |-> TRUE, modes |-> {"dry-run", "execute"}]

MCRequest(incident, tool, target) ==
  [incident |-> incident, tool |-> tool, target |-> target,
   incident_valid |-> TRUE, incident_refs |-> TRUE, rationale_refs |-> TRUE]

MCIsolate == MCTool("isolate", "REVERSIBLE_WRITE")
MCCollect == MCTool("collect", "READ_ONLY")
MCWipe == MCTool("wipe", "DESTRUCTIVE")

MCRequests ==
  {MCRequest(inc1, MCIsolate, t1), MCRequest(inc2, MCIsolate, t1),
   MCRequest(inc1, MCIsolate, t2), MCRequest(inc1, MCCollect, t1),
   MCRequest(inc1, MCWipe, t1),
   \* an incident the schema rejects, which the kernel must block
   [MCRequest(inc2, MCCollect, t1) EXCEPT !.incident_valid = FALSE]}

MCTools == {"isolate", "collect", "wipe"}
MCIncidents == {inc1, inc2}
MCTargets == {t1, t2}
\* none, the most that may be acted on, one too many
MCCounts == {0, 2, 3}
=============================================================================

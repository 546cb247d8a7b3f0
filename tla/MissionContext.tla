---------------------------- MODULE MissionContext ----------------------------
(***************************************************************************)
(* services/mission_context: the mission impact of an action, and the hash *)
(* that identifies the context it was computed from.                       *)
(***************************************************************************)
EXTENDS Integers

CONSTANT None  \* Python's None: not supplied, not evaluated

MissionImpactLevels ==
  {"NONE", "LOW", "MEDIUM", "HIGH", "CRITICAL", "INSUFFICIENT_CONTEXT"}

Criticalities == {"low", "medium", "high", "critical"}

\* valid_from is the instant build_mission_context ran, unless the caller gives one
MissionContexts ==
  [criticality : Criticalities \cup {None}, crown_jewel : BOOLEAN \cup {None},
   valid_from : Nat]

HasSufficientContext(ctx) == ctx.criticality # None /\ ctx.crown_jewel # None

\* variant of MissionLevel: a crown jewel is ranked by its criticality alone
MissionLevelUncrowned(ctx, count) ==
  CASE ctx = None \/ count = None -> "INSUFFICIENT_CONTEXT"
    [] ctx # None /\ ~HasSufficientContext(ctx) -> "INSUFFICIENT_CONTEXT"
    [] count = 0 -> "NONE"
    [] ctx.criticality \in {"high", "critical"} -> "HIGH"
    [] ctx.criticality = "medium" -> "MEDIUM"
    [] OTHER -> "LOW"

MissionLevel(ctx, count) ==
  IF ctx = None \/ count = None THEN "INSUFFICIENT_CONTEXT"
  ELSE IF ~HasSufficientContext(ctx) THEN "INSUFFICIENT_CONTEXT"
  ELSE CASE count = 0 -> "NONE"
         [] count > 0 /\ ctx.crown_jewel -> "CRITICAL"
         [] count > 0 /\ ~ctx.crown_jewel /\ ctx.criticality \in {"high", "critical"} -> "HIGH"
         [] count > 0 /\ ~ctx.crown_jewel /\ ctx.criticality = "medium" -> "MEDIUM"
         [] count > 0 /\ ~ctx.crown_jewel /\ ctx.criticality = "low" -> "LOW"

\* _mission_context_hash covers every field but observed_at and mission_context_id:
\* valid_from is part of it, so the same facts built again have another hash
MissionContextHash(ctx) == ctx
=============================================================================

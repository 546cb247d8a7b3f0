-------------------------- MODULE MCTransparencyLog --------------------------
(* Small instances of TransparencyLog for TLC.                              *)
EXTENDS TransparencyLog

CONSTANTS created, unknown, root1, root2

MCEventTypes == {created, unknown}
MCValidEventTypes == {created}
MCObjectIds == {root1, root2}
=============================================================================

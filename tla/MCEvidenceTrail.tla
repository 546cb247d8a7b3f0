---------------------------- MODULE MCEvidenceTrail ----------------------------
(* A small instance of EvidenceTrail: two artifacts, an action and a root.  *)
EXTENDS EvidenceTrail, TLC

CONSTANTS executed, created, action, root1, c1, c2

MCContents == {c1, c2}
MCSymmetry == Permutations(MCContents)
=============================================================================

-------------------------- MODULE MCTemporalKnowledge --------------------------
(* A small instance of TemporalKnowledge.                                   *)
EXTENDS TemporalKnowledge, TLC

CONSTANTS s1, s2
MCSubjects == {s1, s2}
MCSymmetry == Permutations(MCSubjects)
=============================================================================

--------------------------- MODULE MCQualification ---------------------------
(* Small instances of Qualification for TLC. *)
EXTENDS Qualification, TLC

CONSTANTS c1, c2, r1, r2, r3

MCCaller == {c1, c2}
MCRunId == {r1, r2, r3}
Symmetry == Permutations(MCCaller) \union Permutations(MCRunId)
==============================================================================

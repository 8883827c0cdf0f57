---------------------------- MODULE MCPreparation ----------------------------
(* Small instances of Preparation for TLC. *)
EXTENDS Preparation, TLC

CONSTANTS p1, p2, e1, e2, e3

MCTogether == {p1, p2}
MCAlone == {p1}
\* Two Environments are one too many; a third one is left to be created.
MCEnvironment == {e1, e2}
MCManyEnvironments == {e1, e2, e3}
Symmetry == Permutations(MCTogether) \union Permutations(MCManyEnvironments)
==============================================================================

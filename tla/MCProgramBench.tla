--------------------------- MODULE MCProgramBench ---------------------------
(* Small instances of ProgramBench for TLC. *)
EXTENDS ProgramBench, TLC

CONSTANTS c1, c2, r1, r2, r3, r4

OneCaller == {c1}
TwoCallers == {c1, c2}
ThreeRuns == {r1, r2, r3}
FourRuns == {r1, r2, r3, r4}
Symmetry == Permutations(RunId)
==============================================================================

--------------------------- MODULE MCEpisodeRunner ---------------------------
(* Small instances of EpisodeRunner for TLC. *)
EXTENDS EpisodeRunner, TLC

CONSTANTS p1, p2, r1, r2, r3

\* Two callers issue every interleaving of commands that can conflict; a third
\* Run identity is there for a Run too many.
MCCaller == {p1, p2}
MCRunId == {r1, r2, r3}
\* One Run per stage: enough where the third one is not the question.
MCRunPerStage == {r1, r2}
Symmetry == Permutations(MCCaller) \union Permutations(MCRunId)
==============================================================================

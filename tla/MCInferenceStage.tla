-------------------------- MODULE MCInferenceStage --------------------------
(* Small instances of InferenceStage for TLC. *)
EXTENDS InferenceStage
==============================================================================

------------------------------ MODULE Validation ------------------------------
(***************************************************************************)
(* The validation of the official instances, from the native controls to   *)
(* the episode with a model, together with the admission of their images.  *)
(* `task` is the benchmark: Flask's tools wait for the admission, Django   *)
(* has an oracle and a probe, and seqtk, which has no admission, its two   *)
(* tools.                                                                  *)
(***************************************************************************)
EXTENDS FlaskAcceptance, NativeOracle, NativeSeqtk, SeqtkAcceptance

ValidationVars == <<vars, toolVars>>

ValidationInit == Init /\ ToolInit

\* The admission, with the tools at rest or waiting for it.
Admission == Next /\ UNCHANGED toolVars

Tools ==
  \/ task = "flask" /\ FlaskOracle /\ Aloof
  \/ task = "django" /\ DjangoOracle /\ Aloof
  \/ OracleContainer /\ Aloof
  \/ Flask
  \/ task = "seqtk" /\ (SeqtkNative \/ Seqtk) /\ Aloof
  \/ (CliCreates \/ CliBinds \/ RunEnds \/ Killed) /\ Aloof

ValidationNext ==
  \/ Admission
  \/ Tools /\ UNCHANGED <<auditVars, flaskVars, probe, file, environment>>

ValidationSpec == ValidationInit /\ [][ValidationNext]_ValidationVars

------------------------------------------------------------------------------
(* SuccessLeavesNothing.  A tool whose receipt reports success left nothing behind:
   no container of an oracle, no container or image of the native seqtk runs that the
   cleanup passed over, no Environment and no active Run of an acceptance, whatever
   call failed, lost its answer or was cut short before. *)
SuccessLeavesNothing ==
  /\ \A t \in Oracle : paper[t].status = "complete" => "container" \notin present
  /\ (paper["native"].status = "complete" /\ paper["native"].cleanup = "completed") =>
       present \cap {"container", "image"} = {}
  /\ paper["claude"].status = "complete" => (present \cap Model = {} /\ Live = {})
  /\ paper["axern"].status = "complete" =>
       (present \cap {"inference", "verification", "derived", "isolation"} = {} /\ Live = {})
===============================================================================

--------------------------- MODULE FlaskAcceptance ---------------------------
(***************************************************************************)
(* The acceptance of the locked Flask instance on Axern, through the       *)
(* command line: the deterministic controls (swebench_flask_axern_         *)
(* parity.py), which admit the image first (ImageAdmission), and one       *)
(* episode with a real model (swebench_flask_claude_axern.py), which       *)
(* needs the receipt of the former and deletes its two Environments.       *)
(* The files of a tool are its own, so a digest is left out where nothing  *)
(* but the file could have changed.                                        *)
(***************************************************************************)
EXTENDS ImageAdmission, ValidationTool

Aloof == UNCHANGED adopted
Calm == UNCHANGED <<tool, present>> /\ Rested /\ Aloof
Doing(t, step) == tool = t /\ pc = step

\* The Run succeeded in the Allocation its record names.
Succeeded(s) == s \in bound /\ work[s] = "succeeded"

\* The four commands of an episode, in a child process of their own each.
Resolved(t) ==
  /\ Doing(t, "resolve")
  /\ \E e \in Episodes : e.contract /\ e.separate /\ load_flask_admission(e)
  /\ adopted' = TRUE
  /\ Keep(held) /\ Goto("qualify")
  /\ UNCHANGED <<tool, present>> /\ Rested

Qualified(t) ==
  /\ Doing(t, "qualify") /\ Answered /\ \A s \in StagesOf("qualify") : Succeeded(s)
  /\ Save(held) /\ Goto("run") /\ Calm

\* run, and a resume that answers the same.
Ran(t) ==
  /\ Doing(t, "run") /\ Answered
  /\ Save(held) /\ Goto("review") /\ Calm

\* The record is complete and its Runs are distinct and succeeded; resume, verify-record
\* and report agree with it and with the sealed files.
Reviewed(t) == Doing(t, "review") /\ \A s \in 1..4 : Succeeded(s)

------------------------------------------------------------------------------
(* The deterministic controls.  Their Environments are the caller's and stay. *)

StartParity ==
  /\ Launch("parity") /\ task = "flask" /\ paper["flask_oracle"].status # "none"
  /\ Goto("inputs")
  /\ UNCHANGED present /\ Rested /\ Aloof

\* The pinned digests name the receipt, the grades and the patches of a complete oracle,
\* and the two Environments hold the imported image.
ParityInputs ==
  /\ Doing("parity", "inputs")
  /\ paper["flask_oracle"].status = "complete"
  /\ Save(held) /\ Goto("admit") /\ Calm

\* The command admit-swebench-flask-image: ImageAdmission goes on meanwhile.
ParityAdmits ==
  /\ Doing("parity", "admit")
  /\ receipt # 0 /\ \A c \in Caller : at[c] = "idle"
  /\ Save(held) /\ Goto("resolve") /\ Calm

ParityResolves == Resolved("parity")
ParityQualifies == Qualified("parity")
ParityRuns == Ran("parity")

\* The result is the oracle's, test by test, and the verdict is that of the control.
ParityReviews ==
  /\ Reviewed("parity")
  /\ IF OneMore.receipt.cases < MaxCases
     THEN Save(OneMore) /\ Goto("resolve") /\ work' = Fresh /\ bound' = {}
     ELSE /\ held' = [OneMore EXCEPT !.receipt.status = "complete"]
          /\ paper' = [paper EXCEPT ![tool] = OneMore.receipt]
          /\ Goto("close") /\ Rested
  /\ UNCHANGED <<tool, present>> /\ Aloof

ParityCloses ==
  /\ Doing("parity", "close")
  /\ Quit(held) \/ Quit(Failed)
  /\ UNCHANGED present /\ Rested /\ Aloof

ParityFails ==
  /\ tool = "parity" /\ pc # "close"
  /\ Keep(Failed) /\ Goto("close") /\ Calm

------------------------------------------------------------------------------
(* The episode with a model. *)

Model == {"inference", "verification"}

\* The caller created two Environments from the task image.
StartClaude ==
  /\ Launch("claude") /\ task = "flask" /\ paper["parity"].status # "none"
  /\ present' = present \cup Model
  /\ Goto("config")
  /\ Rested /\ Aloof

\* A closed configuration with the locked endpoint, images, models and limits.
ClaudeConfig ==
  /\ Doing("claude", "config")
  /\ Keep(held) /\ Goto("gate") /\ Calm

\* The admission with its full scan, its Run and its seal, looked up again in Axern.
AdmissionGate == \E e \in Episodes : load_flask_admission(e)

\* The controls completed, in four Environments and with Runs no other case has.
ParityReceipt == paper["parity"].status = "complete"
ParityCasesHold == paper["parity"].cases = MaxCases

\* From here on the Environments are to be deleted.
ClaudeGate ==
  /\ Doing("claude", "gate") /\ ParityReceipt /\ AdmissionGate /\ ParityCasesHold
  /\ Save(Noted("cleanup", "pending")) /\ Goto("resolve")
  /\ work' = Fresh /\ bound' = {}
  /\ UNCHANGED <<tool, present>> /\ Aloof

ClaudeResolves == Resolved("claude")
ClaudeQualifies == Qualified("claude")
ClaudeRuns == Ran("claude")

\* The bundles are those of the sealed files, and the progress counted a request.
ClaudeReviews ==
  /\ Reviewed("claude")
  /\ Keep(Noted("status", "complete")) /\ Goto("cleanup") /\ Calm

\* A check or a command fails, the child killed at its deadline included.
ClaudeFails ==
  /\ tool = "claude" /\ pc \notin {"cleanup", "close"}
  /\ Keep(Failed)
  /\ Goto(IF held.receipt.cleanup = "pending" THEN "cleanup" ELSE "close")
  /\ Calm

\* Every Run the record names has ended; then each Environment is deleted and
\* looked for.  Anything else is ambiguous, the Environments deleted so far included.
ClaudeCleans ==
  /\ Doing("claude", "cleanup") /\ Goto("close")
  /\ \/ /\ \A s \in bound : s \notin Live
        /\ present' = present \ Model
        /\ Keep(Noted("cleanup", "deleted_and_absent"))
     \/ /\ \/ UNCHANGED present
           \/ /\ \A s \in bound : s \notin Live
              /\ \E deleted \in SUBSET Model : present' = present \ deleted
        /\ Keep([held EXCEPT !.receipt.cleanup = "ambiguous", !.receipt.status = "failed"])
  /\ UNCHANGED tool /\ Rested /\ Aloof

\* The client is closed and the evidence is free of the credential.
ClaudeCloses ==
  /\ Doing("claude", "close")
  /\ Quit(held) \/ Quit(Failed)
  /\ UNCHANGED present /\ Rested /\ Aloof

Flask ==
  \/ StartParity \/ ParityInputs \/ ParityAdmits \/ ParityResolves \/ ParityQualifies
  \/ ParityRuns \/ ParityReviews \/ ParityFails \/ ParityCloses
  \/ StartClaude \/ ClaudeConfig \/ ClaudeGate \/ ClaudeResolves \/ ClaudeQualifies
  \/ ClaudeRuns \/ ClaudeReviews \/ ClaudeFails \/ ClaudeCleans \/ ClaudeCloses
===============================================================================

------------------------------- MODULE Episode -------------------------------
(***************************************************************************)
(* What Axrun promises about one episode, without callers, locks, crashes  *)
(* or exceptions: at most one Run is ever bound to each stage, the stages  *)
(* follow each other, a stage is left successfully only when its Run       *)
(* succeeded, and an ended episode stays as it is.                         *)
(***************************************************************************)
CONSTANTS RunId, NoRun

Stage == {"inference", "verification"}
Running == [s \in Stage |->
               IF s = "inference" THEN "inference_running" ELSE "verification_running"]

VARIABLES phase,      \* the phase of the episode
          bound,      \* the Run of each stage
          verdict,    \* the Run whose verdict was accepted
          succeeded   \* the Runs that succeeded so far

vars == <<phase, bound, verdict, succeeded>>

Init ==
    /\ phase = "new"
    /\ bound = [s \in Stage |-> NoRun]
    /\ verdict = NoRun
    /\ succeeded = {}

Ended == phase \in {"completed", "failed", "cancelled"}

\* The environment: Runs succeed when they do.
Succeeds == \E r \in RunId :
    /\ succeeded' = succeeded \union {r}
    /\ UNCHANGED <<phase, bound, verdict>>

Begin ==
    /\ phase = "new"
    /\ phase' = "inference_running"
    /\ UNCHANGED <<bound, verdict, succeeded>>

\* A stage is bound once, to a Run no other stage has.
Bind(s, r) ==
    /\ phase = Running[s]
    /\ bound[s] = NoRun
    /\ \A t \in Stage : bound[t] # r
    /\ bound' = [bound EXCEPT ![s] = r]
    /\ UNCHANGED <<phase, verdict, succeeded>>

Seal ==
    /\ phase = "inference_running"
    /\ bound["inference"] \in succeeded
    /\ phase' = "candidate_ready"
    /\ UNCHANGED <<bound, verdict, succeeded>>

Verify ==
    /\ phase = "candidate_ready"
    /\ phase' = "verification_running"
    /\ UNCHANGED <<bound, verdict, succeeded>>

Grade ==
    /\ phase = "verification_running"
    /\ bound["verification"] \in succeeded
    /\ phase' = "completed"
    /\ verdict' = bound["verification"]
    /\ UNCHANGED <<bound, succeeded>>

Fail ==
    /\ ~Ended /\ phase # "new"
    /\ phase' = "failed"
    /\ UNCHANGED <<bound, verdict, succeeded>>

Cancel ==
    /\ ~Ended
    /\ phase' = "cancelled"
    /\ UNCHANGED <<bound, verdict, succeeded>>

Next ==
    \/ Succeeds \/ Begin \/ Seal \/ Verify \/ Grade \/ Fail \/ Cancel
    \/ \E s \in Stage, r \in RunId : Bind(s, r)

Spec == Init /\ [][Next]_vars
==============================================================================

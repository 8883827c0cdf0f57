------------------------------ MODULE AgentStage ------------------------------
(***************************************************************************)
(* An inference stage with Claude Code, from its script in the Allocation  *)
(* (Supervisor) to the bundles and the record outside of it: processes     *)
(* that call `run`, `wait` or `resume` collect the sealed outputs, publish *)
(* the CandidateBundle and the TrajectoryBundle by their digests           *)
(* (adapters/_candidate.py, trajectories/bundle.py), and commit both       *)
(* (runner.py).  They may do so at once, and die at any step.              *)
(***************************************************************************)
EXTENDS Supervisor

CONSTANT Collector

VARIABLES bundle,   \* what the directory of each kind's digest holds: nothing, or its files
          temp,     \* of each collector: its temporary directory of the kind it is at
          at,       \* of each collector: the kind and the step
          record    \* EpisodeRecord.phase, and the manifests it names

collectVars == <<bundle, temp, at, record>>
stageVars == <<vars, collectVars>>

Kind == {"candidate", "trajectory"}
\* The files of a bundle: the copies of the sealed outputs, and the manifest that names them.
File == {"outputs", "manifest"}
Step == {"idle", "copy", "validate", "sign", "look", "replace", "load", "commit", "done", "dead"}

StageTypeOK ==
    /\ TypeOK
    /\ bundle \in [Kind -> SUBSET File] /\ temp \in [Collector -> SUBSET File]
    /\ at \in [Collector -> [kind : Kind, step : Step]]
    /\ record \in {"running", "ready", "failed"}

StageInit ==
    /\ Init
    /\ bundle = [k \in Kind |-> {}] /\ temp = [c \in Collector |-> {}]
    /\ at = [c \in Collector |-> [kind |-> "candidate", step |-> "idle"]]
    /\ record = "running"

Move(c, from, to) == at[c].step = from /\ at' = [at EXCEPT ![c].step = to]
Drop(c) == temp' = [temp EXCEPT ![c] = {}]     \* finally: rmtree of the temporary directory

\* The stage ended with 0 and its Run is still the one the record waits for.
Collect(c) ==
    /\ exit # -1 /\ record = "running"
    /\ IF exit = 0 THEN Move(c, "idle", "copy") /\ UNCHANGED record
       ELSE Move(c, "idle", "done") /\ record' = "failed"
    /\ UNCHANGED <<vars, bundle, temp>>

\* A failure of the copy, the validation or a publication: `run` records it, `resume` only raises.
Refuse(c) ==
    /\ at[c].step \in {"copy", "validate"}
    /\ at' = [at EXCEPT ![c].step = "done"] /\ Drop(c)
    /\ record' \in {record, IF record = "running" THEN "failed" ELSE record}
    /\ UNCHANGED <<vars, bundle>>

\* A copied trajectory is read before its manifest is written, a candidate is not.
AfterCopy(kind) == IF kind = "trajectory" THEN "validate" ELSE "sign"

\* Mutant of Copy: the manifest is not written before the directory is published.
CopyUnsigned(c) ==
    /\ Move(c, "copy", "look")
    /\ temp' = [temp EXCEPT ![c] = {"outputs"}]
    /\ UNCHANGED <<vars, bundle, record>>

\* Every sealed output, checked and synced.
Copy(c) ==
    /\ Move(c, "copy", AfterCopy(at[c].kind))
    /\ temp' = [temp EXCEPT ![c] = {"outputs"}]
    /\ UNCHANGED <<vars, bundle, record>>

\* load_trajectory_jsonl on the copy.
Validate(c) ==
    /\ WellFormed(trajectory)
    /\ Move(c, "validate", "sign")
    /\ UNCHANGED <<vars, bundle, temp, record>>

Sign(c) ==
    /\ Move(c, "sign", "look")
    /\ temp' = [temp EXCEPT ![c] = @ \union {"manifest"}]
    /\ UNCHANGED <<vars, bundle, record>>

\* final.exists()
Look(c) ==
    /\ Move(c, "look", IF bundle[at[c].kind] # {} THEN "load" ELSE "replace")
    /\ UNCHANGED <<vars, bundle, temp, record>>

\* Where a published bundle leads: to the bundle of the other kind, then to the record.
Forward(c) ==
    at' = [at EXCEPT ![c] = IF at[c].kind = "candidate" THEN [kind |-> "trajectory", step |-> "copy"]
                            ELSE [kind |-> "trajectory", step |-> "commit"]]

\* The one that is there is read and compared, and stays.
Loads(kind) == bundle[kind] = File

LoadExisting(c) ==
    /\ at[c].step = "load" /\ Loads(at[c].kind)
    /\ Forward(c) /\ Drop(c)
    /\ UNCHANGED <<vars, bundle, record>>

\* os.replace refuses a directory that is not empty: whoever comes second raises.
Replace(c) ==
    /\ at[c].step = "replace" /\ Drop(c)
    /\ IF bundle[at[c].kind] = {}
       THEN /\ bundle' = [bundle EXCEPT ![at[c].kind] = temp[c]]
            /\ Forward(c) /\ UNCHANGED record
       ELSE /\ at' = [at EXCEPT ![c].step = "done"]
            /\ record' \in {record, IF record = "running" THEN "failed" ELSE record}
            /\ UNCHANGED bundle
    /\ UNCHANGED vars

\* Under the lock of the episode: only while it is still running.
Commit(c) ==
    /\ Move(c, "commit", "done")
    /\ record' = IF record = "running" THEN "ready" ELSE record
    /\ UNCHANGED <<vars, bundle, temp>>

Die(c) ==
    /\ at[c].step \notin {"idle", "done", "dead"} /\ at' = [at EXCEPT ![c].step = "dead"]
    /\ UNCHANGED <<vars, bundle, temp, record>>

Collecting ==
    \E c \in Collector :
        \/ Collect(c) \/ Refuse(c) \/ Copy(c) \/ Validate(c) \/ Sign(c) \/ Look(c)
        \/ LoadExisting(c) \/ Replace(c) \/ Commit(c) \/ Die(c)

StageNext == (Next /\ UNCHANGED collectVars) \/ Collecting

Spec ==
    /\ StageInit /\ [][StageNext]_stageVars
    /\ WF_stageVars(Supervise /\ UNCHANGED collectVars)
    /\ WF_stageVars((Read \/ Put) /\ UNCHANGED collectVars)

------------------------------------------------------------------------------
(* Properties. *)

\* A published bundle is whole, whoever publishes it, dies or looks at it; and a record whose
\* inference is ready names two whole bundles of a stage that ended with 0, of which the
\* candidate was captured after the end of the agent and the trajectory is what the agent said.
ReadyIsBacked ==
    /\ \A k \in Kind : bundle[k] \in {{}, File}
    /\ record = "ready" =>
          exit = 0 /\ captured /\ native = said /\ \A k \in Kind : bundle[k] = File
==============================================================================

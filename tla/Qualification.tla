---------------------------- MODULE Qualification ----------------------------
(***************************************************************************)
(* The qualification of an episode before it starts                        *)
(* (axrun/qualification.py, with `qualify` and `run` of cli.py): one       *)
(* model-free Run in the Environment of each stage, in their order, whose  *)
(* outcomes become one evidence file that the episode record names.        *)
(*                                                                         *)
(* Any number of processes qualify the same episode at once, start it when *)
(* they are done, cancel it, or die.  Every `with store.lock(...)` block   *)
(* is one action.                                                          *)
(***************************************************************************)
EXTENDS Naturals, AxernRuns

CONSTANT Caller     \* processes that qualify

VARIABLES phase,           \* EpisodeRecord.phase: new, started or cancelled
          qualifications,  \* EpisodeRecord.qualifications, by stage
          result,          \* the Runs of EpisodeRecord.qualification_result
          evidence,        \* the Runs that the file result.json names
          pc, job          \* of each caller

recordVars == <<phase, qualifications, result>>
vars == <<recordVars, evidence, pc, job, runVars>>

ExecutionRef == [run : RunId \union {NoRun}, allocated : BOOLEAN]
Unbound == [run |-> NoRun, allocated |-> FALSE]

\* The Runs of a result, by stage: those of a caller grow until they are all there.
Runs == [Stage -> RunId \union {NoRun}]
NoResult == [s \in Stage |-> NoRun]
Full(runs) == \A s \in Stage : runs[s] # NoRun

\* The stage a caller is at, its Run, and what it has qualified.
Job == [stage : Stage, ref : ExecutionRef, done : Runs]
JobOf(s, ref, done) == [stage |-> s, ref |-> ref, done |-> done]
NoJob == JobOf("inference", Unbound, NoResult)

Label == {"idle", "target", "create", "bind", "await", "prepare", "abort", "follow", "query",
          "rebind", "judge", "persist", "write", "commit", "qualified"}

TypeOK ==
    /\ RunsTypeOK
    /\ phase \in {"new", "started", "cancelled"}
    /\ qualifications \in [Stage -> ExecutionRef]
    /\ result \in Runs /\ evidence \in Runs
    /\ pc \in [Caller -> Label] /\ job \in [Caller -> Job]

Init ==
    /\ RunsInit
    /\ phase = "new" /\ qualifications = [s \in Stage |-> Unbound]
    /\ result = NoResult /\ evidence = NoResult
    /\ pc = [c \in Caller |-> "idle"] /\ job = [c \in Caller |-> NoJob]

Goto(c, from, to) == pc[c] = from /\ pc' = [pc EXCEPT ![c] = to]
SetRef(c, ref) == job' = [job EXCEPT ![c] = JobOf(job[c].stage, ref, job[c].done)]

\* The call returns or raises; nothing of it is kept.
Leave(c) == pc' = [pc EXCEPT ![c] = "idle"] /\ job' = [job EXCEPT ![c] = NoJob]

------------------------------------------------------------------------------
(* qualify_episode, up to the Run of a stage. *)

\* load_qualification_result: the file is what the record says, and names its Runs.
Loadable == evidence = result /\ \A s \in Stage : qualifications[s].run = result[s]

\* A qualified episode is not qualified again; one that started without is refused.
Qualify(c) ==
    /\ IF result # NoResult THEN Loadable /\ Goto(c, "idle", "qualified")
       ELSE phase = "new" /\ Goto(c, "idle", "target")
    /\ UNCHANGED <<recordVars, evidence, job, runVars>>

\* The Environment has the image of the episode: is there a Run for it already?
Target(c) ==
    /\ LET saved == qualifications[job[c].stage]
       IN  Goto(c, "target", IF saved.run = NoRun THEN "create" ELSE "query") /\ SetRef(c, saved)
    /\ UNCHANGED <<recordVars, evidence, runVars>>

\* The Run may exist although the answer is lost.
CreateRun(c) ==
    /\ \E r \in RunId :
          /\ Created(r, job[c].stage)
          /\ \/ Goto(c, "create", "bind") /\ SetRef(c, [run |-> r, allocated |-> FALSE])
             \/ pc[c] = "create" /\ Leave(c)
    /\ UNCHANGED <<recordVars, evidence>>

\* Mutant of Bindable: the last Run of a stage wins.
BindableLast(s, ref) == phase = "new"

\* bound: the first Run of a stage is the Run of that stage, once and for all.
Bindable(s, ref) ==
    /\ phase = "new"
    /\ qualifications[s].run \in {NoRun, ref.run}
    /\ qualifications[s].allocated => ref.allocated
    /\ s = "verification" => qualifications["inference"].run # NoRun

Bound(c) ==
    /\ Bindable(job[c].stage, job[c].ref)
    /\ qualifications' = [qualifications EXCEPT ![job[c].stage] = job[c].ref]

Bind(c) ==
    /\ IF Bindable(job[c].stage, job[c].ref)
       THEN Bound(c) /\ Goto(c, "bind", IF job[c].ref.allocated THEN "prepare" ELSE "await")
       ELSE Goto(c, "bind", "abort") /\ UNCHANGED qualifications
    /\ UNCHANGED <<phase, result, evidence, job, runVars>>

AwaitRunning(c) ==
    /\ Goto(c, "await", "bind")
    /\ Live(job[c].ref.run) /\ job[c].ref.run \in allocated
    /\ SetRef(c, [run |-> job[c].ref.run, allocated |-> TRUE])
    /\ UNCHANGED <<recordVars, evidence, runVars>>

PreparationFails(c) ==
    /\ \E from \in {"bind", "await", "prepare"} : Goto(c, from, "abort")
    /\ UNCHANGED <<recordVars, evidence, job, runVars>>

\* The marker may arrive although the caller sees an exception.
Release(c) ==
    /\ \E to \in {"follow", "abort"} : Goto(c, "prepare", to)
    /\ MarkerWritten(job[c].ref.run)
    /\ UNCHANGED <<recordVars, evidence, job>>

\* Not released, as far as the caller knows; a cancellation may be refused.
Abort(c) ==
    /\ pc[c] = "abort" /\ Leave(c)
    /\ CancelRequested(job[c].ref.run) \/ UNCHANGED runVars
    /\ UNCHANGED <<recordVars, evidence>>

------------------------------------------------------------------------------
(* The outcome of a stage. *)

Follow(c) ==
    /\ Goto(c, "follow", "judge")
    /\ status[job[c].ref.run] \in Ended
    /\ UNCHANGED <<recordVars, evidence, job, runVars>>

\* backend.recover, for a Run that has ended.
Query(c) ==
    /\ Goto(c, "query", "rebind")
    /\ status[job[c].ref.run] \in Ended
    /\ SetRef(c, [run |-> job[c].ref.run, allocated |-> job[c].ref.run \in allocated])
    /\ UNCHANGED <<recordVars, evidence, runVars>>

Rebind(c) ==
    /\ Bound(c) /\ Goto(c, "rebind", "judge")
    /\ UNCHANGED <<phase, result, evidence, job, runVars>>

\* The next stage, or the end of both.
Qualified(c) ==
    LET done == [job[c].done EXCEPT ![job[c].stage] = job[c].ref.run]
    IN  /\ Goto(c, "judge", IF job[c].stage = "inference" THEN "target" ELSE "persist")
        /\ job' = [job EXCEPT ![c] = JobOf("verification", Unbound, done)]

\* Mutant of Judge: what the Run reports is not looked at.
JudgeExit(c) ==
    /\ Qualified(c) /\ status[job[c].ref.run] \in {"succeeded", "unusable"}
    /\ UNCHANGED <<recordVars, evidence, runVars>>

\* It exited with 0, and _validate_checks accepts its sealed checks.
Judge(c) ==
    /\ Qualified(c) /\ status[job[c].ref.run] = "succeeded"
    /\ UNCHANGED <<recordVars, evidence, runVars>>

------------------------------------------------------------------------------
(* The evidence: a file, then the record. *)

\* _persist: a file that is there must be the same.
Persist(c) ==
    /\ evidence \in {NoResult, job[c].done}
    /\ Goto(c, "persist", IF evidence = NoResult THEN "write" ELSE "commit")
    /\ UNCHANGED <<recordVars, evidence, job, runVars>>

Write(c) ==
    /\ Goto(c, "write", "commit")
    /\ evidence' = job[c].done
    /\ UNCHANGED <<recordVars, job, runVars>>

Commit(c) ==
    /\ Goto(c, "commit", "qualified")
    /\ phase = "new"
    /\ IF result # NoResult THEN Loadable /\ UNCHANGED <<result, qualifications>>
       ELSE /\ result' = job[c].done
            /\ qualifications' = [s \in Stage |-> [run |-> job[c].done[s], allocated |-> TRUE]]
    /\ UNCHANGED <<phase, evidence, job, runVars>>

\* The command `run` goes on to EpisodeRunner.run; `qualify` returns.
RunEpisode(c) ==
    /\ pc[c] = "qualified" /\ Leave(c)
    /\ phase = "new" /\ phase' = "started"
    /\ UNCHANGED <<qualifications, result, evidence, runVars>>

\* Everything a caller does outside the locks may raise, a section inside them may
\* refuse, and a process may die. A Run that was created is not always cancelled.
Stops(c) ==
    /\ pc[c] # "idle" /\ Leave(c)
    /\ UNCHANGED <<recordVars, evidence, runVars>>

\* EpisodeRunner.cancel of a new episode: it looks for no Run.
Cancel ==
    /\ phase = "new" /\ phase' = "cancelled"
    /\ UNCHANGED <<qualifications, result, evidence, pc, job, runVars>>

------------------------------------------------------------------------------
Execute(c) ==
    \/ Qualify(c) \/ Target(c) \/ CreateRun(c) \/ Bind(c) \/ AwaitRunning(c)
    \/ PreparationFails(c) \/ Release(c) \/ Abort(c)
Conclude(c) ==
    \/ Follow(c) \/ Query(c) \/ Rebind(c) \/ Judge(c) \/ Persist(c) \/ Write(c) \/ Commit(c)
    \/ RunEpisode(c) \/ Stops(c)
AxernStep == AxernNext /\ UNCHANGED <<recordVars, evidence, pc, job>>

Next == (\E c \in Caller : Execute(c) \/ Conclude(c)) \/ Cancel \/ AxernStep

Spec == Init /\ [][Next]_vars

------------------------------------------------------------------------------
\* A target is executed once, by the Run that the record names, however many processes
\* qualify ("recovers original run without resubmission", tests/test_qualification.py).
ReleasedIsBound ==
    \A r \in released : qualifications[purpose[r]] = [run |-> r, allocated |-> TRUE]

\* The committed evidence is the file, and rests on a Run of each stage that passed.
EvidenceIsBacked ==
    result # NoResult =>
        /\ evidence = result
        /\ \A s \in Stage : /\ result[s] \in RunId
                            /\ qualifications[s] = [run |-> result[s], allocated |-> TRUE]
                            /\ purpose[result[s]] = s /\ status[result[s]] = "succeeded"

\* A file that was written without a commit does not stand in the way of the next
\* attempt: it is what that attempt would write.
FileFits ==
    evidence # NoResult => \A s \in Stage : /\ evidence[s] \in RunId
                                            /\ qualifications[s].run = evidence[s]

\* No episode starts without its evidence.
StartedIsQualified == phase = "started" => result # NoResult

\* The record of an episode that started, ended or is qualified stays as it is, however
\* late the other qualifiers come.
RecordIsFinal ==
    [][phase # "new" \/ result # NoResult => UNCHANGED <<qualifications, result>>]_vars

------------------------------------------------------------------------------
(* The inductive invariant. *)

\* The places where a caller has a Run, and where it has qualified both stages.
Holding == {"bind", "await", "prepare", "abort", "follow", "query", "rebind", "judge"}
Concluding == {"persist", "write", "commit"}

\* A Run that exited was released, one that was released has its Allocation, and
\* one that exists is for a stage.
RunsBacked ==
    /\ released \subseteq allocated
    /\ \A r \in RunId :
          /\ status[r] \in {"succeeded", "unusable"} => r \in released
          /\ r \in allocated => status[r] # "absent"
          /\ status[r] # "absent" => purpose[r] \in Stage

\* The record names Runs that exist, for the stage they were created for.
RecordBacked ==
    \A s \in Stage :
        /\ qualifications[s].run # NoRun =>
              status[qualifications[s].run] # "absent" /\ purpose[qualifications[s].run] = s
        /\ qualifications[s].allocated =>
              qualifications[s].run # NoRun /\ qualifications[s].run \in allocated

\* What was qualified is bound, and passed.
Passed(s, r) ==
    /\ r \in RunId /\ qualifications[s] = [run |-> r, allocated |-> TRUE]
    /\ purpose[r] = s /\ status[r] = "succeeded"

\* What is known of a caller by where it is.
CallerBacked(c) ==
    LET s == job[c].stage
        ref == job[c].ref
        done == job[c].done
    IN  /\ pc[c] \in Holding =>
              /\ ref.run # NoRun /\ status[ref.run] # "absent" /\ purpose[ref.run] = s
              /\ ref.allocated => ref.run \in allocated
        /\ pc[c] \in {"await", "prepare", "follow", "query", "rebind", "judge"} =>
              qualifications[s].run = ref.run
        /\ pc[c] = "prepare" => ref.allocated /\ qualifications[s].allocated
        /\ \A t \in Stage : done[t] # NoRun => Passed(t, done[t])
        /\ s = "verification" => done["inference"] # NoRun
        /\ pc[c] \in Concluding => Full(done)
        /\ pc[c] = "commit" => evidence = done
        /\ pc[c] = "qualified" => result # NoResult

QualificationIsSafe ==
    /\ RunsBacked
    /\ RecordBacked
    /\ ReleasedIsBound
    /\ evidence # NoResult => \A s \in Stage : Passed(s, evidence[s])
    /\ result # NoResult => evidence = result
    /\ StartedIsQualified
    /\ \A c \in Caller : CallerBacked(c)
==============================================================================

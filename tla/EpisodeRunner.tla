---------------------------- MODULE EpisodeRunner ----------------------------
(***************************************************************************)
(* The two-stage episode runner (axrun/runner.py) with the execution       *)
(* backend it drives (axrun/axern_backend.py, _execute and recover), over  *)
(* one durable episode record and the Runs of Axern.                       *)
(*                                                                         *)
(* Several callers (CLI processes on one store) issue run, wait or resume, *)
(* and cancel for the same episode, in any order and at the same time.     *)
(* Each `with store.lock(...)` block is one atomic action: the record is   *)
(* read, changed and atomically replaced inside it.  The exception is      *)
(* cancel, which calls Axern inside the lock: it is split, and the lock    *)
(* is a variable.  Between two actions of a caller any other caller, Axern *)
(* or a crash of the caller may intervene.                                 *)
(*                                                                         *)
(* The model covers an episode whose verifier uses one Run.  The episode   *)
(* starts admitted (qualification is done, phase new).                     *)
(***************************************************************************)
EXTENDS Naturals, AxernRuns

CONSTANTS Caller,         \* the processes that operate on the store
          NoCaller,       \* the owner of a free lock
          BundleDamage    \* may a published bundle be unreadable later on?

ASSUME NoCallerAssumption == NoCaller \notin Caller
ASSUME BundleDamageAssumption == BundleDamage \in BOOLEAN

VARIABLES phase,       \* EpisodeRecord.phase
          execution,   \* EpisodeRecord.inference and .verification
          candidate,   \* the Run EpisodeRecord.candidate_digest was built from
          verdict,     \* the Run EpisodeRecord.verification_result came from
          lock,        \* who holds the episode lock across an Axern call
          pc,          \* where each caller is
          job          \* the local variables of each caller's command

recordVars == <<phase, execution, candidate, verdict>>
vars == <<recordVars, lock, pc, job, runVars>>

Terminal == {"completed", "failed", "cancelled"}
Running == [s \in Stage |->
               IF s = "inference" THEN "inference_running" ELSE "verification_running"]
Phase == {"new", "inference_running", "candidate_ready", "verification_running"}
            \union Terminal

ExecutionRef == [run : RunId \union {NoRun}, allocated : BOOLEAN]
Unbound == [run |-> NoRun, allocated |-> FALSE]

\* How the except clauses of the runner tell exceptions apart.
Error == {"none", "contract", "infrastructure", "diagnosed", "observer",
          "recovery_required", "interrupt"}

\* handlers counts the enclosing except clauses that call _record_failure.
Job == [stage : Stage, ref : ExecutionRef, handlers : Nat, error : Error]
JobOf(s, ref, h, e) == [stage |-> s, ref |-> ref, handlers |-> h, error |-> e]
NoJob == JobOf("inference", Unbound, 0, "none")

Preparing == {"bind", "await", "prepare", "cancelLate"}
Label == Preparing \union
         {"idle", "create", "abort", "follow", "query", "accept", "reject",
          "publish", "startVerification", "recordFailure", "cancelCall", "cancelSave"}

TypeOK ==
    /\ RunsTypeOK
    /\ phase \in Phase
    /\ execution \in [Stage -> ExecutionRef]
    /\ candidate \in RunId \union {NoRun}
    /\ verdict \in RunId \union {NoRun}
    /\ lock \in Caller \union {NoCaller}
    /\ pc \in [Caller -> Label]
    /\ job \in [Caller -> Job]

Init ==
    /\ RunsInit
    /\ phase = "new"
    /\ execution = [s \in Stage |-> Unbound]
    /\ candidate = NoRun
    /\ verdict = NoRun
    /\ lock = NoCaller
    /\ pc = [p \in Caller |-> "idle"]
    /\ job = [p \in Caller |-> NoJob]

------------------------------------------------------------------------------
(* Control flow of one caller. *)

At(p, label) == pc[p] = label
Goto(p, label) == pc' = [pc EXCEPT ![p] = label]
Free == lock = NoCaller

\* A command or a stage begins, with h enclosing except clauses.
Enter(p, s, ref, h) == job' = [job EXCEPT ![p] = JobOf(s, ref, h, "none")]
\* The caller learns about its Run.
SetRef(p, ref) ==
    job' = [job EXCEPT ![p] = JobOf(job[p].stage, ref, job[p].handlers, job[p].error)]
\* An exception is on its way.
SetError(p, e) ==
    job' = [job EXCEPT ![p] = JobOf(job[p].stage, job[p].ref, job[p].handlers, e)]

\* The command returns or its exception reaches the caller.
Leave(p) ==
    /\ pc' = [pc EXCEPT ![p] = "idle"]
    /\ job' = [job EXCEPT ![p] = NoJob]

\* An exception propagates: to the innermost except clause that records it,
\* or out of the command.  KeyboardInterrupt passes `except Exception`.
Raise(p, e) ==
    IF e = "interrupt" \/ job[p].handlers = 0
    THEN Leave(p)
    ELSE /\ Goto(p, "recordFailure")
         /\ SetError(p, e)

\* _require_execution: the record still is in the stage of this caller and
\* still names the Run the caller has a result for.
Owns(p) ==
    LET s == job[p].stage
    IN  /\ phase = Running[s]
        /\ execution[s].run = job[p].ref.run
        /\ execution[s].allocated => job[p].ref.allocated

Disowned(p) ==
    IF phase = Running[job[p].stage] THEN "infrastructure" ELSE "recovery_required"

\* _merge_execution and the freshness check of _bind.
Bindable(s, ref) ==
    /\ execution[s].run \in {NoRun, ref.run}
    /\ execution[s].allocated => ref.allocated
    /\ s = "verification" => ref.run # execution["inference"].run

HasRecoverableIdentity ==
    \E s \in Stage : phase = Running[s] /\ execution[s].run # NoRun

------------------------------------------------------------------------------
(* run: everything up to the first Axern call. *)

Run(p) ==
    /\ At(p, "idle") /\ Free
    /\ phase = "new"
    /\ phase' = "inference_running"
    /\ Goto(p, "create")
    /\ Enter(p, "inference", Unbound, 1)
    /\ UNCHANGED <<execution, candidate, verdict, lock, runVars>>

(* AxernBackend._execute up to the release of the Run. *)

CreateRun(p) ==
    /\ At(p, "create")
    /\ \E r \in RunId :
        /\ Created(r, job[p].stage)
        /\ \/ /\ Goto(p, "bind")
              /\ SetRef(p, [run |-> r, allocated |-> FALSE])
           \/ Raise(p, "infrastructure")   \* the answer is lost: an unowned Run
    /\ UNCHANGED <<recordVars, lock>>

\* The plan conflicts with the episode, or Axern refuses the Run.
CreateRunFails(p) ==
    /\ At(p, "create")
    /\ \E e \in {"contract", "infrastructure"} : Raise(p, e)
    /\ UNCHANGED <<recordVars, lock, runVars>>

\* Mutant of Bind: the second call does not save the Allocation.
BindDropsAllocation(p) ==
    LET s == job[p].stage
        ref == job[p].ref
    IN  /\ At(p, "bind") /\ Free
        /\ IF phase = Running[s] /\ Bindable(s, ref)
           THEN /\ execution' = [execution EXCEPT ![s].run = ref.run]
                /\ Goto(p, IF ref.allocated THEN "prepare" ELSE "await")
                /\ UNCHANGED job
           ELSE /\ Goto(p, IF phase = "cancelled" THEN "cancelLate" ELSE "abort")
                /\ SetError(p, Disowned(p))
                /\ UNCHANGED execution
        /\ UNCHANGED <<phase, candidate, verdict, lock, runVars>>

\* _bind, called with the Run alone and again with its Allocation.
Bind(p) ==
    LET s == job[p].stage
        ref == job[p].ref
    IN  /\ At(p, "bind") /\ Free
        /\ IF phase = Running[s] /\ Bindable(s, ref)
           THEN /\ execution' = [execution EXCEPT ![s] = ref]
                /\ Goto(p, IF ref.allocated THEN "prepare" ELSE "await")
                /\ UNCHANGED job
           ELSE /\ Goto(p, IF phase = "cancelled" THEN "cancelLate" ELSE "abort")
                /\ SetError(p, Disowned(p))
                /\ UNCHANGED execution
        /\ UNCHANGED <<phase, candidate, verdict, lock, runVars>>

\* _bind found the episode cancelled: it cancels the late Run by itself,
\* before the backend does.
CancelLate(p) ==
    /\ At(p, "cancelLate")
    /\ Goto(p, "abort")
    /\ \/ CancelRequested(job[p].ref.run) /\ UNCHANGED job
       \/ /\ UNCHANGED runVars
          /\ SetError(p, "infrastructure")
    /\ UNCHANGED <<recordVars, lock>>

\* _wait_running returned the Run with its Allocation.
AwaitRunning(p) ==
    /\ At(p, "await")
    /\ Live(job[p].ref.run) /\ job[p].ref.run \in allocated
    /\ Goto(p, "bind")
    /\ SetRef(p, [run |-> job[p].ref.run, allocated |-> TRUE])
    /\ UNCHANGED <<recordVars, lock, runVars>>

\* Waiting, the lifecycle or an upload fails, or the user interrupts.  An
\* observer that was started may fail while the lifecycle closes itself.
PreparationFails(p) ==
    /\ pc[p] \in Preparing
    /\ \E e \in {"interrupt"}
               \union (IF At(p, "await") THEN {"infrastructure"} ELSE {})
               \union (IF At(p, "prepare")
                       THEN {"contract", "infrastructure", "diagnosed"}
                              \union (IF job[p].stage = "inference" THEN {"observer"} ELSE {})
                       ELSE {}) :
          SetError(p, e)
    /\ Goto(p, "abort")
    /\ UNCHANGED <<recordVars, lock, runVars>>

\* lifecycle.start and the uploads are done; the marker write may reach the
\* Run although its answer is lost, and is then treated as a setup failure.
Release(p) ==
    /\ At(p, "prepare")
    /\ MarkerWritten(job[p].ref.run)
    /\ \/ Goto(p, "follow") /\ UNCHANGED job
       \/ Goto(p, "abort") /\ SetError(p, "infrastructure")
    /\ UNCHANGED <<recordVars, lock>>

\* The BaseException handler before release: close the lifecycle, cancel the
\* Run.  Either may fail ("diagnosed"), and a cancellation whose answer is lost
\* may have been accepted all the same.
Abort(p) ==
    /\ At(p, "abort")
    /\ \/ /\ CancelRequested(job[p].ref.run)
          /\ \E e \in {job[p].error, "diagnosed"} : Raise(p, e)
       \/ UNCHANGED runVars /\ Raise(p, "diagnosed")
    /\ UNCHANGED <<recordVars, lock>>

(* AxernBackend._execute after the release of the Run. *)

\* The Run ended, its outputs are here (or it did not exit with 0), and the
\* lifecycle closed.
Follow(p) ==
    /\ At(p, "follow")
    /\ status[job[p].ref.run] \in Ended
    /\ Goto(p, "accept")
    /\ UNCHANGED <<recordVars, lock, job, runVars>>

\* The connection, the deadline or a download fails; whatever happened,
\* closing the lifecycle of an inference stage may replace it by its own
\* failure, and an invalid progress file surfaces there.
FollowFails(p) ==
    /\ At(p, "follow")
    /\ \E e \in {"infrastructure"}
               \union (IF job[p].stage = "inference" THEN {"diagnosed", "observer"} ELSE {})
               \union (IF status[job[p].ref.run] = "unusable" THEN {"contract"} ELSE {}) :
          Raise(p, e)
    /\ UNCHANGED <<recordVars, lock, runVars>>

------------------------------------------------------------------------------
(* _commit_inference and _finish_verification. *)

\* Both start by checking, under the lock, that the result is still expected.
Accept(p) ==
    /\ At(p, "accept") /\ Free
    /\ IF Owns(p)
       THEN /\ Goto(p, IF job[p].stage = "inference"
                           /\ status[job[p].ref.run] \in {"failed", "cancelled"}
                       THEN "reject" ELSE "publish")
            /\ UNCHANGED job
       ELSE Raise(p, Disowned(p))
    /\ UNCHANGED <<recordVars, lock, runVars>>

\* A non-zero exit of inference fails the episode.
RejectInference(p) ==
    /\ At(p, "reject") /\ Free
    /\ job[p].stage = "inference"
    /\ IF Owns(p)
       THEN /\ phase' = "failed"
            /\ execution' = [execution EXCEPT !["inference"] = job[p].ref]
            /\ Raise(p, "infrastructure")
       ELSE UNCHANGED <<phase, execution>> /\ Raise(p, Disowned(p))
    /\ UNCHANGED <<candidate, verdict, lock, runVars>>

\* The candidate and the trajectory are built outside the lock.
BuildFails(p) ==
    /\ At(p, "publish") /\ job[p].stage = "inference"
    /\ \E e \in {"infrastructure"}
               \union (IF status[job[p].ref.run] = "unusable" THEN {"contract"} ELSE {}) :
          Raise(p, e)
    /\ UNCHANGED <<recordVars, lock, runVars>>

PublishCandidate(p) ==
    /\ At(p, "publish") /\ Free
    /\ job[p].stage = "inference"
    /\ status[job[p].ref.run] = "succeeded"
    /\ IF Owns(p)
       THEN /\ execution' = [execution EXCEPT !["inference"] = job[p].ref]
            /\ candidate' = job[p].ref.run
            /\ phase' = "candidate_ready"
            /\ Goto(p, "startVerification")
            /\ UNCHANGED job
       ELSE UNCHANGED <<execution, candidate, phase>> /\ Raise(p, Disowned(p))
    /\ UNCHANGED <<verdict, lock, runVars>>

\* Mutant of StartVerification: the phase is not read again under the lock.
StartVerificationBlindly(p) ==
    /\ At(p, "startVerification") /\ Free
    /\ phase' = "verification_running"
    /\ Goto(p, "create")
    /\ Enter(p, "verification", Unbound, job[p].handlers + 1)
    /\ UNCHANGED <<execution, candidate, verdict, lock, runVars>>

StartVerification(p) ==
    /\ At(p, "startVerification") /\ Free
    /\ IF phase = "candidate_ready"
       THEN /\ phase' = "verification_running"
            /\ Goto(p, "create")
            /\ Enter(p, "verification", Unbound, job[p].handlers + 1)
       ELSE UNCHANGED phase /\ Raise(p, "recovery_required")
    /\ UNCHANGED <<execution, candidate, verdict, lock, runVars>>

\* Mutant of PublishVerdict: the outcome of the Run is not looked at.
PublishAnyVerdict(p) ==
    LET r == job[p].ref.run
    IN  /\ At(p, "publish") /\ Free
        /\ job[p].stage = "verification"
        /\ IF Owns(p)
           THEN /\ execution' = [execution EXCEPT !["verification"] = job[p].ref]
                /\ verdict' = r /\ phase' = "completed" /\ Leave(p)
           ELSE UNCHANGED <<execution, verdict, phase>> /\ Raise(p, Disowned(p))
        /\ UNCHANGED <<candidate, lock, runVars>>

\* parse_result and the comparison with the candidate and the verifier of
\* the record: a verdict completes the episode, anything else fails it.
PublishVerdict(p) ==
    LET r == job[p].ref.run
    IN  /\ At(p, "publish") /\ Free
        /\ job[p].stage = "verification"
        /\ IF Owns(p)
           THEN /\ execution' = [execution EXCEPT !["verification"] = job[p].ref]
                /\ IF status[r] = "succeeded"
                   THEN verdict' = r /\ phase' = "completed" /\ Leave(p)
                   ELSE UNCHANGED verdict /\ phase' = "failed" /\ Raise(p, "contract")
           ELSE UNCHANGED <<execution, verdict, phase>> /\ Raise(p, Disowned(p))
        /\ UNCHANGED <<candidate, lock, runVars>>

------------------------------------------------------------------------------
(* _record_failure, once per enclosing except clause. *)

FailsEpisode(e) ==
    \/ e \in {"observer", "contract"}
    \/ e # "diagnosed" /\ ~HasRecoverableIdentity

RecordFailure(p) ==
    /\ At(p, "recordFailure") /\ Free
    /\ phase' = IF phase \notin Terminal /\ FailsEpisode(job[p].error)
                THEN "failed" ELSE phase
    /\ IF job[p].handlers > 1
       THEN job' = [job EXCEPT ![p] =
                        JobOf(job[p].stage, job[p].ref, job[p].handlers - 1, job[p].error)] /\ UNCHANGED pc
       ELSE Leave(p)
    /\ UNCHANGED <<execution, candidate, verdict, lock, runVars>>

------------------------------------------------------------------------------
(* recover, and wait, which blocks without changing anything and then       *)
(* recovers.                                                                *)

\* Mutant of Recover: a stage without a Run is started again.
RecoverRestarts(p) ==
    /\ At(p, "idle") /\ Free
    /\ \/ /\ phase = "candidate_ready"
          /\ Goto(p, "startVerification")
          /\ UNCHANGED job
       \/ \E s \in Stage :
          /\ phase = Running[s]
          /\ Goto(p, IF execution[s].run = NoRun THEN "create" ELSE "query")
          /\ Enter(p, s, execution[s], 0)
    /\ UNCHANGED <<recordVars, lock, runVars>>

Recover(p) ==
    /\ At(p, "idle") /\ Free
    /\ \/ /\ phase = "candidate_ready"
          /\ Goto(p, "startVerification")
          /\ UNCHANGED job
       \/ \E s \in Stage :
          /\ phase = Running[s]
          /\ execution[s].run # NoRun
          /\ Goto(p, "query")
          /\ Enter(p, s, execution[s], 0)
    /\ UNCHANGED <<recordVars, lock, runVars>>

\* The CandidateBundle of the record can no longer be read or verified: the
\* one failure of recover that is recorded.
RecoverDamaged(p) ==
    /\ BundleDamage
    /\ At(p, "idle") /\ Free
    /\ \/ phase = "candidate_ready"
       \/ phase = "verification_running" /\ execution["verification"].run # NoRun
    /\ Goto(p, "recordFailure")
    /\ job' = [job EXCEPT ![p] = JobOf("inference", Unbound, 0, "contract")]
    /\ UNCHANGED <<recordVars, lock, runVars>>

\* Mutant of Query: only a Run that succeeded counts as ended.
QuerySuccess(p) ==
    /\ At(p, "query")
    /\ status[job[p].ref.run] = "succeeded"
    /\ Goto(p, "accept")
    /\ SetRef(p, [run |-> job[p].ref.run, allocated |-> job[p].ref.run \in allocated])
    /\ UNCHANGED <<recordVars, lock, runVars>>

\* AxernBackend.recover: the outcome of a Run that ended.
Query(p) ==
    /\ At(p, "query")
    /\ status[job[p].ref.run] \in Ended
    /\ Goto(p, "accept")
    /\ SetRef(p, [run |-> job[p].ref.run, allocated |-> job[p].ref.run \in allocated])
    /\ UNCHANGED <<recordVars, lock, runVars>>

\* The Run is still active, Axern is out of reach, or an output is refused.
QueryFails(p) ==
    /\ At(p, "query")
    /\ Raise(p, "recovery_required")
    /\ UNCHANGED <<recordVars, lock, runVars>>

------------------------------------------------------------------------------
(* cancel: the call to Axern is made inside the lock. *)

\* Mutant of Cancel: only a verification Run is told to end.
CancelVerificationOnly(p) ==
    LET bound == {s \in {"verification"} : phase = Running[s] /\ execution[s].run # NoRun}
    IN  /\ At(p, "idle") /\ Free
        /\ phase \notin Terminal
        /\ lock' = p
        /\ IF bound = {}
           THEN Goto(p, "cancelSave") /\ UNCHANGED job
           ELSE \E s \in bound :
                   /\ Goto(p, "cancelCall")
                   /\ Enter(p, s, execution[s], 0)
        /\ UNCHANGED <<recordVars, runVars>>

Cancel(p) ==
    LET bound == {s \in Stage : phase = Running[s] /\ execution[s].run # NoRun}
    IN  /\ At(p, "idle") /\ Free
        /\ phase \notin Terminal
        /\ lock' = p
        /\ IF bound = {}
           THEN Goto(p, "cancelSave") /\ UNCHANGED job
           ELSE \E s \in bound :
                   /\ Goto(p, "cancelCall")
                   /\ Enter(p, s, execution[s], 0)
        /\ UNCHANGED <<recordVars, runVars>>

CancelCall(p) ==
    /\ At(p, "cancelCall")
    /\ CancelRequested(job[p].ref.run)
    /\ Goto(p, "cancelSave")
    /\ UNCHANGED <<recordVars, lock, job>>

\* The call fails, before or after Axern accepted it: the phase stays.
CancelCallFails(p) ==
    /\ At(p, "cancelCall")
    /\ CancelRequested(job[p].ref.run) \/ UNCHANGED runVars
    /\ lock' = NoCaller
    /\ Leave(p)
    /\ UNCHANGED recordVars

CancelSave(p) ==
    /\ At(p, "cancelSave")
    /\ phase' = "cancelled"
    /\ lock' = NoCaller
    /\ Leave(p)
    /\ UNCHANGED <<execution, candidate, verdict, runVars>>

------------------------------------------------------------------------------
\* A caller dies: its locals are gone and the kernel drops its flock.
Crash(p) ==
    /\ ~At(p, "idle")
    /\ lock' = IF lock = p THEN NoCaller ELSE lock
    /\ Leave(p)
    /\ UNCHANGED <<recordVars, runVars>>

Execute(p) ==
    \/ CreateRun(p) \/ CreateRunFails(p) \/ Bind(p) \/ CancelLate(p)
    \/ AwaitRunning(p) \/ PreparationFails(p) \/ Release(p) \/ Abort(p)
    \/ Follow(p) \/ FollowFails(p)

Commit(p) ==
    \/ Accept(p) \/ RejectInference(p) \/ BuildFails(p) \/ PublishCandidate(p)
    \/ StartVerification(p) \/ PublishVerdict(p) \/ RecordFailure(p)

Rescue(p) ==
    \/ Recover(p) \/ RecoverDamaged(p) \/ Query(p) \/ QueryFails(p)
    \/ Cancel(p) \/ CancelCall(p) \/ CancelCallFails(p) \/ CancelSave(p)

CallerNext(p) == Run(p) \/ Execute(p) \/ Commit(p) \/ Rescue(p) \/ Crash(p)

AxernStep == AxernNext /\ UNCHANGED <<recordVars, lock, pc, job>>

Next == AxernStep \/ \E p \in Caller : CallerNext(p)

Spec == Init /\ [][Next]_vars

------------------------------------------------------------------------------
(* What the runner promises. *)

\* No crash, lost answer, retry, resume or concurrent caller ever makes the
\* runner create a second Run for a stage: the Run is recovered, never
\* replaced (run, _start_verification, recover).
NoReplacementRun ==
    \A r1, r2 \in RunId :
        purpose[r1] \in Stage /\ purpose[r1] = purpose[r2] => r1 = r2

\* A workload starts only once the durable record names its Run and its
\* Allocation, and the record names them ever after: whatever happens to the
\* caller, the Run can be found (_bind before the ready marker of _execute).
ReleasedRunIsRecorded ==
    \A r \in released :
        execution[purpose[r]] = [run |-> r, allocated |-> TRUE]

\* A completed episode is backed by two different Runs that succeeded, its
\* candidate by the inference Run and its verdict by the verification Run the
\* record names (_commit_inference, _finish_verification).
CompletedIsBacked ==
    phase = "completed" =>
        /\ candidate = execution["inference"].run
        /\ verdict = execution["verification"].run
        /\ candidate # verdict
        /\ status[candidate] = "succeeded" /\ purpose[candidate] = "inference"
        /\ status[verdict] = "succeeded" /\ purpose[verdict] = "verification"

\* Once the cancellation of an episode is recorded, every workload of the
\* episode has ended or has been told to (cancel, the late branch of _bind).
CancelledLeavesNoWork ==
    phase = "cancelled" => Executing \subseteq cancelling

\* No late result, failure report, binding or cancellation changes the record
\* of an episode that has ended.
TerminalIsFinal == [][(phase \in Terminal) => UNCHANGED recordVars]_vars

\* The record, seen without its callers, behaves like an Episode.
Promise == INSTANCE Episode WITH
    bound <- [s \in Stage |-> execution[s].run],
    succeeded <- {r \in RunId : status[r] = "succeeded"}

\* Whatever the callers interleave, lose or crash, the record goes through the
\* phases one after the other, binds one Run per stage and never a second,
\* leaves a stage successfully only on a Run that succeeded, and rests once it
\* has ended.
ImplementsEpisode == Promise!Spec

------------------------------------------------------------------------------
(* Why the record is safe: the inductive invariant. *)

\* Nobody is about to create a Run for the stage, and there is none.
Unstarted(s) ==
    /\ \A r \in RunId : purpose[r] # s
    /\ \A p \in Caller : At(p, "create") => job[p].stage # s

\* The phase is the licence to create: entering a running phase hands it to
\* one caller, and no phase hands it out again.
OneCreator ==
    /\ phase = "new" => \A p \in Caller : pc[p] \in {"idle", "cancelSave"}
    /\ phase = "new" => Unstarted("inference")
    /\ phase \in {"new", "inference_running", "candidate_ready"} => Unstarted("verification")
    /\ \A p \in Caller : At(p, "create") => \A r \in RunId : purpose[r] # job[p].stage
    /\ \A p, q \in Caller :
          At(p, "create") /\ At(q, "create") /\ job[p].stage = job[q].stage => p = q
    /\ NoReplacementRun

\* Where a caller works for a Run.
Holding == Preparing \union {"abort", "follow", "query", "accept", "reject", "publish"}

\* A Run serves the stage it was created for, for the record and for every
\* caller; what the record names together with an Allocation stays named.
BoundForItsStage ==
    /\ \A r \in RunId : purpose[r] \in Stage => status[r] # "absent"
    /\ \A r \in released : purpose[r] \in Stage
    /\ \A s \in Stage : execution[s].run # NoRun => purpose[execution[s].run] = s
    /\ \A p \in Caller : pc[p] \in Holding =>
          job[p].ref.run # NoRun /\ purpose[job[p].ref.run] = job[p].stage
    /\ \A p \in Caller : At(p, "prepare") =>
          job[p].ref.allocated /\ execution[job[p].stage] = job[p].ref
    /\ ReleasedRunIsRecorded

\* What a phase says about the outcome of the bound Runs.
OutcomeBacksPhase ==
    /\ phase \in {"candidate_ready", "verification_running", "completed"} =>
          /\ candidate # NoRun /\ candidate = execution["inference"].run
          /\ status[candidate] = "succeeded"
    /\ phase = "completed" =>
          /\ verdict # NoRun /\ verdict = execution["verification"].run
          /\ status[verdict] = "succeeded"

\* Every bound Run that goes on has been told to end.
BoundRunsTold ==
    \A s \in Stage :
        execution[s].run # NoRun /\ Live(execution[s].run) => execution[s].run \in cancelling

\* cancel works on the Run the record names, and nothing moves under its lock.
CancelOwnsRecord ==
    /\ \A p \in Caller : pc[p] \in {"cancelCall", "cancelSave"} =>
          lock = p /\ phase \notin Terminal
    /\ \A p \in Caller : At(p, "cancelCall") =>
          phase = Running[job[p].stage] /\ execution[job[p].stage] = job[p].ref
    /\ \A p \in Caller : At(p, "cancelSave") => BoundRunsTold
    /\ phase = "cancelled" => BoundRunsTold

RecordIsSafe ==
    /\ TypeOK
    /\ OneCreator
    /\ BoundForItsStage
    /\ OutcomeBacksPhase
    /\ CancelOwnsRecord

------------------------------------------------------------------------------
(* Progress.  A workload that runs ends; a process that is not killed takes *)
(* its next step; an operator repeats resume; and neither Axern refuses nor *)
(* a crash prevents the same step of a command for ever.                    *)

Fairness ==
    /\ \A r \in RunId : WF_vars(Exit(r) /\ UNCHANGED <<recordVars, lock, pc, job>>)
    /\ \A p \in Caller :
          WF_vars(Execute(p) \/ Commit(p) \/ QueryFails(p) \/ CancelCallFails(p) \/ CancelSave(p))
    /\ SF_vars(\E p \in Caller : Recover(p))
    /\ SF_vars(\E p \in Caller : Query(p))
    /\ SF_vars(\E p \in Caller : Accept(p))
    /\ SF_vars(\E p \in Caller : RejectInference(p) \/ PublishCandidate(p) \/ PublishVerdict(p))
    /\ SF_vars(\E p \in Caller : CancelCall(p))
    /\ SF_vars(\E p \in Caller : CancelSave(p))

FairSpec == Spec /\ Fairness

\* A stage whose workload was started does not stay running for ever: its
\* outcome is taken over from whichever caller is left, unless the output of
\* the Run is refused (recover reports that without recording it).
ReleasedStageSettles ==
    \A s \in Stage, r \in RunId :
        (phase = Running[s] /\ execution[s].run = r /\ r \in released)
            ~> (phase # Running[s] \/ status[r] = "unusable")

==============================================================================

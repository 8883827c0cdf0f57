----------------------------- MODULE ProgramBench -----------------------------
(***************************************************************************)
(* The multi-Run verification of a ProgramBench candidate                  *)
(* (axrun/adapters/programbench_official.py, verification/multirun.py): a  *)
(* compile Run whose root filesystem becomes an Environment of its own,    *)
(* then one Run per test branch in that Environment, all described by one  *)
(* durable execution record.  Several callers may verify (`run` and        *)
(* `resume`), one at a time may cancel; every caller may die.              *)
(***************************************************************************)
EXTENDS Integers, FiniteSets

CONSTANTS Caller,     \* processes that verify
          Branches,   \* the number of active test branches
          RunId, NoRun

ASSUME BranchesAssumption == Branches \in Nat
ASSUME NoRunAssumption == NoRun \notin RunId

VARIABLES phase,        \* EpisodeRecord.phase, from verification_running on
          primary,      \* the Run of EpisodeRecord.verification
          begun,        \* has _start_verification called verify?
          record,       \* the durable _ExecutionRecord
          marker,       \* does the file `cancelled` exist?
          pc, held, at, \* of each caller: where it is, its copy of the record, its step
          canceller,    \* where the cancel command is
          status,       \* of each Run, as Axern reports it
          purpose,      \* the step each Run was created for
          cancelling,   \* Runs whose cancellation Axern accepted
          environment   \* the derived Environment at Axern

episodeVars == <<phase, primary, begun>>
recordVars == <<record, marker>>
callerVars == <<pc, held, at>>
axernVars == <<status, purpose, cancelling, environment>>
vars == <<episodeVars, recordVars, callerVars, canceller, axernVars>>

Compile == 0
Branch == 1..Branches
Step == {Compile} \union Branch

Ended == {"succeeded", "unusable", "rejected", "failed", "cancelled"}

\* Its aggregation fields and digests are data.
Record == [state : {"absent", "new", "compile_running", "branches_running", "aggregating",
                    "completed", "infrastructure_failed", "cancelling", "cancelled"},
           step : [Step -> {"pending", "running", "completed", "business_failed",
                            "infrastructure_failed"}],
           run : [Step -> RunId \union {NoRun}],
           derived : BOOLEAN,
           cleanup : {"not_started", "running", "completed", "not_created"}]

Blank == [state |-> "absent", step |-> [s \in Step |-> "pending"],
          run |-> [s \in Step |-> NoRun], derived |-> FALSE, cleanup |-> "not_started"]

Place == {"idle", "verify", "step", "live", "create", "bind", "primary", "await", "rebind",
          "reprimary", "release", "abort", "follow", "result", "discard", "loaded", "reject",
          "delete", "settle", "publish", "lastDelete", "complete", "finish", "raise"}

TypeOK ==
    /\ phase \in {"verification_running", "completed", "failed", "cancelled"}
    /\ primary \in RunId \union {NoRun} /\ begun \in BOOLEAN
    /\ record \in Record /\ marker \in BOOLEAN
    /\ pc \in [Caller -> Place]
    /\ held \in [Caller -> Record] /\ at \in [Caller -> Step]
    /\ canceller \in {"idle", "primary", "mark", "runs", "environment", "end", "save"}
    /\ status \in [RunId -> {"absent", "waiting", "executing"} \union Ended]
    /\ purpose \in [RunId -> Step] /\ cancelling \subseteq RunId
    /\ environment \in {"none", "exists", "deleted"}

Init ==
    /\ phase = "verification_running" /\ primary = NoRun /\ begun = FALSE
    /\ record = Blank /\ marker = FALSE
    /\ pc = [c \in Caller |-> "idle"] /\ held = [c \in Caller |-> Blank]
    /\ at = [c \in Caller |-> Compile] /\ canceller = "idle"
    /\ status = [r \in RunId |-> "absent"] /\ purpose = [r \in RunId |-> Compile]
    /\ cancelling = {} /\ environment = "none"

Goto(c, from, to) == pc[c] = from /\ pc' = [pc EXCEPT ![c] = to]

\* A caller that leaves verify keeps nothing of what it held.
Leave(c, to) ==
    /\ pc' = [pc EXCEPT ![c] = to]
    /\ held' = [held EXCEPT ![c] = Blank]
    /\ at' = [at EXCEPT ![c] = Compile]
Raise(c) == Leave(c, "raise")

\* The lock of the episode is held by the whole of `cancel`, that of the
\* execution record by the part of it that is the adapter's.
EpisodeFree == canceller = "idle"
StoreFree == canceller \in {"idle", "primary", "save"}

\* require_live, and the guard of save_live and of both claims.
Open == record.state \notin {"absent", "cancelling", "cancelled"} /\ ~marker

Mine(c) == held[c].run[at[c]]
Uncompleted(copy) == {s \in Step : copy.step[s] # "completed"}

\* save_live: the caller publishes its whole copy, whatever the record says by
\* now, unless a cancellation came first.
Saved(c, from, copy, to) ==
    /\ Goto(c, from, to) /\ StoreFree
    /\ Open
    /\ held' = [held EXCEPT ![c] = copy]
    /\ record' = copy
    /\ UNCHANGED <<episodeVars, marker, at, canceller, axernVars>>

Refused(c, from) ==
    /\ pc[c] = from /\ StoreFree
    /\ ~Open
    /\ UNCHANGED <<episodeVars, recordVars, canceller, axernVars>>

SaveLive(c, from, copy, to) == Saved(c, from, copy, to) \/ (Refused(c, from) /\ Raise(c))
SaveLiveOr(c, from, copy, to, refused) ==
    \/ Saved(c, from, copy, to)
    \/ Refused(c, from) /\ Goto(c, from, refused) /\ UNCHANGED <<held, at>>

------------------------------------------------------------------------------
(* verify, up to the Run of a step. *)

Initialized == IF record.state = "absent" THEN [Blank EXCEPT !.state = "new"] ELSE record

\* Where a caller starts: a failed verification is not repeated, only cleaned up.
Entry ==
    IF record.state # "infrastructure_failed" THEN "step"
    ELSE IF record.derived /\ record.cleanup # "completed" THEN "delete"
    ELSE "raise"

\* The first caller comes from _start_verification, any other from recover,
\* which wants the compile Run in the episode. The cancellation may come next.
Enter(c) ==
    /\ Goto(c, "idle", "verify")
    /\ phase = "verification_running"
    /\ ~begun \/ (primary # NoRun /\ EpisodeFree)
    /\ begun' = TRUE
    /\ UNCHANGED <<phase, primary, recordVars, held, at, canceller, axernVars>>

Initialize(c) ==
    /\ pc[c] = "verify" /\ StoreFree
    /\ IF marker \/ Entry = "raise"
       THEN Raise(c) /\ UNCHANGED record
       ELSE /\ Goto(c, "verify", Entry)
            /\ record' = Initialized
            /\ held' = [held EXCEPT ![c] = Initialized]
            /\ UNCHANGED at
    /\ UNCHANGED <<episodeVars, marker, canceller, axernVars>>

Claimed(s) ==
    IF record.step[s] = "completed" \/ (s = Compile /\ record.step[s] = "business_failed")
    THEN record
    ELSE [record EXCEPT !.step[s] = "running",
                        !.state = IF s = Compile THEN "compile_running" ELSE @]

\* A step that is running without a Run is ambiguous: its creator may have died.
Ambiguous(s) == record.step[s] = "running" /\ record.run[s] = NoRun

\* The steps are done in their order, each once: a caller does not look back.
Ahead(c) == {s \in Uncompleted(held[c]) : s >= at[c]}
Due(c, s) == s \in Ahead(c) /\ \A t \in Ahead(c) : s <= t

Claims(c, s) ==
    /\ Goto(c, "step", "live")
    /\ record' = Claimed(s)
    /\ held' = [held EXCEPT ![c] = Claimed(s)]
    /\ at' = [at EXCEPT ![c] = s]

\* Mutant of Claim: an ambiguous step is run again.
ClaimAgain(c) ==
    /\ StoreFree
    /\ Open
    /\ \E s \in Step : Due(c, s) /\ Claims(c, s)
    /\ UNCHANGED <<episodeVars, marker, canceller, axernVars>>

\* claim_compile, claim_branch: the caller takes a fresh copy of the record.
Claim(c) ==
    /\ pc[c] = "step" /\ StoreFree
    /\ \E s \in Step :
          /\ Due(c, s)
          /\ IF Open /\ ~Ambiguous(s) THEN Claims(c, s) ELSE Raise(c) /\ UNCHANGED record
    /\ UNCHANGED <<episodeVars, marker, canceller, axernVars>>

RequireLive(c) ==
    /\ pc[c] = "live" /\ StoreFree
    /\ IF Open
       THEN /\ Goto(c, "live", IF Mine(c) = NoRun THEN "create" ELSE "follow")
            /\ UNCHANGED <<held, at>>
       ELSE Raise(c)
    /\ UNCHANGED <<episodeVars, recordVars, canceller, axernVars>>

\* The Run may exist although the answer is lost. A branch needs its Environment.
CreateRun(c) ==
    /\ pc[c] = "create"
    /\ at[c] = Compile \/ (environment = "exists" /\ held[c].derived)
    /\ \E r \in RunId :
          /\ status[r] = "absent"
          /\ status' = [status EXCEPT ![r] = "waiting"]
          /\ purpose' = [purpose EXCEPT ![r] = at[c]]
          /\ \/ /\ Goto(c, "create", "bind")
                /\ held' = [held EXCEPT ![c].run[at[c]] = r]
                /\ UNCHANGED at
             \/ Raise(c)
    /\ UNCHANGED <<episodeVars, recordVars, canceller, cancelling, environment>>

CreateRunFails(c) ==
    /\ pc[c] = "create"
    /\ Raise(c)
    /\ UNCHANGED <<episodeVars, recordVars, canceller, axernVars>>

\* bind_compile and bind_branch, once for the Run and once for its Allocation.
Bind(c) ==
    \/ SaveLiveOr(c, "bind", held[c], IF at[c] = Compile THEN "primary" ELSE "await", "abort")
    \/ SaveLiveOr(c, "rebind", held[c], IF at[c] = Compile THEN "reprimary" ELSE "release", "abort")

\* on_primary_bound: _bind of the runner.
BindPrimary(c) ==
    /\ pc[c] \in {"primary", "reprimary"}
    /\ EpisodeFree
    /\ IF phase = "verification_running" /\ primary \in {NoRun, Mine(c)}
       THEN /\ primary' = Mine(c)
            /\ Goto(c, pc[c], IF pc[c] = "primary" THEN "await" ELSE "release")
       ELSE Goto(c, pc[c], "abort") /\ UNCHANGED primary
    /\ UNCHANGED <<phase, begun, recordVars, held, at, canceller, axernVars>>

AwaitRunning(c) ==
    /\ Goto(c, "await", "rebind")
    /\ status[Mine(c)] = "waiting"
    /\ UNCHANGED <<episodeVars, recordVars, held, at, canceller, axernVars>>

PreparationFails(c) ==
    /\ pc[c] \in {"await", "release"}
    /\ Goto(c, pc[c], "abort")
    /\ UNCHANGED <<episodeVars, recordVars, held, at, canceller, axernVars>>

\* The marker may arrive although the caller sees an exception.
Release(c) ==
    /\ Goto(c, "release", "follow") \/ Goto(c, "release", "abort")
    /\ status[Mine(c)] = "waiting"
    /\ status' = [status EXCEPT ![Mine(c)] = "executing"]
    /\ UNCHANGED <<episodeVars, recordVars, held, at, canceller, purpose, cancelling, environment>>

RunEnded(r) == status[r] \in Ended
Cancel(runs) == cancelling' = cancelling \union {r \in runs : r # NoRun /\ ~RunEnded(r)}

\* Not released, as far as the caller knows. Axern may carry out a request
\* that it did not answer; that failure leaves the episode as it is.
Abort(c) ==
    /\ pc[c] = "abort"
    /\ \/ Raise(c) /\ Cancel({Mine(c)})
       \/ Leave(c, "idle") /\ (Cancel({Mine(c)}) \/ UNCHANGED cancelling)
    /\ UNCHANGED <<episodeVars, recordVars, canceller, status, purpose, environment>>

------------------------------------------------------------------------------
(* The outcome of a step. *)

\* execute to its end, or recover: the Run has ended and is read.
Follow(c) ==
    /\ Goto(c, "follow", "result")
    /\ RunEnded(Mine(c))
    /\ UNCHANGED <<episodeVars, recordVars, held, at, canceller, axernVars>>

At(c, place, steps, outcomes) ==
    pc[c] = place /\ at[c] \in steps /\ status[Mine(c)] \in outcomes
Sealed == {"succeeded", "unusable"}

\* Transport failures, a Run that is not yet over, a rootfs that was not sealed,
\* a compile Run that failed: nothing is recorded.
FollowFails(c) ==
    /\ \/ pc[c] = "follow"
       \/ At(c, "result", {Compile}, Ended \ {"rejected"})
       \/ At(c, "result", Branch, {"succeeded"})
    /\ Raise(c)
    /\ UNCHANGED <<episodeVars, recordVars, canceller, axernVars>>

\* The candidate does not compile: a verdict, not a failure.
RejectCandidate(c) ==
    /\ At(c, "result", {Compile}, {"rejected"})
    /\ SaveLive(c, "result", [held[c] EXCEPT !.step[Compile] = "business_failed",
                                             !.state = "aggregating"], "reject")

FinishRejected(c) ==
    SaveLive(c, "reject", [held[c] EXCEPT !.cleanup = "not_created", !.state = "completed"], "finish")

\* The outputs cannot be downloaded: execute_rootfs deletes the Environment.
DownloadFails(c) ==
    /\ At(c, "result", {Compile}, Sealed) /\ environment # "none"
    /\ Raise(c)
    /\ environment' \in {environment, "deleted"}
    /\ UNCHANGED <<episodeVars, recordVars, canceller, status, purpose, cancelling>>

PublishEnvironment(c) ==
    /\ At(c, "result", {Compile}, Sealed) /\ environment # "none"
    /\ SaveLiveOr(c, "result", [held[c] EXCEPT !.derived = TRUE], "loaded", "discard")

AcceptCompile(c) ==
    /\ At(c, "loaded", {Compile}, {"succeeded"})
    /\ SaveLive(c, "loaded", [held[c] EXCEPT !.step[Compile] = "completed",
                                             !.state = "branches_running"], "step")

Failed(copy) == [copy EXCEPT !.state = "infrastructure_failed", !.cleanup = "running"]

\* The result is invalid; that of a branch may name a failure of its evaluator.
SaveFailure(c) ==
    \/ At(c, "loaded", {Compile}, {"unusable"}) /\ SaveLive(c, "loaded", Failed(held[c]), "delete")
    \/ /\ At(c, "result", Branch, {"unusable"})
       /\ \/ SaveLive(c, "result", Failed(held[c]), "delete")
          \/ SaveLive(c, "result", Failed([held[c] EXCEPT !.step[at[c]] = "infrastructure_failed"]),
                      "delete")

\* Mutant of BranchFails: the Environment is left to a later caller.
BranchFailsOnly(c) ==
    /\ At(c, "result", Branch, {"failed", "cancelled"})
    /\ SaveLive(c, "result", [held[c] EXCEPT !.cleanup = "running"], "settle")

BranchFails(c) ==
    /\ At(c, "result", Branch, {"failed", "cancelled"})
    /\ SaveLive(c, "result", [held[c] EXCEPT !.cleanup = "running"], "delete")

\* Mutant of AcceptBranch: a failed Run is taken for a result.
AcceptAnyBranch(c) ==
    /\ At(c, "result", Branch, Ended)
    /\ SaveLive(c, "result", [held[c] EXCEPT !.step[at[c]] = "completed"], "step")

AcceptBranch(c) ==
    /\ At(c, "result", Branch, {"succeeded"})
    /\ SaveLive(c, "result", [held[c] EXCEPT !.step[at[c]] = "completed"], "step")

------------------------------------------------------------------------------
(* The end: aggregation, and the deletion of the Environment. *)

Aggregate(c) ==
    /\ Ahead(c) = {}
    /\ SaveLive(c, "step", [held[c] EXCEPT !.state = "aggregating"], "publish")

\* The details are durable before the record names them. They need every branch:
\* the copy may come from a record in which another caller erased one.
PublishDetails(c) ==
    /\ Uncompleted(held[c]) \subseteq {Compile}
    /\ SaveLive(c, "publish", [held[c] EXCEPT !.cleanup = "running"], "lastDelete")

AggregationFails(c) ==
    /\ pc[c] = "publish"
    /\ Raise(c)
    /\ UNCHANGED <<episodeVars, recordVars, canceller, axernVars>>

\* An Environment that is gone already counts as deleted.
DeleteEnvironment(c) ==
    /\ \/ Goto(c, "delete", "settle") /\ UNCHANGED <<held, at>>
       \/ Goto(c, "lastDelete", "complete") /\ UNCHANGED <<held, at>>
       \/ pc[c] = "discard" /\ Raise(c)
    /\ environment' = "deleted"
    /\ UNCHANGED <<episodeVars, recordVars, canceller, status, purpose, cancelling>>

DeleteFails(c) ==
    /\ pc[c] \in {"delete", "lastDelete", "discard"}
    /\ Raise(c)
    /\ UNCHANGED <<episodeVars, recordVars, canceller, axernVars>>

\* A failed verification ends in the exception.
Settle(c) ==
    /\ pc[c] = "settle" /\ StoreFree
    /\ record' = IF Open THEN [held[c] EXCEPT !.cleanup = "completed",
                                              !.state = "infrastructure_failed"] ELSE record
    /\ Raise(c)
    /\ UNCHANGED <<episodeVars, marker, canceller, axernVars>>

Complete(c) ==
    SaveLive(c, "complete", [held[c] EXCEPT !.cleanup = "completed", !.state = "completed"], "finish")

\* _finish_multi_verification
Finish(c) ==
    /\ pc[c] = "finish" /\ EpisodeFree
    /\ IF phase = "verification_running" /\ primary = held[c].run[Compile]
       THEN Leave(c, "idle") /\ phase' = "completed"
       ELSE Raise(c) /\ UNCHANGED phase
    /\ UNCHANGED <<primary, begun, recordVars, canceller, axernVars>>

\* _record_failure: only an episode without a Run to resume fails.
RecordFailure(c) ==
    /\ pc[c] = "raise" /\ EpisodeFree
    /\ Leave(c, "idle")
    /\ phase' = IF phase = "verification_running" /\ primary = NoRun THEN "failed" ELSE phase
    /\ UNCHANGED <<primary, begun, recordVars, canceller, axernVars>>

Crash(c) ==
    /\ pc[c] # "idle"
    /\ Leave(c, "idle")
    /\ UNCHANGED <<episodeVars, recordVars, canceller, axernVars>>

------------------------------------------------------------------------------
(* cancel, of the runner around that of the adapter. *)

Proceed(from, to) == canceller = from /\ canceller' = to

BeginCancel ==
    /\ Proceed("idle", "primary")
    /\ phase = "verification_running"
    /\ UNCHANGED <<episodeVars, recordVars, callerVars, axernVars>>

CancelPrimary ==
    /\ Proceed("primary", "mark")
    /\ Cancel({primary})
    /\ UNCHANGED <<episodeVars, recordVars, callerVars, status, purpose, environment>>

MarkCancelling ==
    /\ canceller = "mark"
    /\ IF record.state \in {"absent", "cancelled"}
       THEN canceller' = "save" /\ marker' = (marker \/ record.state = "absent") /\ UNCHANGED record
       ELSE /\ canceller' = "runs" /\ UNCHANGED marker
            /\ record' = [record EXCEPT !.state = "cancelling"]
    /\ UNCHANGED <<episodeVars, callerVars, axernVars>>

\* Mutant of Owned: only the Run the episode knows of.
OwnedCompile == {record.run[Compile]}

Owned == {record.run[s] : s \in {t \in Step : record.step[t] = "running"}}

\* Mutant of CancelRuns: the Environment is deleted first.
CancelRunsLast ==
    /\ canceller = "runs"
    /\ IF record.derived /\ record.cleanup # "completed"
       THEN canceller' = "environment" /\ record' = [record EXCEPT !.cleanup = "running"]
       ELSE canceller' = "end" /\ UNCHANGED record
    /\ UNCHANGED <<episodeVars, marker, callerVars, axernVars>>

CancelRuns ==
    /\ canceller = "runs"
    /\ Cancel(Owned)
    /\ IF record.derived /\ record.cleanup # "completed"
       THEN canceller' = "environment" /\ record' = [record EXCEPT !.cleanup = "running"]
       ELSE canceller' = "end" /\ UNCHANGED record
    /\ UNCHANGED <<episodeVars, marker, callerVars, status, purpose, environment>>

CancelEnvironment ==
    /\ Proceed("environment", "end")
    /\ environment' = "deleted"
    /\ UNCHANGED <<episodeVars, recordVars, callerVars, status, purpose, cancelling>>

EndCancel ==
    /\ Proceed("end", "save")
    /\ record' = [record EXCEPT !.state = "cancelled",
                                !.cleanup = IF record.derived THEN "completed" ELSE @]
    /\ UNCHANGED <<episodeVars, marker, callerVars, axernVars>>

SaveCancelled ==
    /\ Proceed("save", "idle")
    /\ phase' = "cancelled"
    /\ UNCHANGED <<primary, begun, recordVars, callerVars, axernVars>>

\* A call is refused, or the process dies; some Runs are cancelled all the same.
CancelFails ==
    /\ canceller # "idle" /\ canceller' = "idle"
    /\ UNCHANGED cancelling \/ (canceller = "runs" /\ \E runs \in SUBSET Owned : Cancel(runs))
    /\ UNCHANGED <<episodeVars, recordVars, callerVars, status, purpose, environment>>

------------------------------------------------------------------------------
(* Axern *)

\* A Run that exits with 0 may leave an Environment.
Exit(r) ==
    /\ status[r] = "executing"
    /\ \E outcome \in {"succeeded", "unusable", "failed"}
                          \union (IF purpose[r] = Compile THEN {"rejected"} ELSE {}) :
          /\ status' = [status EXCEPT ![r] = outcome]
          /\ environment' \in {environment} \union
                (IF purpose[r] = Compile /\ outcome \in Sealed THEN {"exists"} ELSE {})
    /\ UNCHANGED <<episodeVars, recordVars, callerVars, canceller, purpose, cancelling>>

EndsEarly(r) ==
    /\ status[r] \in {"waiting", "executing"}
    /\ status' = [status EXCEPT ![r] = IF r \in cancelling THEN "cancelled" ELSE "failed"]
    /\ UNCHANGED <<episodeVars, recordVars, callerVars, canceller, purpose, cancelling,
                   environment>>

------------------------------------------------------------------------------
Prepare(c) ==
    \/ Enter(c) \/ Initialize(c) \/ Claim(c) \/ RequireLive(c) \/ CreateRun(c)
    \/ CreateRunFails(c) \/ Bind(c) \/ BindPrimary(c) \/ AwaitRunning(c)
    \/ PreparationFails(c) \/ Release(c) \/ Abort(c)
Evaluate(c) ==
    \/ Follow(c) \/ FollowFails(c) \/ RejectCandidate(c) \/ FinishRejected(c) \/ DownloadFails(c)
    \/ PublishEnvironment(c) \/ AcceptCompile(c) \/ SaveFailure(c) \/ BranchFails(c)
    \/ AcceptBranch(c)
Conclude(c) ==
    \/ Aggregate(c) \/ PublishDetails(c) \/ AggregationFails(c) \/ DeleteEnvironment(c)
    \/ DeleteFails(c) \/ Settle(c) \/ Complete(c) \/ Finish(c) \/ RecordFailure(c) \/ Crash(c)
Canceller ==
    \/ BeginCancel \/ CancelPrimary \/ MarkCancelling \/ CancelRuns \/ CancelEnvironment
    \/ EndCancel \/ SaveCancelled \/ CancelFails
Axern == \E r \in RunId : Exit(r) \/ EndsEarly(r)

Next ==
    \/ \E c \in Caller : Prepare(c) \/ Evaluate(c) \/ Conclude(c)
    \/ Canceller
    \/ Axern

Spec == Init /\ [][Next]_vars

------------------------------------------------------------------------------
Executing == {r \in RunId : status[r] = "executing"}
RunsOf(s) == {r \in RunId : status[r] # "absent" /\ purpose[r] = s}

\* A step is never run twice while callers follow each other, whatever they lost
\* ("fails closed instead of creating a duplicate Run",
\* docs/contracts/programbench-official-verification.md).
OneRunPerStep == \A s \in Step : Cardinality(RunsOf(s)) <= 1

\* A cancellation that was accepted leaves no workload that will not be ended.
CancelledLeavesNoWork == phase = "cancelled" => Executing \subseteq cancelling

\* A verification that was cancelled stays so, and one that was cancelled before it
\* began never begins, however late the other callers write.
CancelledIsFinal ==
    [][/\ record.state = "cancelled" => record' = record
       /\ marker => marker' /\ record' = record]_vars

\* An Environment is deleted before the record says so, for verifications that
\* end in a verdict, in a failure and in a cancellation.
CleanedUp ==
    /\ record.cleanup = "completed" => environment # "exists"
    /\ record.state = "cancelled" /\ record.derived => environment # "exists"
    /\ phase = "completed" => environment # "exists"

\* A branch runs in an Environment that is there, unless it is being cancelled.
EnvironmentOutlivesBranches ==
    \A r \in Executing \ cancelling : purpose[r] # Compile => environment = "exists"

\* A verdict rests on a Run of its own for each step.
CompletedIsBacked ==
    record.state = "completed" =>
        /\ record.run[Compile] # NoRun /\ purpose[record.run[Compile]] = Compile
        /\ \/ status[record.run[Compile]] = "rejected" /\ ~record.derived
           \/ \A s \in Step : /\ record.run[s] # NoRun /\ purpose[record.run[s]] = s
                              /\ status[record.run[s]] = "succeeded"

------------------------------------------------------------------------------
(* The inductive invariant, for any number of callers: what a copy of the record says
   of Runs is true of them, and only one caller creates the compile Run. *)

CompileRun(r) == status[r] # "absent" /\ purpose[r] = Compile
Fresh == \A r \in RunId : ~CompileRun(r)
Accepted == \E r \in RunId : CompileRun(r) /\ status[r] = "succeeded"

\* Callers that have no claim, and those that hold the Run of their step.
Waiting == {"idle", "verify", "step", "raise"}
Holding == {"bind", "primary", "await", "rebind", "reprimary", "release", "abort", "follow",
            "result", "loaded", "reject"}

\* What a copy of the record says of Runs is true of them, whoever wrote it.
BackedBy(copy, runs, made) ==
    /\ \A s \in Step :
          /\ copy.run[s] # NoRun => runs[copy.run[s]] # "absent" /\ made[copy.run[s]] = s
          /\ copy.step[s] = "completed" => copy.run[s] # NoRun /\ runs[copy.run[s]] = "succeeded"
    /\ copy.step[Compile] # "infrastructure_failed"
    /\ copy.step[Compile] = "business_failed" =>
          copy.run[Compile] # NoRun /\ runs[copy.run[Compile]] = "rejected"
    /\ copy.derived => copy.run[Compile] # NoRun /\ runs[copy.run[Compile]] \in Sealed
    /\ copy.state = "absent" => copy.step[Compile] = "pending"
    /\ copy.state = "completed" =>
          \/ copy.run[Compile] # NoRun /\ runs[copy.run[Compile]] = "rejected" /\ ~copy.derived
          \/ \A s \in Step : copy.run[s] # NoRun /\ runs[copy.run[s]] = "succeeded"
CopyBacked(copy) == BackedBy(copy, status, purpose)

\* The compile step is claimed by one caller, and no copy takes the claim back.
Claimant(c) == pc[c] \in {"live", "create"} /\ at[c] = Compile /\ Mine(c) = NoRun
OneClaim ==
    /\ \A q, r \in RunId : CompileRun(q) /\ CompileRun(r) => q = r
    /\ record.step[Compile] = "pending" => Fresh /\ \A c \in Caller : pc[c] \in Waiting
    /\ \A c \in Caller : Claimant(c) =>
          /\ Fresh
          /\ record.step[Compile] = "running" /\ record.run[Compile] = NoRun
          /\ \A d \in Caller \ {c} : pc[d] \in Waiting

\* What is known of a caller by where it is.
Placed(c) ==
    /\ pc[c] \in {"idle", "verify", "raise"} => at[c] = Compile
    /\ pc[c] = "create" => Mine(c) = NoRun
    /\ pc[c] \in Holding => Mine(c) # NoRun
    /\ pc[c] \notin Waiting \/ at[c] # Compile => held[c].step[Compile] # "pending"
    /\ pc[c] \notin Waiting \union {"live", "create"} \/ at[c] # Compile =>
          held[c].run[Compile] # NoRun
    /\ pc[c] \notin {"bind", "abort"} \/ at[c] # Compile =>
          (held[c].run[Compile] # NoRun => record.run[Compile] # NoRun)
    /\ at[c] # Compile \/ pc[c] \in {"publish", "lastDelete", "complete"} => Accepted
    /\ pc[c] \in {"lastDelete", "complete"} => Uncompleted(held[c]) \subseteq {Compile}
    /\ pc[c] = "reject" => at[c] = Compile /\ status[Mine(c)] = "rejected"

\* The lock of the record keeps it as the canceller left it, and a marker is
\* only written where there is no record, and prevents one.
CancelOwnsRecord ==
    /\ marker => record.state = "absent"
    /\ canceller \in {"runs", "environment", "end"} => record.state = "cancelling"

\* Whoever resumes the verification, at whatever step another caller left it, reads a
\* record it may rely on ("Durable execution record", the same contract).
RecordIsBacked ==
    /\ CancelOwnsRecord
    /\ CopyBacked(record)
    /\ OneClaim
    /\ \A c \in Caller : CopyBacked(held[c]) /\ Placed(c)
==============================================================================

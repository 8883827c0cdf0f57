# Axrun in TLA+

Axrun runs a coding agent on a task in two stages, *inference* and
*verification*, on the Runs of the Axern service. Between the stages it keeps
one durable record per episode and content-addressed bundles; everything else is
lost when a caller dies. This directory specifies what must stay true of those
records whatever the callers, Axern and crashes do, checks it with TLC on small
instances and proves with TLAPS, for every value of the constants, the safety properties
that the runs check.

Paths below are relative to `src/src/axrun/` unless they start with `docs/`
(which is `src/docs/`) or `tools/` (`src/tools/`).

## 1. The system

| Component | Code | State it keeps | Operations | Hard behaviour | What makes it correct |
|---|---|---|---|---|---|
| Episode runner | `runner.py` | none of its own (locals of one command) | `run`, `recover`, `wait`, `cancel`, `_bind`, `_commit_inference`, `_start_verification`, `_finish_verification`, `_record_failure` | several CLI processes on one record; remote calls between two locked sections; crashes | one Run per stage; verdict backed by the recorded Runs; an ended record is final; a cancelled episode leaves no workload |
| Episode store | `store.py`, `_atomic_file.py`, `models.py` | `episode.json`, result files, `flock` | `initialize`, `load`, `save`, `lock` | read-modify-write, atomic replacement | a reader sees a complete record; a changed definition is refused |
| Axern backend | `axern_backend.py` | none | `execute`, `recover`, `wait`, `cancel`, rootfs lookup | two-phase binding, ready marker, ambiguous transport failures | no workload starts before the record names it |
| Axern | external | Runs, Allocations | `create_run`, `get_run`, `watch_run`, `cancel_run`, `write_file`, `download` | asynchronous cancellation, lost answers | assumed, see `AxernRuns` |
| Qualification | `qualification.py` | `EpisodeRecord.qualifications`, `.qualification_result`, the file `result.json` | `qualify_episode`, `bound`, `_persist`, `load_qualification_result` | two qualifiers, episode started or cancelled meanwhile, a file without its record | a target is executed once; evidence belongs to the Runs the record names |
| Progress observer | `lifecycle/stage_progress.py`, `progress/` | progress file, `progress_revision` | `start`, `close`, `_sample`, `_publish` | a thread against commit and cancel; two files | file and record agree when the episode has ended |
| Lifecycles | `lifecycle/base.py`, `lifecycle/model_tunnel.py` | open components, tunnel processes | `start`, `close` | partial start, partial close, second close | all that was opened is closed, in reverse order |
| Model proxy | `proxy/` | slots, counters, server thread | `start`, `stop`, `do_POST` | requests in flight at `stop` | slots are given back |
| Runtime supervisor | `fixtures/claude/runtime_supervisor.py`, `harnesses/claude_code.py` | agent process, pipe, bounded queue, sealed files | `supervise`, reader thread, `_terminate`, heartbeat, capture | full queue, failing consumer, a child that keeps the pipe, failing writes | success means the whole stream is sealed; the agent does not outlive the supervisor |
| Preparation | `preparation/` | one record per preparation | `run`, `resume` | ambiguous remote answers, concurrent resumes | one build, one Environment; ended is final |
| ProgramBench verifier | `adapters/programbench_official.py`, `verification/` | execution record, derived Environment | `verify`, `cancel` | many Runs, claims, late cancellation | each step once; no Environment is left over |
| Candidates, trajectories | `candidates/`, `trajectories/`, `adapters/_candidate.py` | content-addressed bundles | normalize, `validate_trajectory`, collect, publish, load | concurrent publication, malformed event streams | a bundle is complete or absent; every reader accepts what the normalizer made |
| Single-Run verifiers | `adapters/swebench_*.py`, `fixtures/swebench_*/run_verifier.py` | result file and sealed log of one Run | plan, apply, evaluate, score, `parse_result` | one rule written three times; a process that still writes to the log | an accepted verdict is the one of the upstream harness |
| Task admission | `tasks/flask_image_audit.py`, `tasks/flask_admission.py`, `tasks/django_admission.py` | audit record, admission receipts | scan, `admit_flask_image`, `load_*_admission` | signatures split over chunks; concurrent and dying admissions | an episode starts only with an image that gives no patch away |
| Validation tools | `tools/validation/` | receipts; containers, images, Environments, Runs | oracles, native and Axern acceptance, probe | lost answers, timeouts and kills with things left outside | success leaves nothing behind |
| Command line, report, datasets, catalog | `cli*.py`, `report.py`, `datasets/`, `catalog.py` | none | argument handling, translation, comparison of digests | none | see `components` in `PROJECT.json` |

How they interact: a CLI process opens the store and calls the runner; the
runner changes the record only inside `store.lock(...)`, and calls the backend
outside it (with one exception, `cancel`). The backend calls back into the
runner (`_bind`) twice while it prepares a Run: once when the Run exists, once
when its Allocation is known. Only after the second call does it write the
ready marker that releases the workload. Lifecycles (tunnel, proxy, progress
observer) live between binding and the end of the Run.

The hazards this code is exposed to are listed one by one, at their lines, in
`PROJECT.json`; the properties below are aimed at them.

## 2. Modules

| Module | Models | Role |
|---|---|---|
| `AxernRuns` | Runs as the backend sees them (external) | environment of every component that uses Axern |
| `Episode` | the promise about one episode | abstract specification |
| `EpisodeRunner` | `runner.py`, `store.py`, `_execute`/`recover`/`cancel` of `axern_backend.py` | detailed specification, implements `Episode` |
| `MCEpisodeRunner` | | TLC instances of `EpisodeRunner` |
| `EpisodeRunnerProofs` | | theorems about `EpisodeRunner` |
| `PreparedEnvironment` | the promise about one preparation | abstract specification |
| `Preparation` | `preparation/service.py`, `preparation/store.py`, the errors of `preparation/adapters.py` | detailed specification, implements `PreparedEnvironment` for one process at a time |
| `MCPreparation` | | TLC instances of `Preparation` |
| `PreparationProofs` | | theorems about `Preparation` |
| `InferenceStage` | `lifecycle/`, `progress/store.py`, start and stop of `proxy/model.py` | the caller's side of one stage, with the observer's thread and other callers |
| `MCInferenceStage` | | TLC instances of `InferenceStage` |
| `ProgramBench` | `verify` and `cancel` of `adapters/programbench_official.py`, `verification/multirun.py`, the rootfs calls of `axern_backend.py`, the multi-Run part of `runner.py` | the verification stage of episodes whose verifier uses many Runs |
| `MCProgramBench` | | TLC instances of `ProgramBench` |
| `ProgramBenchProofs` | | theorems about `ProgramBench` |
| `Qualification` | `qualification.py`, the commands `qualify` and `run` of `cli.py` | what comes before an episode starts |
| `MCQualification` | | TLC instances of `Qualification` |
| `QualificationProofs` | | theorems about `Qualification` |
| `ModelProxy` | `proxy/model.py`, `proxy/base.py`, `proxy/protocols/anthropic.py` | the proxy's server, and each call of each connection |
| `MCModelProxy` | | TLC instances of `ModelProxy` |
| `ModelProxyProofs` | | theorems about `ModelProxy` |
| `Trajectory` | `trajectories/adapters/claude_code.py`, `trajectories/schema.py` | the normalizer, and what a reader accepts (functions) |
| `Supervisor` | `fixtures/claude/runtime_supervisor.py`, the script of `harnesses/claude_code.py` | the inference stage inside its Allocation |
| `AgentStage` | `adapters/_candidate.py`, `candidates/git_patch.py`, `trajectories/bundle.py` | `Supervisor` and the collectors of its outputs outside |
| `MCAgentStage` | | TLC instances of `AgentStage` |
| `AgentStageProofs` | | theorems about `AgentStage` with its `Supervisor` |
| `TestLog` | the scoring of the three verifier fixtures and of the oracles; the upstream harness (external) | how a log becomes a grade (functions) |
| `SingleRunVerifier` | `fixtures/swebench_*/run_verifier.py`, `adapters/swebench_*.py`, `tools/validation/swebench_flask_compare.py` | one verification Run, from its plan to the accepted verdict |
| `MCSingleRunVerifier` | | TLC instances of `SingleRunVerifier` |
| `StageProofs` | | theorems about the two stages that are one Run: `InferenceStage`, `SingleRunVerifier` |
| `ImageScan` | `tasks/flask_image_audit.py` | the scanner, read by read |
| `AuditRun` | `tasks/swebench_flask_official.py`, `tasks/swebench_django_official.py`, the backend below them | the Run that audits an image |
| `ImageAdmission` | `tasks/flask_admission.py`, `tasks/django_admission.py`, `tools/validation/swebench_django_axern_runtime_probe.py` | who starts that Run, and what its receipt lets pass |
| `ValidationTool` | what the tools share | receipt, cases, things owned outside, child commands |
| `NativeOracle`, `NativeSeqtk` | `tools/validation/swebench_{flask_official,django_native}_oracle.py`, `programbench_seqtk_native.py` | the tools on a Docker host |
| `FlaskAcceptance`, `SeqtkAcceptance` | `tools/validation/swebench_flask_{axern_parity,claude_axern,cli}.py`, `programbench_seqtk_axern.py` | the tools on Axern |
| `Validation` | | composes admission and all tools |
| `MCValidation` | | TLC instances of `Validation` |
| `ValidationProofs` | | theorems about `Validation`: the scan, the admission and the tools |

### AxernRuns

Axern is not in the repository; what is modelled is what `axern_backend.py`
relies on. A Run is created for one stage, gets one Allocation, waits in its
wrapper for the ready marker (`released`), and ends: `succeeded`, `unusable` (exit
code 0, but what it sealed is refused by the adapter that reads it), `failed` or
`cancelled`. A cancellation is a request; the workload may still end first, and
a platform failure may end a Run at any time.

### EpisodeRunner

| Variable | Code |
|---|---|
| `phase`, `execution`, `candidate`, `verdict` | `EpisodeRecord.phase`, `.inference`/`.verification`, `.candidate_digest`, `.verification_result`; the latter two are the Run they were derived from |
| `lock` | the `flock` of `EpisodeStore.lock`, as far as it is held across an Axern call |
| `pc`, `job` | program counter and locals of each caller: its stage, its `ExecutionRef`, the exception on its way, and how many `except` clauses that record it enclose it |
| `purpose`, `status`, `allocated`, `released`, `cancelling` | Axern |

Every `with store.lock(...)` block that does not call Axern is one action: it
reads, decides and replaces the record atomically. Work outside the lock is an
action (or several) of its own, so that any other caller, Axern or a crash may
come between. `cancel` calls Axern inside the lock and is split in `Cancel`,
`CancelCall`/`CancelCallFails`, `CancelSave` with `lock` held. A crash clears the
caller's locals and drops its lock. Lost answers are modelled where the call is:
`CreateRun` may create a Run and raise; `CancelCallFails` may or may not reach
Axern; `PreparationFails`, `Release` and `Follow` cover the write of the marker
that arrives although the caller sees an exception.

Exceptions matter because `run` nests `except` clauses: a failure in
verification is recorded by `_finish_verification`'s handler and again by
`run`'s. `handlers` counts them, and `FailsEpisode` is the decision of
`_record_failure`.

Abstracted: the contents of plans, bundles and reports (a result is accepted or
refused); time (a timeout is a failure that may always happen); everything
`initialize` validates about the definition, which does not change afterwards.
The model covers verifiers that use one Run (`ProgramBench` the others) and starts
with an admitted episode.

### Preparation

| Variable | Code |
|---|---|
| `state`, `operation`, `environment` | `PreparationRecord.state`, `.ambiguous_operation`, `.environment_id` |
| `identified` | `kova_build_id` is set (Kova gives one build per idempotency key, so its value never differs) |
| `receipt` | the seed build receipt: none, with an image, or with a failure |
| `published` | `environment_id` of the preparation receipt, which need not be the record's |
| `pc`, `held`, `failure` | where each process is in `resume`, the Environment it holds, how the exception on its way is classified |
| `build`, `environments`, `late` | Kova, Axern, and mutations whose sender has given up but which still arrive |
| `lost` | history: some `create_environment` took effect, or will, without its answer |

Every call of `resume` to Kova or Axern is an action without the lock, every
locked section of `service.py` an action that writes the record; `Handler` is the
dispatch of `resume`. The locked sections other than those of `_submit` and the
failure writers do not look at the state they overwrite, and neither do the
actions. A failure is classified as the adapters do: every error of
`create_environment` is ambiguous, even a refusal; of `create_build`, a transport
failure or a retryable API error; nothing else is. A process may crash anywhere;
several may resume the same preparation.

Abstracted: contents of requests, outputs and receipts (an Environment is the
requested one or not); the fields `_validate_results` compares.

### InferenceStage

One stage from the moment its Run and Allocation are bound. `EpisodeRunner` takes
the preparation of a Run as one step that succeeds or fails; this module opens it.

| Variable | Code |
|---|---|
| `phase`, `progress` | `EpisodeRecord.phase`, `.progress_revision` |
| `snapshot` | the revision in the progress file |
| `pc`, `why`, `error` | the caller inside `_execute` and `CompositePreStartLifecycle`; `why` tells the three closes apart: the one of a failed `start` (`setup`), the one before release (`abort`), the one after it (`finish`) |
| `started` | `CompositePreStartLifecycle._started` |
| `session`, `connector`, `proxy` | what `ModelTunnelLifecycle` and `ModelProxy` hold |
| `thread`, `stopping`, `closed`, `reason`, `revision` | `StageProgressObserver`: `_thread`, `_stop`, `_closed`, `_failure_reason`, `_revision` |

Each resource of the tunnel is opened in an action of its own, in the order of
`start`; closing tries all of them in one action and any subset may fail.
`_publish` is two actions, the replacement of the file and the locked entry in
the record, with other callers (`Elsewhere`), the workload (`RunEnds`) and a crash
in between. The content of a snapshot is left out: a sample of the Allocation and
one that finds nothing both write the next revision.

### ProgramBench

The verification of a ProgramBench candidate: a compile Run, whose root filesystem
Axern turns into a derived Environment, then one Run per test branch in it. It starts
where `_start_verification` has entered `verification_running`.

| Variable | Code |
|---|---|
| `phase`, `primary`, `begun` | `EpisodeRecord.phase`, `.verification`; whether the caller that entered the phase has called `verify` |
| `record` | `execution.json`: the state, the state and Run of each step, whether the Environment is recorded, the state of the cleanup |
| `marker` | the file `cancelled`, which stands for a cancellation before there is a record |
| `pc`, `held`, `at` | each caller: where it is in `verify`, its copy of the record, the step it is at |
| `canceller` | where the `cancel` command is |
| `status`, `purpose`, `cancelling`, `environment` | Axern: its Runs, the step each was created for, accepted cancellations, the derived Environment |

`held` is what makes this component hard: a claim reads the record afresh, and every
later `save_live` writes the whole copy, checking only for a cancellation (`SaveLive`).
`cancel` holds the lock of the episode from `BeginCancel` to `SaveCancelled` and the
lock of the execution record from `MarkCancelling` to `EndCancel`; `EpisodeFree` and
`StoreFree` are the guards of the others. `CancelFails` is a refused call, a cancellation
that reaches only some Runs, or a crash. Whatever a caller does outside the locks (create,
prepare, release, follow, delete) is an action of its own; `Crash` may come anywhere.

Abstracted: results, assets and scores (a Run ends `succeeded`, `unusable`,
`rejected`, that is, one of the exit codes of a candidate that does not compile,
`failed` or `cancelled`); the files the episode was resolved from do not change. So
a `ContractError` with a bound primary Run, which fails the episode in `_record_failure`
(`runner.py:491`), has no action: it takes an asset or a locked record that differs from one
call to the next.

### Qualification

Before an episode starts, one model-free Run is executed in the Environment of each
stage, and what they report becomes one evidence file that the record names.

| Variable | Code |
|---|---|
| `phase` | `EpisodeRecord.phase`: `new`, `started` (any later phase; `EpisodeRunner` goes on from there) or `cancelled` |
| `qualifications`, `result` | `EpisodeRecord.qualifications`, `.qualification_result` with its digest; a result is the Run of each stage |
| `evidence` | the file `result.json` of the episode |
| `pc`, `job` | where each process is in `qualify_episode`: its stage, its `ExecutionRef`, what it has qualified |
| `purpose`, `status`, `allocated`, `released`, `cancelling` | Axern |

Each locked section (`Qualify`, `Target`, `Bind`, `Rebind`, `Commit`) is one action. The
Run is created, prepared and followed as in `EpisodeRunner`, without an observer. A saved
Run is never executed again but queried (`Query`), and only once it has ended; the file
is looked for (`Persist`) and replaced (`Write`) outside the lock, before the record.
`Stops` is an exception or a crash at any place.

Abstracted: the checks of a target (`Judge`: exit code 0 and a report that
`_validate_checks` accepts, or not), and the images and digests that do not change.

### ModelProxy

| Variable | Code |
|---|---|
| `owner`, `server`, `thread`, `sockets`, `credential` | `ModelProxy`: the call the owner is in, `_server`, `_thread`, the listening socket, `_credential` |
| `loops`, `leaving` | the `serve_forever` loops that run, and the threads that have left theirs but are alive |
| `slots`, `inFlight` | `_request_slots`, `_requests_in_flight` |
| `pc`, `call` | the thread of each connection: its place in `do_POST`, and what it knows of the present call |

Every early return and `except` of `do_POST` is a disjunct; what it skips (a summary, a
close) is skipped. `stop` is split at every call that can raise or time out, and the
owner may call it again. A connection carries calls one after another and outlives `stop`.
Abstracted: headers and bodies; a response has a length or not, and is counted in chunks.

### Trajectory, Supervisor and AgentStage

`Trajectory` holds the rules: `Feed` is `feed_native_line` on the relations a line has
(message, tool call, subagent), `WellFormed` is `validate_trajectory`, `Normalized` the
batch normalization of a whole file. `Supervisor` is the process in the Allocation:

| Variable | Code |
|---|---|
| `agent`, `code`, `holders`, `said` | the agent's process and exit status, who holds the pipe (a child may outlive it), what was written |
| `pipe`, `queue`, `reader`, `inHand` | the pipe, `queue.Queue(maxsize=16)`, the reader thread and the line it cannot put yet |
| `pc`, `line`, `emitted` | `supervise` and its line |
| `native`, `emitter`, `counted`, `trajectory`, `usage`, `progress` | the files and the normalizer behind them |
| `result`, `captured`, `exit` | how `supervise` returned, whether the candidate was captured after the agent's end, the status of the script |

Every write of the consumer is an action that may fail; `_terminate` is reached from every
place that can raise after the agent was started. `AgentStage` adds processes that
collect the sealed outputs, publish the two bundles (`temp`, `bundle`) and commit the
record. Each step of `publish` (copy, validate, manifest, look, replace or load) is an action,
so that two collectors interleave and die anywhere. Abstracted: texts, redaction, timestamps.
Two outcomes are left out. The files are written unbuffered (`runtime_supervisor.py:121`, `:125`), and
a write is whole or it fails: a regular file takes only a part when its disk is full, and
unless space is freed in that moment the next write (the line after it, or `usage.json`) fails,
and the stage with it. And a process that was sent SIGKILL ends within the 5 s that line 150
waits; were the wait to expire, `supervise` would raise all the same, from an agent that
executes nothing more.

### TestLog and SingleRunVerifier

A log is a sequence of markers and of reports of a test's status, and of Django also of summary
headings (`FAIL: name`, perhaps without the name), of reports that other output interrupted, and of
the bare "ok" that then follows. There are three parsers: `parse_log_flask`; `django_statuses`, the
loop over the lines that is all the Verified fixture has; and `parse_log_django`, the same loop
and then the three multiline patterns (`Resumed`), which pass a test whatever the lines say and may
find one without a name (`Unnamed`). `Parses` is the heading that makes the Django parser raise.
`TestLog` defines the grade that the Flask, the Django and the Verified fixture give a log, the
grade of the pinned upstream harness (external: modelled from what the oracles and fixtures say
they mirror), and what the oracles accept. `SingleRunVerifier` is a verification Run: `kind`
is the verifier, `tree` how the patch was applied (three attempts on the same tree), `log`
what the evaluation printed, `late` whether a process it left behind wrote to the log
afterwards, `result` the report, `outcome` what the host made of it. A stage whose outputs cannot
be sealed, because one is missing or longer than its plan allows, ends at `unsealed`. Abstracted:
the spelling of a line (which line breaks end it, and what one line says of two tests); paths,
images and digests are compared, not computed.

### ImageScan, AuditRun and ImageAdmission

`ImageScan` reads each source chunk by chunk and keeps `tail`; `signatures` are derived from
the hunks of the locked patches. `AuditRun` is the Run around it, with the steps of the
backend. `ImageAdmission` is both users: Flask's `admit_flask_image`, any number of
processes with one claim, `record` and `receipt`; and Django's probe, one process with its
Environment and a receipt on disk (`file`) at every step. `adopted` is a history variable:
an episode was resolved on the strength of a receipt. Abstracted: the git commands that
list objects and the checks of the patch targets are a choice in `image`.

### ValidationTool, its tools and Validation

| Variable | Code |
|---|---|
| `tool`, `pc`, `held` | the tool that runs, its step, its receipt and the list of what it must remove |
| `paper` | the receipt of each tool as it was last written |
| `present` | containers, images and Environments that exist |
| `work`, `bound` | the Runs of the episode at hand, and those its record names |

A call that creates something may fail without, or after, having created it; a child command
may be killed at its deadline between creating a Run and recording it; the tool itself may be
killed anywhere (`Killed`). `Validation` composes the tools with `ImageAdmission`, because
the Flask tools wait for the receipt and resolve episodes with it. What the commands do
inside is `EpisodeRunner` and `Qualification`; here they create, bind and end Runs.
Abstracted: the comparisons of grades and digests, which succeed or fail.

## 3. What is checked

| Run | Question | Instance |
|---|---|---|
| `episode_safety` | `NoReplacementRun`, `ReleasedRunIsRecorded`, `CompletedIsBacked`, `CancelledLeavesNoWork`; `ImplementsEpisode`: the record, seen alone, is an `Episode` | 2 callers, 3 Runs, damaged bundles |
| `episode_liveness` | `ReleasedStageSettles`: a stage whose workload was started is taken over by some caller | 2 callers, 2 Runs |
| `preparation_safety` | `NothingBeforeItsRecord`, `AdoptedIsVerified`: what concurrent resumes cannot break | 2 processes, 3 Environments |
| `preparation_alone` | `ImplementsPrepared`, `OneEnvironment`, `IdentifiedSettles`: what holds while resumes follow each other | 1 process at a time, 2 Environments, fair |
| `inference_stage` | `NothingLeaks`, `TunnelOutlivesObserver`, `CommitsSettledProgress`, `StageReturns` | one caller, its observer, others that end the episode, `MaxRevision` = 3 |
| `programbench` | `OneRunPerStep`, `CancelledLeavesNoWork`, `CleanedUp`, `EnvironmentOutlivesBranches`, `CompletedIsBacked` | one caller at a time, `cancel`, 2 branches, 4 Runs |
| `qualification` | `ReleasedIsBound`, `EvidenceIsBacked`, `FileFits` | 2 processes that qualify, start, cancel and die, 3 Runs |
| `model_proxy` | `SlotsBalance`: no path loses a slot or a count; `OneServer`: starts and stops, failing in any way, leave at most one server, and none when `stop` has returned; `CutIsClosed`: no call follows a broken reply; `SlotIsReturned` | 2 connections on 1 slot, 2 starts, responses of 2 chunks |
| `agent_stage` | `SealedIsWhole`, `FilesArePrefixes`, `ProgressIsTrue`, `CapturedAlone`, `ReadyIsBacked`, and `SuperviseReturns` | 8 kinds of line, 3 lines, 5 events, pipe and queue of 1, 2 collectors |
| `verification` | `VerdictIsSound`, `HostAgrees`, `ParityHolds`: the copies of one rule (fixture, host, oracle, comparison, upstream) agree on every log, but for one refusal | every log of up to 4 markers and reports, every Django section of up to 3 lines and of 4 about one test, with a late line or not, 3 verifiers |
| `validation` | `AdmittedIsClean`, `OneAudit`, `ProbeSparesItsRun`, `SuccessLeavesNothing` | 2 admitting processes, 2 Runs, images of up to 5 bytes, every tool once, 2 cases |
| `finding_duplicate_run` | `OneRunPerStep` of `ProgramBench` with concurrent resumes (section 5) | 2 callers |

The inductive invariants of section 4, the action properties proved there and the type
invariants of every module but `ValidationTool` hold for every instance and are not repeated
in the runs; `ToolTypeOK` holds in TLC on the instance of `validation`.

**Bounds.** Every race here is between two callers: each command looks at the
record, not at other commands, so a third caller only repeats what the second
can do. The episode has two stages and one Run each; the third Run is there so
that a replacement Run *can* be created if the code allows it. There is no other
bound in its two runs: the number of commands, resumes and crashes is unlimited, and the state
space is finite all the same. The safety theorems of section 4 hold for every
value of the constants, here and in the other modules, so for them the bounds only concern
the search for errors. Callers and
Runs are symmetric for safety; no symmetry is used for liveness. In
`InferenceStage`, `MaxRevision` ends the periodic samples: 1 is the one of `start`, 2
and 3 are periodic, 4 can only be the last one after the observer was told to stop, so
that every sample has one before and one after it. The theorems hold for any value.
In `ProgramBench` two branches give a first and a last one, and a branch that fails
after another has passed; the fourth Run is there so that a step *can* be run twice.
In `Qualification` the third Run is there so that a target *can* be executed twice.
One caller of `ProgramBench` means that a `resume` starts after the last one has ended or died; the
number of them is unlimited, and `cancel` runs at any time. With two at once
`OneRunPerStep` fails (section 5).

In `ModelProxy` one slot and two connections are what it takes to refuse a call and to have
one in flight while the owner stops; two chunks make a response too long; the second start is
there because a failed or repeated stop matters only to the next one. In
`AgentStage` the agent, the pipe, the queue and the reader each hold a line, so that a line
can be anywhere when something fails; three lines are enough for a call, its result and an end,
and five events let the bound strike between two events of one line. In `SingleRunVerifier`
four lines are two markers and two reports in every order, number and nesting, so that
a test is reported twice, outside the markers, or not at all; between the two markers of a
Django log four more are an interrupted report, the end of the interruption, its "ok" and one other
report of the test, in every order. In `ImageScan` a read is two
bytes and a signature two to four, so that one is split over two or three reads at every
offset; in `Validation` two cases make a first and a later one (the Environment of the isolation
probe is made at the first only), and the second Run of the admission is there so that
the image *can* be audited twice.

`CHECK_DEADLOCK FALSE`, because an ended episode with no command in progress
really stops.

**Fairness** (`EpisodeRunner!Fairness`, used by `episode_liveness`):

* weak for `Exit`: a released workload ends, the backend sets a timeout for it;
* weak for the steps of a caller inside a command: a process that is not killed
  goes on, and every SDK call has a timeout;
* strong for `Recover`, `Query`, `Accept`, the commits and the two steps of
  `cancel`: an operator repeats `resume`, and neither crashes nor refusals of
  Axern prevent the same step for ever, though each may happen infinitely often.
  Weak fairness would promise nothing, since another caller may leave the
  step disabled in between.

For `Preparation` (`Preparation!Fairness`): weak for the end of a build and for
a process that is not killed, strong for the progress of each step of a resume,
because crashes and failures pre-empt a step any number of times but not for
ever. `lost` splits `OneEnvironment`: Axern has no idempotency key for
`create_environment`, and a request whose answer was lost may arrive after the
next resume has listed the Environments.

For `InferenceStage`: weak for the caller and the observer, because every remote call
and every join has a timeout, and for the end of the released workload. Not for
`Elsewhere` or a crash. What a crash leaves is not an error of the model: the
session lives at Axern until its TTL is over (`lifecycle/model_tunnel.py:25`).

For `ModelProxy`: weak for the steps of a call once it has begun, since each of its reads and
writes has a socket timeout; not for a connection that waits for its next call, and not for the
owner. For `AgentStage`: weak for `Supervise` and for the reader thread, as long as each has
something to do. Not for the agent: `SuperviseReturns` assumes that it and its children let go
of the pipe, which the kill of `_terminate` does not guarantee for a child.

In the episode, none for `Run`, `Cancel`, `Release`, `PlatformFailure` or crashes: nobody has
to do these.

`ReleasedStageSettles` leaves out Runs that end `unusable`: `recover` raises on a
refused output without recording it (`runner.py:135-149`), so that stage stays
as it is until it is cancelled. That is what the code is meant to do for a transport
failure, and it cannot tell the two apart.

Each property has a mutant in `PROJECT.json`, a plausible bug at one place of the
model that makes the property fail.

## 4. What is proved

`EpisodeRunnerProofs` proves, for every set of callers and Runs, assuming only
that `NoRun` is not a Run, `NoCaller` is not a caller and `BundleDamage` is a
Boolean:

| Theorem | States |
|---|---|
| `TypeCorrect` | `Spec => []TypeOK` |
| `RecordSafety` | `Spec => []RecordIsSafe` |
| `NeverReplaced` | `Spec => []NoReplacementRun` |
| `ReleasedIsRecorded` | `Spec => []ReleasedRunIsRecorded` |
| `CompletionBacked` | `Spec => []CompletedIsBacked` |
| `CancellationReachesWork` | `Spec => []CancelledLeavesNoWork` |
| `EndedIsFinal` | `Spec => TerminalIsFinal` |
| `RunnerImplementsEpisode` | `Spec => ImplementsEpisode` |

**The argument.** None of the properties is inductive alone. `RecordIsSafe` is:

* `OneCreator`. The phase is the licence to create a Run. Entering
  `inference_running` (or `verification_running`) happens inside the lock, so one
  caller gets the licence, and no step hands it out again: `recover` refuses a
  running stage without a bound Run. Hence at most one caller is at `create` per
  stage, and none once a Run for the stage exists. This gives `NoReplacementRun`.
* `BoundForItsStage`. The record and every caller hold Runs that were created for
  the stage they are held for, and a caller that is about to release holds
  exactly what the record says. With `Bindable`, which never lets an Allocation be
  forgotten, this gives `ReleasedRunIsRecorded`.
* `OutcomeBacksPhase`. Beyond `candidate_ready` the candidate comes from the
  recorded inference Run, which succeeded. An ended Run keeps its status.
* `CancelOwnsRecord`. Between `Cancel` and `CancelSave` the lock is held, so the
  Run that was told to end is still the Run the record names when the phase
  becomes `cancelled`. A Run bound late is found cancelled by `_bind`.

Each conjunct has a preservation lemma for each group of actions that can
disturb it; small lemmas about `JobOf`, `Raise`, `Leave` and the merge of
references keep records opaque to the solvers. The refinement maps
`execution[s].run` to `bound[s]` and the succeeded Runs to `succeeded`; each action
is a step of `Episode` or a stutter, given `RecordIsSafe`.

`PreparationProofs` proves, for every set of processes and Environments, assuming
only that `NoEnvironment` is not an Environment:

| Theorem | States |
|---|---|
| `TypeCorrect`, `RecordSafety` | `Spec => []TypeOK`, `Spec => []RecordBacked` |
| `NothingUnrecorded` | `Spec => []NothingBeforeItsRecord` |
| `OnlyVerifiedAdopted` | `Spec => []AdoptedIsVerified` |
| `OrderedAlone` | `Alone` implies `Spec => []InOrder` |
| `SubmittedUntilIdentified` | `Alone` implies `Spec => IdentifiedOnce` |
| `KeepsPromise` | `Alone` implies `Spec => ImplementsPrepared` |
| `CreatedOnce` | `Alone` implies `Spec => []OneEnvironment` |

`RecordBacked` holds whoever wrote the record last: each process is only where
the receipt, the build and the Environments have led it (`ProcessBacked`), and
what these say is stable, so a state written from an old reading is still backed.
`Alone`, one process at a time, adds `UpToDate`: a process works on the state
it read. Only then does the state tell what was done, which the promise and
`IdentifiedOnce` need; with two processes both fail (section 5).
`EnvironmentKnown` adds that a process about to create an Environment has seen
that there is none.

`StageProofs` proves of `InferenceStage`, for every `MaxRevision`, `StageSafety`
(`Spec => [](TypeOK /\ StageIsConsistent)`) and from it `TypeCorrect`, `NeverLeaks`,
`ObserverFirst` and `CommitSettled`. The three safe properties are not inductive
alone; `StageIsConsistent` adds what the caller's place says about its purpose and the
observer (`PlaceBacked`), what is open by then and what the composite has registered
(`OpenBacked`), what the two files say (`FilesAgree`), and that the observer of a
released stage is closed once (`ClosedOnce`): its failure is raised by the first close
only, so a second one could hide it.

`ProgramBenchProofs` proves, for every set of callers that verify *at once*, every
number of branches and every set of Runs, assuming only that `NoRun` is not a Run:

| Theorem | States |
|---|---|
| `TypeCorrect`, `RecordBacked` | `Spec => []TypeOK`, `Spec => []RecordIsBacked` |
| `VerdictsBacked` | `Spec => []CompletedIsBacked` |
| `CompiledOnce` | at most one compile Run is ever created |
| `CancellationIsFinal` | `Spec => CancelledIsFinal` |
| `CleanedUpAlways` | `Spec => []CleanedUp` |
| `OneRunForEachStep` | `OneAtATime` implies `Spec => []OneRunPerStep` |
| `CancelLeavesNoWork` | `OneAtATime` implies `Spec => []CancelledLeavesNoWork` |
| `EnvironmentOutlives` | `OneAtATime` implies `Spec => []EnvironmentOutlivesBranches` |

Concurrent callers do overwrite each other's record, and a branch may then be run
twice (section 5); these theorems say what they cannot spoil. The invariant
`RecordIsBacked` has four parts. `CopyBacked`: what the record and every copy says of
Runs (which Run a step has, that it succeeded or rejected, that it left an Environment)
is true, and as Runs only go on (`Grows`), it stays true however old the copy is when it
is written. `OneClaim`: there is at most one compile Run, only one caller is between
claiming the compile step and its Run, and nobody is further while that Run does not
exist. `Placed`: a caller that can still publish a copy holds one in which the
compile step is claimed, so no copy ever takes the claim back; that is exactly what does
not hold of branches. `CancelOwnsRecord`: while the canceller has the lock of the
record, the record says `cancelling`, which every write of a caller respects. The proof
has one lemma for each kind of step of a caller (it leaves, goes on, or saves its copy:
`LeaveKeeps`, `MoveKeeps`, `SaveKeeps`), and reduces the actions to them. `CleanedUp` also
holds with any number of callers: an Environment appears only when the compile Run has ended and
that Run is not run again, so `Clean` follows it from there to its deletion.

`OneAtATime` is that `Caller` has at most one element, that is, that callers follow each other: the
one caller ends or dies and begins again without limit, beside `cancel` at any moment. The
three theorems need it: with two callers at once TLC finds each of their properties violated,
`OneRunPerStep` as section 5 says, and the two others because a second caller writes a copy that
is older than a claim (a Run that the cancellation does not know of goes on) or deletes the
Environment after a failed download while the first one's branches execute. Their invariant is
`Serial`: the copy of the caller agrees with the record but for what a cancellation wrote
(`Agrees`), the caller works on the first step that is not completed (`Works`), every Run is the
one its step names, and the steps run in order (`Tracked`), and a cancellation that has come to the
Environment has asked Axern to end all that still executes (`CancelCovers`).

`QualificationProofs` proves, for every set of processes and Runs, assuming only that
`NoRun` is not a Run:

| Theorem | States |
|---|---|
| `TypeCorrect`, `QualificationSafety` | `Spec => []TypeOK`, `Spec => []QualificationIsSafe` |
| `ExecutedOnce` | `Spec => []ReleasedIsBound` |
| `EvidenceBacked` | `Spec => []EvidenceIsBacked` |
| `LeftFileFits` | `Spec => []FileFits` |
| `StartQualified` | `Spec => []StartedIsQualified` |
| `RecordFinal` | `Spec => RecordIsFinal` |

The argument: `bound` names the first Run of a stage and never another one
(`RecordKept`), and a process releases only the Run that is named. A Run that succeeded
was released, so what a process has judged is what the record names (`Passed`), and two
processes that have judged both stages have judged the same Runs: that is why the file
one of them left fits the other, and why a late commit writes nothing new. `Carried`
says that what a process knows stays true whoever takes the step; `Backed` shows it
again for the process that moved.

`ModelProxyProofs` proves, for every set of connections, also an infinite one, and any numbers of
slots, starts and chunks:

| Theorem | States |
|---|---|
| `ProxyInvariant`, `TypeCorrect` | `Spec => []ProxyInv`, `Spec => []TypeOK` |
| `PlacesAreBalanced` | `Spec => []SlotsBalance` |
| `OneServerAtMost` | `Spec => []OneServer` |
| `BrokenRepliesClose` | `Spec => []CutIsClosed` |

`ProxyInv` has a part for the owner and one for the calls, which share nothing but the bounds.
`OwnerKnows`: the step of `start` or `stop` the owner is at says which of thread, loop and socket
are left. `CallKnows`: a reply that was cut is unfinished while the call streams, and closes its
connection after that; a summary is made at the end. `Balance` counts the calls that hold a place:
as a semaphore has finitely many, the set is finite whatever the number of connections, and each
step adds or removes one connection or none.

`AgentStageProofs` proves, for every size of the pipe and of the queue, every bound of the output,
every set of lines in which the end mark is not a line (`LinesAssumption`; `_END` is an object of
its own in the code), and any number of collectors:

| Theorem | States |
|---|---|
| `StageInvariant`, `TypeCorrect` | `Spec => []StageInv`, `Spec => []StageTypeOK` |
| `StreamIsSealedWhole` | `Spec => []SealedIsWhole` |
| `FilesArePrefixesAlways` | `Spec => []FilesArePrefixes` |
| `ProgressIsTrueAlways` | `Spec => []ProgressIsTrue` |
| `CandidateIsCapturedAlone` | `Spec => []CapturedAlone` |
| `ReadyIsBackedAlways` | `Spec => []ReadyIsBacked` |

The core is `Flow`: until something fails, what the agent said is the native file, then the line the
consumer has taken, the queue, the line in the reader's hand, and the pipe. `EndIsLast` says that
the end mark is put when everybody has let go of the pipe, so that a consumer that meets it has
written all. `EventsAreNative` says that the events of the normalizer are those of a batch
normalization of the native file, and that the trajectory lags by the line at hand only. That the
batch, a recursive function over the file, can be continued by one line is `NormalizedAppend`, by
induction over the length. `EndIsTrue` says who is over when: a result 0 comes after all that, and the script ends
with 0 only after the capture. `Backs` says what a collector at a step of `publish` has in its
temporary directory, and which bundles are whole.

`StageProofs` proves of `SingleRunVerifier`, for every disjoint selection of tests with at least one
that must start to pass, every set of lines and every length of a log:

| Theorem | States |
|---|---|
| `VerifierInvariant`, `VerifierTypesCorrect` | `VerifierSpec => []VerifierInv`, `VerifierSpec => []VerifierTypeOK` |
| `VerdictsAreSound` | `VerifierSpec => []VerdictIsSound` |
| `HostRefusesOnlyTheUnnamed` | `VerifierSpec => []HostAgrees` |
| `ParityAlways` | `VerifierSpec => []ParityHolds` |

The lemmas are about the readers of a log. In a log that is well marked all of them find the same
section (`MarksOf`, `SameStatuses`, `VerifiedReads`), and of a log that the official fixtures score
the upstream harness makes the same grade, field by field (`GradesAgree`): a status the fixture
admits is one that upstream counts as a success or a failure. The parser of the Verified fixture is
another one; `PatternsOnlyPass` says that upstream may pass more tests than it does and changes
nothing else, so its passes are passes of upstream. `FlaskReportHolds` says that the host's own checks
admit the grade of a fixture, `DjangoReportHolds` that they do unless a test in it has no name, `RecordedIsComparable` that the
comparison admits what the oracle records. The invariant carries them through the Run: a result is
the grade of the log its digest names (`ResultInv`), which is the sealed log unless a late writer
came; an accepted outcome was compared with the sealed log (`Settled`).

`ValidationProofs` proves, for every set of processes, every image and patch over bytes, every size of
a read and number of cases, assuming only that the constants have their types (`ImagesAssumption`):

| Theorem | States |
|---|---|
| `ValidationInvariant` | `ValidationSpec => []ValidationInv` |
| `OnlyCleanIsAdmitted` | `ValidationSpec => []AdmittedIsClean` |
| `OneAuditForAKey` | `ValidationSpec => []OneAudit` |
| `ProbeWaitsForItsRun` | `ValidationSpec => []ProbeSparesItsRun` |
| `SuccessIsTidy` | `ValidationSpec => []SuccessLeavesNothing` |
| `TypeCorrect` | `ValidationSpec => []TypeOK` |

`ScanInv` is the scan's: what is kept of an object reaches as far back as the longest signature
less one byte, and every signature that ends in the bytes read so far has matched. A signature that
ends in the next read begins in the window then (`WindowFinds`), whatever the size of the read. As
the signatures of a patch are finitely many, the longest exists (`NeedlesAreTexts`,
`MaximumBounds`), by induction over the hunks. `FlaskInv`: the claim is the licence to create an
audit Run, and it is never given back; `ProbeInv`: what the receipt of the probe says of its Run
and Environment is true in memory and in the file. `ToolInv` is about the tools: the order in which
they run (`Order`), and for each kind what its receipt and its list of things to remove cover
(`OracleInv`, `NativeInv`, `ClaudeInv`, `AxernInv`). A step of one tool is a `Turn`, which disturbs
no invariant of another tool (`TurnKeeps`).

All these inductive invariants were checked by TLC on the instances of the runs before they were
proved.

**Only model-checked:** `ReleasedStageSettles`, `IdentifiedSettles`, `StageReturns`,
`SlotIsReturned` and `SuperviseReturns`, because liveness under fairness is beyond the proof
system, and the finding, which is a counterexample. Induction over data is possible as far as it is
stated for a set: the library's induction theorems take an operator, which the provers cannot
instantiate, but that a set with 0 and all successors contains the natural numbers follows from
the least element of its complement (`NatInduct`, `AllNumbers`). The proofs use it where a property needs what a
recursive function computes (`Normalized`, the lengths of signatures). What the parsers of `TestLog`
compute of a log is not needed, except that the patterns only pass: the theorems compare readers
of the same section.

## 5. Findings

* `OneRunPerStep`, with two callers. `docs/contracts/programbench-official-verification.md:31`
  says that a claimed step without a Run fails closed. `save_live`
  (`adapters/programbench_official.py:147`) writes all of an older copy: of two
  resumes that follow the same compile Run, the slower one accepts it after the other
  has claimed the first branch, which is pending again; both run it.

Seen while modelling, each a step of the model, without a run of its own.

*Episode and backend.* `axern_backend.py:216-218` says an ambiguous failure after release must be
recovered by the Run, but when the observer also fails, its exception replaces the ambiguous one
(`axern_backend.py:239`), and `_record_failure` (`runner.py:488`) ends the episode while its Run
executes. A diagnosed setup failure before any Run is bound leaves the phase
`inference_running` without an identity (`runner.py:483`), and no resume accepts it; a refused
output is recorded by `run` and only raised by `resume` (`runner.py:135`).
A caller that dies between binding and marker leaves a Run nobody releases, which
`resume` reports active for ever, although `docs/architecture.md:46` says a crash in a running
phase is recovered. `_record_failure` (`runner.py:491`) fails an episode without a recoverable
identity in whatever phase it is, so a `run` that lost the race against a `resume` turns a
`candidate_ready` episode into `failed`, an edge `docs/architecture.md:39-43` does not have;
nor does it draw `cancel` in phase `new`. `cancel` of a `new` episode looks for no
Run, so a qualification Run that executes goes on until its timeout; one that was bound and
failed, were it only by an upload before its release, is recovered as failed by every later
`qualify` (`qualification.py:141`).

*Preparation.* While the record is ambiguous about `create_build`, a resume whose `version` call
fails in transport (`preparation/service.py:290`) keeps the state and erases the operation: no
later resume accepts it, although `docs/contracts/environment-preparation.md:25` promises that
an ambiguous submission may be replayed. The same contract calls `failed` and `cancelled`
terminal, but `_mark` and the last sections of three handlers (`preparation/service.py:319`) write
without looking: a resume that read earlier revives a failed preparation. Two concurrent resumes
that both list no Environment create two (a third then fails with `multiple_environments`),
and the Environment in a ready record may differ from the one in its receipt.

*Progress.* `_publish` (`lifecycle/stage_progress.py:216`) replaces the progress file before it takes
the lock. If the process dies in between, or another caller commits the inference there,
the record keeps the older revision, and `verify_record` refuses the completed episode for
ever, although `docs/architecture.md:272` says it can be reconstructed.

*ProgramBench.* `cancel` "removes its intermediate Environment"
(`adapters/programbench_official.py:263`), which it knows by the record only: one that was not
recorded yet stays. A download of the compile result that fails in transport deletes the
Environment (`axern_backend.py:104`), which
`docs/contracts/programbench-official-verification.md:37` keeps for a resume; the resume that
follows accepts the compile step and can create no branch.

*Proxy.* A reply that was refused or cut for its length is recorded with the upstream's status and
`upstream_response`; a client too slow to be written to is recorded as an upstream timeout. An
upstream that ends before its announced length goes unnoticed. After a `start` whose thread
failed to start, `start` returns silently without a server loop. Calls on a connection that
outlives `stop` go upstream with an empty credential. A body that comes too late and a rejected
call whose client is gone leave no summary.

*Agent stage.* A publication that fails between `Popen` and the `try` block leaves the agent running
while the candidate is captured; the script then ends with an error. A stream that ends with
`max_turns` counts as success. A child that keeps the pipe open keeps the supervisor waiting and
the progress alive. `canonical_event_count` may be ahead of the file after a failure. Of two
collectors between `final.exists()` and `os.replace` the second gets an `OSError`, which `run`
records as a failure of the episode.

*Verifiers.* `patch --batch` runs on a tree in which `git apply --reject` has already applied some
hunks; if it succeeds, the mixed tree counts as the applied patch. A bare "ok" passes the last
named Django test even if it was reported failed. Both mirror upstream. The Verified plan takes any
patch, its host does not look at the log again, and its fixture ignores the upstream error
markers. An evaluation killed by a signal has a negative code, which the host refuses as a
contract error. A test without a name is another disagreement of fixture and host: a blank line
followed by `... System check identified no issues (0 silenced)` and `ok` makes the name that
the third multiline pattern finds empty, the fixture records `""` as passed (`run_verifier.py:113`) and
scores the log, and the host refuses the whole result because of that key (`not key`,
`adapters/swebench_django_official.py:365`). The oracle takes such a grade (`validate_grade` does
not look at the names), so upstream has a verdict where the product has a contract error.
`HostAgrees` and its theorem say that this, and a killed evaluation, is all they differ on. On a heading
without a name the Django fixture and upstream stop, and the Verified fixture reads on.

*Admission and tools.* A claim without a Run is refused for good; an audit Run that was bound but
not released when its caller died waits for ever, and every later call answers that it is active.
The acceptance with a model deletes its two Environments unless a *recorded* Run is active
(`tools/validation/swebench_flask_claude_axern.py:571`): a Run that a killed command had created
and not recorded loses its Environment, although `docs/validation/2026-09-28-flask-cli-admission.md:215`
says they are retained when the status is unknown. In the seqtk acceptance a lost answer of
`create_environment` or `create_run` is on no list; a `docker create` that fails late leaves a
container, and the image tag of the evaluator is never removed. None of these tools reports
success then, which is what `SuccessLeavesNothing` says.

## 6. Plan

The number of runs is kept small: components that interact, or that are small, are checked
together by one composing module. Every module is written, every safety property that a run
checks is a theorem. Worth doing next:

1. `ModelProxy`, `AgentStage`: abstract specifications (a counting semaphore with one server; a
   stream that is copied to a file) and the refinements, which the invariants already contain.
2. `Qualification` and `EpisodeRunner`: that an episode which starts from committed evidence is a
   behaviour of one composed specification.
3. `ProgramBench`: which of the serial properties two callers keep while nobody resumes a
   running verification.

**Not modelled.** `report.py` compares digests of immutable files and two revisions (what it
reads is modelled by those who write it). The dataset resolvers translate locked records into an
episode, the catalog is a table of adapters, and the command line parses arguments: sequential,
without state. To the other modules each is one accepted-or-refused outcome. Of the verifiers
the command, greenfield and synthetic adapters, which check the shape of one report, and of
`candidates/` the rules for archive members are left out for the same reason. Image builds, JSON
schemas, the lock of the Django assets and the smoke tests are scripts or data.

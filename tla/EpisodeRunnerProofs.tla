------------------------- MODULE EpisodeRunnerProofs -------------------------
(* Proofs about EpisodeRunner, for any set of callers and of Run identities. *)
EXTENDS EpisodeRunner, TLAPS

------------------------------------------------------------------------------
(* The local variables of a caller. *)

LEMMA JobFields ==
    ASSUME NEW j \in Job
    PROVE  j.stage \in Stage /\ j.ref \in ExecutionRef /\ j.handlers \in Nat /\ j.error \in Error
  BY DEF Job

LEMMA JobOfType ==
    ASSUME NEW s \in Stage, NEW ref \in ExecutionRef, NEW h \in Nat, NEW e \in Error
    PROVE  /\ JobOf(s, ref, h, e) \in Job
           /\ JobOf(s, ref, h, e).stage = s
           /\ JobOf(s, ref, h, e).ref = ref
           /\ JobOf(s, ref, h, e).handlers = h
           /\ JobOf(s, ref, h, e).error = e
  BY DEF Job, JobOf

LEMMA RefType ==
    /\ \A r \in RunId \union {NoRun}, a \in BOOLEAN :
          [run |-> r, allocated |-> a] \in ExecutionRef
    /\ \A ref \in ExecutionRef : ref.run \in RunId \union {NoRun} /\ ref.allocated \in BOOLEAN
    /\ Unbound \in ExecutionRef /\ Unbound.run = NoRun
  BY DEF ExecutionRef, Unbound

LEMMA NoJobType == NoJob \in Job
  BY JobOfType, RefType DEF NoJob, Stage, Error

\* An exception leaves the command or reaches _record_failure, and touches
\* nothing but the control state of its caller.
LEMMA RaiseType ==
    ASSUME TypeOK, NEW p \in Caller, NEW e \in Error, Raise(p, e)
    PROVE  /\ pc' \in [Caller -> Label]
           /\ job' \in [Caller -> Job]
           /\ pc'[p] \in {"idle", "recordFailure"}
           /\ \A q \in Caller \ {p} : pc'[q] = pc[q] /\ job'[q] = job[q]
<1>1. pc \in [Caller -> Label] /\ job \in [Caller -> Job] /\ job[p] \in Job
  BY DEF TypeOK
<1>2. {"idle", "recordFailure"} \subseteq Label
  BY DEF Label
<1>3. CASE Leave(p)
  BY <1>1, <1>2, <1>3, NoJobType DEF Leave
<1>4. CASE Goto(p, "recordFailure") /\ SetError(p, e)
  BY <1>1, <1>2, <1>4, JobFields, JobOfType DEF Goto, SetError
<1>5. QED
  BY <1>3, <1>4 DEF Raise

\* The three ways a caller changes its local variables, and its next label.
LEMMA LocalType ==
    ASSUME TypeOK, NEW p \in Caller
    PROVE  /\ \A s \in Stage, ref \in ExecutionRef, h \in Nat :
                 Enter(p, s, ref, h) => job' \in [Caller -> Job]
           /\ \A ref \in ExecutionRef : SetRef(p, ref) => job' \in [Caller -> Job]
           /\ \A e \in Error : SetError(p, e) => job' \in [Caller -> Job]
           /\ \A l \in Label : Goto(p, l) => pc' \in [Caller -> Label]
           /\ Leave(p) => pc' \in [Caller -> Label] /\ job' \in [Caller -> Job]
<1>1. pc \in [Caller -> Label] /\ job \in [Caller -> Job] /\ job[p] \in Job
  BY DEF TypeOK
<1>2. "none" \in Error /\ "idle" \in Label
  BY DEF Error, Label
<1>3. \A j \in Job : [job EXCEPT ![p] = j] \in [Caller -> Job]
  BY <1>1
<1>4. \A s \in Stage, ref \in ExecutionRef, h \in Nat : JobOf(s, ref, h, "none") \in Job
  BY <1>2, JobOfType
<1>5. \A ref \in ExecutionRef : JobOf(job[p].stage, ref, job[p].handlers, job[p].error) \in Job
  BY <1>1, JobFields, JobOfType
<1>6. \A e \in Error : JobOf(job[p].stage, job[p].ref, job[p].handlers, e) \in Job
  BY <1>1, JobFields, JobOfType
<1>7. \A l \in Label : Goto(p, l) => pc' \in [Caller -> Label]
  BY <1>1 DEF Goto
<1>8. Leave(p) => pc' \in [Caller -> Label] /\ job' \in [Caller -> Job]
  BY <1>1, <1>2, <1>3, NoJobType DEF Leave
<1>9. QED
  BY <1>3, <1>4, <1>5, <1>6, <1>7, <1>8 DEF Enter, SetRef, SetError

LEMMA InitType == Init => TypeOK
  BY DEF Init, RunsInit, TypeOK, RunsTypeOK, Status, Ended, Stage, Phase,
         Terminal, ExecutionRef, Unbound, Label, Preparing, Job, NoJob, JobOf, Error

LEMMA StepType == TypeOK /\ [Next]_vars => TypeOK'
<1> SUFFICES ASSUME TypeOK, [Next]_vars PROVE TypeOK'
  OBVIOUS
<1> USE DEF recordVars, runVars
<1>1. CASE AxernStep
  BY <1>1 DEF AxernStep, AxernNext, Allocate, Exit, PlatformFailure,
              CancellationEnds, Status, Ended, TypeOK, RunsTypeOK
<1>2. ASSUME NEW p \in Caller, CallerNext(p) PROVE TypeOK'
  <2>1. job[p] \in Job /\ job[p].stage \in Stage /\ job[p].ref \in ExecutionRef
          /\ job[p].handlers \in Nat /\ job[p].error \in Error
    BY JobFields DEF TypeOK
  <2>2. Disowned(p) \in Error
    BY DEF Disowned, Error
  <2>3. CASE Run(p)
    BY <2>1, <2>3, LocalType, RefType DEF Run, Phase, Label, Stage, TypeOK, RunsTypeOK
  <2>4. CASE CreateRun(p)
    BY <2>1, <2>4, LocalType, RefType, RaiseType DEF CreateRun, Created, Status, Label, Preparing, Error, TypeOK, RunsTypeOK
  <2>5. CASE CreateRunFails(p)
    BY <2>1, <2>5, RaiseType DEF CreateRunFails, Error, TypeOK, RunsTypeOK
  <2>6. CASE Bind(p)
    BY <2>1, <2>6, LocalType, <2>2 DEF Bind, Label, Preparing, TypeOK, RunsTypeOK
  <2>7. CASE CancelLate(p)
    BY <2>1, <2>7, LocalType DEF CancelLate, CancelRequested, Label, Error, TypeOK, RunsTypeOK
  <2>8. CASE AwaitRunning(p)
    BY <2>1, <2>8, LocalType, RefType DEF AwaitRunning, Label, Preparing, TypeOK, RunsTypeOK
  <2>9. CASE PreparationFails(p)
    BY <2>1, <2>9, LocalType DEF PreparationFails, Label, Error, TypeOK, RunsTypeOK
  <2>10. CASE Release(p)
    BY <2>1, <2>10, LocalType, RefType DEF Release, MarkerWritten, Live, Label, Error, TypeOK, RunsTypeOK, Status, Ended
  <2>11. CASE Abort(p)
    BY <2>1, <2>11, RaiseType DEF Abort, CancelRequested, Error, TypeOK, RunsTypeOK
  <2>12. CASE Follow(p)
    BY <2>1, <2>12, LocalType DEF Follow, Label, TypeOK, RunsTypeOK
  <2>13. CASE FollowFails(p)
    BY <2>1, <2>13, RaiseType DEF FollowFails, Error, TypeOK, RunsTypeOK
  <2>14. CASE Accept(p)
    BY <2>1, <2>14, LocalType, RaiseType, <2>2 DEF Accept, Label, TypeOK, RunsTypeOK
  <2>15. CASE RejectInference(p)
    BY <2>1, <2>15, RaiseType, <2>2 DEF RejectInference, Error, Phase, Terminal, Stage, TypeOK, RunsTypeOK
  <2>16. CASE BuildFails(p)
    BY <2>1, <2>16, RaiseType DEF BuildFails, Error, TypeOK, RunsTypeOK
  <2>17. CASE PublishCandidate(p)
    BY <2>1, <2>17, LocalType, RaiseType, RefType, <2>2 DEF PublishCandidate, Phase, Label, Stage, TypeOK, RunsTypeOK
  <2>18. CASE StartVerification(p)
    BY <2>1, <2>18, LocalType, RaiseType, RefType DEF StartVerification, Phase, Label, Stage, Error, TypeOK, RunsTypeOK
  <2>19. CASE PublishVerdict(p)
    BY <2>1, <2>19, LocalType, RaiseType, RefType, <2>2 DEF PublishVerdict, Phase, Terminal, Stage, Error, TypeOK, RunsTypeOK
  <2>20. CASE RecordFailure(p)
    BY <2>1, <2>20, LocalType, JobOfType DEF RecordFailure, Phase, Terminal, TypeOK, RunsTypeOK
  <2>21. CASE Recover(p)
    BY <2>1, <2>21, LocalType DEF Recover, Label, TypeOK, RunsTypeOK
  <2>22. CASE RecoverDamaged(p)
    BY <2>1, <2>22, LocalType, RefType, JobOfType DEF RecoverDamaged, Label, Stage, Error, TypeOK, RunsTypeOK
  <2>23. CASE Query(p)
    <3>1. (job[p].ref.run \in allocated) \in BOOLEAN
      OBVIOUS
    <3>2. [run |-> job[p].ref.run, allocated |-> job[p].ref.run \in allocated] \in ExecutionRef
      BY <2>1, <3>1, RefType
    <3>3. QED
      BY <2>1, <2>23, <3>2, LocalType DEF Query, Label, TypeOK, RunsTypeOK
  <2>24. CASE QueryFails(p)
    BY <2>1, <2>24, RaiseType DEF QueryFails, Error, TypeOK, RunsTypeOK
  <2>25. CASE Cancel(p)
    BY <2>1, <2>25, LocalType DEF Cancel, Label, TypeOK, RunsTypeOK
  <2>26. CASE CancelCall(p)
    BY <2>1, <2>26, LocalType DEF CancelCall, CancelRequested, Label, TypeOK, RunsTypeOK
  <2>27. CASE CancelCallFails(p)
    BY <2>1, <2>27, LocalType DEF CancelCallFails, CancelRequested, TypeOK, RunsTypeOK
  <2>28. CASE CancelSave(p)
    BY <2>1, <2>28, LocalType DEF CancelSave, Phase, Terminal, TypeOK, RunsTypeOK
  <2>29. CASE Crash(p)
    BY <2>1, <2>29, LocalType DEF Crash, TypeOK, RunsTypeOK
  <2>30. QED
    BY <1>2, <2>3, <2>4, <2>5, <2>6, <2>7, <2>8, <2>9, <2>10, <2>11, <2>12, <2>13, <2>14, <2>15, <2>16, <2>17, <2>18, <2>19, <2>20, <2>21, <2>22, <2>23, <2>24, <2>25, <2>26, <2>27, <2>28, <2>29
       DEF CallerNext, Execute, Commit, Rescue
<1>3. CASE UNCHANGED vars
  BY <1>3 DEF vars, TypeOK, RunsTypeOK
<1>4. QED
  BY <1>1, <1>2, <1>3 DEF Next

\* The record, the Runs and the callers stay within their types.
THEOREM TypeCorrect == Spec => []TypeOK
  BY InitType, StepType, PTL DEF Spec

------------------------------------------------------------------------------
(* The record is safe.                                                       *)

\* Everybody but p stays where he is.
Alone(p) == \A q \in Caller \ {p} : pc'[q] = pc[q] /\ job'[q] = job[q]

\* What the control-flow operators do, in terms of the fields of a job.
LEMMA LocalEffect ==
    ASSUME TypeOK, NEW p \in Caller
    PROVE  /\ \A s \in Stage, ref \in ExecutionRef, h \in Nat : Enter(p, s, ref, h) =>
                 /\ job'[p].stage = s /\ job'[p].ref = ref
                 /\ \A q \in Caller \ {p} : job'[q] = job[q]
           /\ \A ref \in ExecutionRef : SetRef(p, ref) =>
                 /\ job'[p].stage = job[p].stage /\ job'[p].ref = ref
                 /\ \A q \in Caller \ {p} : job'[q] = job[q]
           /\ \A e \in Error : SetError(p, e) =>
                 /\ job'[p].stage = job[p].stage /\ job'[p].ref = job[p].ref
                 /\ \A q \in Caller \ {p} : job'[q] = job[q]
           /\ \A l \in Label : Goto(p, l) =>
                 pc'[p] = l /\ \A q \in Caller \ {p} : pc'[q] = pc[q]
           /\ Leave(p) => pc'[p] = "idle" /\ Alone(p)
           /\ \A e \in Error : Raise(p, e) => pc'[p] \in {"idle", "recordFailure"} /\ Alone(p)
<1>1. pc \in [Caller -> Label] /\ job \in [Caller -> Job] /\ job[p] \in Job
  BY DEF TypeOK
<1>2. "none" \in Error
  BY DEF Error
<1>3. \A j \in Job : job' = [job EXCEPT ![p] = j] =>
          job'[p] = j /\ \A q \in Caller \ {p} : job'[q] = job[q]
  BY <1>1
<1>4. \A s \in Stage, ref \in ExecutionRef, h \in Nat, e \in Error :
          /\ JobOf(s, ref, h, e) \in Job
          /\ JobOf(s, ref, h, e).stage = s
          /\ JobOf(s, ref, h, e).ref = ref
  BY JobOfType
<1>5. job[p].stage \in Stage /\ job[p].ref \in ExecutionRef /\ job[p].handlers \in Nat /\ job[p].error \in Error
  BY <1>1, JobFields
<1>6. \A s \in Stage, ref \in ExecutionRef, h \in Nat : Enter(p, s, ref, h) =>
          /\ job'[p].stage = s /\ job'[p].ref = ref
          /\ \A q \in Caller \ {p} : job'[q] = job[q]
  <2>1. SUFFICES ASSUME NEW s \in Stage, NEW ref \in ExecutionRef, NEW h \in Nat, Enter(p, s, ref, h)
                 PROVE  /\ job'[p].stage = s /\ job'[p].ref = ref
                        /\ \A q \in Caller \ {p} : job'[q] = job[q]
    OBVIOUS
  <2>2. job' = [job EXCEPT ![p] = JobOf(s, ref, h, "none")]
    BY <2>1 DEF Enter
  <2> DEFINE j == JobOf(s, ref, h, "none")
  <2>3. j \in Job /\ j.stage = s /\ j.ref = ref
    BY <1>2, JobOfType
  <2>4. job' = [job EXCEPT ![p] = j]
    BY <2>2
  <2> HIDE DEF j
  <2>5. QED
    BY <1>3, <2>3, <2>4
<1>7. \A ref \in ExecutionRef : SetRef(p, ref) =>
          /\ job'[p].stage = job[p].stage /\ job'[p].ref = ref
          /\ \A q \in Caller \ {p} : job'[q] = job[q]
  <2>1. SUFFICES ASSUME NEW ref \in ExecutionRef, SetRef(p, ref)
                 PROVE  /\ job'[p].stage = job[p].stage /\ job'[p].ref = ref
                        /\ \A q \in Caller \ {p} : job'[q] = job[q]
    OBVIOUS
  <2>2. job' = [job EXCEPT ![p] = JobOf(job[p].stage, ref, job[p].handlers, job[p].error)]
    BY <2>1 DEF SetRef
  <2> DEFINE j == JobOf(job[p].stage, ref, job[p].handlers, job[p].error)
  <2>3. j \in Job /\ j.stage = job[p].stage /\ j.ref = ref
    BY <1>5, JobOfType
  <2>4. job' = [job EXCEPT ![p] = j]
    BY <2>2
  <2> HIDE DEF j
  <2>5. QED
    BY <1>3, <2>3, <2>4
<1>8. \A e \in Error : SetError(p, e) =>
          /\ job'[p].stage = job[p].stage /\ job'[p].ref = job[p].ref
          /\ \A q \in Caller \ {p} : job'[q] = job[q]
  BY <1>3, <1>4, <1>5 DEF SetError
<1>9. \A l : Goto(p, l) => pc'[p] = l /\ \A q \in Caller \ {p} : pc'[q] = pc[q]
  BY <1>1 DEF Goto
<1>10. Leave(p) => pc'[p] = "idle" /\ Alone(p)
  BY <1>1, <1>3, NoJobType DEF Leave, Alone
<1>11. \A e \in Error : Raise(p, e) => pc'[p] \in {"idle", "recordFailure"} /\ Alone(p)
  BY <1>8, <1>9, <1>10 DEF Raise, Alone
<1>12. QED
  BY <1>6, <1>7, <1>8, <1>9, <1>10, <1>11

\* A step of p that neither creates nor releases a Run, nor changes the
\* record: at most it tells a Run to end.
Benign(p) ==
    /\ UNCHANGED <<recordVars, purpose, status, released>>
    /\ cancelling \subseteq cancelling'
    /\ Alone(p)
    /\ lock' = lock \/ lock = p
    /\ pc'[p] \notin {"create", "prepare", "cancelCall", "cancelSave"}
    /\ phase = "new" => pc'[p] = "idle"
    /\ pc'[p] \in Holding =>
          job'[p].ref.run # NoRun /\ purpose[job'[p].ref.run] = job'[p].stage

BenignStep(p) ==
    \/ CreateRunFails(p) \/ CancelLate(p) \/ AwaitRunning(p) \/ PreparationFails(p)
    \/ Abort(p) \/ Follow(p) \/ FollowFails(p) \/ Accept(p) \/ BuildFails(p)
    \/ Recover(p) \/ RecoverDamaged(p) \/ Query(p) \/ QueryFails(p)
    \/ CancelCallFails(p) \/ Crash(p)

LEMMA BenignIsBenign ==
    ASSUME RecordIsSafe, NEW p \in Caller, BenignStep(p)
    PROVE  Benign(p)
<1> USE DEF recordVars, runVars, At
<1>1. TypeOK /\ OneCreator /\ BoundForItsStage /\ CancelOwnsRecord
  BY DEF RecordIsSafe
<1>2. pc[p] \in Label /\ job[p].stage \in Stage /\ job[p].ref \in ExecutionRef
        /\ job[p].handlers \in Nat /\ job[p].error \in Error /\ job[p].ref.run \in RunId \union {NoRun}
  BY <1>1, JobFields, RefType DEF TypeOK
<1>3. Disowned(p) \in Error
  BY DEF Disowned, Error
<1>4. /\ phase = "new" => pc[p] \in {"idle", "cancelSave"}
      /\ pc[p] \in Holding => job[p].ref.run # NoRun /\ purpose[job[p].ref.run] = job[p].stage
      /\ \A s \in Stage : execution[s].run # NoRun => purpose[execution[s].run] = s
      /\ pc[p] = "cancelCall" => lock = p
      /\ pc[p] = "cancelCall" => phase = Running[job[p].stage]
  BY <1>1 DEF OneCreator, BoundForItsStage, CancelOwnsRecord
<1> USE DEF Benign, Holding, Preparing
<1>5. CASE CreateRunFails(p)
  BY <1>1, <1>4, <1>5, LocalEffect DEF CreateRunFails, Error
<1>6. CASE CancelLate(p)
  BY <1>1, <1>2, <1>4, <1>6, LocalEffect DEF CancelLate, CancelRequested, Error, Label, Alone
<1>7. CASE AwaitRunning(p)
  <2> DEFINE ref == [run |-> job[p].ref.run, allocated |-> TRUE]
  <2>1. ref \in ExecutionRef /\ ref.run = job[p].ref.run
    BY <1>2, RefType
  <2>2. SetRef(p, ref) /\ pc[p] = "await" /\ Goto(p, "bind") /\ UNCHANGED <<recordVars, lock, runVars>>
    BY <1>7 DEF AwaitRunning
  <2> HIDE DEF ref
  <2>3. QED
    BY <1>1, <1>4, <2>1, <2>2, LocalEffect DEF Label, Alone
<1>8. CASE PreparationFails(p)
  BY <1>1, <1>2, <1>4, <1>8, LocalEffect DEF PreparationFails, Error, Label, Alone
<1>9. CASE Abort(p)
  BY <1>1, <1>2, <1>4, <1>9, LocalEffect DEF Abort, CancelRequested, Error
<1>10. CASE Follow(p)
  BY <1>1, <1>2, <1>4, <1>10, LocalEffect DEF Follow, Label, Alone
<1>11. CASE FollowFails(p)
  BY <1>1, <1>2, <1>4, <1>11, LocalEffect DEF FollowFails, Error
<1>12. CASE Accept(p)
  BY <1>1, <1>2, <1>3, <1>4, <1>12, LocalEffect DEF Accept, Label, Alone
<1>13. CASE BuildFails(p)
  BY <1>1, <1>2, <1>4, <1>13, LocalEffect DEF BuildFails, Error
<1>14. CASE Recover(p)
  BY <1>1, <1>2, <1>4, <1>14, LocalEffect DEF Recover, Running, Label, Alone, Stage, TypeOK
<1>15. CASE RecoverDamaged(p)
  BY <1>1, <1>2, <1>4, <1>15, LocalEffect DEF RecoverDamaged, Label, Alone, TypeOK
<1>16. CASE Query(p)
  <2> DEFINE ref == [run |-> job[p].ref.run, allocated |-> job[p].ref.run \in allocated]
  <2>1. (job[p].ref.run \in allocated) \in BOOLEAN
    OBVIOUS
  <2>2. ref \in ExecutionRef /\ ref.run = job[p].ref.run
    BY <1>2, <2>1, RefType
  <2>3. SetRef(p, ref) /\ pc[p] = "query" /\ Goto(p, "accept") /\ UNCHANGED <<recordVars, lock, runVars>>
    BY <1>16 DEF Query
  <2> HIDE DEF ref
  <2>4. QED
    BY <1>1, <1>4, <2>2, <2>3, LocalEffect DEF Label, Alone
<1>17. CASE QueryFails(p)
  BY <1>1, <1>2, <1>4, <1>17, LocalEffect DEF QueryFails, Error
<1>18. CASE CancelCallFails(p)
  BY <1>1, <1>2, <1>4, <1>18, LocalEffect DEF CancelCallFails, CancelRequested
<1>19. CASE Crash(p)
  BY <1>1, <1>2, <1>4, <1>19, LocalEffect DEF Crash
<1>20. QED
  BY <1>5, <1>6, <1>7, <1>8, <1>9, <1>10, <1>11, <1>12, <1>13, <1>14, <1>15, <1>16, <1>17, <1>18, <1>19
     DEF BenignStep

LEMMA CallerCases ==
    ASSUME NEW p \in Caller, CallerNext(p)
    PROVE  \/ BenignStep(p) \/ Run(p) \/ CreateRun(p) \/ Bind(p) \/ Release(p)
           \/ RejectInference(p) \/ PublishCandidate(p) \/ StartVerification(p) \/ PublishVerdict(p)
           \/ RecordFailure(p) \/ Cancel(p) \/ CancelCall(p) \/ CancelSave(p)
  BY DEF CallerNext, Execute, Commit, Rescue, BenignStep

\* The caller of a step, in the terms the steps below need.
LEMMA CallerFacts ==
    ASSUME TypeOK, NEW p \in Caller
    PROVE  /\ job[p].stage \in Stage /\ job[p].ref \in ExecutionRef
           /\ job[p].ref.run \in RunId \union {NoRun}
           /\ job[p].handlers \in Nat /\ job[p].error \in Error
           /\ Disowned(p) \in Error
           /\ execution \in [Stage -> ExecutionRef]
  BY JobFields, RefType DEF TypeOK, Disowned, Error

\* Where the steps that are not benign leave their caller.
LEMMA NextLabel ==
    ASSUME TypeOK, NEW p \in Caller
    PROVE  /\ Run(p) => Alone(p) /\ pc'[p] = "create" /\ job'[p].stage = "inference"
           /\ CreateRun(p) => Alone(p) /\ pc'[p] \in {"bind", "idle", "recordFailure"}
           /\ Bind(p) => Alone(p) /\ pc'[p] \in {"prepare", "await", "cancelLate", "abort"}
                            /\ job'[p].stage = job[p].stage /\ job'[p].ref = job[p].ref
           /\ Release(p) => Alone(p) /\ pc'[p] \in {"follow", "abort"}
                            /\ job'[p].stage = job[p].stage /\ job'[p].ref = job[p].ref
           /\ RejectInference(p) => Alone(p) /\ pc'[p] \in {"idle", "recordFailure"}
           /\ PublishCandidate(p) => Alone(p) /\ pc'[p] \in {"startVerification", "idle", "recordFailure"}
           /\ PublishVerdict(p) => Alone(p) /\ pc'[p] \in {"idle", "recordFailure"}
           /\ StartVerification(p) => /\ Alone(p) /\ pc'[p] \in {"create", "idle", "recordFailure"}
                                      /\ phase = "candidate_ready" => job'[p].stage = "verification"
                                      /\ phase # "candidate_ready" => pc'[p] # "create"
           /\ RecordFailure(p) => Alone(p) /\ pc'[p] \in {"idle", "recordFailure"}
           /\ Cancel(p) => Alone(p) /\ pc'[p] \in {"cancelCall", "cancelSave"}
           /\ CancelCall(p) => Alone(p) /\ pc'[p] = "cancelSave"
           /\ CancelSave(p) => Alone(p) /\ pc'[p] = "idle"
<1> USE DEF At, Alone
<1>1. /\ job[p].stage \in Stage /\ job[p].ref \in ExecutionRef
      /\ job[p].ref.run \in RunId \union {NoRun}
      /\ job[p].handlers \in Nat /\ job[p].error \in Error
      /\ Disowned(p) \in Error
      /\ execution \in [Stage -> ExecutionRef]
  BY CallerFacts
<1>2. {"inference", "verification"} \subseteq Stage /\ Unbound \in ExecutionRef
        /\ {"contract", "infrastructure", "recovery_required"} \subseteq Error
        /\ {"bind", "prepare", "await", "cancelLate", "abort", "create", "follow",
             "startVerification", "cancelCall", "cancelSave"} \subseteq Label
  BY RefType DEF Stage, Error, Label, Preparing
<1>3. Run(p) => Alone(p) /\ pc'[p] = "create" /\ job'[p].stage = "inference"
  BY <1>2, LocalEffect DEF Run
<1>4. CreateRun(p) => Alone(p) /\ pc'[p] \in {"bind", "idle", "recordFailure"}
  BY <1>1, <1>2, LocalEffect, RefType DEF CreateRun
<1>5. Bind(p) => Alone(p) /\ pc'[p] \in {"prepare", "await", "cancelLate", "abort"}
                  /\ job'[p].stage = job[p].stage /\ job'[p].ref = job[p].ref
  BY <1>1, <1>2, LocalEffect DEF Bind
<1>6. Release(p) => Alone(p) /\ pc'[p] \in {"follow", "abort"}
                  /\ job'[p].stage = job[p].stage /\ job'[p].ref = job[p].ref
  BY <1>1, <1>2, LocalEffect DEF Release
<1>7. RejectInference(p) => Alone(p) /\ pc'[p] \in {"idle", "recordFailure"}
  BY <1>1, <1>2, LocalEffect DEF RejectInference
<1>8. PublishCandidate(p) => Alone(p) /\ pc'[p] \in {"startVerification", "idle", "recordFailure"}
  BY <1>1, <1>2, LocalEffect DEF PublishCandidate
<1>9. PublishVerdict(p) => Alone(p) /\ pc'[p] \in {"idle", "recordFailure"}
  BY <1>1, <1>2, LocalEffect DEF PublishVerdict
<1>10. StartVerification(p) =>
          /\ Alone(p) /\ pc'[p] \in {"create", "idle", "recordFailure"}
          /\ phase = "candidate_ready" => job'[p].stage = "verification"
          /\ phase # "candidate_ready" => pc'[p] # "create"
  BY <1>1, <1>2, LocalEffect DEF StartVerification
<1>11. RecordFailure(p) => Alone(p) /\ pc'[p] \in {"idle", "recordFailure"}
  <2> DEFINE j == JobOf(job[p].stage, job[p].ref, job[p].handlers - 1, job[p].error)
  <2>1. RecordFailure(p) => /\ pc[p] = "recordFailure"
                            /\ Leave(p) \/ (job' = [job EXCEPT ![p] = j] /\ UNCHANGED pc)
    <3>1. SUFFICES ASSUME RecordFailure(p)
                   PROVE  /\ pc[p] = "recordFailure"
                          /\ Leave(p) \/ (job' = [job EXCEPT ![p] = j] /\ UNCHANGED pc)
      OBVIOUS
    <3>2. CASE job[p].handlers > 1
      BY <3>1, <3>2 DEF RecordFailure
    <3>3. CASE ~(job[p].handlers > 1)
      BY <3>1, <3>3 DEF RecordFailure
    <3>4. QED
      BY <3>2, <3>3
  <2> HIDE DEF j
  <2>2. job' = [job EXCEPT ![p] = j] => \A q \in Caller \ {p} : job'[q] = job[q]
    BY DEF TypeOK
  <2>3. QED
    BY <2>1, <2>2, LocalEffect
<1>12. Cancel(p) => Alone(p) /\ pc'[p] \in {"cancelCall", "cancelSave"}
  BY <1>1, <1>2, LocalEffect DEF Cancel
<1>13. CancelCall(p) => Alone(p) /\ pc'[p] = "cancelSave"
  BY <1>2, LocalEffect DEF CancelCall
<1>14. CancelSave(p) => Alone(p) /\ pc'[p] = "idle"
  BY LocalEffect DEF CancelSave
<1> HIDE DEF Alone
<1>15. QED
  BY <1>3, <1>4, <1>5, <1>6, <1>7, <1>8, <1>9, <1>10, <1>11, <1>12, <1>13, <1>14

LEMMA RunningPhases ==
    /\ Stage = {"inference", "verification"}
    /\ Running["inference"] = "inference_running"
    /\ Running["verification"] = "verification_running"
    /\ \A s \in Stage : Running[s] \notin Terminal /\ Running[s] # "new" /\ Running[s] # "candidate_ready"
  BY DEF Running, Stage, Terminal

(* OneCreator. *)

\* A step that creates nothing and hands no licence out.
LEMMA CreatorKept ==
    ASSUME TypeOK, OneCreator, NEW p \in Caller, Alone(p),
           purpose' = purpose,
           pc'[p] # "create",
           phase' = "new" => phase = "new" /\ pc'[p] \in {"idle", "cancelSave"},
           phase' \in {"inference_running", "candidate_ready"} =>
              phase \in {"inference_running", "candidate_ready"}
    PROVE  OneCreator'
  BY DEF OneCreator, Unstarted, NoReplacementRun, At, Alone, TypeOK

LEMMA CreatorStep ==
    ASSUME RecordIsSafe, [Next]_vars
    PROVE  OneCreator'
<1> USE DEF recordVars, runVars, At
<1>1. TypeOK /\ OneCreator
  BY DEF RecordIsSafe
<1>2. CASE AxernStep
  BY <1>1, <1>2 DEF AxernStep, AxernNext, Allocate, Exit, PlatformFailure, CancellationEnds,
                    OneCreator, Unstarted, NoReplacementRun
<1>3. ASSUME NEW p \in Caller, CallerNext(p) PROVE OneCreator'
  <2>1. phase = "new" => pc[p] \in {"idle", "cancelSave"}
    BY <1>1 DEF OneCreator
  <2>2. phase \in Phase
    BY <1>1 DEF TypeOK
  <2>3. CASE BenignStep(p)
    BY <1>1, <2>3, BenignIsBenign, CreatorKept DEF Benign
  <2>4. CASE Run(p)
    <3>1. Alone(p) /\ pc'[p] = "create" /\ job'[p].stage = "inference"
      BY <1>1, <2>4, NextLabel
    <3>2. phase = "new" /\ phase' = "inference_running" /\ purpose' = purpose
      BY <2>4 DEF Run
    <3>3. QED
      BY <1>1, <3>1, <3>2 DEF OneCreator, Unstarted, NoReplacementRun, Alone
  <2>5. CASE CreateRun(p)
    <3>1. Alone(p) /\ pc'[p] \in {"bind", "idle", "recordFailure"}
      BY <1>1, <2>5, NextLabel
    <3>2. PICK r \in RunId : Created(r, job[p].stage)
      BY <2>5 DEF CreateRun
    <3>3. /\ pc[p] = "create" /\ phase' = phase
          /\ purpose' = [purpose EXCEPT ![r] = job[p].stage]
      BY <2>5, <3>2 DEF CreateRun, Created
    <3>4. purpose \in [RunId -> Stage \union {"none"}] /\ job[p].stage \in Stage
      BY <1>1, CallerFacts DEF TypeOK, RunsTypeOK
    <3>5. \A x \in RunId : purpose'[x] = IF x = r THEN job[p].stage ELSE purpose[x]
      BY <3>3, <3>4
    <3>6. \A x \in RunId : purpose[x] # job[p].stage
      BY <1>1, <3>3 DEF OneCreator
    <3>7. NoReplacementRun'
      BY <1>1, <3>5, <3>6 DEF OneCreator, NoReplacementRun
    <3>8. phase # "new" /\ (phase \in {"inference_running", "candidate_ready"} => job[p].stage = "inference")
      BY <1>1, <2>1, <3>3, <3>4 DEF OneCreator, Unstarted, Stage
    <3>9. \A q \in Caller : pc'[q] = "create" =>
             q # p /\ pc[q] = "create" /\ job'[q] = job[q] /\ job[q].stage # job[p].stage
      BY <1>1, <3>1, <3>3 DEF OneCreator, Alone
    <3>10. phase' \in {"new", "inference_running", "candidate_ready"} => Unstarted("verification")'
      BY <1>1, <3>3, <3>5, <3>8, <3>9 DEF OneCreator, Unstarted
    <3>11. QED
      BY <1>1, <3>3, <3>5, <3>7, <3>8, <3>9, <3>10 DEF OneCreator
  <2>6. CASE Bind(p)
    BY <1>1, <2>1, <2>6, NextLabel, CreatorKept DEF Bind
  <2>7. CASE Release(p)
    BY <1>1, <2>1, <2>7, NextLabel, CreatorKept DEF Release, MarkerWritten
  <2>8. CASE RejectInference(p)
    BY <1>1, <2>1, <2>8, NextLabel, CreatorKept DEF RejectInference
  <2>9. CASE PublishCandidate(p)
    <3>1. pc[p] = "publish" /\ purpose' = purpose
      BY <2>9 DEF PublishCandidate
    <3>2. phase' = phase \/ (phase = "inference_running" /\ phase' = "candidate_ready")
      BY <2>9, RunningPhases DEF PublishCandidate, Owns
    <3>3. QED
      BY <1>1, <2>1, <2>9, <3>1, <3>2, NextLabel, CreatorKept
  <2>10. CASE StartVerification(p)
    <3>1. /\ Alone(p) /\ pc'[p] \in {"create", "idle", "recordFailure"}
          /\ phase = "candidate_ready" => job'[p].stage = "verification"
          /\ phase # "candidate_ready" => pc'[p] # "create"
      BY <1>1, <2>10, NextLabel
    <3>2. /\ purpose' = purpose /\ phase # "new"
          /\ phase' = IF phase = "candidate_ready" THEN "verification_running" ELSE phase
      BY <2>1, <2>10 DEF StartVerification
    <3>3. CASE phase = "candidate_ready"
      BY <1>1, <3>1, <3>2, <3>3 DEF OneCreator, Unstarted, NoReplacementRun, Alone
    <3>4. CASE phase # "candidate_ready"
      BY <1>1, <3>1, <3>2, <3>4, CreatorKept
    <3>5. QED
      BY <3>3, <3>4
  <2>11. CASE PublishVerdict(p)
    BY <1>1, <2>1, <2>11, NextLabel, CreatorKept DEF PublishVerdict
  <2>12. CASE RecordFailure(p)
    BY <1>1, <2>1, <2>12, NextLabel, CreatorKept DEF RecordFailure
  <2>13. CASE Cancel(p)
    <3>1. pc'[p] = "cancelCall" => phase # "new"
      BY <1>1, <2>13 DEF Cancel, Goto, Running, Stage, TypeOK
    <3>2. QED
      BY <1>1, <2>13, <3>1, NextLabel, CreatorKept DEF Cancel
  <2>14. CASE CancelCall(p)
    BY <1>1, <2>1, <2>14, NextLabel, CreatorKept DEF CancelCall, CancelRequested
  <2>15. CASE CancelSave(p)
    BY <1>1, <2>1, <2>15, NextLabel, CreatorKept DEF CancelSave
  <2>16. QED
    BY <1>3, <2>3, <2>4, <2>5, <2>6, <2>7, <2>8, <2>9, <2>10, <2>11, <2>12, <2>13, <2>14, <2>15, CallerCases
<1>4. CASE UNCHANGED vars
  BY <1>1, <1>4 DEF vars, OneCreator, Unstarted, NoReplacementRun
<1>5. QED
  BY <1>2, <1>3, <1>4 DEF Next

(* BoundForItsStage. *)

\* A step that leaves the Runs and the bindings alone.
LEMMA BindingKept ==
    ASSUME TypeOK, BoundForItsStage, NEW p \in Caller, Alone(p),
           UNCHANGED <<purpose, status, released, execution>>,
           pc'[p] \in Holding => job'[p].ref.run # NoRun /\ purpose[job'[p].ref.run] = job'[p].stage,
           pc'[p] = "prepare" => job'[p].ref.allocated /\ execution[job'[p].stage] = job'[p].ref
    PROVE  BoundForItsStage'
  BY DEF BoundForItsStage, ReleasedRunIsRecorded, At, Alone

\* A step that binds a stage, or binds it once more, to a Run of that stage.
LEMMA Rebinding ==
    ASSUME TypeOK, BoundForItsStage, NEW p \in Caller, Alone(p),
           NEW s \in Stage, NEW ref \in ExecutionRef,
           UNCHANGED <<purpose, status, released>>,
           execution' = [execution EXCEPT ![s] = ref],
           ref.run # NoRun, purpose[ref.run] = s,
           execution[s].run \in {NoRun, ref.run},
           execution[s].allocated => ref.allocated,
           pc'[p] \in Holding => job'[p].ref.run # NoRun /\ purpose[job'[p].ref.run] = job'[p].stage,
           pc'[p] = "prepare" => job'[p].ref.allocated /\ job'[p].stage = s /\ job'[p].ref = ref
    PROVE  BoundForItsStage'
<1>1. execution \in [Stage -> ExecutionRef]
  BY DEF TypeOK
<1>2. execution'[s] = ref /\ \A t \in Stage \ {s} : execution'[t] = execution[t]
  BY <1>1
<1>3. execution[s].allocated /\ execution[s].run # NoRun => execution[s] = ref
  BY <1>1 DEF ExecutionRef
<1>4. ASSUME NEW r \in released PROVE execution'[purpose[r]] = [run |-> r, allocated |-> TRUE]
  <2>1. execution[purpose[r]] = [run |-> r, allocated |-> TRUE] /\ purpose[r] \in Stage
    BY DEF BoundForItsStage, ReleasedRunIsRecorded
  <2>2. execution[purpose[r]].run = r /\ execution[purpose[r]].allocated
    BY <2>1
  <2>3. r # NoRun
    BY NoRunAssumption DEF TypeOK, RunsTypeOK
  <2>4. purpose[r] = s => execution[s] = ref
    BY <1>3, <2>2, <2>3
  <2>5. QED
    BY <1>2, <2>1, <2>4
<1>5. ReleasedRunIsRecorded'
  BY <1>4 DEF ReleasedRunIsRecorded
<1>6. \A q \in Caller : pc[q] = "prepare" /\ job[q].stage = s => job[q].ref = ref
  BY <1>3 DEF BoundForItsStage, At, Holding, Preparing
<1>7. \A q \in Caller : pc'[q] = "prepare" =>
          job'[q].ref.allocated /\ execution'[job'[q].stage] = job'[q].ref
  <2>1. SUFFICES ASSUME NEW q \in Caller, pc'[q] = "prepare"
                 PROVE  job'[q].ref.allocated /\ execution'[job'[q].stage] = job'[q].ref
    OBVIOUS
  <2>2. CASE q = p
    BY <1>2, <2>1, <2>2
  <2>3. CASE q # p
    <3>1. pc[q] = "prepare" /\ job'[q] = job[q]
      BY <2>1, <2>3 DEF Alone
    <3>2. job[q].stage \in Stage /\ job[q].ref.allocated /\ execution[job[q].stage] = job[q].ref
      BY <3>1, CallerFacts DEF BoundForItsStage, At
    <3>3. QED
      BY <1>2, <1>6, <3>1, <3>2
  <2>4. QED
    BY <2>2, <2>3
<1>8. \A q \in Caller : pc'[q] \in Holding => job'[q].ref.run # NoRun /\ purpose'[job'[q].ref.run] = job'[q].stage
  BY DEF BoundForItsStage, Alone
<1>9. \A t \in Stage : execution'[t].run # NoRun => purpose'[execution'[t].run] = t
  BY <1>2 DEF BoundForItsStage
<1>10. QED
  BY <1>5, <1>7, <1>8, <1>9 DEF BoundForItsStage, At

LEMMA BindingStep ==
    ASSUME RecordIsSafe, [Next]_vars
    PROVE  BoundForItsStage'
<1> USE DEF recordVars, runVars, At
<1>1. TypeOK /\ BoundForItsStage /\ RunsTypeOK
  BY DEF RecordIsSafe, TypeOK
<1>2. CASE AxernStep
  <2>1. UNCHANGED <<purpose, released, execution, pc, job>>
    BY <1>2 DEF AxernStep, AxernNext, Allocate, Exit, PlatformFailure, CancellationEnds
  <2>2. \A r \in RunId : status'[r] = "absent" => status[r] = "absent"
    BY <1>1, <1>2 DEF AxernStep, AxernNext, Allocate, Exit, PlatformFailure, CancellationEnds, RunsTypeOK
  <2>3. QED
    BY <1>1, <2>1, <2>2 DEF BoundForItsStage, ReleasedRunIsRecorded
<1>3. ASSUME NEW p \in Caller, CallerNext(p) PROVE BoundForItsStage'
  <2>1. /\ job[p].stage \in Stage /\ job[p].ref \in ExecutionRef
        /\ job[p].ref.run \in RunId \union {NoRun}
    BY <1>1, CallerFacts
  <2>2. /\ pc[p] \in Holding => job[p].ref.run # NoRun /\ purpose[job[p].ref.run] = job[p].stage
        /\ pc[p] = "prepare" => job[p].ref.allocated /\ execution[job[p].stage] = job[p].ref
    BY <1>1 DEF BoundForItsStage
  <2> USE DEF Holding, Preparing
  <2>3. CASE BenignStep(p)
    BY <1>1, <2>3, BenignIsBenign, BindingKept DEF Benign
  <2>4. CASE Run(p)
    BY <1>1, <2>4, NextLabel, BindingKept DEF Run
  <2>5. CASE CreateRun(p)
    <3>1. PICK r \in RunId :
            /\ Created(r, job[p].stage)
            /\ \/ Goto(p, "bind") /\ SetRef(p, [run |-> r, allocated |-> FALSE])
               \/ Raise(p, "infrastructure")
      BY <2>5 DEF CreateRun
    <3>2. Alone(p) /\ pc'[p] \in {"bind", "idle", "recordFailure"}
      BY <1>1, <2>5, NextLabel
    <3>3. /\ UNCHANGED <<execution, released>> /\ status[r] = "absent"
          /\ purpose' = [purpose EXCEPT ![r] = job[p].stage]
          /\ status' = [status EXCEPT ![r] = "live"]
      BY <2>5, <3>1 DEF CreateRun, Created
    <3>4. /\ purpose'[r] = job[p].stage /\ status'[r] = "live" /\ purpose[r] \notin Stage
          /\ \A x \in RunId \ {r} : purpose'[x] = purpose[x] /\ status'[x] = status[x]
      BY <1>1, <3>3 DEF BoundForItsStage, RunsTypeOK
    <3>5. \A x \in RunId : purpose[x] \in Stage => purpose'[x] = purpose[x]
      BY <3>4
    <3>6. pc'[p] = "bind" => job'[p].ref.run = r /\ job'[p].stage = job[p].stage
      <4> DEFINE ref == [run |-> r, allocated |-> FALSE]
      <4>1. ref \in ExecutionRef /\ ref.run = r
        BY RefType
      <4>2. SetRef(p, ref) \/ Raise(p, "infrastructure")
        BY <3>1
      <4> HIDE DEF ref
      <4>3. QED
        BY <1>1, <4>1, <4>2, LocalEffect DEF Error
    <3>7. \A q \in Caller : pc'[q] \in Holding =>
             job'[q].ref.run # NoRun /\ purpose'[job'[q].ref.run] = job'[q].stage
      <4>1. SUFFICES ASSUME NEW q \in Caller, pc'[q] \in Holding
                     PROVE  job'[q].ref.run # NoRun /\ purpose'[job'[q].ref.run] = job'[q].stage
        OBVIOUS
      <4>2. CASE q = p
        BY <3>2, <3>4, <3>6, <4>1, <4>2, NoRunAssumption
      <4>3. CASE q # p
        <5>1. pc[q] \in Holding /\ job'[q] = job[q]
          BY <3>2, <4>1, <4>3 DEF Alone
        <5>2. job[q].ref.run \in RunId /\ purpose[job[q].ref.run] = job[q].stage /\ job[q].stage \in Stage
          BY <1>1, <5>1, CallerFacts DEF BoundForItsStage
        <5>3. QED
          BY <3>5, <5>1, <5>2, NoRunAssumption
      <4>4. QED
        BY <4>2, <4>3
    <3>8. \A q \in Caller : pc'[q] = "prepare" => job'[q].ref.allocated /\ execution'[job'[q].stage] = job'[q].ref
      BY <1>1, <3>2, <3>3 DEF BoundForItsStage, Alone
    <3>9. \A s \in Stage : execution'[s].run # NoRun => purpose'[execution'[s].run] = s
      BY <1>1, <3>3, <3>5, RefType DEF BoundForItsStage, TypeOK
    <3>10. \A x \in released : purpose'[x] = purpose[x] /\ purpose[x] \in Stage
      BY <1>1, <3>5 DEF BoundForItsStage, RunsTypeOK
    <3>11. ReleasedRunIsRecorded'
      BY <1>1, <3>3, <3>10 DEF BoundForItsStage, ReleasedRunIsRecorded
    <3>12. \A x \in RunId : purpose'[x] \in Stage => status'[x] # "absent"
      BY <1>1, <3>4 DEF BoundForItsStage
    <3>13. QED
      BY <3>3, <3>7, <3>8, <3>9, <3>10, <3>11, <3>12 DEF BoundForItsStage
  <2>6. CASE Bind(p)
    <3>1. /\ Alone(p) /\ pc'[p] \in {"prepare", "await", "cancelLate", "abort"}
          /\ job'[p].stage = job[p].stage /\ job'[p].ref = job[p].ref
      BY <1>1, <2>6, NextLabel
    <3>2. pc[p] = "bind" /\ UNCHANGED <<purpose, status, released>>
      BY <2>6 DEF Bind
    <3>3. CASE phase = Running[job[p].stage] /\ Bindable(job[p].stage, job[p].ref)
      <4>1. execution' = [execution EXCEPT ![job[p].stage] = job[p].ref]
              /\ pc'[p] = IF job[p].ref.allocated THEN "prepare" ELSE "await"
        BY <1>1, <2>6, <3>3 DEF Bind, Goto, TypeOK
      <4> DEFINE s == job[p].stage
                 ref == job[p].ref
      <4>2. s \in Stage /\ ref \in ExecutionRef
        BY <2>1
      <4>3. ref.run # NoRun /\ purpose[ref.run] = s
        BY <2>2, <3>2
      <4>4. execution[s].run \in {NoRun, ref.run} /\ (execution[s].allocated => ref.allocated)
        BY <3>3 DEF Bindable
      <4>5. job'[p].stage = s /\ job'[p].ref = ref
        BY <3>1
      <4>6. pc'[p] \in Holding => job'[p].ref.run # NoRun /\ purpose[job'[p].ref.run] = job'[p].stage
        BY <4>3, <4>5
      <4>7. pc'[p] = "prepare" => ref.allocated
        BY <4>1
      <4>8. pc'[p] = "prepare" => job'[p].ref.allocated /\ job'[p].stage = s /\ job'[p].ref = ref
        BY <4>5, <4>7
      <4>9. Alone(p) /\ execution' = [execution EXCEPT ![s] = ref]
        BY <3>1, <4>1
      <4> HIDE DEF s, ref, Holding, Preparing
      <4>10. QED
        BY <1>1, <3>2, <4>2, <4>3, <4>4, <4>6, <4>8, <4>9, Rebinding
    <3>4. CASE ~(phase = Running[job[p].stage] /\ Bindable(job[p].stage, job[p].ref))
      <4>1. UNCHANGED execution /\ pc'[p] \in {"cancelLate", "abort"}
        BY <1>1, <2>6, <3>4 DEF Bind, Goto, TypeOK
      <4>2. QED
        BY <1>1, <2>2, <3>1, <3>2, <4>1, BindingKept
    <3>5. QED
      BY <3>3, <3>4
  <2>7. CASE Release(p)
    <3>1. /\ Alone(p) /\ pc'[p] \in {"follow", "abort"}
          /\ job'[p].stage = job[p].stage /\ job'[p].ref = job[p].ref
      BY <1>1, <2>7, NextLabel
    <3>2. /\ pc[p] = "prepare" /\ UNCHANGED <<purpose, status, execution>>
          /\ released' = released \union {job[p].ref.run}
      BY <2>7 DEF Release, MarkerWritten
    <3>3. execution[job[p].stage] = [run |-> job[p].ref.run, allocated |-> TRUE]
      BY <2>1, <2>2, <3>2 DEF ExecutionRef
    <3>4. ReleasedRunIsRecorded'
      BY <1>1, <2>2, <3>2, <3>3 DEF BoundForItsStage, ReleasedRunIsRecorded
    <3>5. \A q \in Caller : pc'[q] \in Holding =>
             job'[q].ref.run # NoRun /\ purpose'[job'[q].ref.run] = job'[q].stage
      BY <1>1, <2>2, <3>1, <3>2 DEF BoundForItsStage, Alone
    <3>6. \A q \in Caller : pc'[q] = "prepare" => job'[q].ref.allocated /\ execution'[job'[q].stage] = job'[q].ref
      BY <1>1, <3>1, <3>2 DEF BoundForItsStage, Alone
    <3>7. QED
      BY <1>1, <2>1, <2>2, <3>2, <3>4, <3>5, <3>6 DEF BoundForItsStage
  <2>8. CASE RejectInference(p) \/ PublishCandidate(p) \/ PublishVerdict(p)
    <3>1. Alone(p) /\ pc'[p] \in {"startVerification", "idle", "recordFailure"}
      BY <1>1, <2>8, NextLabel
    <3>2. pc[p] \in {"reject", "publish"} /\ UNCHANGED <<purpose, status, released>>
      BY <2>8 DEF RejectInference, PublishCandidate, PublishVerdict
    <3>3. CASE Owns(p)
      <4>1. execution' = [execution EXCEPT ![job[p].stage] = job[p].ref]
        BY <2>8, <3>3 DEF RejectInference, PublishCandidate, PublishVerdict
      <4>2. execution[job[p].stage].run = job[p].ref.run
              /\ (execution[job[p].stage].allocated => job[p].ref.allocated)
        BY <3>3 DEF Owns
      <4>3. QED
        BY <1>1, <2>1, <2>2, <3>1, <3>2, <4>1, <4>2, Rebinding
    <3>4. CASE ~Owns(p)
      BY <1>1, <2>8, <3>1, <3>2, <3>4, BindingKept DEF RejectInference, PublishCandidate, PublishVerdict
    <3>5. QED
      BY <3>3, <3>4
  <2>9. CASE StartVerification(p)
    BY <1>1, <2>9, NextLabel, BindingKept DEF StartVerification
  <2>12. CASE RecordFailure(p)
    BY <1>1, <2>12, NextLabel, BindingKept DEF RecordFailure
  <2>13. CASE Cancel(p)
    BY <1>1, <2>13, NextLabel, BindingKept DEF Cancel
  <2>14. CASE CancelCall(p)
    BY <1>1, <2>14, NextLabel, BindingKept DEF CancelCall, CancelRequested
  <2>15. CASE CancelSave(p)
    BY <1>1, <2>15, NextLabel, BindingKept DEF CancelSave
  <2>16. QED
    BY <1>3, <2>3, <2>4, <2>5, <2>6, <2>7, <2>8, <2>9, <2>12, <2>13, <2>14, <2>15, CallerCases
<1>4. CASE UNCHANGED vars
  BY <1>1, <1>4 DEF vars, BoundForItsStage, ReleasedRunIsRecorded
<1>5. QED
  BY <1>2, <1>3, <1>4 DEF Next

(* OutcomeBacksPhase. *)

\* A caller changes the status of a Run only by creating it.
LEMMA CallerStatus ==
    ASSUME NEW p \in Caller, CallerNext(p)
    PROVE  \/ UNCHANGED status
           \/ \E x \in RunId : status[x] = "absent" /\ status' = [status EXCEPT ![x] = "live"]
  BY DEF runVars, CallerNext, Execute, Commit, Rescue, Run, CreateRun, Created, CreateRunFails, Bind,
     CancelLate, CancelRequested, AwaitRunning, PreparationFails, Release, MarkerWritten, Abort,
     Follow, FollowFails, Accept, RejectInference, BuildFails, PublishCandidate, StartVerification,
     PublishVerdict, RecordFailure, Recover, RecoverDamaged, Query, QueryFails, Cancel, CancelCall,
     CancelCallFails, CancelSave, Crash

\* A Run that succeeded stays so: only an absent Run is created, and only a
\* live one ends.
LEMMA SuccessIsFinal ==
    ASSUME TypeOK, [Next]_vars, NEW r \in RunId, status[r] = "succeeded"
    PROVE  status'[r] = "succeeded"
<1> USE DEF recordVars, runVars
<1>1. status \in [RunId -> Status]
  BY DEF TypeOK, RunsTypeOK
<1>2. CASE AxernStep
  BY <1>1, <1>2 DEF AxernStep, AxernNext, Allocate, Exit, Executing, Live, PlatformFailure, CancellationEnds
<1>3. ASSUME NEW p \in Caller, CallerNext(p) PROVE status'[r] = "succeeded"
  BY <1>1, <1>3, CallerStatus
<1>4. CASE UNCHANGED vars
  BY <1>4 DEF vars
<1>5. QED
  BY <1>2, <1>3, <1>4 DEF Next

\* A step that keeps the phase, or ends the episode without success.
LEMMA OutcomeKept ==
    ASSUME TypeOK, OutcomeBacksPhase, [Next]_vars,
           UNCHANGED <<execution, candidate, verdict>>,
           \/ phase' = phase
           \/ phase' \notin {"candidate_ready", "verification_running", "completed"}
           \/ phase = "candidate_ready" /\ phase' = "verification_running"
    PROVE  OutcomeBacksPhase'
  BY SuccessIsFinal DEF OutcomeBacksPhase, TypeOK

LEMMA OutcomeStep ==
    ASSUME RecordIsSafe, [Next]_vars
    PROVE  OutcomeBacksPhase'
<1> USE DEF recordVars, runVars, At
<1>1. TypeOK /\ OutcomeBacksPhase /\ BoundForItsStage
  BY DEF RecordIsSafe
<1>2. CASE AxernStep
  BY <1>1, <1>2, OutcomeKept DEF AxernStep
<1>3. ASSUME NEW p \in Caller, CallerNext(p) PROVE OutcomeBacksPhase'
  <2>1. /\ job[p].stage \in Stage /\ job[p].ref.run \in RunId \union {NoRun} /\ job[p].ref \in ExecutionRef
        /\ execution \in [Stage -> ExecutionRef]
    BY <1>1, CallerFacts
  <2>2. pc[p] \in {"reject", "publish"} => job[p].ref.run # NoRun
    BY <1>1 DEF BoundForItsStage, Holding
  <2>3. CASE BenignStep(p)
    BY <1>1, <2>3, BenignIsBenign, OutcomeKept DEF Benign
  <2>4. CASE Run(p)
    BY <1>1, <2>4, OutcomeKept DEF Run
  <2>5. CASE CreateRun(p)
    BY <1>1, <2>5, OutcomeKept DEF CreateRun
  <2>6. CASE Bind(p)
    <3>1. CASE phase = Running[job[p].stage] /\ Bindable(job[p].stage, job[p].ref)
      <4>1. /\ execution' = [execution EXCEPT ![job[p].stage] = job[p].ref]
            /\ UNCHANGED <<phase, candidate, verdict, status>>
        BY <2>6, <3>1 DEF Bind
      <4>2. phase = "verification_running" => execution'["inference"] = execution["inference"]
        BY <2>1, <3>1, <4>1, RunningPhases
      <4>3. phase \in {"inference_running", "verification_running"}
        BY <2>1, <3>1, RunningPhases
      <4>4. QED
        BY <1>1, <4>1, <4>2, <4>3 DEF OutcomeBacksPhase
    <3>2. CASE ~(phase = Running[job[p].stage] /\ Bindable(job[p].stage, job[p].ref))
      BY <1>1, <2>6, <3>2, OutcomeKept DEF Bind
    <3>3. QED
      BY <3>1, <3>2
  <2>7. CASE Release(p)
    BY <1>1, <2>7, OutcomeKept DEF Release
  <2>8. CASE RejectInference(p)
    <3>1. CASE Owns(p)
      BY <2>8, <3>1 DEF RejectInference, OutcomeBacksPhase
    <3>2. CASE ~Owns(p)
      BY <1>1, <2>8, <3>2, OutcomeKept DEF RejectInference
    <3>3. QED
      BY <3>1, <3>2
  <2>9. CASE PublishCandidate(p)
    <3>1. CASE Owns(p)
      <4>1. /\ execution' = [execution EXCEPT !["inference"] = job[p].ref]
            /\ candidate' = job[p].ref.run /\ phase' = "candidate_ready"
            /\ status' = status /\ status[job[p].ref.run] = "succeeded" /\ pc[p] = "publish"
        BY <2>9, <3>1 DEF PublishCandidate
      <4>2. execution'["inference"] = job[p].ref
        BY <2>1, <4>1 DEF Stage
      <4>3. QED
        BY <2>2, <4>1, <4>2 DEF OutcomeBacksPhase
    <3>2. CASE ~Owns(p)
      BY <1>1, <2>9, <3>2, OutcomeKept DEF PublishCandidate
    <3>3. QED
      BY <3>1, <3>2
  <2>10. CASE StartVerification(p)
    BY <1>1, <2>10, OutcomeKept DEF StartVerification
  <2>11. CASE PublishVerdict(p)
    <3>1. CASE Owns(p)
      <4>1. /\ execution' = [execution EXCEPT !["verification"] = job[p].ref]
            /\ UNCHANGED <<candidate, status>> /\ pc[p] = "publish" /\ job[p].stage = "verification"
            /\ \/ phase' = "failed"
               \/ phase' = "completed" /\ verdict' = job[p].ref.run /\ status[job[p].ref.run] = "succeeded"
        BY <2>11, <3>1 DEF PublishVerdict
      <4>2. execution'["verification"] = job[p].ref /\ execution'["inference"] = execution["inference"]
        BY <2>1, <4>1 DEF Stage
      <4>3. phase = "verification_running"
        BY <3>1, <4>1, RunningPhases DEF Owns
      <4>4. QED
        BY <1>1, <2>2, <4>1, <4>2, <4>3 DEF OutcomeBacksPhase
    <3>2. CASE ~Owns(p)
      BY <1>1, <2>11, <3>2, OutcomeKept DEF PublishVerdict
    <3>3. QED
      BY <3>1, <3>2
  <2>12. CASE RecordFailure(p)
    BY <1>1, <2>12, OutcomeKept DEF RecordFailure
  <2>13. CASE Cancel(p)
    BY <1>1, <2>13, OutcomeKept DEF Cancel
  <2>14. CASE CancelCall(p)
    BY <1>1, <2>14, OutcomeKept DEF CancelCall
  <2>15. CASE CancelSave(p)
    BY <1>1, <2>15, OutcomeKept DEF CancelSave
  <2>16. QED
    BY <1>3, <2>3, <2>4, <2>5, <2>6, <2>7, <2>8, <2>9, <2>10, <2>11, <2>12, <2>13, <2>14, <2>15, CallerCases
<1>4. CASE UNCHANGED vars
  BY <1>1, <1>4, OutcomeKept DEF vars
<1>5. QED
  BY <1>2, <1>3, <1>4 DEF Next

(* CancelOwnsRecord. *)

\* While the lock is held elsewhere: the record stays, no bound Run begins.
LEMMA CancelKept ==
    ASSUME TypeOK, CancelOwnsRecord, NEW p \in Caller, Alone(p),
           UNCHANGED <<phase, execution>>,
           \A s \in Stage : execution[s].run # NoRun /\ Live(execution[s].run)' => Live(execution[s].run),
           cancelling \subseteq cancelling',
           pc'[p] \notin {"cancelCall", "cancelSave"},
           lock' = lock \/ lock = p
    PROVE  CancelOwnsRecord'
<1>1. BoundRunsTold => BoundRunsTold'
  BY DEF BoundRunsTold, Live
<1>2. \A q \in Caller : pc'[q] \in {"cancelCall", "cancelSave"} =>
          q # p /\ pc[q] = pc'[q] /\ job[q] = job'[q] /\ lock' = q
  BY DEF CancelOwnsRecord, Alone
<1>3. QED
  BY <1>1, <1>2 DEF CancelOwnsRecord, At

\* A step under the free lock.
LEMMA FreeKept ==
    ASSUME TypeOK, CancelOwnsRecord, NEW p \in Caller, Alone(p), Free,
           pc'[p] \notin {"cancelCall", "cancelSave"},
           phase' # "cancelled" \/ UNCHANGED <<phase, execution, status, cancelling>>
    PROVE  CancelOwnsRecord'
<1>1. \A q \in Caller : pc'[q] \notin {"cancelCall", "cancelSave"}
  BY NoCallerAssumption DEF CancelOwnsRecord, Alone, Free
<1>2. UNCHANGED <<execution, status, cancelling>> => (BoundRunsTold' <=> BoundRunsTold)
  BY DEF BoundRunsTold, Live
<1>3. QED
  BY <1>1, <1>2 DEF CancelOwnsRecord, At

\* Only the stage that is running can have a live bound Run.
LEMMA OtherStagesRest ==
    ASSUME RecordIsSafe, phase \notin Terminal, NEW s \in Stage, phase # Running[s],
           execution[s].run # NoRun
    PROVE  ~Live(execution[s].run)
<1>1. TypeOK /\ OneCreator /\ BoundForItsStage /\ OutcomeBacksPhase
  BY DEF RecordIsSafe
<1>2. execution[s].run \in RunId /\ purpose[execution[s].run] = s
  BY <1>1, RefType DEF BoundForItsStage, TypeOK
<1>3. ~Unstarted(s)
  BY <1>2 DEF Unstarted
<1>4. phase \in {"new", "inference_running", "candidate_ready", "verification_running"}
  BY <1>1 DEF TypeOK, Phase
<1>5. CASE s = "inference"
  <2>1. phase \in {"candidate_ready", "verification_running"}
    BY <1>1, <1>3, <1>4, <1>5, RunningPhases DEF OneCreator
  <2>2. QED
    BY <1>1, <1>5, <2>1 DEF OutcomeBacksPhase, Live
<1>6. CASE s = "verification"
  BY <1>1, <1>3, <1>4, <1>6, RunningPhases DEF OneCreator
<1>7. QED
  BY <1>5, <1>6, RunningPhases

LEMMA CancelStep ==
    ASSUME RecordIsSafe, [Next]_vars
    PROVE  CancelOwnsRecord'
<1> USE DEF recordVars, runVars, At
<1>1. TypeOK /\ CancelOwnsRecord /\ BoundForItsStage
  BY DEF RecordIsSafe
<1>2. CASE AxernStep
  <2>1. UNCHANGED <<phase, execution, lock, pc, job, cancelling>>
    BY <1>2 DEF AxernStep, AxernNext, Allocate, Exit, PlatformFailure, CancellationEnds
  <2>2. \A r \in RunId : status'[r] = "live" => status[r] = "live"
    BY <1>1, <1>2 DEF AxernStep, AxernNext, Allocate, Exit, PlatformFailure, CancellationEnds, TypeOK, RunsTypeOK
  <2>3. \A s \in Stage : execution[s].run # NoRun => execution[s].run \in RunId
    BY <1>1, RefType DEF TypeOK
  <2>4. BoundRunsTold => BoundRunsTold'
    BY <2>1, <2>2, <2>3 DEF BoundRunsTold, Live
  <2>5. QED
    BY <1>1, <2>1, <2>4 DEF CancelOwnsRecord
<1>3. ASSUME NEW p \in Caller, CallerNext(p) PROVE CancelOwnsRecord'
  <2>1. /\ job[p].stage \in Stage /\ job[p].ref.run \in RunId \union {NoRun} /\ job[p].ref \in ExecutionRef
        /\ execution \in [Stage -> ExecutionRef]
    BY <1>1, CallerFacts
  <2>2. CASE BenignStep(p)
    BY <1>1, <2>2, BenignIsBenign, CancelKept DEF Benign, Live
  <2>3. CASE Run(p)
    BY <1>1, <2>3, NextLabel, FreeKept DEF Run
  <2>4. CASE CreateRun(p)
    <3>1. PICK r \in RunId : Created(r, job[p].stage)
      BY <2>4 DEF CreateRun
    <3>2. UNCHANGED <<phase, execution, lock, cancelling>> /\ status[r] = "absent"
            /\ status' = [status EXCEPT ![r] = "live"]
      BY <2>4, <3>1 DEF CreateRun, Created
    <3>3. \A s \in Stage : execution[s].run # NoRun => execution[s].run \in RunId \ {r}
      BY <1>1, <3>2, RefType DEF BoundForItsStage, TypeOK
    <3>4. \A s \in Stage : execution[s].run # NoRun => status'[execution[s].run] = status[execution[s].run]
      BY <1>1, <3>2, <3>3 DEF TypeOK, RunsTypeOK
    <3>5. QED
      BY <1>1, <2>4, <3>2, <3>4, NextLabel, CancelKept DEF Live
  <2>5. CASE Bind(p)
    <3>1. CASE phase = Running[job[p].stage] /\ Bindable(job[p].stage, job[p].ref)
      BY <1>1, <2>1, <2>5, <3>1, NextLabel, FreeKept, RunningPhases DEF Bind, Terminal
    <3>2. CASE ~(phase = Running[job[p].stage] /\ Bindable(job[p].stage, job[p].ref))
      BY <1>1, <2>5, <3>2, NextLabel, FreeKept DEF Bind
    <3>3. QED
      BY <3>1, <3>2
  <2>6. CASE Release(p)
    BY <1>1, <2>6, NextLabel, CancelKept DEF Release, MarkerWritten, Live
  <2>7. CASE RejectInference(p)
    BY <1>1, <2>7, NextLabel, FreeKept DEF RejectInference
  <2>8. CASE PublishCandidate(p)
    BY <1>1, <2>8, NextLabel, FreeKept DEF PublishCandidate
  <2>9. CASE StartVerification(p)
    BY <1>1, <2>9, NextLabel, FreeKept DEF StartVerification
  <2>10. CASE PublishVerdict(p)
    BY <1>1, <2>10, NextLabel, FreeKept DEF PublishVerdict
  <2>11. CASE RecordFailure(p)
    BY <1>1, <2>11, NextLabel, FreeKept DEF RecordFailure
  <2>12. CASE Cancel(p)
    <3>1. /\ Alone(p) /\ pc'[p] \in {"cancelCall", "cancelSave"}
      BY <1>1, <2>12, NextLabel
    <3>2. /\ Free /\ phase \notin Terminal /\ lock' = p
          /\ UNCHANGED <<phase, execution, status, cancelling>>
      BY <2>12 DEF Cancel
    <3>3. \A q \in Caller \ {p} : pc'[q] \notin {"cancelCall", "cancelSave"}
      BY <1>1, <3>1, <3>2, NoCallerAssumption DEF CancelOwnsRecord, Alone, Free
    <3>4. pc'[p] = "cancelCall" =>
            phase = Running[job'[p].stage] /\ execution[job'[p].stage] = job'[p].ref
      <4>1. SUFFICES ASSUME pc'[p] = "cancelCall"
                     PROVE  phase = Running[job'[p].stage] /\ execution[job'[p].stage] = job'[p].ref
        OBVIOUS
      <4>2. PICK s \in Stage : phase = Running[s] /\ Enter(p, s, execution[s], 0)
        BY <1>1, <2>12, <4>1 DEF Cancel, Goto, TypeOK
      <4>3. QED
        BY <1>1, <2>1, <4>2, LocalEffect
    <3>5. pc'[p] = "cancelSave" => BoundRunsTold'
      <4>1. SUFFICES ASSUME pc'[p] = "cancelSave" PROVE BoundRunsTold'
        OBVIOUS
      <4>2. \A s \in Stage : phase = Running[s] => execution[s].run = NoRun
        BY <1>1, <2>12, <4>1 DEF Cancel, Goto, TypeOK
      <4>3. \A s \in Stage : execution[s].run # NoRun => ~Live(execution[s].run)
        BY <3>2, <4>2, OtherStagesRest
      <4>4. QED
        BY <3>2, <4>3 DEF BoundRunsTold, Live
    <3>6. phase' # "cancelled" /\ phase' \notin Terminal
      BY <3>2 DEF Terminal
    <3>7. QED
      BY <3>2, <3>3, <3>4, <3>5, <3>6 DEF CancelOwnsRecord
  <2>13. CASE CancelCall(p)
    <3>1. Alone(p) /\ pc'[p] = "cancelSave"
      BY <1>1, <2>13, NextLabel
    <3>2. /\ pc[p] = "cancelCall" /\ UNCHANGED <<phase, execution, status, lock>>
          /\ cancelling \subseteq cancelling'
          /\ job[p].ref.run \in RunId /\ Live(job[p].ref.run) => job[p].ref.run \in cancelling'
      BY <2>13 DEF CancelCall, CancelRequested
    <3>3. /\ lock = p /\ phase \notin Terminal
          /\ phase = Running[job[p].stage] /\ execution[job[p].stage] = job[p].ref
      BY <1>1, <3>2 DEF CancelOwnsRecord
    <3>4. \A q \in Caller \ {p} : pc'[q] \notin {"cancelCall", "cancelSave"}
      BY <1>1, <3>1, <3>3 DEF CancelOwnsRecord, Alone
    <3>5. ASSUME NEW s \in Stage, execution[s].run # NoRun, Live(execution[s].run)
          PROVE  execution[s].run \in cancelling'
      <4>1. phase = Running[s]
        BY <3>3, <3>5, OtherStagesRest
      <4>2. s = job[p].stage
        BY <2>1, <3>3, <4>1, RunningPhases
      <4>3. QED
        BY <2>1, <3>2, <3>3, <3>5, <4>2
    <3>6. BoundRunsTold'
      BY <3>2, <3>5 DEF BoundRunsTold, Live
    <3>7. QED
      BY <3>1, <3>2, <3>3, <3>4, <3>6 DEF CancelOwnsRecord
  <2>14. CASE CancelSave(p)
    <3>1. Alone(p) /\ pc'[p] = "idle"
      BY <1>1, <2>14, NextLabel
    <3>2. pc[p] = "cancelSave" /\ UNCHANGED <<execution, status, cancelling>>
      BY <2>14 DEF CancelSave
    <3>3. lock = p /\ BoundRunsTold
      BY <1>1, <3>2 DEF CancelOwnsRecord
    <3>4. \A q \in Caller : pc'[q] \notin {"cancelCall", "cancelSave"}
      BY <1>1, <3>1, <3>3 DEF CancelOwnsRecord, Alone
    <3>5. BoundRunsTold'
      BY <3>2, <3>3 DEF BoundRunsTold, Live
    <3>6. QED
      BY <3>4, <3>5 DEF CancelOwnsRecord
  <2>15. QED
    BY <1>3, <2>2, <2>3, <2>4, <2>5, <2>6, <2>7, <2>8, <2>9, <2>10, <2>11, <2>12, <2>13, <2>14, CallerCases
<1>4. CASE UNCHANGED vars
  BY <1>1, <1>4 DEF vars, CancelOwnsRecord, BoundRunsTold, Live
<1>5. QED
  BY <1>2, <1>3, <1>4 DEF Next

------------------------------------------------------------------------------
LEMMA InitSafe == Init => RecordIsSafe
<1> SUFFICES ASSUME Init PROVE RecordIsSafe
  OBVIOUS
<1>1. TypeOK
  BY InitType
<1>2. OneCreator /\ BoundForItsStage /\ OutcomeBacksPhase /\ CancelOwnsRecord
  BY DEF Init, RunsInit, OneCreator, Unstarted, NoReplacementRun, BoundForItsStage,
         ReleasedRunIsRecorded, OutcomeBacksPhase, CancelOwnsRecord, BoundRunsTold,
         Unbound, Stage, Holding, Preparing, At
<1>3. QED
  BY <1>1, <1>2 DEF RecordIsSafe

\* The inductive invariant holds: the license to create a Run, the bindings,
\* the outcomes and the lock stay consistent whatever the callers do.
THEOREM RecordSafety == Spec => []RecordIsSafe
<1>1. RecordIsSafe /\ [Next]_vars => RecordIsSafe'
  <2> SUFFICES ASSUME RecordIsSafe, [Next]_vars PROVE RecordIsSafe'
    OBVIOUS
  <2>1. TypeOK
    BY DEF RecordIsSafe
  <2>2. TypeOK'
    BY <2>1, StepType
  <2>3. QED
    BY <2>2, CreatorStep, BindingStep, OutcomeStep, CancelStep DEF RecordIsSafe
<1>2. QED
  BY <1>1, InitSafe, PTL DEF Spec

\* For any number of callers: the runner never creates a second Run for a
\* stage (run, _start_verification and recover).
THEOREM NeverReplaced == Spec => []NoReplacementRun
<1>1. RecordIsSafe => NoReplacementRun
  BY DEF RecordIsSafe, OneCreator
<1>2. QED
  BY <1>1, RecordSafety, PTL

\* A released Run is in the record, with its Allocation, ever after (_bind
\* before the ready marker of _execute).
THEOREM ReleasedIsRecorded == Spec => []ReleasedRunIsRecorded
<1>1. RecordIsSafe => ReleasedRunIsRecorded
  BY DEF RecordIsSafe, BoundForItsStage
<1>2. QED
  BY <1>1, RecordSafety, PTL

\* A completed episode rests on two different Runs that succeeded, one per
\* stage (_commit_inference, _finish_verification).
THEOREM CompletionBacked == Spec => []CompletedIsBacked
<1>1. RecordIsSafe => CompletedIsBacked
  BY DEF RecordIsSafe, OutcomeBacksPhase, BoundForItsStage, CompletedIsBacked, Stage
<1>2. QED
  BY <1>1, RecordSafety, PTL

\* When a cancellation is recorded, every workload has ended or was told to
\* (cancel, _bind).
THEOREM CancellationReachesWork == Spec => []CancelledLeavesNoWork
<1>1. RecordIsSafe => CancelledLeavesNoWork
  <2> SUFFICES ASSUME RecordIsSafe, phase = "cancelled", NEW r \in Executing
               PROVE  r \in cancelling
    BY DEF CancelledLeavesNoWork
  <2>1. purpose[r] \in Stage /\ r \in RunId /\ Live(r)
    BY DEF RecordIsSafe, BoundForItsStage, Executing, TypeOK, RunsTypeOK
  <2>2. execution[purpose[r]] = [run |-> r, allocated |-> TRUE]
    BY DEF RecordIsSafe, BoundForItsStage, ReleasedRunIsRecorded, Executing
  <2>3. execution[purpose[r]].run = r /\ r # NoRun
    BY <2>1, <2>2, NoRunAssumption
  <2>4. QED
    BY <2>1, <2>3 DEF RecordIsSafe, CancelOwnsRecord, BoundRunsTold
<1>2. QED
  BY <1>1, RecordSafety, PTL

------------------------------------------------------------------------------
(* Ended records, and the abstract Episode. *)

\* What a step of a caller does to the record: nothing, or one of these.
LEMMA RecordSteps ==
    ASSUME RecordIsSafe, NEW p \in Caller, CallerNext(p)
    PROVE  \/ UNCHANGED recordVars
           \/ /\ phase = "new" /\ phase' = "inference_running"
              /\ UNCHANGED <<execution, candidate, verdict>>
           \/ /\ phase \notin Terminal /\ phase # "new" /\ phase' = "failed"
              /\ \A s \in Stage : execution'[s].run = execution[s].run
              /\ UNCHANGED <<candidate, verdict>>
           \/ /\ phase \notin Terminal /\ phase' = "cancelled"
              /\ UNCHANGED <<execution, candidate, verdict>>
           \/ \E s \in Stage, ref \in ExecutionRef :
                 /\ phase = Running[s] /\ ref.run \in RunId
                 /\ execution[s].run \in {NoRun, ref.run}
                 /\ \A t \in Stage \ {s} : execution[t].run # ref.run
                 /\ execution' = [execution EXCEPT ![s] = ref]
                 /\ UNCHANGED <<phase, candidate, verdict>>
           \/ /\ phase = "inference_running" /\ phase' = "candidate_ready"
              /\ status[execution["inference"].run] = "succeeded" /\ execution["inference"].run # NoRun
              /\ \A s \in Stage : execution'[s].run = execution[s].run
              /\ verdict' = verdict
           \/ /\ phase = "candidate_ready" /\ phase' = "verification_running"
              /\ UNCHANGED <<execution, candidate, verdict>>
           \/ /\ phase = "verification_running" /\ phase' = "completed"
              /\ status[execution["verification"].run] = "succeeded" /\ execution["verification"].run # NoRun
              /\ verdict' = execution["verification"].run
              /\ \A s \in Stage : execution'[s].run = execution[s].run
              /\ candidate' = candidate
<1> USE DEF At
<1>1. TypeOK /\ OneCreator /\ BoundForItsStage /\ CancelOwnsRecord
  BY DEF RecordIsSafe
<1>2. /\ job[p].stage \in Stage /\ job[p].ref.run \in RunId \union {NoRun} /\ job[p].ref \in ExecutionRef
      /\ execution \in [Stage -> ExecutionRef]
  BY <1>1, CallerFacts
<1>3. pc[p] \in Holding => job[p].ref.run # NoRun /\ purpose[job[p].ref.run] = job[p].stage
  BY <1>1 DEF BoundForItsStage
<1>4. pc[p] \notin {"idle", "cancelSave"} => phase # "new"
  BY <1>1 DEF OneCreator
<1>5. Owns(p) => /\ phase = Running[job[p].stage]
                 /\ execution[job[p].stage].run = job[p].ref.run
  BY DEF Owns
<1>6. \A s \in Stage : execution' = [execution EXCEPT ![s] = job[p].ref] /\ execution[s].run = job[p].ref.run =>
          \A t \in Stage : execution'[t].run = execution[t].run
  BY <1>2
<1>7. CASE BenignStep(p)
  BY <1>7, BenignIsBenign DEF Benign, recordVars
<1>8. CASE Run(p)
  BY <1>8 DEF Run
<1>9. CASE CreateRun(p) \/ Release(p) \/ Cancel(p) \/ CancelCall(p)
  BY <1>9 DEF CreateRun, Release, Cancel, CancelCall
<1>10. CASE Bind(p)
  <2>1. pc[p] = "bind"
    BY <1>10 DEF Bind
  <2>2. job[p].ref.run \in RunId /\ purpose[job[p].ref.run] = job[p].stage
    BY <1>2, <1>3, <2>1 DEF Holding, Preparing
  <2>3. \A t \in Stage \ {job[p].stage} : execution[t].run # job[p].ref.run
    BY <1>1, <2>2, NoRunAssumption DEF BoundForItsStage
  <2>4. CASE phase = Running[job[p].stage] /\ Bindable(job[p].stage, job[p].ref)
    <3>1. /\ execution' = [execution EXCEPT ![job[p].stage] = job[p].ref]
          /\ UNCHANGED <<phase, candidate, verdict>>
      BY <1>10, <2>4 DEF Bind
    <3>2. execution[job[p].stage].run \in {NoRun, job[p].ref.run}
      BY <2>4 DEF Bindable
    <3>3. QED
      BY <1>2, <2>2, <2>3, <2>4, <3>1, <3>2
  <2>5. CASE ~(phase = Running[job[p].stage] /\ Bindable(job[p].stage, job[p].ref))
    BY <1>10, <2>5 DEF Bind, recordVars
  <2>6. QED
    BY <2>4, <2>5
<1>11. CASE RejectInference(p)
  <2>1. CASE Owns(p)
    BY <1>2, <1>5, <1>6, <1>11, <2>1, RunningPhases DEF RejectInference
  <2>2. CASE ~Owns(p)
    BY <1>11, <2>2 DEF RejectInference, recordVars
  <2>3. QED
    BY <2>1, <2>2
<1>12. CASE PublishCandidate(p)
  <2>1. CASE Owns(p)
    BY <1>2, <1>3, <1>5, <1>6, <1>12, <2>1, RunningPhases DEF PublishCandidate, Holding
  <2>2. CASE ~Owns(p)
    BY <1>12, <2>2 DEF PublishCandidate, recordVars
  <2>3. QED
    BY <2>1, <2>2
<1>13. CASE StartVerification(p)
  BY <1>13 DEF StartVerification, recordVars
<1>14. CASE PublishVerdict(p)
  <2>1. CASE Owns(p)
    BY <1>2, <1>3, <1>5, <1>6, <1>14, <2>1, RunningPhases DEF PublishVerdict, Holding
  <2>2. CASE ~Owns(p)
    BY <1>14, <2>2 DEF PublishVerdict, recordVars
  <2>3. QED
    BY <2>1, <2>2
<1>15. CASE RecordFailure(p)
  BY <1>4, <1>15 DEF RecordFailure, recordVars
<1>16. CASE CancelSave(p)
  BY <1>1, <1>16 DEF CancelSave, CancelOwnsRecord
<1>17. QED
  BY <1>7, <1>8, <1>9, <1>10, <1>11, <1>12, <1>13, <1>14, <1>15, <1>16, CallerCases DEF recordVars

\* An ended episode stays as it is (cancel, _record_failure, _bind and the
\* two commits).
THEOREM EndedIsFinal == Spec => TerminalIsFinal
<1>1. RecordIsSafe /\ [Next]_vars => [(phase \in Terminal) => UNCHANGED recordVars]_vars
  <2> SUFFICES ASSUME RecordIsSafe, Next, phase \in Terminal PROVE UNCHANGED recordVars
    OBVIOUS
  <2>1. CASE AxernStep
    BY <2>1 DEF AxernStep
  <2>2. ASSUME NEW p \in Caller, CallerNext(p) PROVE UNCHANGED recordVars
    BY <2>2, RecordSteps, RunningPhases DEF Terminal
  <2>3. QED
    BY <2>1, <2>2 DEF Next
<1>2. QED
  BY <1>1, RecordSafety, PTL DEF Spec, TerminalIsFinal

\* Every step of the runner, of its callers and of Axern is a step of the
\* abstract Episode or invisible to it.
THEOREM RunnerImplementsEpisode == Spec => ImplementsEpisode
<1>1. Init => Promise!Init
  BY DEF Init, RunsInit, Promise!Init, Promise!Stage, Stage, Unbound
<1>2. RecordIsSafe /\ [Next]_vars => [Promise!Next]_(Promise!vars)
  <2> SUFFICES ASSUME RecordIsSafe, [Next]_vars PROVE [Promise!Next]_(Promise!vars)
    OBVIOUS
  <2> DEFINE bound == [s \in Stage |-> execution[s].run]
             done == {r \in RunId : status[r] = "succeeded"}
  <2>1. CASE AxernStep
    <3>1. UNCHANGED <<phase, verdict, bound>>
      BY <2>1 DEF AxernStep, recordVars
    <3>2. done' = done \/ \E r \in RunId : done' = done \union {r}
      BY <2>1 DEF AxernStep, AxernNext, Allocate, Exit, PlatformFailure, CancellationEnds,
                  RecordIsSafe, TypeOK, RunsTypeOK, Executing, Live
    <3>3. QED
      BY <3>1, <3>2 DEF Promise!Next, Promise!Succeeds, Promise!vars
  <2>2. ASSUME NEW p \in Caller, CallerNext(p) PROVE [Promise!Next]_(Promise!vars)
    <3>1. execution \in [Stage -> ExecutionRef] /\ status \in [RunId -> Status]
      BY DEF RecordIsSafe, TypeOK, RunsTypeOK
    <3>2. done' = done
      BY <2>2, <3>1, CallerStatus
    <3>3. Promise!Stage = Stage /\ Promise!Running = Running
      BY DEF Promise!Stage, Stage, Promise!Running, Running
    <3>4. (\A s \in Stage : execution'[s].run = execution[s].run) => bound' = bound
      OBVIOUS
    <3>5. execution' = execution => bound' = bound
      OBVIOUS
    <3>6. CASE UNCHANGED recordVars
      BY <3>2, <3>5, <3>6 DEF recordVars, Promise!vars
    <3>7. CASE /\ phase = "new" /\ phase' = "inference_running"
               /\ UNCHANGED <<execution, candidate, verdict>>
      BY <3>2, <3>5, <3>7 DEF Promise!Next, Promise!Begin
    <3>8. CASE /\ phase \notin Terminal /\ phase # "new" /\ phase' = "failed"
               /\ \A s \in Stage : execution'[s].run = execution[s].run
               /\ UNCHANGED <<candidate, verdict>>
      BY <3>2, <3>4, <3>8 DEF Promise!Next, Promise!Fail, Promise!Ended, Terminal
    <3>9. CASE /\ phase \notin Terminal /\ phase' = "cancelled"
               /\ UNCHANGED <<execution, candidate, verdict>>
      BY <3>2, <3>5, <3>9 DEF Promise!Next, Promise!Cancel, Promise!Ended, Terminal
    <3>10. ASSUME NEW s \in Stage, NEW ref \in ExecutionRef,
                  phase = Running[s], ref.run \in RunId,
                  execution[s].run \in {NoRun, ref.run},
                  \A t \in Stage \ {s} : execution[t].run # ref.run,
                  execution' = [execution EXCEPT ![s] = ref],
                  UNCHANGED <<phase, candidate, verdict>>
           PROVE  [Promise!Next]_(Promise!vars)
      <4>1. bound' = [bound EXCEPT ![s] = ref.run]
        BY <3>1, <3>10
      <4>2. CASE execution[s].run = ref.run
        BY <3>2, <3>10, <4>1, <4>2 DEF Promise!vars
      <4>3. CASE execution[s].run = NoRun
        <5>1. Promise!Bind(s, ref.run)
          BY <3>2, <3>3, <3>10, <4>1, <4>3, NoRunAssumption DEF Promise!Bind
        <5>2. QED
          BY <3>3, <3>10, <5>1 DEF Promise!Next
      <4>4. QED
        BY <3>10, <4>2, <4>3
    <3>11. CASE /\ phase = "inference_running" /\ phase' = "candidate_ready"
                /\ status[execution["inference"].run] = "succeeded" /\ execution["inference"].run # NoRun
                /\ \A s \in Stage : execution'[s].run = execution[s].run
                /\ verdict' = verdict
      <4>1. bound["inference"] \in done
        BY <3>1, <3>11, RefType DEF Stage
      <4>2. QED
        BY <3>2, <3>4, <3>11, <4>1 DEF Promise!Next, Promise!Seal
    <3>12. CASE /\ phase = "candidate_ready" /\ phase' = "verification_running"
                /\ UNCHANGED <<execution, candidate, verdict>>
      BY <3>2, <3>5, <3>12 DEF Promise!Next, Promise!Verify
    <3>13. CASE /\ phase = "verification_running" /\ phase' = "completed"
                /\ status[execution["verification"].run] = "succeeded" /\ execution["verification"].run # NoRun
                /\ verdict' = execution["verification"].run
                /\ \A s \in Stage : execution'[s].run = execution[s].run
                /\ candidate' = candidate
      <4>1. bound["verification"] \in done /\ bound["verification"] = execution["verification"].run
        BY <3>1, <3>13, RefType DEF Stage
      <4>2. QED
        BY <3>2, <3>4, <3>13, <4>1 DEF Promise!Next, Promise!Grade
    <3>14. QED
      BY <2>2, <3>6, <3>7, <3>8, <3>9, <3>10, <3>11, <3>12, <3>13, RecordSteps
  <2>3. CASE UNCHANGED vars
    BY <2>3 DEF vars, recordVars, runVars, Promise!vars
  <2>4. QED
    BY <2>1, <2>2, <2>3 DEF Next
<1>3. QED
  BY <1>1, <1>2, RecordSafety, PTL DEF Spec, ImplementsEpisode, Promise!Spec
==============================================================================

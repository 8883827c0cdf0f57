------------------------- MODULE QualificationProofs -------------------------
(* Theorems about Qualification, for any number of qualifiers and Runs. *)
EXTENDS Qualification, TLAPS

USE DEF recordVars

------------------------------------------------------------------------------
(* Types. *)

LEMMA InitType == Init => TypeOK
BY NoRunAssumption DEF Init, RunsInit, TypeOK, RunsTypeOK, Status, Ended, Stage, ExecutionRef, Unbound,
   NoResult, Runs, NoJob, JobOf, Job, Label

LEMMA JobType ==
  ASSUME NEW s \in Stage, NEW ref \in ExecutionRef, NEW done \in Runs
  PROVE  JobOf(s, ref, done) \in Job
BY DEF JobOf, Job

LEMMA JobFields ==
  ASSUME TypeOK, NEW c \in Caller
  PROVE  /\ job[c].stage \in Stage /\ job[c].ref \in ExecutionRef /\ job[c].done \in Runs
         /\ job[c].ref.run \in RunId \union {NoRun} /\ job[c].ref.allocated \in BOOLEAN
<1>1. job[c] \in Job
  BY DEF TypeOK
<1>2. job[c].stage \in Stage /\ job[c].ref \in ExecutionRef /\ job[c].done \in Runs
  BY <1>1 DEF Job
<1> QED
  BY <1>2 DEF ExecutionRef

LEMMA UnboundType == Unbound \in ExecutionRef /\ NoResult \in Runs /\ NoJob \in Job
BY DEF Unbound, ExecutionRef, NoResult, Runs, NoJob, JobOf, Job, Stage

(* What a step does to the Runs keeps their type. *)
LEMMA RunsType ==
  ASSUME RunsTypeOK,
         \/ UNCHANGED runVars
         \/ \E r \in RunId, s \in Stage : Created(r, s)
         \/ \E r \in RunId \union {NoRun} : MarkerWritten(r) \/ CancelRequested(r)
         \/ AxernNext
  PROVE  RunsTypeOK'
BY DEF RunsTypeOK, runVars, Created, MarkerWritten, CancelRequested, AxernNext, Allocate, Exit,
   PlatformFailure, CancellationEnds, Executing, Live, Status, Ended, Stage

(* A caller moves, with a job or without. *)
LEMMA MoveType ==
  ASSUME TypeOK, NEW c \in Caller, NEW label \in Label, NEW j \in Job,
         pc' = [pc EXCEPT ![c] = label],
         job' = job \/ job' = [job EXCEPT ![c] = j]
  PROVE  pc' \in [Caller -> Label] /\ job' \in [Caller -> Job]
BY DEF TypeOK

LEMMA BoundType ==
  ASSUME TypeOK, NEW c \in Caller, Bound(c)
  PROVE  qualifications' \in [Stage -> ExecutionRef]
BY JobFields DEF TypeOK, Bound

LEMMA StepType == TypeOK /\ [Next]_vars => TypeOK'
<1> SUFFICES ASSUME TypeOK, [Next]_vars PROVE TypeOK'
  OBVIOUS
<1>1. ASSUME NEW c \in Caller, Execute(c) PROVE TypeOK'
  <2> USE <1>1
  <2> DEFINE j == job[c]
  <2>1. j.stage \in Stage /\ j.ref \in ExecutionRef /\ j.done \in Runs /\ j.ref.run \in RunId \union {NoRun}
    BY JobFields
  <2>2. CASE UNCHANGED <<recordVars, evidence>> /\ (pc' \in [Caller -> Label] /\ job' \in [Caller -> Job]) /\ RunsTypeOK'
    BY <2>2 DEF TypeOK
  <2>3. CASE Qualify(c)
    <3>1. pc' \in [Caller -> Label] /\ job' = job
      BY <2>3 DEF Qualify, Goto, Label, TypeOK
    <3> QED
      BY <2>2, <2>3, <3>1, RunsType DEF Qualify, TypeOK
  <2>4. CASE Target(c)
    <3>1. qualifications[j.stage] \in ExecutionRef
      BY <2>1 DEF TypeOK
    <3>2. JobOf(j.stage, qualifications[j.stage], j.done) \in Job
      BY <3>1, <2>1, JobType
    <3>3. pc' \in [Caller -> Label] /\ job' \in [Caller -> Job]
      BY <2>4, <3>2 DEF Target, Goto, SetRef, Label, TypeOK
    <3> QED
      BY <2>2, <2>4, <3>3, RunsType DEF Target, TypeOK
  <2>5. CASE CreateRun(c)
    <3>1. PICK r \in RunId :
             /\ Created(r, job[c].stage)
             /\ \/ Goto(c, "create", "bind") /\ SetRef(c, [run |-> r, allocated |-> FALSE])
                \/ pc[c] = "create" /\ Leave(c)
      BY <2>5 DEF CreateRun
    <3>2. [run |-> r, allocated |-> FALSE] \in ExecutionRef
      BY DEF ExecutionRef
    <3>3. JobOf(j.stage, [run |-> r, allocated |-> FALSE], j.done) \in Job
      BY <3>2, <2>1, JobType
    <3>4. pc' \in [Caller -> Label] /\ job' \in [Caller -> Job]
      BY <3>1, <3>3, UnboundType DEF Goto, SetRef, Leave, Label, TypeOK
    <3>5. RunsTypeOK'
      BY <3>1, <2>1, RunsType DEF TypeOK
    <3> QED
      BY <2>2, <2>5, <3>4, <3>5 DEF CreateRun
  <2>6. CASE Bind(c)
    <3>1. qualifications' \in [Stage -> ExecutionRef]
      BY <2>6, BoundType DEF Bind, TypeOK
    <3>2. pc' \in [Caller -> Label] /\ job' = job
      BY <2>6 DEF Bind, Goto, Label, TypeOK
    <3> QED
      BY <2>6, <3>1, <3>2, RunsType DEF Bind, TypeOK
  <2>7. CASE AwaitRunning(c)
    <3>1. [run |-> j.ref.run, allocated |-> TRUE] \in ExecutionRef
      BY <2>1 DEF ExecutionRef
    <3>2. JobOf(j.stage, [run |-> j.ref.run, allocated |-> TRUE], j.done) \in Job
      BY <3>1, <2>1, JobType
    <3>3. pc' \in [Caller -> Label] /\ job' \in [Caller -> Job]
      BY <2>7, <3>2 DEF AwaitRunning, Goto, SetRef, Label, TypeOK
    <3> QED
      BY <2>2, <2>7, <3>3, RunsType DEF AwaitRunning, TypeOK
  <2>8. CASE PreparationFails(c)
    <3>1. pc' \in [Caller -> Label] /\ job' = job
      BY <2>8 DEF PreparationFails, Goto, Label, TypeOK
    <3> QED
      BY <2>2, <2>8, <3>1, RunsType DEF PreparationFails, TypeOK
  <2>9. CASE Release(c)
    <3>1. pc' \in [Caller -> Label] /\ job' = job
      BY <2>9 DEF Release, Goto, Label, TypeOK
    <3>2. RunsTypeOK'
      BY <2>9, <2>1, RunsType DEF Release, TypeOK
    <3> QED
      BY <2>2, <2>9, <3>1, <3>2 DEF Release, TypeOK
  <2>10. CASE Abort(c)
    <3>1. pc' \in [Caller -> Label] /\ job' \in [Caller -> Job]
      BY <2>10, UnboundType DEF Abort, Leave, Label, TypeOK
    <3>2. RunsTypeOK'
      BY <2>10, <2>1, RunsType DEF Abort, TypeOK
    <3> QED
      BY <2>2, <2>10, <3>1, <3>2 DEF Abort
  <2> QED
    BY <2>3, <2>4, <2>5, <2>6, <2>7, <2>8, <2>9, <2>10 DEF Execute
<1>2. ASSUME NEW c \in Caller, Conclude(c) PROVE TypeOK'
  <2> USE <1>2
  <2> DEFINE j == job[c]
  <2>1. j.stage \in Stage /\ j.ref \in ExecutionRef /\ j.done \in Runs /\ j.ref.run \in RunId \union {NoRun}
    BY JobFields
  <2>2. RunsTypeOK'
    BY RunsType DEF Conclude, Follow, Query, Rebind, Judge, Persist, Write, Commit, RunEpisode, Stops, TypeOK
  <2>3. CASE Follow(c)
    BY <2>3, <2>2 DEF Follow, Goto, Label, TypeOK
  <2>4. CASE Query(c)
    <3>1. [run |-> j.ref.run, allocated |-> j.ref.run \in allocated] \in ExecutionRef
      BY <2>1 DEF ExecutionRef
    <3>2. JobOf(j.stage, [run |-> j.ref.run, allocated |-> j.ref.run \in allocated], j.done) \in Job
      BY <3>1, <2>1, JobType
    <3>3. pc' \in [Caller -> Label] /\ job' \in [Caller -> Job]
      BY <2>4, <3>2 DEF Query, Goto, SetRef, Label, TypeOK
    <3> QED
      BY <2>4, <2>2, <3>3 DEF Query, TypeOK
  <2>5. CASE Rebind(c)
    <3>1. qualifications' \in [Stage -> ExecutionRef]
      BY <2>5, BoundType DEF Rebind
    <3> QED
      BY <2>5, <2>2, <3>1 DEF Rebind, Goto, Label, TypeOK
  <2>6. CASE Judge(c)
    <3> DEFINE done == [j.done EXCEPT ![j.stage] = j.ref.run]
    <3>1. done \in Runs
      BY <2>1 DEF Runs
    <3>2. JobOf("verification", Unbound, done) \in Job
      BY <3>1, UnboundType, JobType DEF Stage
    <3>3. pc' \in [Caller -> Label] /\ job' \in [Caller -> Job]
      BY <2>6, <3>2 DEF Judge, Qualified, Goto, Label, TypeOK
    <3> QED
      BY <2>6, <2>2, <3>3 DEF Judge, TypeOK
  <2>7. CASE Persist(c)
    BY <2>7, <2>2 DEF Persist, Goto, Label, TypeOK
  <2>8. CASE Write(c)
    BY <2>8, <2>1, <2>2 DEF Write, Goto, Label, TypeOK
  <2>9. CASE Commit(c)
    <3>1. \A s \in Stage : [run |-> j.done[s], allocated |-> TRUE] \in ExecutionRef
      BY <2>1 DEF Runs, ExecutionRef
    <3>2. result' \in Runs /\ qualifications' \in [Stage -> ExecutionRef]
      BY <2>9, <2>1, <3>1 DEF Commit, TypeOK
    <3> QED
      BY <2>9, <2>2, <3>2 DEF Commit, Goto, Label, TypeOK
  <2>10. CASE RunEpisode(c)
    BY <2>10, <2>2, UnboundType DEF RunEpisode, Leave, Label, TypeOK
  <2>11. CASE Stops(c)
    BY <2>11, <2>2, UnboundType DEF Stops, Leave, Label, TypeOK
  <2> QED
    BY <2>3, <2>4, <2>5, <2>6, <2>7, <2>8, <2>9, <2>10, <2>11 DEF Conclude
<1>3. CASE Cancel
  BY <1>3, RunsType DEF Cancel, TypeOK
<1>4. CASE AxernStep
  BY <1>4, RunsType DEF AxernStep, TypeOK
<1>5. CASE UNCHANGED vars
  BY <1>5, RunsType DEF vars, TypeOK
<1> QED
  BY <1>1, <1>2, <1>3, <1>4, <1>5 DEF Next

(* Every variable has its type in every state, for any callers and Runs. *)
THEOREM TypeCorrect == Spec => []TypeOK
BY InitType, StepType, PTL DEF Spec

------------------------------------------------------------------------------
LEMMA RefFields ==
  ASSUME NEW r, NEW ref, ref = [run |-> r, allocated |-> TRUE]
  PROVE  ref.run = r /\ ref.allocated
OBVIOUS

(* What every step keeps: of the Runs, and of the record. *)

RunsKept ==
    /\ \A r \in RunId : status[r] # "absent" => status'[r] # "absent" /\ purpose'[r] = purpose[r]
    /\ \A r \in RunId : status[r] = "succeeded" => status'[r] = "succeeded"
    /\ allocated \subseteq allocated'

RecordKept ==
    /\ \A s \in Stage : qualifications[s].run # NoRun => qualifications'[s].run = qualifications[s].run
    /\ \A s \in Stage : qualifications[s].allocated => qualifications'[s] = qualifications[s]
    /\ result # NoResult => result' = result

LEMMA RunsStep ==
  ASSUME RunsTypeOK, RunsBacked,
         \/ UNCHANGED runVars
         \/ \E r \in RunId, s \in Stage : Created(r, s)
         \/ \E r \in allocated : MarkerWritten(r)
         \/ \E r \in RunId \union {NoRun} : CancelRequested(r)
         \/ AxernNext
  PROVE  RunsKept /\ RunsBacked'
<1> USE DEF RunsTypeOK, RunsBacked, RunsKept, Live
<1>1. CASE UNCHANGED runVars
  BY <1>1 DEF runVars
<1>2. CASE \E r \in RunId, s \in Stage : Created(r, s)
  BY <1>2 DEF Created
<1>3. CASE \E r \in allocated : MarkerWritten(r)
  BY <1>3 DEF MarkerWritten
<1>4. CASE \E r \in RunId \union {NoRun} : CancelRequested(r)
  BY <1>4 DEF CancelRequested
<1>5. CASE AxernNext
  BY <1>5 DEF AxernNext, Allocate, Exit, PlatformFailure, CancellationEnds, Executing
<1> QED
  BY <1>1, <1>2, <1>3, <1>4, <1>5

LEMMA RunsSafe == TypeOK /\ QualificationIsSafe /\ [Next]_vars => RunsKept /\ RunsBacked'
<1> SUFFICES ASSUME TypeOK, QualificationIsSafe, [Next]_vars PROVE RunsKept /\ RunsBacked'
  OBVIOUS
<1>0. RunsTypeOK /\ RunsBacked
  BY DEF TypeOK, QualificationIsSafe
<1>1. ASSUME NEW c \in Caller, CreateRun(c) PROVE RunsKept /\ RunsBacked'
  BY <1>0, <1>1, JobFields, RunsStep DEF CreateRun
<1>2. ASSUME NEW c \in Caller, Release(c) PROVE RunsKept /\ RunsBacked'
  <2>1. pc[c] = "prepare" /\ MarkerWritten(job[c].ref.run)
    BY <1>2 DEF Release, Goto
  <2>2. job[c].ref.run \in allocated
    BY <2>1 DEF QualificationIsSafe, CallerBacked, Holding
  <2> QED
    BY <1>0, <2>1, <2>2, RunsStep
<1>3. ASSUME NEW c \in Caller, Abort(c) PROVE RunsKept /\ RunsBacked'
  BY <1>0, <1>3, JobFields, RunsStep DEF Abort
<1>4. CASE AxernStep
  BY <1>0, <1>4, RunsStep DEF AxernStep
<1>5. CASE UNCHANGED runVars
  BY <1>0, <1>5, RunsStep
<1>6. ASSUME NEW c \in Caller, Execute(c) PROVE CreateRun(c) \/ Release(c) \/ Abort(c) \/ UNCHANGED runVars
  BY <1>6 DEF Execute, Qualify, Target, Bind, AwaitRunning, PreparationFails
<1>7. ASSUME NEW c \in Caller, Conclude(c) PROVE UNCHANGED runVars
  BY <1>7 DEF Conclude, Follow, Query, Rebind, Judge, Persist, Write, Commit, RunEpisode, Stops
<1>8. CASE Cancel \/ UNCHANGED vars
  BY <1>5, <1>8 DEF Cancel, vars
<1> QED
  BY <1>1, <1>2, <1>3, <1>4, <1>5, <1>6, <1>7, <1>8 DEF Next

(* The record changes in two ways: a Run is bound, or the evidence is committed. *)
LEMMA RecordSteps ==
  ASSUME [Next]_vars
  PROVE  \/ UNCHANGED <<qualifications, result>>
         \/ \E c \in Caller : pc[c] \in {"bind", "rebind"} /\ Bound(c) /\ UNCHANGED result
         \/ \E c \in Caller : Commit(c)
<1>1. ASSUME NEW c \in Caller, Execute(c)
      PROVE  UNCHANGED <<qualifications, result>> \/ (pc[c] = "bind" /\ Bound(c) /\ UNCHANGED result)
  BY <1>1 DEF Execute, Qualify, Target, CreateRun, Bind, Goto, AwaitRunning, PreparationFails,
     Release, Abort
<1>2. ASSUME NEW c \in Caller, Conclude(c)
      PROVE  \/ UNCHANGED <<qualifications, result>>
             \/ pc[c] = "rebind" /\ Bound(c) /\ UNCHANGED result
             \/ Commit(c)
  BY <1>2 DEF Conclude, Follow, Query, Rebind, Judge, Persist, Write, RunEpisode, Stops, Goto
<1>3. CASE Cancel \/ AxernStep \/ UNCHANGED vars
  BY <1>3 DEF Cancel, AxernStep, vars
<1> QED
  BY <1>1, <1>2, <1>3 DEF Next

(* Binding names a Run that exists, for its stage, and keeps the one that is named. *)
LEMMA BoundKeeps ==
  ASSUME TypeOK, QualificationIsSafe, NEW c \in Caller, pc[c] \in {"bind", "rebind"},
         Bound(c), UNCHANGED result
  PROVE  /\ RecordKept
         /\ qualifications' = [qualifications EXCEPT ![job[c].stage] = job[c].ref]
         /\ job[c].ref.run \in RunId /\ status[job[c].ref.run] # "absent"
         /\ purpose[job[c].ref.run] = job[c].stage
         /\ job[c].ref.allocated => job[c].ref.run \in allocated
<1>1. /\ job[c].stage \in Stage /\ job[c].ref \in ExecutionRef
      /\ job[c].ref.run \in RunId \union {NoRun}
  BY JobFields
<1>2. /\ job[c].ref.run # NoRun /\ status[job[c].ref.run] # "absent"
      /\ purpose[job[c].ref.run] = job[c].stage
      /\ job[c].ref.allocated => job[c].ref.run \in allocated
  BY DEF QualificationIsSafe, CallerBacked, Holding
<1>3. /\ qualifications[job[c].stage].run \in {NoRun, job[c].ref.run}
      /\ qualifications[job[c].stage].allocated => job[c].ref.allocated
      /\ qualifications' = [qualifications EXCEPT ![job[c].stage] = job[c].ref]
  BY DEF Bound, Bindable
<1>4. qualifications[job[c].stage].allocated => qualifications[job[c].stage].run # NoRun
  BY <1>1 DEF QualificationIsSafe, RecordBacked
<1>5. qualifications \in [Stage -> ExecutionRef]
  BY DEF TypeOK
<1>6. qualifications[job[c].stage].allocated => qualifications[job[c].stage] = job[c].ref
  BY <1>1, <1>3, <1>4, <1>5 DEF ExecutionRef
<1> QED
  BY <1>1, <1>2, <1>3, <1>5, <1>6 DEF RecordKept

(* The commit names the Runs that are bound: it changes nothing of them. *)
LEMMA CommitKeeps ==
  ASSUME TypeOK, QualificationIsSafe, NEW c \in Caller, Commit(c)
  PROVE  UNCHANGED qualifications /\ RecordKept /\ result' # NoResult /\ result' = evidence
<1>1. job[c].done \in Runs /\ Full(job[c].done)
      /\ evidence = job[c].done /\ \A s \in Stage : Passed(s, job[c].done[s])
  BY JobFields DEF Commit, Goto, QualificationIsSafe, CallerBacked, Concluding, Full
<1>2. job[c].done # NoResult
  BY <1>1 DEF Full, NoResult, Stage
<1>3. CASE result # NoResult
  <2>1. result' = result /\ qualifications' = qualifications
    BY <1>3 DEF Commit
  <2>2. result = evidence
    BY <1>3 DEF QualificationIsSafe
  <2> QED
    BY <1>3, <2>1, <2>2 DEF RecordKept
<1>4. CASE result = NoResult
  <2>1. /\ result' = job[c].done
        /\ qualifications' = [s \in Stage |-> [run |-> job[c].done[s], allocated |-> TRUE]]
    BY <1>4 DEF Commit
  <2>2. \A s \in Stage : qualifications[s] = [run |-> job[c].done[s], allocated |-> TRUE]
    BY <1>1 DEF Passed
  <2>3. qualifications' = qualifications
    BY <2>1, <2>2 DEF TypeOK
  <2> QED
    BY <1>1, <1>2, <1>4, <2>1, <2>3 DEF RecordKept
<1> QED
  BY <1>3, <1>4

LEMMA RecordSafe ==
  ASSUME TypeOK, QualificationIsSafe, [Next]_vars
  PROVE  RecordKept /\ RecordBacked'
<1>1. RunsKept
  BY RunsSafe
<1>2. qualifications \in [Stage -> ExecutionRef] /\ RecordBacked
  BY DEF TypeOK, QualificationIsSafe
<1>3. \A s \in Stage : qualifications[s].run \in RunId \union {NoRun}
  BY <1>2 DEF ExecutionRef
<1>4. CASE UNCHANGED <<qualifications, result>>
  BY <1>1, <1>2, <1>3, <1>4 DEF RecordKept, RecordBacked, RunsKept
<1>5. ASSUME NEW c \in Caller, pc[c] \in {"bind", "rebind"}, Bound(c), UNCHANGED result
      PROVE  RecordKept /\ RecordBacked'
  <2> DEFINE ref == job[c].ref
  <2>1. /\ RecordKept
        /\ qualifications' = [qualifications EXCEPT ![job[c].stage] = ref]
        /\ ref.run \in RunId /\ status[ref.run] # "absent" /\ purpose[ref.run] = job[c].stage
        /\ ref.allocated => ref.run \in allocated
    BY <1>5, BoundKeeps
  <2>2. job[c].stage \in Stage
    BY JobFields
  <2>3. status'[ref.run] # "absent" /\ purpose'[ref.run] = job[c].stage
        /\ (ref.allocated => ref.run \in allocated')
    BY <1>1, <2>1 DEF RunsKept
  <2>4. ref.run # NoRun
    BY <2>1, NoRunAssumption
  <2> HIDE DEF ref
  <2> QED
    BY <1>1, <1>2, <1>3, <2>1, <2>2, <2>3, <2>4 DEF RecordBacked, RunsKept
<1>6. ASSUME NEW c \in Caller, Commit(c)
      PROVE  RecordKept /\ RecordBacked'
  BY <1>1, <1>2, <1>3, <1>6, CommitKeeps DEF RecordBacked, RunsKept
<1> QED
  BY <1>4, <1>5, <1>6, RecordSteps

(* What was qualified stays so. *)
LEMMA PassedKept ==
  ASSUME TypeOK, QualificationIsSafe, [Next]_vars, NEW s \in Stage, NEW r, Passed(s, r)
  PROVE  /\ r \in RunId /\ qualifications'[s] = [run |-> r, allocated |-> TRUE]
         /\ purpose'[r] = s /\ status'[r] = "succeeded"
BY RunsSafe, RecordSafe DEF RunsKept, RecordKept, Passed

------------------------------------------------------------------------------
(* The evidence and the phase. *)

LEMMA EvidenceSteps ==
  [Next]_vars => UNCHANGED evidence \/ \E c \in Caller : Write(c)
<1> SUFFICES ASSUME [Next]_vars PROVE UNCHANGED evidence \/ \E c \in Caller : Write(c)
  OBVIOUS
<1>1. ASSUME NEW c \in Caller, Execute(c) PROVE UNCHANGED evidence
  BY <1>1 DEF Execute, Qualify, Target, CreateRun, Bind, AwaitRunning, PreparationFails, Release, Abort
<1>2. ASSUME NEW c \in Caller, Conclude(c) PROVE UNCHANGED evidence \/ Write(c)
  BY <1>2 DEF Conclude, Follow, Query, Rebind, Judge, Persist, Commit, RunEpisode, Stops
<1>3. CASE Cancel \/ AxernStep \/ UNCHANGED vars
  BY <1>3 DEF Cancel, AxernStep, vars
<1> QED
  BY <1>1, <1>2, <1>3 DEF Next

(* Who writes the file writes what is in it already, if there is one. *)
LEMMA EvidenceSafe ==
  ASSUME TypeOK, QualificationIsSafe, [Next]_vars
  PROVE  /\ evidence # NoResult => evidence' = evidence
         /\ evidence' # NoResult => \A s \in Stage : Passed(s, evidence[s])'
<1>1. CASE UNCHANGED evidence
  BY <1>1, PassedKept DEF QualificationIsSafe, Passed
<1>2. ASSUME NEW c \in Caller, Write(c)
      PROVE  /\ evidence # NoResult => evidence' = evidence
             /\ evidence' # NoResult => \A s \in Stage : Passed(s, evidence[s])'
  <2> DEFINE done == job[c].done
  <2>1. done \in Runs /\ Full(done) /\ evidence' = done
        /\ \A s \in Stage : Passed(s, done[s])
    BY <1>2, JobFields DEF Write, Goto, QualificationIsSafe, CallerBacked, Concluding, Full
  <2> HIDE DEF done
  <2>2. \A s \in Stage : Passed(s, evidence[s])'
    BY <2>1, PassedKept DEF Passed
  <2>3. ASSUME evidence # NoResult PROVE evidence' = evidence
    <3>1. \A s \in Stage : Passed(s, evidence[s])
      BY <2>3 DEF QualificationIsSafe
    <3>4. ASSUME NEW s \in Stage PROVE qualifications[s].run = done[s]
      <4>1. qualifications[s] = [run |-> done[s], allocated |-> TRUE]
        BY <2>1 DEF Passed
      <4> QED
        BY <4>1, RefFields
    <3>5. \A s \in Stage : qualifications[s].run = evidence[s]
      BY <3>1, RefFields DEF Passed
    <3>2. \A s \in Stage : evidence[s] = done[s]
      BY <3>4, <3>5
    <3>3. evidence \in Runs
      BY DEF TypeOK
    <3> QED
      BY <2>1, <3>2, <3>3 DEF Runs
  <2> QED
    BY <2>2, <2>3
<1> QED
  BY <1>1, <1>2, EvidenceSteps

LEMMA ResultSafe ==
  ASSUME TypeOK, QualificationIsSafe, [Next]_vars
  PROVE  result' # NoResult => evidence' = result'
<1>1. result # NoResult => result' = result /\ evidence = result
  BY RecordSafe DEF RecordKept, QualificationIsSafe
<1>2. evidence # NoResult => evidence' = evidence
  BY EvidenceSafe
<1>3. ASSUME NEW c \in Caller, Commit(c) PROVE result' # NoResult => evidence' = result'
  BY <1>3, CommitKeeps DEF Commit
<1> QED
  BY <1>1, <1>2, <1>3, RecordSteps

(* Only a caller that has qualified starts the episode. *)
LEMMA StartSafe ==
  ASSUME TypeOK, QualificationIsSafe, [Next]_vars
  PROVE  StartedIsQualified'
<1>1. result # NoResult => result' = result
  BY RecordSafe DEF RecordKept
<1>2. StartedIsQualified
  BY DEF QualificationIsSafe
<1>3. ASSUME NEW c \in Caller, RunEpisode(c) PROVE result # NoResult
  BY <1>3 DEF RunEpisode, QualificationIsSafe, CallerBacked
<1>4. ASSUME NEW c \in Caller, Execute(c) PROVE UNCHANGED phase
  BY <1>4 DEF Execute, Qualify, Target, CreateRun, Bind, AwaitRunning, PreparationFails, Release, Abort
<1>5. ASSUME NEW c \in Caller, Conclude(c) PROVE UNCHANGED phase \/ RunEpisode(c)
  BY <1>5 DEF Conclude, Follow, Query, Rebind, Judge, Persist, Write, Commit, Stops
<1>6. CASE Cancel \/ AxernStep \/ UNCHANGED vars
  BY <1>1, <1>2, <1>6 DEF Cancel, AxernStep, vars, StartedIsQualified
<1> QED
  BY <1>1, <1>2, <1>3, <1>4, <1>5, <1>6 DEF Next, StartedIsQualified

(* A Run is released by a caller that has bound it. *)
LEMMA ReleaseSafe ==
  ASSUME TypeOK, QualificationIsSafe, [Next]_vars
  PROVE  ReleasedIsBound'
<1>1. \A r \in released : /\ r \in RunId /\ purpose[r] \in Stage /\ status[r] # "absent"
                          /\ qualifications[purpose[r]] = [run |-> r, allocated |-> TRUE]
  BY DEF TypeOK, RunsTypeOK, QualificationIsSafe, RunsBacked, ReleasedIsBound
<1>2. ASSUME NEW r \in released PROVE qualifications'[purpose'[r]] = [run |-> r, allocated |-> TRUE]
  <2>1. purpose'[r] = purpose[r]
    BY <1>1, RunsSafe DEF RunsKept
  <2>2. qualifications[purpose[r]].allocated
    BY <1>1, RefFields
  <2>3. qualifications'[purpose[r]] = qualifications[purpose[r]]
    BY <1>1, <2>2, RecordSafe DEF RecordKept
  <2> QED
    BY <1>1, <2>1, <2>3
<1>3. ASSUME NEW c \in Caller, Release(c) PROVE ReleasedIsBound'
  <2> DEFINE r == job[c].ref.run
             s == job[c].stage
  <2>1. /\ s \in Stage /\ r \in RunId
        /\ status[r] # "absent" /\ purpose[r] = s
        /\ qualifications[s].run = r /\ qualifications[s].allocated
    BY <1>3, JobFields DEF Release, Goto, QualificationIsSafe, CallerBacked, Holding
  <2>2. qualifications[s] \in ExecutionRef
    BY <2>1 DEF TypeOK
  <2>3. qualifications[s] = [run |-> r, allocated |-> TRUE]
    BY <2>1, <2>2 DEF ExecutionRef
  <2>4. qualifications'[purpose'[r]] = [run |-> r, allocated |-> TRUE]
    BY <2>1, <2>3, RunsSafe, RecordSafe DEF RunsKept, RecordKept
  <2>5. released' = released \union {r}
    BY <1>3 DEF Release, MarkerWritten
  <2> QED
    BY <1>2, <2>4, <2>5 DEF ReleasedIsBound
<1>4. CASE UNCHANGED released
  BY <1>2, <1>4 DEF ReleasedIsBound
<1>5. ASSUME NEW c \in Caller, Execute(c) PROVE UNCHANGED released \/ Release(c)
  BY <1>5 DEF Execute, Qualify, Target, CreateRun, Created, Bind, AwaitRunning, PreparationFails,
     Abort, CancelRequested, runVars
<1>6. ASSUME NEW c \in Caller, Conclude(c) PROVE UNCHANGED released
  BY <1>6 DEF Conclude, Follow, Query, Rebind, Judge, Persist, Write, Commit, RunEpisode, Stops, runVars
<1>7. CASE Cancel \/ AxernStep \/ UNCHANGED vars
  BY <1>4, <1>7 DEF Cancel, AxernStep, AxernNext, Allocate, Exit, PlatformFailure, CancellationEnds,
     vars, runVars
<1> QED
  BY <1>3, <1>4, <1>5, <1>6, <1>7 DEF Next

------------------------------------------------------------------------------
(* The callers. *)

PassedThen(s, r) ==
    /\ r \in RunId /\ qualifications'[s] = [run |-> r, allocated |-> TRUE]
    /\ purpose'[r] = s /\ status'[r] = "succeeded"

(* What a caller knew stays true, whoever takes the step. *)
LEMMA Carried ==
  ASSUME TypeOK, QualificationIsSafe, [Next]_vars, NEW d \in Caller,
         NEW s, s = job[d].stage, NEW ref, ref = job[d].ref, NEW done, done = job[d].done
  PROVE  /\ s \in Stage /\ ref \in ExecutionRef /\ ref.run \in RunId \union {NoRun}
         /\ done \in Runs
         /\ \A t \in Stage : done[t] # NoRun => PassedThen(t, done[t])
         /\ s = "verification" => done["inference"] # NoRun
         /\ pc[d] \in Holding =>
              /\ ref.run # NoRun /\ status'[ref.run] # "absent" /\ purpose'[ref.run] = s
              /\ ref.allocated => ref.run \in allocated'
         /\ pc[d] \in {"await", "prepare", "follow", "query", "rebind", "judge"} =>
              qualifications'[s].run = ref.run
         /\ pc[d] = "prepare" => ref.allocated /\ qualifications'[s].allocated
         /\ pc[d] \in Concluding => Full(done)
         /\ pc[d] = "commit" => evidence' = done
         /\ pc[d] = "qualified" => result' # NoResult
<1>1. s \in Stage /\ ref \in ExecutionRef /\ ref.run \in RunId \union {NoRun} /\ done \in Runs
  BY JobFields
<1>2. CallerBacked(d)
  BY DEF QualificationIsSafe
<1>3. RunsKept /\ RecordKept
  BY RunsSafe, RecordSafe
<1>4. \A t \in Stage : done[t] # NoRun => PassedThen(t, done[t])
  <2>1. \A t \in Stage : done[t] # NoRun => Passed(t, done[t])
    BY <1>2 DEF CallerBacked
  <2> QED
    BY <2>1, PassedKept DEF PassedThen
<1>5. pc[d] \in Holding =>
        /\ ref.run # NoRun /\ status'[ref.run] # "absent" /\ purpose'[ref.run] = s
        /\ ref.allocated => ref.run \in allocated'
  BY <1>1, <1>2, <1>3 DEF CallerBacked, RunsKept
<1>6. pc[d] \in {"await", "prepare", "follow", "query", "rebind", "judge"} =>
        qualifications'[s].run = ref.run
  BY <1>1, <1>2, <1>3 DEF CallerBacked, RecordKept, Holding
<1>7. pc[d] = "prepare" => ref.allocated /\ qualifications'[s].allocated
  BY <1>1, <1>2, <1>3 DEF CallerBacked, RecordKept
<1>8. pc[d] = "commit" => evidence' = done
  BY <1>1, <1>2, EvidenceSafe DEF CallerBacked, Concluding, Full, NoResult, Stage
<1>9. pc[d] = "qualified" => result' # NoResult
  BY <1>2, <1>3 DEF CallerBacked, RecordKept
<1>10. (s = "verification" => done["inference"] # NoRun) /\ (pc[d] \in Concluding => Full(done))
  BY <1>2 DEF CallerBacked
<1> QED
  BY <1>1, <1>4, <1>5, <1>6, <1>7, <1>8, <1>9, <1>10

(* To show the facts about a caller after a step, for the job it then has. *)
LEMMA Backed ==
  ASSUME NEW d \in Caller, NEW label, pc'[d] = label,
         NEW s, s = job'[d].stage, NEW ref, ref = job'[d].ref, NEW done, done = job'[d].done,
         \A t \in Stage : done[t] # NoRun => PassedThen(t, done[t]),
         s = "verification" => done["inference"] # NoRun,
         label \in Holding =>
              /\ ref.run # NoRun /\ status'[ref.run] # "absent" /\ purpose'[ref.run] = s
              /\ ref.allocated => ref.run \in allocated',
         label \in {"await", "prepare", "follow", "query", "rebind", "judge"} =>
              qualifications'[s].run = ref.run,
         label = "prepare" => ref.allocated /\ qualifications'[s].allocated,
         label \in Concluding => Full(done),
         label = "commit" => evidence' = done,
         label = "qualified" => result' # NoResult
  PROVE  CallerBacked(d)'
<1>1. \A t \in Stage : (job[d].done[t] # NoRun => Passed(t, job[d].done[t]))'
  BY DEF PassedThen, Passed
<1> QED
  BY <1>1 DEF CallerBacked, Holding, Concluding, Full

(* The facts about a caller that a step of another one leaves alone. *)
LEMMA OthersKept ==
  ASSUME TypeOK, QualificationIsSafe, [Next]_vars, NEW d \in Caller,
         pc'[d] = pc[d], job'[d] = job[d]
  PROVE  CallerBacked(d)'
BY Carried, Backed

(* A caller that returns or raises knows nothing. *)
LEMMA LeaveBacked ==
  ASSUME TypeOK, NEW c \in Caller, Leave(c)
  PROVE  CallerBacked(c)'
<1>1. pc'[c] = "idle" /\ job'[c] = NoJob
  BY DEF Leave, TypeOK
<1>2. /\ NoJob.stage = "inference" /\ NoJob.ref = Unbound /\ NoJob.done = NoResult
      /\ \A t \in Stage : NoResult[t] = NoRun
  BY DEF NoJob, JobOf, NoResult
<1> QED
  BY <1>1, <1>2 DEF CallerBacked, Holding, Concluding

LEMMA RefSet ==
  ASSUME TypeOK, NEW c \in Caller, NEW ref, SetRef(c, ref)
  PROVE  /\ job'[c].stage = job[c].stage /\ job'[c].ref = ref /\ job'[c].done = job[c].done
BY DEF SetRef, JobOf, TypeOK

LEMMA Gone ==
  ASSUME TypeOK, NEW c \in Caller, NEW from, NEW to, Goto(c, from, to)
  PROVE  pc[c] = from /\ pc'[c] = to
BY DEF Goto, TypeOK

LEMMA ExecuteBacked ==
  ASSUME TypeOK, QualificationIsSafe, [Next]_vars, NEW c \in Caller, Execute(c),
         NEW s, s = job[c].stage, NEW ref, ref = job[c].ref, NEW done, done = job[c].done
  PROVE  CallerBacked(c)'
<1>0. /\ s \in Stage /\ ref \in ExecutionRef /\ ref.run \in RunId \union {NoRun}
      /\ done \in Runs
      /\ \A t \in Stage : done[t] # NoRun => PassedThen(t, done[t])
      /\ s = "verification" => done["inference"] # NoRun
  BY Carried
<1>1. CASE Qualify(c)
  <2>1. job'[c] = job[c]
    BY <1>1 DEF Qualify
  <2>2. CASE pc'[c] = "qualified" /\ result' # NoResult
    BY <1>0, <2>1, <2>2, Backed DEF Holding, Concluding
  <2>3. CASE pc'[c] = "target"
    BY <1>0, <2>1, <2>3, Backed DEF Holding, Concluding
  <2>4. pc'[c] = "target" \/ (pc'[c] = "qualified" /\ result' # NoResult)
    BY <1>1, Gone DEF Qualify
  <2> QED
    BY <2>2, <2>3, <2>4
<1>2. CASE Target(c)
  <2> DEFINE saved == qualifications[s]
  <2>1. /\ pc'[c] = IF saved.run = NoRun THEN "create" ELSE "query"
        /\ job'[c].stage = s /\ job'[c].ref = saved /\ job'[c].done = done
        /\ UNCHANGED <<qualifications, runVars>>
    BY <1>2, Gone, RefSet DEF Target
  <2>2. /\ saved.run # NoRun => status[saved.run] # "absent" /\ purpose[saved.run] = s
        /\ saved.allocated => saved.run \in allocated
    BY <1>0 DEF QualificationIsSafe, RecordBacked
  <2>3. CASE saved.run = NoRun
    BY <1>0, <2>1, <2>3, Backed DEF Holding, Concluding
  <2>4. CASE saved.run # NoRun
    BY <1>0, <2>1, <2>2, <2>4, Backed DEF Holding, Concluding, runVars
  <2> QED
    BY <2>3, <2>4
<1>3. CASE CreateRun(c)
  <2>1. PICK r \in RunId :
           /\ Created(r, s)
           /\ \/ Goto(c, "create", "bind") /\ SetRef(c, [run |-> r, allocated |-> FALSE])
              \/ pc[c] = "create" /\ Leave(c)
    BY <1>3 DEF CreateRun
  <2>2. CASE Leave(c)
    BY <2>2, LeaveBacked
  <2>3. CASE Goto(c, "create", "bind") /\ SetRef(c, [run |-> r, allocated |-> FALSE])
    <3> DEFINE new == [run |-> r, allocated |-> FALSE]
    <3>1. pc'[c] = "bind" /\ job'[c].stage = s /\ job'[c].ref = new /\ job'[c].done = done
      BY <2>3, Gone, RefSet
    <3>2. status'[r] # "absent" /\ purpose'[r] = s /\ r # NoRun
      BY <2>1, NoRunAssumption DEF Created, TypeOK, RunsTypeOK
    <3>3. new.run = r /\ ~ new.allocated
      OBVIOUS
    <3> HIDE DEF new
    <3> QED
      BY <1>0, <3>1, <3>2, <3>3, Backed DEF Holding, Concluding
  <2> QED
    BY <2>1, <2>2, <2>3
<1>4. CASE Bind(c)
  <2>1. job'[c] = job[c] /\ pc[c] = "bind"
    BY <1>4 DEF Bind, Goto
  <2>2. /\ ref.run # NoRun /\ status'[ref.run] # "absent" /\ purpose'[ref.run] = s
        /\ ref.allocated => ref.run \in allocated'
    BY <2>1, Carried DEF Holding
  <2>3. CASE pc'[c] = "abort"
    BY <1>0, <2>1, <2>2, <2>3, Backed DEF Holding, Concluding
  <2>4. CASE Bound(c) /\ pc'[c] = IF ref.allocated THEN "prepare" ELSE "await"
    <3>1. qualifications'[s] = ref
      BY <1>0, <2>4 DEF Bound, TypeOK
    <3>2. qualifications'[s].run = ref.run /\ (ref.allocated => qualifications'[s].allocated)
      BY <3>1
    <3>3. pc'[c] = "prepare" \/ pc'[c] = "await"
      BY <2>4
    <3>4. pc'[c] = "prepare" => ref.allocated
      BY <2>4
    <3> QED
      BY <1>0, <2>1, <2>2, <3>2, <3>3, <3>4, Backed DEF Holding, Concluding
  <2>5. pc'[c] = "abort" \/ (Bound(c) /\ pc'[c] = IF ref.allocated THEN "prepare" ELSE "await")
    BY <1>4, Gone DEF Bind
  <2> QED
    BY <2>3, <2>4, <2>5
<1>5. CASE AwaitRunning(c)
  <2> DEFINE new == [run |-> ref.run, allocated |-> TRUE]
  <2>1. /\ pc[c] = "await" /\ pc'[c] = "bind"
        /\ job'[c].stage = s /\ job'[c].ref = new /\ job'[c].done = done
        /\ ref.run \in allocated
    BY <1>5, Gone, RefSet DEF AwaitRunning
  <2>2. /\ ref.run # NoRun /\ status'[ref.run] # "absent" /\ purpose'[ref.run] = s
        /\ ref.run \in allocated'
    BY <2>1, Carried, RunsSafe DEF Holding, RunsKept
  <2>3. new.run = ref.run
    OBVIOUS
  <2> HIDE DEF new
  <2> QED
    BY <1>0, <2>1, <2>2, <2>3, Backed DEF Holding, Concluding
<1>6. CASE PreparationFails(c)
  <2>1. pc[c] \in {"bind", "await", "prepare"} /\ pc'[c] = "abort" /\ job'[c] = job[c]
    BY <1>6, Gone DEF PreparationFails
  <2>2. /\ ref.run # NoRun /\ status'[ref.run] # "absent" /\ purpose'[ref.run] = s
        /\ ref.allocated => ref.run \in allocated'
    BY <2>1, Carried DEF Holding
  <2> QED
    BY <1>0, <2>1, <2>2, Backed DEF Holding, Concluding
<1>7. CASE Release(c)
  <2>1. pc[c] = "prepare" /\ pc'[c] \in {"follow", "abort"} /\ job'[c] = job[c]
    BY <1>7, Gone DEF Release
  <2>2. /\ ref.run # NoRun /\ status'[ref.run] # "absent" /\ purpose'[ref.run] = s
        /\ ref.allocated => ref.run \in allocated'
        /\ qualifications'[s].run = ref.run
    BY <2>1, Carried DEF Holding
  <2> QED
    BY <1>0, <2>1, <2>2, Backed DEF Holding, Concluding
<1>8. CASE Abort(c)
  BY <1>8, LeaveBacked DEF Abort
<1> QED
  BY <1>1, <1>2, <1>3, <1>4, <1>5, <1>6, <1>7, <1>8 DEF Execute

LEMMA ConcludeBacked ==
  ASSUME TypeOK, QualificationIsSafe, [Next]_vars, NEW c \in Caller, Conclude(c),
         NEW s, s = job[c].stage, NEW ref, ref = job[c].ref, NEW done, done = job[c].done
  PROVE  CallerBacked(c)'
<1>0. /\ s \in Stage /\ ref \in ExecutionRef /\ ref.run \in RunId \union {NoRun}
      /\ done \in Runs
      /\ \A t \in Stage : done[t] # NoRun => PassedThen(t, done[t])
      /\ s = "verification" => done["inference"] # NoRun
  BY Carried
<1>a. pc[c] \in Holding =>
        /\ ref.run # NoRun /\ status'[ref.run] # "absent" /\ purpose'[ref.run] = s
        /\ ref.allocated => ref.run \in allocated'
  BY Carried
<1>b. pc[c] \in {"await", "prepare", "follow", "query", "rebind", "judge"} =>
        qualifications'[s].run = ref.run
  BY Carried
<1>c. (pc[c] \in Concluding => Full(done)) /\ (pc[c] = "commit" => evidence' = done)
  BY Carried
<1>1. CASE Follow(c)
  <2>1. pc[c] = "follow" /\ pc'[c] = "judge" /\ job'[c] = job[c]
    BY <1>1, Gone DEF Follow
  <2> QED
    BY <1>0, <1>a, <1>b, <2>1, Backed DEF Holding, Concluding
<1>2. CASE Query(c)
  <2> DEFINE new == [run |-> ref.run, allocated |-> ref.run \in allocated]
  <2>1. /\ pc[c] = "query" /\ pc'[c] = "rebind"
        /\ job'[c].stage = s /\ job'[c].ref = new /\ job'[c].done = done
    BY <1>2, Gone, RefSet DEF Query
  <2>2. new.run = ref.run /\ (new.allocated => ref.run \in allocated')
    BY RunsSafe DEF RunsKept
  <2> HIDE DEF new
  <2> QED
    BY <1>0, <1>a, <1>b, <2>1, <2>2, Backed DEF Holding, Concluding
<1>3. CASE Rebind(c)
  <2>1. pc[c] = "rebind" /\ pc'[c] = "judge" /\ job'[c] = job[c]
    BY <1>3, Gone DEF Rebind
  <2> QED
    BY <1>0, <1>a, <1>b, <2>1, Backed DEF Holding, Concluding
<1>4. CASE Judge(c)
  <2> DEFINE new == [done EXCEPT ![s] = ref.run]
             next == JobOf("verification", Unbound, new)
  <2>1. /\ pc[c] = "judge" /\ pc'[c] = IF s = "inference" THEN "target" ELSE "persist"
        /\ job'[c] = next /\ status[ref.run] = "succeeded" /\ UNCHANGED qualifications
        /\ UNCHANGED runVars
    BY <1>4, Gone DEF Judge, Qualified, TypeOK
  <2>2. next.stage = "verification" /\ next.ref = Unbound /\ next.done = new
    BY DEF JobOf
  <2>3. ref.run \in RunId /\ purpose[ref.run] = s /\ qualifications[s].run = ref.run
    BY <1>0, <1>a, <1>b, <2>1 DEF Holding, runVars
  <2>4. ref.run \in released
    BY <2>1, <2>3 DEF QualificationIsSafe, RunsBacked
  <2>5. qualifications[s] = [run |-> ref.run, allocated |-> TRUE]
    BY <2>3, <2>4 DEF QualificationIsSafe, ReleasedIsBound
  <2>6. PassedThen(s, ref.run)
    BY <2>1, <2>3, <2>5 DEF PassedThen, runVars
  <2>7. /\ \A t \in Stage : new[t] # NoRun => PassedThen(t, new[t])
        /\ new["inference"] # NoRun
        /\ s = "verification" => Full(new)
    BY <1>0, <2>3, <2>6, NoRunAssumption DEF Runs, Stage, Full
  <2>8. pc'[c] = "target" \/ (pc'[c] = "persist" /\ Full(new))
    BY <1>0, <2>1, <2>7 DEF Stage
  <2>9. job'[c].stage = "verification" /\ job'[c].ref = Unbound /\ job'[c].done = new
    BY <2>1, <2>2
  <2> HIDE DEF new, next
  <2>10. CASE pc'[c] = "target"
    BY <2>7, <2>9, <2>10, Backed DEF Holding, Concluding
  <2>11. CASE pc'[c] = "persist" /\ Full(new)
    BY <2>7, <2>9, <2>11, Backed DEF Holding, Concluding
  <2> QED
    BY <2>8, <2>10, <2>11
<1>5. CASE Persist(c)
  <2>1. /\ pc[c] = "persist" /\ job'[c] = job[c]
        /\ evidence \in {NoResult, done} /\ evidence' = evidence
        /\ pc'[c] = IF evidence = NoResult THEN "write" ELSE "commit"
    BY <1>5, Gone DEF Persist
  <2>2. pc'[c] = "write" \/ (pc'[c] = "commit" /\ evidence' = done)
    BY <2>1
  <2>3. Full(done)
    BY <1>c, <2>1 DEF Concluding
  <2>4. CASE pc'[c] = "write"
    BY <1>0, <2>1, <2>3, <2>4, Backed DEF Holding
  <2>5. CASE pc'[c] = "commit" /\ evidence' = done
    BY <1>0, <2>1, <2>3, <2>5, Backed DEF Holding
  <2> QED
    BY <2>2, <2>4, <2>5
<1>6. CASE Write(c)
  <2>1. pc[c] = "write" /\ pc'[c] = "commit" /\ job'[c] = job[c] /\ evidence' = done
    BY <1>6, Gone DEF Write
  <2> QED
    BY <1>0, <1>c, <2>1, Backed DEF Holding, Concluding
<1>7. CASE Commit(c)
  <2>1. pc'[c] = "qualified" /\ job'[c] = job[c] /\ result' # NoResult
    BY <1>7, Gone, CommitKeeps DEF Commit
  <2> QED
    BY <1>0, <2>1, Backed DEF Holding, Concluding
<1>8. CASE RunEpisode(c)
  BY <1>8, LeaveBacked DEF RunEpisode
<1>9. CASE Stops(c)
  BY <1>9, LeaveBacked DEF Stops
<1> QED
  BY <1>1, <1>2, <1>3, <1>4, <1>5, <1>6, <1>7, <1>8, <1>9 DEF Conclude

(* A step moves one caller. *)
LEMMA OneMoves ==
  ASSUME TypeOK, NEW c \in Caller, Execute(c) \/ Conclude(c), NEW d \in Caller, d # c
  PROVE  pc'[d] = pc[d] /\ job'[d] = job[d]
<1> USE DEF Goto, Leave, SetRef, TypeOK
<1>1. CASE Execute(c)
  BY <1>1 DEF Execute, Qualify, Target, CreateRun, Bind, AwaitRunning, PreparationFails, Release, Abort
<1>2. CASE Conclude(c)
  BY <1>2 DEF Conclude, Follow, Query, Rebind, Judge, Qualified, Persist, Write, Commit, RunEpisode, Stops
<1> QED
  BY <1>1, <1>2

LEMMA CallersSafe ==
  ASSUME TypeOK, QualificationIsSafe, [Next]_vars
  PROVE  \A d \in Caller : CallerBacked(d)'
<1>1. ASSUME NEW c \in Caller, Execute(c) \/ Conclude(c), NEW d \in Caller PROVE CallerBacked(d)'
  <2>1. CASE d = c
    BY <1>1, <2>1, ExecuteBacked, ConcludeBacked
  <2>2. CASE d # c
    BY <1>1, <2>2, OneMoves, OthersKept
  <2> QED
    BY <2>1, <2>2
<1>2. CASE Cancel \/ AxernStep \/ UNCHANGED vars
  BY <1>2, OthersKept DEF Cancel, AxernStep, vars
<1> QED
  BY <1>1, <1>2 DEF Next

------------------------------------------------------------------------------
(* The theorems. *)

LEMMA InitSafe == Init => QualificationIsSafe
<1> SUFFICES ASSUME Init PROVE QualificationIsSafe
  OBVIOUS
<1>1. RunsBacked /\ RecordBacked /\ ReleasedIsBound
  BY DEF Init, RunsInit, RunsBacked, RecordBacked, ReleasedIsBound, Unbound
<1>2. \A c \in Caller : CallerBacked(c)
  BY DEF Init, CallerBacked, NoJob, JobOf, NoResult, Unbound, Holding, Concluding
<1>3. (evidence = NoResult /\ result = NoResult) /\ StartedIsQualified
  BY DEF Init, StartedIsQualified
<1> QED
  BY <1>1, <1>2, <1>3 DEF QualificationIsSafe

LEMMA StepSafe == TypeOK /\ QualificationIsSafe /\ [Next]_vars => QualificationIsSafe'
BY RunsSafe, RecordSafe, EvidenceSafe, ResultSafe, StartSafe, ReleaseSafe, CallersSafe
   DEF QualificationIsSafe

(* The inductive invariant: the Runs, the record, the file and what every qualifier
   knows agree, whoever starts, cancels or dies in between. *)
THEOREM QualificationSafety == Spec => []QualificationIsSafe
BY InitType, InitSafe, StepType, StepSafe, PTL DEF Spec

(* A target is executed by the Run that the record names, and by no other, however
   many processes qualify the episode. *)
THEOREM ExecutedOnce == Spec => []ReleasedIsBound
<1>1. QualificationIsSafe => ReleasedIsBound
  BY DEF QualificationIsSafe
<1> QED
  BY <1>1, QualificationSafety, PTL

(* The evidence that was committed is the file, and a Run of each stage passed. *)
THEOREM EvidenceBacked == Spec => []EvidenceIsBacked
<1>1. QualificationIsSafe => EvidenceIsBacked
  BY DEF QualificationIsSafe, EvidenceIsBacked, Passed
<1> QED
  BY <1>1, QualificationSafety, PTL

(* A file that was left behind never stands in the way of the next attempt. *)
THEOREM LeftFileFits == Spec => []FileFits
<1>1. ASSUME QualificationIsSafe PROVE FileFits
  <2>1. evidence # NoResult => \A s \in Stage : Passed(s, evidence[s])
    BY <1>1 DEF QualificationIsSafe
  <2> QED
    BY <2>1, RefFields DEF FileFits, Passed
<1> QED
  BY <1>1, QualificationSafety, PTL

(* An episode starts only with its evidence. *)
THEOREM StartQualified == Spec => []StartedIsQualified
<1>1. QualificationIsSafe => StartedIsQualified
  BY DEF QualificationIsSafe
<1> QED
  BY <1>1, QualificationSafety, PTL

(* No qualifier changes the record of an episode that started, was cancelled or is
   qualified, however late it comes. *)
THEOREM RecordFinal == Spec => RecordIsFinal
<1>1. TypeOK /\ QualificationIsSafe /\ [Next]_vars =>
        [phase # "new" \/ result # NoResult => UNCHANGED <<qualifications, result>>]_vars
  <2> SUFFICES ASSUME TypeOK, QualificationIsSafe, [Next]_vars,
                      phase # "new" \/ result # NoResult
               PROVE  UNCHANGED <<qualifications, result>>
    OBVIOUS
  <2>1. ASSUME NEW c \in Caller, Bound(c) \/ Commit(c) PROVE phase = "new"
    BY <2>1 DEF Bound, Bindable, Commit
  <2>2. CASE phase # "new"
    BY <2>1, <2>2, RecordSteps
  <2>3. CASE result # NoResult
    <3>1. result' = result /\ RecordKept
      BY <2>3, RecordSafe DEF RecordKept
    <3>2. \A s \in Stage : Passed(s, result[s])
      BY <2>3 DEF QualificationIsSafe
    <3>3. \A s \in Stage : qualifications[s].allocated
      BY ZenonT(60), <3>2, RefFields DEF Passed
    <3>4. \A s \in Stage : qualifications'[s] = qualifications[s]
      BY <3>1, <3>3 DEF RecordKept
    <3>5. qualifications' \in [Stage -> ExecutionRef] /\ qualifications \in [Stage -> ExecutionRef]
      BY StepType DEF TypeOK
    <3> QED
      BY <3>1, <3>4, <3>5
  <2> QED
    BY <2>2, <2>3
<1> QED
  BY <1>1, TypeCorrect, QualificationSafety, PTL DEF Spec, RecordIsFinal

==============================================================================

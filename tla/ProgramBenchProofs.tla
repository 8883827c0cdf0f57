------------------------- MODULE ProgramBenchProofs -------------------------
(***************************************************************************)
(* Theorems about ProgramBench, for any set of callers, any number of      *)
(* branches and any set of Runs.                                           *)
(***************************************************************************)
EXTENDS ProgramBench, FiniteSetTheorems, TLAPS

------------------------------------------------------------------------------
(* Types *)

LEMMA StepFacts == Compile \in Step /\ Branch \subseteq Step /\ Compile \notin Branch
  BY BranchesAssumption DEF Step, Compile, Branch

LEMMA BlankType == Blank \in Record
  BY DEF Blank, Record

\* Copies stay records whatever field a caller changes.
LEMMA CopyType ==
  ASSUME NEW copy \in Record, NEW s \in Step
  PROVE  /\ copy.step \in [Step -> {"pending", "running", "completed", "business_failed",
                                    "infrastructure_failed"}]
         /\ copy.run \in [Step -> RunId \union {NoRun}]
         /\ \A x \in {"new", "compile_running", "branches_running", "aggregating", "completed",
                      "infrastructure_failed", "cancelling", "cancelled"} :
               [copy EXCEPT !.state = x] \in Record
         /\ \A x \in {"running", "completed", "not_created"} : [copy EXCEPT !.cleanup = x] \in Record
         /\ \A x \in {"running", "completed", "business_failed", "infrastructure_failed"} :
               [copy EXCEPT !.step[s] = x] \in Record
         /\ \A r \in RunId : [copy EXCEPT !.run[s] = r] \in Record
         /\ [copy EXCEPT !.derived = TRUE] \in Record
  BY DEF Record

LEMMA GotoType ==
  ASSUME TypeOK, NEW c \in Caller, NEW from, NEW to \in Place, Goto(c, from, to)
  PROVE  pc' \in [Caller -> Place]
  BY DEF Goto, TypeOK

LEMMA LeaveType ==
  ASSUME TypeOK, NEW c \in Caller, NEW to \in Place, Leave(c, to)
  PROVE  pc' \in [Caller -> Place] /\ held' \in [Caller -> Record] /\ at' \in [Caller -> Step]
  BY BlankType, StepFacts DEF Leave, TypeOK

LEMMA SavedType ==
  ASSUME TypeOK, NEW c \in Caller, NEW from, NEW to \in Place, NEW copy \in Record,
         Saved(c, from, copy, to)
  PROVE  TypeOK'
  <1>1. pc' \in [Caller -> Place]  BY GotoType DEF Saved
  <1> QED BY <1>1 DEF Saved, TypeOK, episodeVars, axernVars

LEMMA SaveLiveType ==
  ASSUME TypeOK, NEW c \in Caller, NEW from, NEW to \in Place, NEW copy \in Record,
         SaveLive(c, from, copy, to)
  PROVE  TypeOK'
  <1>1. CASE Saved(c, from, copy, to)  BY <1>1, SavedType
  <1>2. CASE Refused(c, from) /\ Leave(c, "raise")
    <2>1. "raise" \in Place  BY DEF Place
    <2> QED BY <1>2, <2>1, LeaveType DEF Refused, TypeOK, episodeVars, recordVars, axernVars
  <1> QED BY <1>1, <1>2 DEF SaveLive, Raise

LEMMA SaveLiveOrType ==
  ASSUME TypeOK, NEW c \in Caller, NEW from, NEW to \in Place, NEW refused \in Place,
         NEW copy \in Record, SaveLiveOr(c, from, copy, to, refused)
  PROVE  TypeOK'
  <1>1. CASE Saved(c, from, copy, to)  BY <1>1, SavedType
  <1>2. CASE Refused(c, from) /\ Goto(c, from, refused) /\ UNCHANGED <<held, at>>
    BY <1>2, GotoType DEF Refused, TypeOK, episodeVars, recordVars, axernVars
  <1> QED BY <1>1, <1>2 DEF SaveLiveOr

\* The steps of a caller, as the cases of a proof.
LEMMA CallerCases ==
  ASSUME NEW c \in Caller, Prepare(c) \/ Evaluate(c) \/ Conclude(c)
  PROVE  \/ Enter(c) \/ Initialize(c) \/ Claim(c) \/ RequireLive(c) \/ CreateRun(c)
         \/ CreateRunFails(c) \/ Bind(c) \/ BindPrimary(c) \/ AwaitRunning(c)
         \/ PreparationFails(c) \/ Release(c) \/ Abort(c) \/ Follow(c) \/ FollowFails(c)
         \/ RejectCandidate(c) \/ FinishRejected(c) \/ DownloadFails(c) \/ PublishEnvironment(c)
         \/ AcceptCompile(c) \/ SaveFailure(c) \/ BranchFails(c) \/ AcceptBranch(c)
         \/ Aggregate(c) \/ PublishDetails(c) \/ AggregationFails(c) \/ DeleteEnvironment(c)
         \/ DeleteFails(c) \/ Settle(c) \/ Complete(c) \/ Finish(c) \/ RecordFailure(c)
         \/ Crash(c)
  BY DEF Prepare, Evaluate, Conclude

\* The first steps of a caller, up to the Run.
LEMMA PrepareType ==
  ASSUME TypeOK, NEW c \in Caller, Prepare(c)
  PROVE  TypeOK'
  <1> USE StepFacts
  <1> DEFINE h == held[c]
  <1>h. h \in Record /\ at[c] \in Step  BY DEF TypeOK
  <1>p. Place = {"idle", "verify", "step", "live", "create", "bind", "primary", "await", "rebind",
                 "reprimary", "release", "abort", "follow", "result", "discard", "loaded", "reject",
                 "delete", "settle", "publish", "lastDelete", "complete", "finish", "raise"}
    BY DEF Place
  <1>r. ASSUME Raise(c) \/ Leave(c, "idle")
        PROVE  pc' \in [Caller -> Place] /\ held' \in [Caller -> Record] /\ at' \in [Caller -> Step]
    BY <1>r, <1>p, LeaveType DEF Raise
  <1>1. CASE Enter(c)
    BY <1>1, <1>p, GotoType DEF Enter, TypeOK, recordVars, axernVars
  <1>2. CASE Initialize(c)
    <2>1. Initialized \in Record  BY BlankType DEF Initialized, Blank, TypeOK, Record
    <2>2. Entry \in Place  BY <1>p DEF Entry
    <2>3. CASE Raise(c) /\ UNCHANGED record
      BY <1>2, <1>r, <2>3 DEF Initialize, TypeOK, episodeVars, axernVars
    <2>4. CASE Goto(c, "verify", Entry) /\ record' = Initialized
                 /\ held' = [held EXCEPT ![c] = Initialized] /\ UNCHANGED at
      BY <1>2, <2>1, <2>2, <2>4, GotoType DEF Initialize, TypeOK, episodeVars, axernVars
    <2> QED BY <1>2, <2>3, <2>4 DEF Initialize
  <1>3. CASE Claim(c)
    <2>1. PICK s \in Step : IF Open /\ ~Ambiguous(s) THEN Claims(c, s)
                                                    ELSE Raise(c) /\ UNCHANGED record
      BY <1>3 DEF Claim
    <2>2. Claimed(s) \in Record
      <3>1. record \in Record  BY DEF TypeOK
      <3>2. CASE Claimed(s) = record  BY <3>1, <3>2
      <3>3. CASE Claimed(s) # record
        <4>1. Claimed(s) = [record EXCEPT !.step[s] = "running",
                                          !.state = IF s = Compile THEN "compile_running" ELSE @]
          BY <3>3 DEF Claimed
        <4>2. /\ [record EXCEPT !.step[s] = "running"] \in Record
              /\ [record EXCEPT !.state = "compile_running"] \in Record
          BY <3>1, CopyType
        <4>3. PICK state : Claimed(s) = [record EXCEPT !.step[s] = "running", !.state = state]
                           /\ state \in {"compile_running", record.state}
          BY <4>1
        <4>4. Claimed(s) = [[record EXCEPT !.step[s] = "running"] EXCEPT !.state = state]
          BY <4>3
        <4>5. ASSUME NEW e \in Record
              PROVE  /\ [e EXCEPT !.state = "compile_running"] \in Record
                     /\ \A f \in Record : [e EXCEPT !.state = f.state] \in Record
          BY StepFacts DEF Record
        <4>6. CASE state = record.state  BY <3>1, <4>2, <4>4, <4>5, <4>6
        <4>7. CASE state = "compile_running"  BY <4>2, <4>4, <4>5, <4>7
        <4> QED BY <4>3, <4>6, <4>7
      <3> QED BY <3>2, <3>3
    <2>3. CASE Claims(c, s)
      BY <1>3, <1>p, <2>2, <2>3, GotoType DEF Claims, Claim, TypeOK, episodeVars, axernVars
    <2>4. CASE Raise(c) /\ UNCHANGED record
      BY <1>3, <1>r, <2>4 DEF Claim, TypeOK, episodeVars, axernVars
    <2> QED BY <2>1, <2>3, <2>4
  <1>4. CASE RequireLive(c)
    <2>1. CASE Raise(c)
      BY <1>4, <1>r, <2>1 DEF RequireLive, TypeOK, episodeVars, recordVars, axernVars
    <2>2. CASE ~Raise(c)
      BY <1>4, <1>p, <2>2, GotoType DEF RequireLive, TypeOK, episodeVars, recordVars, axernVars
    <2> QED BY <2>1, <2>2
  <1>5. CASE CreateRun(c)
    <2>1. PICK r \in RunId :
             /\ status' = [status EXCEPT ![r] = "waiting"]
             /\ purpose' = [purpose EXCEPT ![r] = at[c]]
             /\ \/ /\ Goto(c, "create", "bind")
                   /\ held' = [held EXCEPT ![c].run[at[c]] = r]
                   /\ UNCHANGED at
                \/ Raise(c)
      BY <1>5 DEF CreateRun
    <2>2. status' \in [RunId -> {"absent", "waiting", "executing"} \union Ended]
             /\ purpose' \in [RunId -> Step]
      BY <1>h, <2>1 DEF TypeOK
    <2>3. CASE Raise(c)
      BY <1>5, <1>r, <2>2, <2>3 DEF CreateRun, TypeOK, episodeVars, recordVars
    <2>4. CASE Goto(c, "create", "bind") /\ held' = [held EXCEPT ![c].run[at[c]] = r] /\ UNCHANGED at
      <3>1. [h EXCEPT !.run[at[c]] = r] \in Record  BY <1>h, CopyType
      <3>2. held' \in [Caller -> Record]  BY <2>4, <3>1 DEF TypeOK
      <3> QED BY <1>5, <1>p, <2>2, <2>4, <3>2, GotoType DEF CreateRun, TypeOK, episodeVars, recordVars
    <2> QED BY <2>1, <2>3, <2>4
  <1>6. CASE CreateRunFails(c)
    BY <1>6, <1>r DEF CreateRunFails, TypeOK, episodeVars, recordVars, axernVars
  <1>7. CASE Bind(c)
    BY <1>7, <1>h, <1>p, SaveLiveOrType DEF Bind
  <1>8. CASE BindPrimary(c)
    <2>1. Mine(c) \in RunId \union {NoRun}  BY <1>h, CopyType DEF Mine
    <2> QED BY <1>8, <1>p, <2>1, GotoType DEF BindPrimary, TypeOK, recordVars, axernVars
  <1>9. CASE AwaitRunning(c)
    BY <1>9, <1>p, GotoType DEF AwaitRunning, TypeOK, episodeVars, recordVars, axernVars
  <1>10. CASE PreparationFails(c)
    BY <1>10, <1>p, GotoType DEF PreparationFails, TypeOK, episodeVars, recordVars, axernVars
  <1>11. CASE Release(c)
    BY ZenonT(60), <1>11, <1>p, GotoType DEF Release, TypeOK, episodeVars, recordVars
  <1>12. CASE Abort(c)
    <2>1. cancelling' \subseteq RunId
      <3>1. Mine(c) \in RunId \union {NoRun}  BY <1>h, CopyType DEF Mine
      <3> QED BY <1>12, <3>1 DEF Abort, Cancel, TypeOK
    <2> QED BY <1>12, <1>r, <2>1 DEF Abort, TypeOK, episodeVars, recordVars
  <1> QED BY <1>1, <1>2, <1>3, <1>4, <1>5, <1>6, <1>7, <1>8, <1>9, <1>10, <1>11, <1>12 DEF Prepare

\* The steps of a caller that has the outcome of a step.
LEMMA EvaluateType ==
  ASSUME TypeOK, NEW c \in Caller, Evaluate(c)
  PROVE  TypeOK'
  <1> USE StepFacts
  <1> DEFINE h == held[c]
  <1>h. h \in Record /\ at[c] \in Step /\ Compile \in Step  BY DEF TypeOK
  <1>p. {"step", "delete", "reject", "finish", "loaded", "discard", "raise", "follow", "result"}
           \subseteq Place
    BY DEF Place
  <1>r. ASSUME Raise(c)
        PROVE  pc' \in [Caller -> Place] /\ held' \in [Caller -> Record] /\ at' \in [Caller -> Step]
    BY <1>r, <1>p, LeaveType DEF Raise
  <1>1. CASE Follow(c)
    BY <1>1, <1>p, GotoType DEF Follow, TypeOK, episodeVars, recordVars, axernVars
  <1>2. CASE FollowFails(c)
    BY <1>2, <1>r DEF FollowFails, TypeOK, episodeVars, recordVars, axernVars
  <1>3. CASE RejectCandidate(c)
    <2>1. [h EXCEPT !.step[Compile] = "business_failed", !.state = "aggregating"] \in Record
      BY <1>h DEF Record
    <2> QED BY <1>3, <1>p, <2>1, SaveLiveType DEF RejectCandidate
  <1>4. CASE FinishRejected(c)
    <2>1. [h EXCEPT !.cleanup = "not_created", !.state = "completed"] \in Record
      BY <1>h DEF Record
    <2> QED BY <1>4, <1>p, <2>1, SaveLiveType DEF FinishRejected
  <1>5. CASE DownloadFails(c)
    BY <1>5, <1>r DEF DownloadFails, TypeOK, episodeVars, recordVars
  <1>6. CASE PublishEnvironment(c)
    BY <1>6, <1>h, <1>p, CopyType, SaveLiveOrType DEF PublishEnvironment
  <1>7. CASE AcceptCompile(c)
    <2>1. [h EXCEPT !.step[Compile] = "completed", !.state = "branches_running"] \in Record
      BY <1>h DEF Record
    <2> QED BY <1>7, <1>p, <2>1, SaveLiveType DEF AcceptCompile
  <1>8. CASE SaveFailure(c)
    <2>1. ASSUME NEW copy \in Record PROVE Failed(copy) \in Record  BY DEF Failed, Record
    <2>2. Failed(h) \in Record  BY <1>h, <2>1
    <2>3. Failed([h EXCEPT !.step[at[c]] = "infrastructure_failed"]) \in Record
      BY <1>h, <2>1, CopyType
    <2> QED BY <1>8, <1>p, <2>2, <2>3, SaveLiveType DEF SaveFailure
  <1>9. CASE BranchFails(c)
    BY <1>9, <1>h, <1>p, CopyType, SaveLiveType DEF BranchFails
  <1>10. CASE AcceptBranch(c)
    BY <1>10, <1>h, <1>p, CopyType, SaveLiveType DEF AcceptBranch
  <1> QED BY <1>1, <1>2, <1>3, <1>4, <1>5, <1>6, <1>7, <1>8, <1>9, <1>10 DEF Evaluate

\* The steps of a caller towards the end of its command.
LEMMA ConcludeType ==
  ASSUME TypeOK, NEW c \in Caller, Conclude(c)
  PROVE  TypeOK'
  <1> DEFINE h == held[c]
  <1>h. h \in Record /\ at[c] \in Step  BY DEF TypeOK
  <1>p. {"idle", "publish", "lastDelete", "complete", "settle", "finish", "raise"} \subseteq Place
    BY DEF Place
  <1>r. ASSUME Raise(c) \/ Leave(c, "idle")
        PROVE  pc' \in [Caller -> Place] /\ held' \in [Caller -> Record] /\ at' \in [Caller -> Step]
    BY <1>r, <1>p, LeaveType DEF Raise
  <1>1. CASE Aggregate(c)
    BY <1>1, <1>h, <1>p, CopyType, SaveLiveType DEF Aggregate
  <1>2. CASE PublishDetails(c)
    BY <1>2, <1>h, <1>p, CopyType, SaveLiveType DEF PublishDetails
  <1>3. CASE AggregationFails(c)
    BY <1>3, <1>r DEF AggregationFails, TypeOK, episodeVars, recordVars, axernVars
  <1>4. CASE DeleteEnvironment(c)
    <2>1. CASE Raise(c)
      BY <1>4, <1>r, <2>1 DEF DeleteEnvironment, TypeOK, episodeVars, recordVars
    <2>2. CASE ~Raise(c)
      BY <1>4, <1>p, <2>2, GotoType DEF DeleteEnvironment, TypeOK, episodeVars, recordVars
    <2> QED BY <2>1, <2>2
  <1>5. CASE DeleteFails(c)
    BY <1>5, <1>r DEF DeleteFails, TypeOK, episodeVars, recordVars, axernVars
  <1>6. CASE Settle(c)
    <2>1. [h EXCEPT !.cleanup = "completed", !.state = "infrastructure_failed"] \in Record
      BY <1>h DEF Record
    <2>2. record' \in Record  BY <1>6, <2>1 DEF Settle, TypeOK
    <2> QED BY <1>6, <1>r, <2>2 DEF Settle, TypeOK, episodeVars, axernVars
  <1>7. CASE Complete(c)
    <2>1. [h EXCEPT !.cleanup = "completed", !.state = "completed"] \in Record
      BY <1>h DEF Record
    <2> QED BY <1>7, <1>p, <2>1, SaveLiveType DEF Complete
  <1>8. CASE Finish(c)
    BY <1>8, <1>r DEF Finish, TypeOK, recordVars, axernVars
  <1>9. CASE RecordFailure(c)
    BY <1>9, <1>r DEF RecordFailure, TypeOK, recordVars, axernVars
  <1>10. CASE Crash(c)
    BY <1>10, <1>r DEF Crash, TypeOK, episodeVars, recordVars, axernVars
  <1> QED BY <1>1, <1>2, <1>3, <1>4, <1>5, <1>6, <1>7, <1>8, <1>9, <1>10 DEF Conclude

\* The steps of the cancel command and of Axern.
LEMMA OthersType ==
  ASSUME TypeOK, Canceller \/ Axern
  PROVE  TypeOK'
  <1> DEFINE Stations == {"idle", "primary", "mark", "runs", "environment", "end", "save"}
  <1>c. ASSUME NEW runs \in SUBSET (RunId \union {NoRun}), Cancel(runs)
        PROVE  cancelling' \subseteq RunId
    BY <1>c DEF Cancel, TypeOK
  <1>s. record \in Record  BY DEF TypeOK
  <1>o. Owned \in SUBSET (RunId \union {NoRun})  BY <1>s DEF Owned, Record
  <1>1. CASE BeginCancel
    BY <1>1 DEF BeginCancel, Proceed, TypeOK, episodeVars, recordVars, callerVars, axernVars
  <1>2. CASE CancelPrimary
    <2>1. {primary} \in SUBSET (RunId \union {NoRun})  BY DEF TypeOK
    <2> QED BY <1>2, <1>c, <2>1 DEF CancelPrimary, Proceed, TypeOK, episodeVars, recordVars, callerVars
  <1>3. CASE MarkCancelling
    <2>1. record' \in Record  BY <1>3, <1>s, StepFacts, CopyType DEF MarkCancelling
    <2> QED BY <1>3, <2>1 DEF MarkCancelling, TypeOK, episodeVars, callerVars, axernVars
  <1>4. CASE CancelRuns
    <2>1. record' \in Record  BY <1>4, <1>s, StepFacts, CopyType DEF CancelRuns
    <2> QED BY <1>4, <1>c, <1>o, <2>1 DEF CancelRuns, TypeOK, episodeVars, callerVars
  <1>5. CASE CancelEnvironment
    BY <1>5 DEF CancelEnvironment, Proceed, TypeOK, episodeVars, recordVars, callerVars
  <1>6. CASE EndCancel
    <2>1. record' \in Record  BY <1>6, <1>s DEF EndCancel, Record
    <2> QED BY <1>6, <2>1 DEF EndCancel, Proceed, TypeOK, episodeVars, callerVars, axernVars
  <1>7. CASE SaveCancelled
    BY <1>7 DEF SaveCancelled, Proceed, TypeOK, recordVars, callerVars, axernVars
  <1>8. CASE CancelFails
    <2>1. cancelling' \subseteq RunId
      <3>1. CASE UNCHANGED cancelling  BY <3>1 DEF TypeOK
      <3>2. CASE \E runs \in SUBSET Owned : Cancel(runs)  BY <1>c, <1>o, <3>2
      <3> QED BY <1>8, <3>1, <3>2 DEF CancelFails
    <2> QED BY <1>8, <2>1 DEF CancelFails, TypeOK, episodeVars, recordVars, callerVars
  <1>9. CASE \E r \in RunId : Exit(r)
    BY <1>9 DEF Exit, Sealed, Ended, TypeOK, episodeVars, recordVars, callerVars
  <1>10. CASE \E r \in RunId : EndsEarly(r)
    BY <1>10 DEF EndsEarly, Ended, TypeOK, episodeVars, recordVars, callerVars
  <1> QED BY <1>1, <1>2, <1>3, <1>4, <1>5, <1>6, <1>7, <1>8, <1>9, <1>10 DEF Canceller, Axern

LEMMA TypeStep == TypeOK /\ [Next]_vars => TypeOK'
  <1>1. CASE UNCHANGED vars
    BY <1>1 DEF TypeOK, vars, episodeVars, recordVars, callerVars, axernVars
  <1>2. CASE Next
    BY <1>2, PrepareType, EvaluateType, ConcludeType, OthersType DEF Next
  <1> QED BY <1>1, <1>2

LEMMA TypeInit == Init => TypeOK
  BY BlankType, StepFacts DEF Init, TypeOK, Place

\* Every variable, and every caller's copy of the record, stays within its type.
THEOREM TypeCorrect == Spec => []TypeOK
  BY TypeInit, TypeStep, PTL DEF Spec

------------------------------------------------------------------------------
(* Cancellation *)

LEMMA SaveWrites ==
  ASSUME NEW c \in Caller, NEW from, NEW copy, NEW to, NEW refused,
         SaveLive(c, from, copy, to) \/ SaveLiveOr(c, from, copy, to, refused)
  PROVE  /\ UNCHANGED <<marker, canceller>>
         /\ record' = record \/ (StoreFree /\ Open)
  BY DEF SaveLive, SaveLiveOr, Saved, Refused, recordVars

\* A caller changes the record only where no cancellation has come, and while
\* none is at the record.
LEMMA CallerWrites ==
  ASSUME NEW c \in Caller, Prepare(c) \/ Evaluate(c) \/ Conclude(c)
  PROVE  /\ UNCHANGED <<marker, canceller>>
         /\ \/ record' = record
            \/ StoreFree /\ Open
            \/ StoreFree /\ record.state = "absent" /\ ~marker
  <1>1. CASE \/ Enter(c) \/ RequireLive(c) \/ CreateRun(c) \/ CreateRunFails(c)
             \/ BindPrimary(c) \/ AwaitRunning(c) \/ PreparationFails(c) \/ Release(c) \/ Abort(c)
    BY <1>1 DEF Enter, RequireLive, CreateRun, CreateRunFails, BindPrimary, AwaitRunning,
                PreparationFails, Release, Abort, recordVars
  <1>2. CASE \/ Follow(c) \/ FollowFails(c) \/ DownloadFails(c) \/ AggregationFails(c)
             \/ DeleteEnvironment(c) \/ DeleteFails(c) \/ Finish(c) \/ RecordFailure(c) \/ Crash(c)
    BY <1>2 DEF Follow, FollowFails, DownloadFails, AggregationFails, DeleteEnvironment, DeleteFails,
                Finish, RecordFailure, Crash, recordVars
  <1>3. CASE Initialize(c)
    BY <1>3 DEF Initialize, Initialized
  <1>4. CASE Claim(c)
    BY <1>4 DEF Claim
  <1>5. CASE Settle(c)
    BY <1>5 DEF Settle
  <1>6. CASE \/ Bind(c) \/ RejectCandidate(c) \/ FinishRejected(c) \/ PublishEnvironment(c)
             \/ AcceptCompile(c)
    BY <1>6, SaveWrites
       DEF Bind, RejectCandidate, FinishRejected, PublishEnvironment, AcceptCompile
  <1>7. CASE \/ SaveFailure(c) \/ BranchFails(c) \/ AcceptBranch(c) \/ Aggregate(c)
             \/ PublishDetails(c) \/ Complete(c)
    BY <1>7, SaveWrites
       DEF SaveFailure, BranchFails, AcceptBranch, Aggregate, PublishDetails, Complete
  <1> QED BY <1>1, <1>2, <1>3, <1>4, <1>5, <1>6, <1>7, CallerCases

\* What the steps of the cancel command and of Axern do to the record.
LEMMA OthersWrite ==
  ASSUME TypeOK, CancelOwnsRecord, Canceller \/ Axern
  PROVE  /\ CancelOwnsRecord'
         /\ marker => marker'
         /\ record.state = "cancelled" \/ marker => record' = record
         /\ record'.step = record.step /\ record'.run = record.run /\ record'.derived = record.derived
         /\ record'.state \in {record.state, "cancelling", "cancelled"}
         /\ record'.state = "absent" <=> record.state = "absent"
  <1>t. record \in Record  BY DEF TypeOK
  <1>r. ASSUME NEW x \in {"cancelling", "cancelled"}, NEW y
        PROVE  /\ [record EXCEPT !.state = x].state = x
               /\ [record EXCEPT !.state = x, !.cleanup = y].state = x
               /\ [record EXCEPT !.cleanup = y].state = record.state
               /\ \A e \in {[record EXCEPT !.state = x], [record EXCEPT !.cleanup = y],
                            [record EXCEPT !.state = x, !.cleanup = y]} :
                     e.step = record.step /\ e.run = record.run /\ e.derived = record.derived
    BY <1>t DEF Record
  <1>1. CASE BeginCancel \/ CancelPrimary \/ CancelEnvironment \/ SaveCancelled \/ CancelFails
    BY <1>1 DEF BeginCancel, CancelPrimary, CancelEnvironment, SaveCancelled, CancelFails, Proceed,
                recordVars, CancelOwnsRecord
  <1>2. CASE MarkCancelling
    BY <1>2, <1>r DEF MarkCancelling, CancelOwnsRecord
  <1>3. CASE CancelRuns
    <2>1. canceller = "runs" /\ marker' = marker /\ canceller' \in {"environment", "end"}
             /\ (record' = record \/ record' = [record EXCEPT !.cleanup = "running"])
      BY <1>3 DEF CancelRuns
    <2>2. record'.state = record.state /\ record'.step = record.step /\ record'.run = record.run
             /\ record'.derived = record.derived
      BY <2>1, <1>t DEF Record
    <2> QED BY <2>1, <2>2 DEF CancelOwnsRecord
  <1>4. CASE EndCancel
    BY <1>4, <1>r DEF EndCancel, Proceed, CancelOwnsRecord
  <1>5. CASE Axern
    BY <1>5 DEF Axern, Exit, EndsEarly, recordVars, CancelOwnsRecord
  <1> QED BY <1>1, <1>2, <1>3, <1>4, <1>5 DEF Canceller

LEMMA CancelStep == TypeOK /\ CancelOwnsRecord /\ [Next]_vars => CancelOwnsRecord'
  <1> SUFFICES ASSUME TypeOK, CancelOwnsRecord, [Next]_vars PROVE CancelOwnsRecord'
    OBVIOUS
  <1>1. CASE UNCHANGED vars
    BY <1>1 DEF vars, recordVars, CancelOwnsRecord
  <1>2. CASE \E c \in Caller : Prepare(c) \/ Evaluate(c) \/ Conclude(c)
    BY <1>2, CallerWrites DEF CancelOwnsRecord, StoreFree, Open
  <1>3. CASE Canceller \/ Axern
    BY <1>3, OthersWrite
  <1> QED BY <1>1, <1>2, <1>3 DEF Next

LEMMA CancelInvariant == Spec => []CancelOwnsRecord
  <1>1. Init => CancelOwnsRecord  BY DEF Init, CancelOwnsRecord
  <1> QED BY <1>1, CancelStep, TypeCorrect, PTL DEF Spec

\* A cancelled verification stays cancelled, and one that was cancelled before its
\* record existed never gets one, whatever copies the callers still hold.
THEOREM CancellationIsFinal == Spec => CancelledIsFinal
  <1>1. ASSUME TypeOK, CancelOwnsRecord, [Next]_vars
        PROVE  [/\ record.state = "cancelled" => record' = record
                /\ marker => marker' /\ record' = record]_vars
    <2>1. CASE UNCHANGED vars  BY <2>1 DEF vars, recordVars
    <2>2. CASE \E c \in Caller : Prepare(c) \/ Evaluate(c) \/ Conclude(c)
      BY <1>1, <2>2, CallerWrites DEF CancelOwnsRecord, Open
    <2>3. CASE Canceller \/ Axern
      BY <1>1, <2>3, OthersWrite
    <2> QED BY <1>1, <2>1, <2>2, <2>3 DEF Next
  <1> QED BY <1>1, TypeCorrect, CancelInvariant, PTL DEF Spec, CancelledIsFinal

------------------------------------------------------------------------------
(* Copies of the record stay true of the Runs, as Runs go on and as callers    *)
(* change their copies.                                                        *)

LEMMA BackedStays ==
  ASSUME NEW copy \in Record, NEW runs, NEW made, NEW runs2, NEW made2,
         \A r \in RunId : runs[r] # "absent" =>
            runs2[r] # "absent" /\ made2[r] = made[r] /\ (runs[r] \in Ended => runs2[r] = runs[r]),
         BackedBy(copy, runs, made)
  PROVE  BackedBy(copy, runs2, made2)
  <1>1. copy.run \in [Step -> RunId \union {NoRun}]  BY StepFacts, CopyType
  <1> QED BY <1>1, StepFacts DEF BackedBy, Sealed, Ended

LEMMA BlankBacked ==
  ASSUME NEW runs, NEW made
  PROVE  BackedBy(Blank, runs, made)
  BY StepFacts DEF BackedBy, Blank

LEMMA FieldBacked ==
  ASSUME NEW copy \in Record, NEW runs, NEW made, BackedBy(copy, runs, made), NEW x
  PROVE  /\ BackedBy([copy EXCEPT !.cleanup = x], runs, made)
         /\ x \notin {"absent", "completed"} => BackedBy([copy EXCEPT !.state = x], runs, made)
         /\ copy.run[Compile] # NoRun /\ runs[copy.run[Compile]] \in Sealed =>
               BackedBy([copy EXCEPT !.derived = TRUE], runs, made)
  <1> USE StepFacts
  <1>1. BackedBy([copy EXCEPT !.cleanup = x], runs, made)
    BY DEF BackedBy, Record
  <1>2. ASSUME x \notin {"absent", "completed"} PROVE BackedBy([copy EXCEPT !.state = x], runs, made)
    BY <1>2 DEF BackedBy, Record
  <1>3. ASSUME copy.run[Compile] # NoRun, runs[copy.run[Compile]] \in Sealed
        PROVE  BackedBy([copy EXCEPT !.derived = TRUE], runs, made)
    BY <1>3 DEF BackedBy, Record, Sealed
  <1> QED BY <1>1, <1>2, <1>3

\* A step of the copy takes a state that its Run justifies.
LEMMA StepBacked ==
  ASSUME NEW copy \in Record, NEW runs, NEW made, BackedBy(copy, runs, made), NEW s \in Step,
         copy.state # "absent",
         NEW x \in {"running", "completed", "business_failed", "infrastructure_failed"},
         x = "completed" => copy.run[s] # NoRun /\ runs[copy.run[s]] = "succeeded",
         x = "business_failed" /\ s = Compile => copy.run[s] # NoRun /\ runs[copy.run[s]] = "rejected",
         x = "infrastructure_failed" => s # Compile
  PROVE  BackedBy([copy EXCEPT !.step[s] = x], runs, made)
  <1> DEFINE e == [copy EXCEPT !.step[s] = x]
  <1>1. e.run = copy.run /\ e.derived = copy.derived /\ e.state = copy.state
    BY DEF Record
  <1>2. \A t \in Step : e.step[t] = IF t = s THEN x ELSE copy.step[t]
    <2>1. e.step = [copy.step EXCEPT ![s] = x]  BY DEF Record
    <2>2. DOMAIN copy.step = Step  BY CopyType
    <2> QED BY <2>1, <2>2
  <1> HIDE DEF e
  <1> QED BY <1>1, <1>2, StepFacts DEF BackedBy

\* Both at once, where the state does not promise a verdict.
LEMMA StepAndStateBacked ==
  ASSUME NEW copy \in Record, NEW runs, NEW made, BackedBy(copy, runs, made), NEW s \in Step,
         NEW y, y \notin {"absent", "completed"},
         NEW x \in {"running", "completed", "business_failed", "infrastructure_failed"},
         x = "completed" => copy.run[s] # NoRun /\ runs[copy.run[s]] = "succeeded",
         x = "business_failed" /\ s = Compile => copy.run[s] # NoRun /\ runs[copy.run[s]] = "rejected",
         x = "infrastructure_failed" => s # Compile
  PROVE  BackedBy([copy EXCEPT !.step[s] = x, !.state = y], runs, made)
  <1> DEFINE e == [copy EXCEPT !.step[s] = x, !.state = y]
  <1>1. e.run = copy.run /\ e.derived = copy.derived /\ e.state = y
    BY DEF Record
  <1>2. \A t \in Step : e.step[t] = IF t = s THEN x ELSE copy.step[t]
    <2>1. e.step = [copy.step EXCEPT ![s] = x]  BY DEF Record
    <2>2. DOMAIN copy.step = Step  BY CopyType
    <2> QED BY <2>1, <2>2
  <1> HIDE DEF e
  <1> QED BY <1>1, <1>2, StepFacts DEF BackedBy

LEMMA VerdictBacked ==
  ASSUME NEW copy \in Record, NEW runs, NEW made, BackedBy(copy, runs, made), NEW x,
         \/ copy.run[Compile] # NoRun /\ runs[copy.run[Compile]] = "rejected"
         \/ \A s \in Step : copy.run[s] # NoRun /\ runs[copy.run[s]] = "succeeded",
         copy.step[Compile] # "pending"
  PROVE  BackedBy([copy EXCEPT !.cleanup = x, !.state = "completed"], runs, made)
  <1> DEFINE e == [copy EXCEPT !.cleanup = x, !.state = "completed"]
  <1>1. e.run = copy.run /\ e.derived = copy.derived /\ e.state = "completed" /\ e.step = copy.step
    BY DEF Record
  <1> HIDE DEF e
  <1> QED BY <1>1, StepFacts DEF BackedBy, Sealed

\* A Run is new when a copy names it for the first time.
LEMMA RunBacked ==
  ASSUME NEW copy \in Record, NEW runs, NEW made, BackedBy(copy, runs, made), NEW s \in Step,
         copy.run[s] = NoRun, NEW r \in RunId, runs[r] # "absent", made[r] = s
  PROVE  BackedBy([copy EXCEPT !.run[s] = r], runs, made)
  <1> DEFINE e == [copy EXCEPT !.run[s] = r]
  <1>1. e.step = copy.step /\ e.derived = copy.derived /\ e.state = copy.state
    BY DEF Record
  <1>2. \A t \in Step : e.run[t] = IF t = s THEN r ELSE copy.run[t]
    <2>1. e.run = [copy.run EXCEPT ![s] = r]  BY DEF Record
    <2>2. DOMAIN copy.run = Step  BY CopyType
    <2> QED BY <2>1, <2>2
  <1> HIDE DEF e
  <1> QED BY <1>1, <1>2, StepFacts, NoRunAssumption DEF BackedBy

------------------------------------------------------------------------------
(* Runs only go on. *)

Grows ==
    \A r \in RunId : status[r] # "absent" =>
        /\ status'[r] # "absent" /\ purpose'[r] = purpose[r]
        /\ status[r] \in Ended => status'[r] = status[r]

\* No compile Run appears.
SameCompileRuns == \A r \in RunId : CompileRun(r)' <=> CompileRun(r)

LEMMA Still ==
  ASSUME UNCHANGED <<status, purpose>>
  PROVE  Grows /\ SameCompileRuns
  BY DEF Grows, SameCompileRuns, CompileRun

LEMMA StatusGrows ==
  ASSUME TypeOK, NEW r \in RunId, status[r] \notin Ended \union {"absent"},
         NEW x, x # "absent", status' = [status EXCEPT ![r] = x], purpose' = purpose
  PROVE  Grows /\ SameCompileRuns
  BY DEF Grows, SameCompileRuns, CompileRun, TypeOK

LEMMA CreateGrows ==
  ASSUME TypeOK, NEW r \in RunId, NEW s \in Step, status[r] = "absent",
         status' = [status EXCEPT ![r] = "waiting"], purpose' = [purpose EXCEPT ![r] = s]
  PROVE  /\ Grows /\ (s # Compile => SameCompileRuns)
         /\ \A q \in RunId : CompileRun(q)' => CompileRun(q) \/ q = r
         /\ status'[r] = "waiting" /\ purpose'[r] = s
  BY DEF Grows, SameCompileRuns, CompileRun, TypeOK

LEMMA BackedGrows ==
  ASSUME Grows, NEW copy \in Record, CopyBacked(copy)
  PROVE  BackedBy(copy, status', purpose')
  BY BackedStays DEF Grows, CopyBacked

\* What is known of a caller stays known while others move.
LEMMA PlacedStays ==
  ASSUME TypeOK, NEW d \in Caller, Placed(d), Grows,
         pc'[d] = pc[d], at'[d] = at[d], held'[d] = held[d],
         record.run[Compile] # NoRun => record'.run[Compile] # NoRun
  PROVE  Placed(d)'
  <1>1. Accepted => Accepted'
    BY DEF Accepted, CompileRun, Grows, Ended
  <1>2. held[d].run[at[d]] \in RunId \union {NoRun}
    BY CopyType DEF TypeOK
  <1>3. pc[d] = "reject" => Mine(d)' = Mine(d) /\ status'[Mine(d)] = "rejected"
    BY <1>2 DEF Placed, Mine, Holding, Grows, Ended
  <1> QED BY <1>1, <1>3 DEF Placed, Mine, Uncompleted

LEMMA Unclaimed ==
  ASSUME TypeOK, OneClaim, NEW c \in Caller,
         pc[c] \notin Waiting \union {"live", "create"} \/ ~Fresh
  PROVE  \A d \in Caller : ~Claimant(d)
  BY DEF OneClaim, Claimant, Waiting

\* Where the compile step of the record and the compile Runs stay as they are, the
\* claim does, as long as no caller gains one.
LEMMA ClaimStays ==
  ASSUME OneClaim, SameCompileRuns,
         record'.step[Compile] = record.step[Compile], record'.run[Compile] = record.run[Compile],
         \A d \in Caller : pc[d] \in Waiting => pc'[d] \in Waiting \/ ~Fresh,
         \A d \in Caller : Claimant(d)' => Claimant(d)
  PROVE  OneClaim'
  <1>1. Fresh' <=> Fresh  BY DEF Fresh, SameCompileRuns
  <1>2. \A q, r \in RunId : CompileRun(q)' /\ CompileRun(r)' => q = r
    BY DEF OneClaim, SameCompileRuns
  <1>3. record'.step[Compile] = "pending" => Fresh' /\ \A c \in Caller : pc'[c] \in Waiting
    BY <1>1 DEF OneClaim
  <1>4. \A c \in Caller : Claimant(c)' =>
          /\ Fresh'
          /\ record'.step[Compile] = "running" /\ record'.run[Compile] = NoRun
          /\ \A d \in Caller \ {c} : pc'[d] \in Waiting
    BY <1>1 DEF OneClaim
  <1> QED BY <1>2, <1>3, <1>4 DEF OneClaim, Fresh

\* Where nobody has the claim, a record may be replaced by any copy that does not
\* take the compile step back.
LEMMA ClaimSaved ==
  ASSUME OneClaim, SameCompileRuns, \A d \in Caller : ~Claimant(d)',
         record'.step[Compile] # "pending"
  PROVE  OneClaim'
  BY DEF OneClaim, SameCompileRuns, Fresh

------------------------------------------------------------------------------
(* The kinds of steps a caller takes: others keep what they have, and it leaves *)
(* verify, goes on, or saves its copy.                                         *)

CallersBacked == \A c \in Caller : CopyBacked(held[c]) /\ Placed(c)
RunsBacked == CopyBacked(record) /\ OneClaim /\ CallersBacked

Alone(c) == \A d \in Caller \ {c} : pc'[d] = pc[d] /\ at'[d] = at[d] /\ held'[d] = held[d]

LEMMA OthersKept ==
  ASSUME TypeOK, CallersBacked, NEW c \in Caller, Alone(c), Grows,
         record.run[Compile] # NoRun => record'.run[Compile] # NoRun
  PROVE  \A d \in Caller \ {c} : /\ CopyBacked(held[d])' /\ Placed(d)'
                                 /\ Claimant(d)' <=> Claimant(d)
  <1> SUFFICES ASSUME NEW d \in Caller \ {c}
               PROVE  CopyBacked(held[d])' /\ Placed(d)' /\ (Claimant(d)' <=> Claimant(d))
    OBVIOUS
  <1>1. pc'[d] = pc[d] /\ at'[d] = at[d] /\ held'[d] = held[d]  BY DEF Alone
  <1>2. Placed(d)'  BY <1>1, PlacedStays DEF CallersBacked
  <1>3. BackedBy(held[d], status', purpose')  BY BackedGrows DEF CallersBacked, TypeOK
  <1> QED BY <1>1, <1>2, <1>3 DEF CopyBacked, Claimant, Mine

LEMMA LeaverPlaced ==
  ASSUME TypeOK, NEW c \in Caller, NEW to \in {"idle", "raise"}, Leave(c, to)
  PROVE  /\ Placed(c)' /\ CopyBacked(held[c])' /\ ~Claimant(c)' /\ Alone(c)
         /\ pc'[c] \in Waiting
  <1>1. pc'[c] = to /\ held'[c] = Blank /\ at'[c] = Compile /\ Alone(c)
    BY DEF Leave, TypeOK, Alone
  <1>2. held'[c].run[Compile] = NoRun  BY <1>1, StepFacts DEF Blank
  <1>3. Placed(c)'  BY <1>1, <1>2 DEF Placed, Waiting, Holding
  <1>4. BackedBy(held'[c], status', purpose')  BY <1>1, BlankBacked
  <1>5. CopyBacked(held[c])'  BY <1>4 DEF CopyBacked
  <1> QED BY <1>1, <1>3, <1>5 DEF Claimant, Waiting

\* A caller that leaves verify without a word in the record.
LEMMA LeaveKeeps ==
  ASSUME TypeOK, RunsBacked, NEW c \in Caller, NEW to \in {"idle", "raise"}, Leave(c, to),
         record' = record, UNCHANGED <<status, purpose>>
  PROVE  RunsBacked'
  <1>1. Grows /\ SameCompileRuns  BY Still
  <1>2. \A d \in Caller : CopyBacked(held[d])' /\ Placed(d)' /\ (Claimant(d)' => Claimant(d))
    BY <1>1, LeaverPlaced, OthersKept DEF RunsBacked
  <1>3. OneClaim'
    BY <1>1, <1>2, LeaverPlaced, ClaimStays DEF RunsBacked, Alone
  <1> QED BY <1>2, <1>3 DEF RunsBacked, CallersBacked, CopyBacked

\* A caller that goes on with the same copy.
LEMMA MoveKeeps ==
  ASSUME TypeOK, RunsBacked, NEW c \in Caller, NEW to, pc' = [pc EXCEPT ![c] = to],
         record' = record, held' = held, at' = at, Grows, SameCompileRuns, Placed(c)',
         to \in Waiting \/ pc[c] \notin Waiting,
         to \in {"live", "create"} => pc[c] \in {"live", "create"}
  PROVE  RunsBacked'
  <1>1. Alone(c) /\ pc'[c] = to  BY DEF Alone, TypeOK
  <1>2. \A d \in Caller \ {c} : Placed(d)' /\ (Claimant(d)' <=> Claimant(d))
    BY <1>1, OthersKept DEF RunsBacked
  <1>3. Claimant(c)' => Claimant(c)  BY <1>1 DEF Claimant, Mine
  <1>4. OneClaim'
    BY <1>1, <1>2, <1>3, ClaimStays DEF RunsBacked, Alone
  <1>5. \A d \in Caller : held[d] \in Record /\ BackedBy(held[d], status', purpose')
    BY BackedGrows DEF RunsBacked, CallersBacked, TypeOK
  <1>6. BackedBy(record, status', purpose')
    BY BackedGrows DEF RunsBacked, TypeOK
  <1> QED BY <1>2, <1>4, <1>5, <1>6 DEF RunsBacked, CallersBacked, CopyBacked

\* A caller that publishes its copy: nobody has the claim any more, and the copy
\* names the compile Run.
LEMMA SaveKeeps ==
  ASSUME TypeOK, RunsBacked, NEW c \in Caller, NEW from, NEW to, NEW copy \in Record,
         Saved(c, from, copy, to),
         CopyBacked(copy), copy.step[Compile] # "pending", copy.run[Compile] # NoRun,
         from \notin Waiting \union {"live", "create"} \/ ~Fresh,
         to \notin {"live", "create", "idle", "verify", "raise"},
         to \in Holding => copy.run[at[c]] # NoRun,
         at[c] # Compile \/ to \in {"publish", "lastDelete", "complete"} => Accepted,
         to \in {"lastDelete", "complete"} => Uncompleted(copy) \subseteq {Compile},
         to = "reject" => at[c] = Compile /\ status[copy.run[at[c]]] = "rejected"
  PROVE  RunsBacked'
  <1>1. /\ pc[c] = from /\ pc'[c] = to /\ at' = at /\ held'[c] = copy /\ record' = copy
        /\ Alone(c) /\ UNCHANGED <<status, purpose>>
    BY DEF Saved, Goto, Alone, TypeOK, axernVars
  <1>2. Grows /\ SameCompileRuns  BY <1>1, Still
  <1>3. \A d \in Caller \ {c} : CopyBacked(held[d])' /\ Placed(d)' /\ (Claimant(d)' <=> Claimant(d))
    BY <1>1, <1>2, OthersKept DEF RunsBacked
  <1>4. \A d \in Caller : ~Claimant(d)'
    <2>1. \A d \in Caller : ~Claimant(d)  BY <1>1, Unclaimed DEF RunsBacked
    <2>2. ~Claimant(c)'  BY <1>1 DEF Claimant
    <2> QED BY <1>3, <2>1, <2>2
  <1>5. OneClaim'  BY <1>1, <1>2, <1>4, ClaimSaved DEF RunsBacked
  <1>6. CopyBacked(copy)' /\ CopyBacked(record)' /\ CopyBacked(held[c])'
    BY <1>1 DEF CopyBacked
  <1>7. Placed(c)'
    <2>1. Accepted' <=> Accepted  BY <1>1 DEF Accepted, CompileRun
    <2> QED BY <1>1, <2>1 DEF Placed, Mine, Uncompleted
  <1> QED BY <1>3, <1>5, <1>6, <1>7 DEF RunsBacked, CallersBacked

\* The places between which a caller goes with the Run of its step.
LEMMA MovePlaced ==
  ASSUME TypeOK, NEW c \in Caller, Placed(c), NEW to, pc' = [pc EXCEPT ![c] = to],
         record' = record, held' = held, at' = at, Grows,
         pc[c] \notin Waiting \union {"live", "create"},
         pc[c] = "bind" => to = "abort",
         to \in (Holding \ {"reject", "bind"}) \union {"settle", "discard"},
         to \in Holding => pc[c] \in Holding,
         pc[c] = "abort" => to = "abort"
  PROVE  Placed(c)'
  <1>1. pc'[c] = to  BY DEF TypeOK
  <1>2. Accepted => Accepted'  BY DEF Accepted, CompileRun, Grows, Ended
  <1>3. to \notin {"create", "reject", "publish", "lastDelete", "complete", "idle", "verify", "raise"}
    BY DEF Holding
  <1> QED BY <1>1, <1>2, <1>3 DEF Placed, Mine, Waiting, Holding

LEMMA SaveLiveKeeps ==
  ASSUME TypeOK, RunsBacked, NEW c \in Caller, NEW from, NEW to, NEW copy \in Record,
         SaveLive(c, from, copy, to),
         CopyBacked(copy), copy.step[Compile] # "pending", copy.run[Compile] # NoRun,
         from \notin Waiting \union {"live", "create"} \/ ~Fresh,
         to \notin {"live", "create", "idle", "verify", "raise"},
         to \in Holding => copy.run[at[c]] # NoRun,
         at[c] # Compile \/ to \in {"publish", "lastDelete", "complete"} => Accepted,
         to \in {"lastDelete", "complete"} => Uncompleted(copy) \subseteq {Compile},
         to = "reject" => at[c] = Compile /\ status[copy.run[at[c]]] = "rejected"
  PROVE  RunsBacked'
  <1>1. CASE Saved(c, from, copy, to)  BY <1>1, SaveKeeps
  <1>2. CASE Refused(c, from) /\ Leave(c, "raise")
    BY <1>2, LeaveKeeps DEF Refused, recordVars, axernVars
  <1> QED BY <1>1, <1>2 DEF SaveLive, Raise

\* What every step of a caller starts from.
LEMMA CallerFacts ==
  ASSUME TypeOK, RunsBacked, NEW c \in Caller
  PROVE  /\ held[c] \in Record /\ record \in Record /\ at[c] \in Step /\ Compile \in Step
         /\ BackedBy(held[c], status, purpose) /\ BackedBy(record, status, purpose)
         /\ Placed(c) /\ CallersBacked /\ OneClaim
         /\ pc \in [Caller -> Place] /\ held \in [Caller -> Record] /\ at \in [Caller -> Step]
         /\ \A s \in Step : /\ held[c].run[s] \in RunId \union {NoRun}
                            /\ record.run[s] \in RunId \union {NoRun}
  <1>1. held[c] \in Record /\ record \in Record /\ at[c] \in Step /\ Compile \in Step
    BY StepFacts DEF TypeOK
  <1>2. \A s \in Step : held[c].run[s] \in RunId \union {NoRun} /\ record.run[s] \in RunId \union {NoRun}
    BY <1>1, CopyType
  <1> QED BY <1>1, <1>2 DEF RunsBacked, CallersBacked, CopyBacked, TypeOK

\* A compile Run that a copy names is one that Axern has.
LEMMA NamedNotFresh ==
  ASSUME NEW copy \in Record, CopyBacked(copy), copy.run[Compile] # NoRun
  PROVE  /\ ~Fresh /\ CompileRun(copy.run[Compile])
         /\ status[copy.run[Compile]] = "succeeded" => Accepted
  <1>1. copy.run[Compile] \in RunId  BY StepFacts, CopyType
  <1> QED BY <1>1, StepFacts DEF CopyBacked, BackedBy, CompileRun, Fresh, Accepted

\* A record without a claim names no compile Run.
LEMMA PendingUnnamed ==
  ASSUME TypeOK, RunsBacked, record.step[Compile] = "pending"
  PROVE  record.run[Compile] = NoRun /\ Fresh
  BY NamedNotFresh DEF RunsBacked, OneClaim, TypeOK

LEMMA InitializeKeeps ==
  ASSUME TypeOK, RunsBacked, NEW c \in Caller, Initialize(c)
  PROVE  RunsBacked'
  <1> USE StepFacts
  <1>s. pc[c] = "verify" /\ UNCHANGED <<status, purpose>>
    BY DEF Initialize, axernVars
  <1>f. Placed(c) /\ at[c] = Compile /\ record \in Record /\ BackedBy(record, status, purpose) /\ OneClaim
    BY <1>s, CallerFacts DEF Placed
  <1>g. Grows /\ SameCompileRuns  BY <1>s, Still
  <1>1. CASE Leave(c, "raise") /\ record' = record
    BY <1>s, <1>1, LeaveKeeps
  <1>2. CASE /\ Goto(c, "verify", Entry) /\ Entry # "raise" /\ record' = Initialized
             /\ held' = [held EXCEPT ![c] = Initialized] /\ at' = at
    <2>1. /\ pc'[c] = Entry /\ held'[c] = Initialized /\ at'[c] = Compile /\ Alone(c)
          /\ record' = Initialized
      BY <1>f, <1>2 DEF Goto, TypeOK, Alone
    <2>2. /\ BackedBy(Initialized, status, purpose)
          /\ Initialized.step[Compile] = record.step[Compile]
          /\ Initialized.run[Compile] = record.run[Compile]
      <3>1. CASE record.state # "absent"  BY <1>f, <3>1 DEF Initialized
      <3>2. CASE record.state = "absent"
        <4>1. Initialized = [Blank EXCEPT !.state = "new"]  BY <3>2 DEF Initialized
        <4>2. BackedBy(Initialized, status, purpose)
          BY <4>1, BlankType, BlankBacked, FieldBacked
        <4>3. record.step[Compile] = "pending"  BY <1>f, <3>2 DEF BackedBy
        <4>4. record.run[Compile] = NoRun  BY <4>3, PendingUnnamed
        <4> QED BY <4>1, <4>2, <4>3, <4>4 DEF Blank
      <3> QED BY <3>1, <3>2
    <2>3. Entry = "step" \/ (Entry = "delete" /\ record.run[Compile] # NoRun /\ Initialized = record)
      BY <1>f, <1>2 DEF Entry, BackedBy, Initialized
    <2>4. record.run[Compile] # NoRun => ~Fresh /\ record.step[Compile] # "pending"
      BY <1>f, NamedNotFresh, PendingUnnamed DEF CopyBacked
    <2>5. \A d \in Caller \ {c} : CopyBacked(held[d])' /\ Placed(d)' /\ (Claimant(d)' <=> Claimant(d))
      BY <1>g, <2>1, <2>2, OthersKept, CallerFacts
    <2>6. ~Claimant(c)'  BY <2>1, <2>3 DEF Claimant
    <2>7. OneClaim'
      <3>1. \A d \in Caller : pc[d] \in Waiting => pc'[d] \in Waiting \/ ~Fresh
        BY <2>1, <2>3, <2>4 DEF Waiting, Alone
      <3>2. \A d \in Caller : Claimant(d)' => Claimant(d)  BY <2>5, <2>6
      <3> QED BY <1>f, <1>g, <2>1, <2>2, <3>1, <3>2, ClaimStays
    <2>8. CopyBacked(record)' /\ CopyBacked(held[c])'
      BY <1>s, <2>1, <2>2 DEF CopyBacked
    <2>9. Placed(c)'
      BY <2>1, <2>2, <2>3, <2>4 DEF Placed, Waiting, Holding
    <2> QED BY <2>5, <2>7, <2>8, <2>9 DEF RunsBacked, CallersBacked
  <1> QED BY <1>1, <1>2 DEF Initialize, Raise

\* What a caller claims is backed, and the compile step of the record either names
\* its Run or was not claimed before.
LEMMA ClaimedBacked ==
  ASSUME TypeOK, RunsBacked, NEW s \in Step, Open, ~Ambiguous(s)
  PROVE  /\ Claimed(s) \in Record /\ BackedBy(Claimed(s), status, purpose)
         /\ Claimed(s).run = record.run /\ Claimed(s).state # "absent"
         /\ s = Compile => Claimed(s).step[Compile] # "pending"
         /\ s # Compile => Claimed(s).step[Compile] = record.step[Compile]
         /\ s = Compile => \/ record.run[Compile] # NoRun
                           \/ /\ record.step[Compile] = "pending"
                              /\ Claimed(s).step[Compile] = "running"
  <1> USE StepFacts
  <1>f. record \in Record /\ BackedBy(record, status, purpose) /\ record.state # "absent"
    BY DEF RunsBacked, CopyBacked, TypeOK, Open
  <1>c. record.step \in [Step -> {"pending", "running", "completed", "business_failed",
                                  "infrastructure_failed"}]
    BY <1>f, CopyType
  <1>x. "running" \in {"running", "completed", "business_failed", "infrastructure_failed"}
    OBVIOUS
  <1>1. CASE record.step[s] = "completed" \/ (s = Compile /\ record.step[s] = "business_failed")
    BY <1>1, <1>f DEF Claimed, BackedBy
  <1>2. CASE s = Compile /\ record.step[s] \notin {"completed", "business_failed"}
    <2>1. Claimed(s) = [record EXCEPT !.step[s] = "running", !.state = "compile_running"]
      BY <1>2 DEF Claimed
    <2> DEFINE e == [record EXCEPT !.step[s] = "running", !.state = "compile_running"]
    <2>2. BackedBy(e, status, purpose)
      <3> HIDE DEF e
      <3>1. "compile_running" \notin {"absent", "completed"}  OBVIOUS
      <3> QED BY <1>f, <1>x, <3>1, StepAndStateBacked DEF e
    <2>3. e \in Record /\ e.run = record.run /\ e.state # "absent"
      <3>1. [record EXCEPT !.step[s] = "running"] \in Record  BY <1>f, <1>x, CopyType
      <3>2. e = [[record EXCEPT !.step[s] = "running"] EXCEPT !.state = "compile_running"]
        BY <1>f DEF Record
      <3>3. e \in Record  BY <3>1, <3>2, CopyType
      <3>4. e.run = record.run /\ e.state = "compile_running"  BY <1>f DEF Record
      <3> QED BY <3>3, <3>4
    <2>4. Claimed(s).step[s] = "running"
      <3>1. Claimed(s).step = [record.step EXCEPT ![s] = "running"]  BY <1>f, <2>1 DEF Record
      <3> QED BY <1>c, <3>1
    <2>5. record.run[Compile] # NoRun \/ record.step[Compile] = "pending"
      BY <1>f, <1>c, <1>2 DEF BackedBy, Ambiguous
    <2> QED BY <1>2, <2>1, <2>2, <2>3, <2>4, <2>5
  <1>3. CASE s # Compile /\ record.step[s] # "completed"
    <2>1. Claimed(s) = [record EXCEPT !.step[s] = "running", !.state = @]
      BY <1>3 DEF Claimed
    <2>2. Claimed(s) = [record EXCEPT !.step[s] = "running"]
      BY <1>f, <2>1 DEF Record
    <2>3. BackedBy(Claimed(s), status, purpose)
      <3>1. BackedBy([record EXCEPT !.step[s] = "running"], status, purpose)
        BY <1>f, <1>3, StepBacked
      <3> QED BY <2>2, <3>1
    <2>4. Claimed(s) \in Record /\ Claimed(s).run = record.run /\ Claimed(s).state # "absent"
      BY <1>f, <2>2 DEF Record
    <2>5. Claimed(s).step[Compile] = record.step[Compile]
      <3>1. Claimed(s).step = [record.step EXCEPT ![s] = "running"]  BY <1>f, <2>2 DEF Record
      <3> QED BY <1>f, <1>3, <3>1, CopyType
    <2> QED BY <1>3, <2>3, <2>4, <2>5
  <1> QED BY <1>1, <1>2, <1>3

LEMMA ClaimKeeps ==
  ASSUME TypeOK, RunsBacked, NEW c \in Caller, Claim(c)
  PROVE  RunsBacked'
  <1> USE StepFacts
  <1>s. pc[c] = "step" /\ UNCHANGED <<status, purpose>>
    BY DEF Claim, axernVars
  <1>f. /\ held[c] \in Record /\ record \in Record /\ at[c] \in Step /\ Placed(c) /\ OneClaim
        /\ BackedBy(held[c], status, purpose) /\ BackedBy(record, status, purpose)
    BY CallerFacts
  <1>g. Grows /\ SameCompileRuns  BY <1>s, Still
  <1>1. PICK s \in Step : /\ Due(c, s)
                          /\ IF Open /\ ~Ambiguous(s) THEN Claims(c, s)
                                                     ELSE Raise(c) /\ UNCHANGED record
    BY DEF Claim
  <1>2. CASE Raise(c) /\ UNCHANGED record
    BY <1>s, <1>2, LeaveKeeps DEF Raise
  <1>3. CASE Open /\ ~Ambiguous(s) /\ Claims(c, s)
    <2>1. /\ pc'[c] = "live" /\ held'[c] = Claimed(s) /\ at'[c] = s /\ Alone(c)
          /\ record' = Claimed(s)
      BY <1>3 DEF Claims, Goto, TypeOK, Alone
    <2>2. /\ Claimed(s) \in Record /\ BackedBy(Claimed(s), status, purpose)
          /\ Claimed(s).run = record.run
          /\ s = Compile => Claimed(s).step[Compile] # "pending"
          /\ s # Compile => Claimed(s).step[Compile] = record.step[Compile]
          /\ s = Compile => \/ record.run[Compile] # NoRun
                            \/ /\ record.step[Compile] = "pending"
                               /\ Claimed(s).step[Compile] = "running"
      BY <1>3, ClaimedBacked
    <2>3. s # Compile => Accepted /\ record.run[Compile] # NoRun
      <3>1. ASSUME s # Compile PROVE at[c] # Compile \/ held[c].step[Compile] = "completed"
        <4>1. Compile \notin Ahead(c)  BY <1>1, <3>1 DEF Due, Step, Compile, Branch
        <4> QED BY <1>f, <4>1 DEF Ahead, Uncompleted, Compile
      <3>2. CASE at[c] # Compile
        BY <1>f, <1>s, <3>2 DEF Placed
      <3>3. CASE held[c].step[Compile] = "completed"
        <4>1. held[c].run[Compile] # NoRun /\ status[held[c].run[Compile]] = "succeeded"
          BY <1>f, <3>3 DEF BackedBy
        <4> QED BY <1>f, <1>s, <4>1, NamedNotFresh DEF Placed, CopyBacked
      <3> QED BY <3>1, <3>2, <3>3
    <2>4. record.run[Compile] # NoRun => ~Fresh /\ record.step[Compile] # "pending"
      BY <1>f, NamedNotFresh, PendingUnnamed DEF CopyBacked
    <2>5. \A d \in Caller \ {c} : CopyBacked(held[d])' /\ Placed(d)' /\ (Claimant(d)' <=> Claimant(d))
      BY <1>g, <2>1, <2>2, OthersKept, CallerFacts
    <2>6. CopyBacked(record)' /\ CopyBacked(held[c])'
      BY <1>s, <2>1, <2>2 DEF CopyBacked
    <2>7. Placed(c)'
      <3>1. Accepted => Accepted'  BY <1>s DEF Accepted, CompileRun
      <3> QED BY <2>1, <2>2, <2>3, <2>4, <3>1 DEF Placed, Waiting, Holding
    <2>8. OneClaim'
      <3>1. CASE record.run[Compile] # NoRun
        <4>1. \A d \in Caller : ~Claimant(d)  BY <1>f, <2>4, <3>1, Unclaimed
        <4>2. ~Claimant(c)'
          BY <2>1, <2>2, <3>1 DEF Claimant, Mine
        <4> QED BY <1>f, <1>g, <2>1, <2>2, <2>4, <2>5, <3>1, <4>1, <4>2, ClaimSaved
      <3>2. CASE s = Compile /\ record.run[Compile] = NoRun
        <4>1. /\ record.step[Compile] = "pending" /\ record'.step[Compile] = "running"
              /\ record'.run[Compile] = NoRun
          BY <2>1, <2>2, <3>2
        <4>2. Fresh /\ \A d \in Caller : pc[d] \in Waiting  BY <1>f, <4>1 DEF OneClaim
        <4>3. Fresh' /\ \A d \in Caller \ {c} : pc'[d] \in Waiting
          BY <1>g, <2>1, <4>2 DEF Fresh, SameCompileRuns, Alone
        <4>4. \A d \in Caller \ {c} : ~Claimant(d)'
          BY <4>3 DEF Claimant, Waiting
        <4> QED BY <1>f, <1>g, <4>1, <4>3, <4>4 DEF OneClaim, SameCompileRuns
      <3> QED BY <2>3, <3>1, <3>2
    <2> QED BY <2>5, <2>6, <2>7, <2>8 DEF RunsBacked, CallersBacked
  <1> QED BY <1>1, <1>2, <1>3

LEMMA CreateKeeps ==
  ASSUME TypeOK, RunsBacked, NEW c \in Caller, CreateRun(c)
  PROVE  RunsBacked'
  <1> USE StepFacts
  <1>s. pc[c] = "create" /\ record' = record
    BY DEF CreateRun, recordVars
  <1>f. /\ held[c] \in Record /\ record \in Record /\ at[c] \in Step /\ Placed(c) /\ OneClaim
        /\ BackedBy(held[c], status, purpose) /\ BackedBy(record, status, purpose)
    BY CallerFacts
  <1>m. held[c].run[at[c]] = NoRun  BY <1>s, <1>f DEF Placed, Mine
  <1>1. PICK r \in RunId :
          /\ status[r] = "absent"
          /\ status' = [status EXCEPT ![r] = "waiting"]
          /\ purpose' = [purpose EXCEPT ![r] = at[c]]
          /\ \/ /\ Goto(c, "create", "bind")
                /\ held' = [held EXCEPT ![c].run[at[c]] = r]
                /\ UNCHANGED at
             \/ Raise(c)
    BY DEF CreateRun
  <1>g. /\ Grows /\ (at[c] # Compile => SameCompileRuns)
        /\ \A q \in RunId : CompileRun(q)' => CompileRun(q) \/ q = r
        /\ status'[r] = "waiting" /\ purpose'[r] = at[c]
    BY <1>f, <1>1, CreateGrows
  <1>2. BackedBy(record, status', purpose') /\ BackedBy(held[c], status', purpose')
    BY <1>f, <1>g, BackedGrows DEF CopyBacked
  <1>3. at[c] # Compile => Accepted /\ ~Fresh /\ record.run[Compile] # NoRun
    BY <1>f, <1>s, NamedNotFresh DEF Placed, CopyBacked
  \* The caller afterwards.
  <1>4. /\ Alone(c) /\ Placed(c)' /\ CopyBacked(held[c])' /\ pc'[c] \notin {"live", "create"}
    <2>1. CASE Leave(c, "raise")
      BY <2>1, LeaverPlaced DEF Waiting
    <2>2. CASE /\ Goto(c, "create", "bind") /\ at' = at
               /\ held' = [held EXCEPT ![c].run[at[c]] = r]
      <3> DEFINE e == [held[c] EXCEPT !.run[at[c]] = r]
      <3>1. pc'[c] = "bind" /\ held'[c] = e /\ at'[c] = at[c] /\ Alone(c)
        BY <2>2 DEF Goto, TypeOK, Alone
      <3>2. BackedBy(e, status', purpose')
        BY <1>f, <1>g, <1>m, <1>2, RunBacked
      <3>3. e.step = held[c].step /\ e.run = [held[c].run EXCEPT ![at[c]] = r]
        BY <1>f DEF Record
      <3>4. DOMAIN held[c].run = Step  BY <1>f, CopyType
      <3> HIDE DEF e
      <3>5. /\ e.run[at[c]] = r /\ r # NoRun
            /\ \A t \in Step : t # at[c] => e.run[t] = held[c].run[t]
        BY <1>f, <3>3, <3>4, NoRunAssumption
      <3>6. Accepted => Accepted'  BY <1>g DEF Accepted, CompileRun, Grows, Ended
      <3>7. Placed(c)'
        BY <1>s, <1>f, <1>3, <3>1, <3>3, <3>5, <3>6 DEF Placed, Mine, Waiting, Holding
      <3>8. CopyBacked(held[c])'  BY <3>1, <3>2 DEF CopyBacked
      <3> QED BY <3>1, <3>7, <3>8
    <2> QED BY <1>1, <2>1, <2>2 DEF Raise
  <1>5. \A d \in Caller \ {c} : CopyBacked(held[d])' /\ Placed(d)' /\ (Claimant(d)' <=> Claimant(d))
    BY <1>s, <1>g, <1>4, OthersKept, CallerFacts
  <1>6. ~Claimant(c)'  BY <1>4 DEF Claimant
  <1>7. OneClaim'
    <2>1. CASE at[c] # Compile
      <3>1. \A d \in Caller : ~Claimant(d)  BY <1>f, <1>3, <2>1, Unclaimed
      <3>2. record'.step[Compile] # "pending"  BY <1>s, <1>f, <1>3, <2>1 DEF OneClaim
      <3> QED BY <1>f, <1>g, <1>5, <1>6, <2>1, <3>1, <3>2, ClaimSaved
    <2>2. CASE at[c] = Compile
      <3>1. Claimant(c)  BY <1>s, <1>m, <2>2 DEF Claimant, Mine
      <3>2. /\ Fresh /\ record.step[Compile] = "running"
            /\ \A d \in Caller \ {c} : pc[d] \in Waiting
        BY <1>f, <3>1 DEF OneClaim
      <3>3. \A d \in Caller : ~Claimant(d)'
        BY <1>5, <1>6, <3>2 DEF Claimant, Waiting
      <3>4. \A q \in RunId : CompileRun(q)' => q = r
        BY <1>g, <3>2 DEF Fresh
      <3> QED BY <1>s, <3>2, <3>3, <3>4 DEF OneClaim
    <2> QED BY <2>1, <2>2
  <1> QED BY <1>s, <1>2, <1>4, <1>5, <1>7 DEF RunsBacked, CallersBacked, CopyBacked

LEMMA BindKeeps ==
  ASSUME TypeOK, RunsBacked, NEW c \in Caller, NEW from \in {"bind", "rebind"},
         NEW to \in {"primary", "reprimary", "await", "release"},
         SaveLiveOr(c, from, held[c], to, "abort")
  PROVE  RunsBacked'
  <1>f. /\ held[c] \in Record /\ at[c] \in Step /\ Placed(c) /\ CopyBacked(held[c])
    BY CallerFacts DEF CopyBacked
  <1>1. CASE Saved(c, from, held[c], to)
    <2>1. pc[c] = from  BY <1>1 DEF Saved, Goto
    <2>2. /\ held[c].step[Compile] # "pending" /\ held[c].run[Compile] # NoRun
          /\ held[c].run[at[c]] # NoRun /\ (at[c] # Compile => Accepted)
      BY <1>f, <2>1 DEF Placed, Mine, Waiting, Holding
    <2>3. from \notin Waiting \union {"live", "create"}  BY DEF Waiting
    <2>4. to \notin {"live", "create", "idle", "verify", "raise", "publish", "lastDelete",
                     "complete", "reject"}
      OBVIOUS
    <2> QED BY <1>1, <1>f, <2>2, <2>3, <2>4, SaveKeeps
  <1>2. CASE Refused(c, from) /\ Goto(c, from, "abort") /\ UNCHANGED <<held, at>>
    <2>1. /\ pc[c] = from /\ pc' = [pc EXCEPT ![c] = "abort"] /\ record' = record
          /\ held' = held /\ at' = at /\ UNCHANGED <<status, purpose>>
      BY <1>2 DEF Refused, Goto, recordVars, axernVars
    <2>2. Grows /\ SameCompileRuns  BY <2>1, Still
    <2>3. Placed(c)'  BY <1>f, <2>1, <2>2, MovePlaced DEF Waiting, Holding
    <2> QED BY <2>1, <2>2, <2>3, MoveKeeps DEF Waiting
  <1> QED BY <1>1, <1>2 DEF SaveLiveOr

\* A caller that goes on to another place with the Run of its step, while that Run
\* may go on too.
LEMMA GoKeeps ==
  ASSUME TypeOK, RunsBacked, NEW c \in Caller,
         NEW to \in {"primary", "await", "rebind", "reprimary", "release", "abort", "follow", "result"},
         pc[c] \in Holding \ {"bind", "abort"}, pc' = [pc EXCEPT ![c] = to],
         record' = record, held' = held, at' = at, Grows, SameCompileRuns
  PROVE  RunsBacked'
  <1>1. Placed(c)  BY CallerFacts
  <1>2. Placed(c)'  BY <1>1, MovePlaced DEF Waiting, Holding
  <1> QED BY <1>2, MoveKeeps DEF Waiting, Holding

LEMMA PrepareKeeps ==
  ASSUME TypeOK, RunsBacked, NEW c \in Caller, Prepare(c)
  PROVE  RunsBacked'
  <1>f. Placed(c) /\ at[c] \in Step /\ held[c].run[at[c]] \in RunId \union {NoRun}  BY CallerFacts
  <1>1. CASE Enter(c)
    <2>1. /\ pc[c] = "idle" /\ pc' = [pc EXCEPT ![c] = "verify"] /\ record' = record
          /\ held' = held /\ at' = at /\ UNCHANGED <<status, purpose>>
      BY <1>1 DEF Enter, Goto, recordVars, axernVars
    <2>2. Grows /\ SameCompileRuns  BY <2>1, Still
    <2>3. pc'[c] = "verify"  BY <2>1 DEF TypeOK
    <2>4. Placed(c)'  BY <1>f, <2>1, <2>3 DEF Placed, Mine, Waiting, Holding
    <2> QED BY <2>1, <2>2, <2>4, MoveKeeps DEF Waiting
  <1>2. CASE RequireLive(c)
    <2>1. CASE Raise(c)
      BY <1>2, <2>1, LeaveKeeps DEF RequireLive, Raise, recordVars, axernVars
    <2>2. CASE Goto(c, "live", IF Mine(c) = NoRun THEN "create" ELSE "follow")
                  /\ held' = held /\ at' = at
      <3> DEFINE to == IF Mine(c) = NoRun THEN "create" ELSE "follow"
      <3>1. /\ pc[c] = "live" /\ pc' = [pc EXCEPT ![c] = to] /\ record' = record
            /\ held' = held /\ at' = at /\ UNCHANGED <<status, purpose>>
        BY <1>2, <2>2 DEF RequireLive, Goto, recordVars, axernVars
      <3>2. Grows /\ SameCompileRuns  BY <3>1, Still
      <3>3. pc'[c] = to  BY <3>1 DEF TypeOK
      <3>4. Accepted' <=> Accepted  BY <3>1 DEF Accepted, CompileRun
      <3>5. CASE Mine(c) = NoRun
        <4>1. pc'[c] = "create" /\ pc' = [pc EXCEPT ![c] = "create"]  BY <3>1, <3>3, <3>5
        <4>2. Placed(c)'  BY <1>f, <3>1, <3>4, <3>5, <4>1 DEF Placed, Mine, Waiting, Holding
        <4> QED BY <3>1, <3>2, <4>1, <4>2, MoveKeeps DEF Waiting
      <3>6. CASE Mine(c) # NoRun
        <4>1. pc'[c] = "follow" /\ pc' = [pc EXCEPT ![c] = "follow"]  BY <3>1, <3>3, <3>6
        <4>2. Placed(c)'  BY <1>f, <3>1, <3>4, <3>6, <4>1 DEF Placed, Mine, Waiting, Holding
        <4> QED BY <3>1, <3>2, <4>1, <4>2, MoveKeeps DEF Waiting
      <3> QED BY <3>5, <3>6
    <2> QED BY <1>2, <2>1, <2>2 DEF RequireLive
  <1>3. CASE CreateRunFails(c)
    BY <1>3, LeaveKeeps DEF CreateRunFails, Raise, recordVars, axernVars
  <1>4. CASE Bind(c)
    BY <1>4, BindKeeps DEF Bind
  <1>5. CASE BindPrimary(c) \/ AwaitRunning(c) \/ PreparationFails(c)
    <2>1. /\ record' = record /\ held' = held /\ at' = at /\ UNCHANGED <<status, purpose>>
          /\ pc[c] \in {"primary", "reprimary", "await", "release"}
          /\ \E to \in {"await", "release", "abort", "rebind"} : pc' = [pc EXCEPT ![c] = to]
      BY <1>5 DEF BindPrimary, AwaitRunning, PreparationFails, Goto, recordVars, axernVars
    <2>2. Grows /\ SameCompileRuns  BY <2>1, Still
    <2> QED BY <2>1, <2>2, GoKeeps DEF Holding
  <1>6. CASE Release(c)
    <2>1. /\ record' = record /\ held' = held /\ at' = at /\ pc[c] = "release"
          /\ \E to \in {"follow", "abort"} : pc' = [pc EXCEPT ![c] = to]
          /\ status[Mine(c)] = "waiting" /\ purpose' = purpose
          /\ status' = [status EXCEPT ![Mine(c)] = "executing"]
      BY <1>6 DEF Release, Goto, recordVars
    <2>2. Mine(c) \in RunId  BY <1>f, <2>1 DEF Mine, Placed, Holding
    <2>3. Grows /\ SameCompileRuns  BY <2>1, <2>2, StatusGrows DEF Ended
    <2> QED BY <2>1, <2>3, GoKeeps DEF Holding
  <1>7. CASE Abort(c)
    BY <1>7, LeaveKeeps DEF Abort, Raise, recordVars
  <1>8. CASE Initialize(c) \/ Claim(c) \/ CreateRun(c)
    BY <1>8, InitializeKeeps, ClaimKeeps, CreateKeeps
  <1> QED BY <1>1, <1>2, <1>3, <1>4, <1>5, <1>6, <1>7, <1>8 DEF Prepare

\* A caller that records an outcome of its step, and has its Run.
LEMMA PublishKeeps ==
  ASSUME TypeOK, RunsBacked, NEW c \in Caller, NEW from, NEW to \in {"step", "delete", "finish"},
         NEW copy \in Record, SaveLive(c, from, copy, to),
         from \notin Waiting \union {"live", "create"},
         CopyBacked(copy), copy.run = held[c].run, copy.step[Compile] # "pending"
  PROVE  RunsBacked'
  <1>1. pc[c] = from /\ Placed(c)  BY CallerFacts DEF SaveLive, Saved, Refused, Goto
  <1>2. copy.run[Compile] # NoRun /\ (at[c] # Compile => Accepted)
    BY <1>1 DEF Placed, Waiting
  <1>3. /\ to \notin {"live", "create", "idle", "verify", "raise", "publish", "lastDelete",
                      "complete", "reject"}
        /\ to \notin Holding
    BY DEF Holding
  <1> QED BY <1>2, <1>3, SaveLiveKeeps

\* What a caller at the end of its step holds.
LEMMA HolderFacts ==
  ASSUME TypeOK, RunsBacked, NEW c \in Caller, pc[c] \notin Waiting \union {"live", "create"}
  PROVE  /\ held[c].run[Compile] # NoRun /\ held[c].step[Compile] # "pending"
         /\ held[c].state # "absent" /\ (at[c] # Compile => Accepted)
         /\ pc[c] \in Holding => held[c].run[at[c]] # NoRun
  BY CallerFacts DEF Placed, Mine, BackedBy, Waiting, Holding

LEMMA StepSet ==
  ASSUME NEW copy \in Record, NEW s \in Step, NEW x, NEW y
  PROVE  /\ [copy EXCEPT !.step[s] = x, !.state = y].run = copy.run
         /\ [copy EXCEPT !.step[s] = x].run = copy.run
         /\ \A t \in Step : /\ [copy EXCEPT !.step[s] = x, !.state = y].step[t] =
                                  IF t = s THEN x ELSE copy.step[t]
                            /\ [copy EXCEPT !.step[s] = x].step[t] = IF t = s THEN x ELSE copy.step[t]
         /\ [copy EXCEPT !.step[s] = x, !.state = y] =
               [[copy EXCEPT !.step[s] = x] EXCEPT !.state = y]
  <1> DEFINE e == [copy EXCEPT !.step[s] = x, !.state = y]
             f == [copy EXCEPT !.step[s] = x]
  <1>1. e.run = copy.run /\ f.run = copy.run  BY DEF Record
  <1>2. e.step = [copy.step EXCEPT ![s] = x] /\ f.step = [copy.step EXCEPT ![s] = x]
    BY DEF Record
  <1>3. DOMAIN copy.step = Step  BY CopyType
  <1>4. e = [f EXCEPT !.state = y]  BY DEF Record
  <1>5. \A t \in Step : /\ e.step[t] = IF t = s THEN x ELSE copy.step[t]
                        /\ f.step[t] = IF t = s THEN x ELSE copy.step[t]
    <2> HIDE DEF e, f
    <2> QED BY <1>2, <1>3
  <1> QED BY <1>1, <1>4, <1>5

LEMMA FailedBacked ==
  ASSUME NEW copy \in Record, CopyBacked(copy)
  PROVE  /\ Failed(copy) \in Record /\ CopyBacked(Failed(copy))
         /\ Failed(copy).run = copy.run /\ Failed(copy).step = copy.step
  <1> DEFINE a == [copy EXCEPT !.state = "infrastructure_failed"]
             b == [a EXCEPT !.cleanup = "running"]
  <1>1. a \in Record /\ b \in Record /\ Failed(copy) = b
    <2>1. a \in Record  BY StepFacts, CopyType
    <2>2. b \in Record
      <3> HIDE DEF a
      <3> QED BY <2>1, StepFacts, CopyType
    <2>3. Failed(copy) = b  BY DEF Failed, Record
    <2> QED BY <2>1, <2>2, <2>3
  <1>2. BackedBy(a, status, purpose)  BY FieldBacked DEF CopyBacked
  <1>3. BackedBy(b, status, purpose)
    <2> HIDE DEF a
    <2> QED BY <1>1, <1>2, FieldBacked
  <1>4. b.run = copy.run /\ b.step = copy.step  BY DEF Record
  <1> QED BY <1>1, <1>3, <1>4 DEF CopyBacked

LEMMA EvaluateKeeps ==
  ASSUME TypeOK, RunsBacked, NEW c \in Caller, Evaluate(c)
  PROVE  RunsBacked'
  <1> USE StepFacts
  <1> DEFINE h == held[c]
  <1>f. /\ h \in Record /\ at[c] \in Step /\ Placed(c) /\ BackedBy(h, status, purpose)
        /\ CopyBacked(h)
    BY CallerFacts DEF CopyBacked
  <1>w. {"result", "loaded", "reject"} \subseteq Holding \ Waiting  BY DEF Holding, Waiting
  <1>h. ASSUME pc[c] \in {"result", "loaded", "reject"}
        PROVE  /\ h.run[Compile] # NoRun /\ h.step[Compile] # "pending" /\ h.state # "absent"
               /\ h.run[at[c]] # NoRun /\ (at[c] # Compile => Accepted)
    BY <1>w, <1>h, HolderFacts
  <1>1. CASE Follow(c)
    <2>1. /\ record' = record /\ held' = held /\ at' = at /\ UNCHANGED <<status, purpose>>
          /\ pc[c] = "follow" /\ pc' = [pc EXCEPT ![c] = "result"]
      BY <1>1 DEF Follow, Goto, recordVars, axernVars
    <2> QED BY <2>1, Still, GoKeeps DEF Holding
  <1>2. CASE FollowFails(c) \/ DownloadFails(c)
    BY <1>2, LeaveKeeps DEF FollowFails, DownloadFails, Raise, recordVars, axernVars
  <1>3. CASE RejectCandidate(c)
    <2> DEFINE e == [h EXCEPT !.step[Compile] = "business_failed", !.state = "aggregating"]
    <2>1. /\ pc[c] = "result" /\ at[c] = Compile /\ status[h.run[Compile]] = "rejected"
          /\ SaveLive(c, "result", e, "reject")
      BY <1>3 DEF RejectCandidate, At, Mine
    <2>2. e.run = h.run /\ e.step[Compile] = "business_failed"
      <3>1. e.run = h.run /\ e.step = [h.step EXCEPT ![Compile] = "business_failed"]  BY <1>f DEF Record
      <3>2. DOMAIN h.step = Step  BY <1>f, CopyType
      <3> HIDE DEF e
      <3> QED BY <3>1, <3>2
    <2>3. BackedBy(e, status, purpose)
      <3>1. h.run[Compile] # NoRun  BY <1>h, <2>1
      <3> HIDE DEF h
      <3> QED BY <1>f, <2>1, <3>1, StepAndStateBacked
    <2>4. e \in Record
      <3>1. [h EXCEPT !.step[Compile] = "business_failed"] \in Record  BY <1>f, CopyType
      <3>2. e = [[h EXCEPT !.step[Compile] = "business_failed"] EXCEPT !.state = "aggregating"]
        BY <1>f, StepSet
      <3> QED BY <3>1, <3>2, CopyType
    <2> HIDE DEF e
    <2> QED BY <1>w, <1>h, <2>1, <2>2, <2>3, <2>4, SaveLiveKeeps DEF CopyBacked
  <1>4. CASE FinishRejected(c)
    <2> DEFINE e == [h EXCEPT !.cleanup = "not_created", !.state = "completed"]
    <2>1. SaveLive(c, "reject", e, "finish") /\ pc[c] = "reject"
      BY <1>4 DEF FinishRejected, SaveLive, Saved, Refused, Goto
    <2>2. h.run[Compile] # NoRun /\ status[h.run[Compile]] = "rejected" /\ h.step[Compile] # "pending"
      BY <1>f, <1>h, <2>1 DEF Placed, Mine
    <2>3. e.run = h.run /\ e.step = h.step  BY <1>f DEF Record
    <2>4. BackedBy(e, status, purpose)
      <3> HIDE DEF h
      <3> QED BY <1>f, <2>2, VerdictBacked
    <2>5. e \in Record  BY <1>f DEF Record
    <2> HIDE DEF e
    <2> QED BY <1>w, <2>1, <2>2, <2>3, <2>4, <2>5, PublishKeeps DEF CopyBacked, Holding
  <1>5. CASE PublishEnvironment(c)
    <2> DEFINE e == [h EXCEPT !.derived = TRUE]
    <2>1. /\ pc[c] = "result" /\ at[c] = Compile /\ status[h.run[Compile]] \in Sealed
          /\ SaveLiveOr(c, "result", e, "loaded", "discard")
      BY <1>5 DEF PublishEnvironment, At, Mine
    <2>2. e.run = h.run /\ e.step = h.step /\ e \in Record  BY <1>f DEF Record
    <2>3. BackedBy(e, status, purpose)
      <3>1. h.run[Compile] # NoRun  BY <1>h, <2>1
      <3> HIDE DEF h
      <3> QED BY <1>f, <2>1, <3>1, FieldBacked
    <2>4. CASE Saved(c, "result", e, "loaded")
      <3> HIDE DEF e
      <3> QED BY <1>w, <1>h, <2>1, <2>2, <2>3, <2>4, SaveKeeps DEF CopyBacked, Holding
    <2>5. CASE Refused(c, "result") /\ Goto(c, "result", "discard") /\ UNCHANGED <<held, at>>
      <3>1. /\ pc' = [pc EXCEPT ![c] = "discard"] /\ record' = record
            /\ held' = held /\ at' = at /\ UNCHANGED <<status, purpose>>
        BY <2>5 DEF Refused, Goto, recordVars, axernVars
      <3>2. Grows /\ SameCompileRuns  BY <3>1, Still
      <3>3. Placed(c)'  BY <1>f, <2>1, <3>1, <3>2, MovePlaced DEF Waiting, Holding
      <3> QED BY <2>1, <3>1, <3>2, <3>3, MoveKeeps DEF Waiting
    <2> QED BY <2>1, <2>4, <2>5 DEF SaveLiveOr
  <1>6. CASE AcceptCompile(c)
    <2> DEFINE e == [h EXCEPT !.step[Compile] = "completed", !.state = "branches_running"]
    <2>1. /\ pc[c] = "loaded" /\ at[c] = Compile /\ status[h.run[Compile]] = "succeeded"
          /\ SaveLive(c, "loaded", e, "step")
      BY <1>6 DEF AcceptCompile, At, Mine
    <2>2. e.run = h.run /\ e.step[Compile] = "completed"
      <3>1. e.run = h.run /\ e.step = [h.step EXCEPT ![Compile] = "completed"]  BY <1>f DEF Record
      <3>2. DOMAIN h.step = Step  BY <1>f, CopyType
      <3> HIDE DEF e
      <3> QED BY <3>1, <3>2
    <2>3. BackedBy(e, status, purpose)
      <3>1. h.run[Compile] # NoRun  BY <1>h, <2>1
      <3> HIDE DEF h
      <3> QED BY <1>f, <2>1, <3>1, StepAndStateBacked
    <2>4. e \in Record
      <3>1. [h EXCEPT !.step[Compile] = "completed"] \in Record  BY <1>f, CopyType
      <3>2. e = [[h EXCEPT !.step[Compile] = "completed"] EXCEPT !.state = "branches_running"]
        BY <1>f, StepSet
      <3> QED BY <3>1, <3>2, CopyType
    <2> HIDE DEF e
    <2> QED BY <1>w, <2>1, <2>2, <2>3, <2>4, PublishKeeps DEF CopyBacked, Holding
  <1>7. CASE SaveFailure(c)
    <2> DEFINE e == [h EXCEPT !.step[at[c]] = "infrastructure_failed"]
    <2>1. pc[c] \in {"result", "loaded"}
             /\ \/ SaveLive(c, pc[c], Failed(h), "delete")
                \/ at[c] \in Branch /\ SaveLive(c, pc[c], Failed(e), "delete")
      BY <1>7 DEF SaveFailure, At
    <2>2. CASE SaveLive(c, pc[c], Failed(h), "delete")
      <3> HIDE DEF h
      <3> QED BY <1>f, <1>w, <1>h, <2>1, <2>2, FailedBacked, PublishKeeps DEF Holding, h
    <2>3. CASE at[c] \in Branch /\ SaveLive(c, pc[c], Failed(e), "delete")
      <3>1. e.run = h.run /\ e.step[Compile] = h.step[Compile]  BY <1>f, <2>3, StepSet
      <3>2. e \in Record  BY <1>f, CopyType
      <3>3. BackedBy(e, status, purpose)
        <4>1. h.state # "absent"  BY <1>h, <2>1
        <4> HIDE DEF h
        <4> QED BY <1>f, <2>3, <4>1, StepBacked
      <3>4. Failed(e) \in Record /\ CopyBacked(Failed(e)) /\ Failed(e).run = e.run
               /\ Failed(e).step = e.step
        <4> HIDE DEF e
        <4> QED BY <3>2, <3>3, FailedBacked DEF CopyBacked
      <3> HIDE DEF e
      <3> QED BY <1>w, <1>h, <2>1, <2>3, <3>1, <3>4, PublishKeeps DEF Holding
    <2> QED BY <2>1, <2>2, <2>3
  <1>8. CASE BranchFails(c)
    <2> DEFINE e == [h EXCEPT !.cleanup = "running"]
    <2>1. pc[c] = "result" /\ SaveLive(c, "result", e, "delete")
      BY <1>8 DEF BranchFails, At
    <2>2. e.run = h.run /\ e.step = h.step /\ e \in Record  BY <1>f DEF Record
    <2>3. BackedBy(e, status, purpose)
      <3> HIDE DEF h
      <3> QED BY <1>f, FieldBacked
    <2> HIDE DEF e
    <2> QED BY <1>w, <1>h, <2>1, <2>2, <2>3, PublishKeeps DEF CopyBacked, Holding
  <1>9. CASE AcceptBranch(c)
    <2> DEFINE e == [h EXCEPT !.step[at[c]] = "completed"]
    <2>1. /\ pc[c] = "result" /\ at[c] \in Branch /\ status[h.run[at[c]]] = "succeeded"
          /\ SaveLive(c, "result", e, "step")
      BY <1>9 DEF AcceptBranch, At, Mine
    <2>2. e.run = h.run /\ e.step[Compile] = h.step[Compile]  BY <1>f, <2>1, StepSet
    <2>3. e \in Record  BY <1>f, CopyType
    <2>4. BackedBy(e, status, purpose)
      <3>1. h.state # "absent" /\ h.run[at[c]] # NoRun  BY <1>h, <2>1
      <3> HIDE DEF h
      <3> QED BY <1>f, <2>1, <3>1, StepBacked DEF h
    <2> HIDE DEF e
    <2> QED BY <1>w, <1>h, <2>1, <2>2, <2>3, <2>4, PublishKeeps DEF CopyBacked, Holding
  <1> QED BY <1>1, <1>2, <1>3, <1>4, <1>5, <1>6, <1>7, <1>8, <1>9 DEF Evaluate

\* With one compile Run at most, the one that succeeded is the one a copy names.
LEMMA CompileSucceeded ==
  ASSUME OneClaim, Accepted, NEW copy \in Record, CopyBacked(copy), copy.run[Compile] # NoRun
  PROVE  status[copy.run[Compile]] = "succeeded"
  <1>1. copy.run[Compile] \in RunId  BY StepFacts, CopyType
  <1>2. CompileRun(copy.run[Compile])  BY NamedNotFresh
  <1> QED BY <1>1, <1>2 DEF OneClaim, Accepted

LEMMA ConcludeKeeps ==
  ASSUME TypeOK, RunsBacked, NEW c \in Caller, Conclude(c)
  PROVE  RunsBacked'
  <1> USE StepFacts
  <1> DEFINE h == held[c]
  <1>f. /\ h \in Record /\ at[c] \in Step /\ Placed(c) /\ BackedBy(h, status, purpose)
        /\ CopyBacked(h) /\ OneClaim /\ record \in Record /\ CopyBacked(record)
    BY CallerFacts DEF CopyBacked
  <1>h. ASSUME pc[c] \notin Waiting \union {"live", "create"}
        PROVE  /\ h.run[Compile] # NoRun /\ h.step[Compile] # "pending"
               /\ (at[c] # Compile => Accepted)
    BY <1>h, HolderFacts
  <1>1. CASE Aggregate(c)
    <2> DEFINE e == [h EXCEPT !.state = "aggregating"]
    <2>1. pc[c] = "step" /\ Ahead(c) = {} /\ SaveLive(c, "step", e, "publish")
      BY <1>1 DEF Aggregate, SaveLive, Saved, Refused, Goto
    <2>2. at[c] # Compile \/ h.step[Compile] = "completed"
      BY <1>f, <2>1 DEF Ahead, Uncompleted, Compile
    <2>3. Accepted /\ h.run[Compile] # NoRun /\ h.step[Compile] # "pending"
      <3>1. CASE at[c] # Compile  BY <1>f, <3>1 DEF Placed
      <3>2. CASE h.step[Compile] = "completed"
        BY <1>f, <3>2, NamedNotFresh DEF BackedBy
      <3> QED BY <2>2, <3>1, <3>2
    <2>4. ~Fresh  BY <1>f, <2>3, NamedNotFresh
    <2>5. e.run = h.run /\ e.step = h.step /\ e \in Record  BY <1>f DEF Record
    <2>6. BackedBy(e, status, purpose)
      <3> HIDE DEF h
      <3> QED BY <1>f, FieldBacked
    <2> HIDE DEF e
    <2> QED BY <2>1, <2>3, <2>4, <2>5, <2>6, SaveLiveKeeps DEF CopyBacked, Holding
  <1>2. CASE PublishDetails(c)
    <2> DEFINE e == [h EXCEPT !.cleanup = "running"]
    <2>1. /\ pc[c] = "publish" /\ Uncompleted(h) \subseteq {Compile}
          /\ SaveLive(c, "publish", e, "lastDelete")
      BY <1>2 DEF PublishDetails, SaveLive, Saved, Refused, Goto
    <2>2. Accepted /\ h.run[Compile] # NoRun /\ h.step[Compile] # "pending"
      BY <1>f, <1>h, <2>1 DEF Placed, Waiting
    <2>3. e.run = h.run /\ e.step = h.step /\ e \in Record  BY <1>f DEF Record
    <2>4. BackedBy(e, status, purpose)
      <3> HIDE DEF h
      <3> QED BY <1>f, FieldBacked
    <2>5. Uncompleted(e) \subseteq {Compile}  BY <2>1, <2>3 DEF Uncompleted
    <2> HIDE DEF e
    <2> QED BY <2>1, <2>2, <2>3, <2>4, <2>5, SaveLiveKeeps DEF CopyBacked, Holding, Waiting
  <1>3. CASE AggregationFails(c) \/ DeleteFails(c) \/ RecordFailure(c) \/ Crash(c) \/ Finish(c)
    BY <1>3, LeaveKeeps
       DEF AggregationFails, DeleteFails, RecordFailure, Crash, Finish, Raise, recordVars, axernVars
  <1>4. CASE DeleteEnvironment(c)
    <2>s. record' = record /\ UNCHANGED <<status, purpose>>
      BY <1>4 DEF DeleteEnvironment, recordVars
    <2>g. Grows /\ SameCompileRuns  BY <2>s, Still
    <2>1. CASE Goto(c, "delete", "settle") /\ UNCHANGED <<held, at>>
      <3>1. pc[c] = "delete" /\ pc' = [pc EXCEPT ![c] = "settle"] /\ held' = held /\ at' = at
        BY <2>1 DEF Goto
      <3>2. Placed(c)'  BY <1>f, <2>s, <2>g, <3>1, MovePlaced DEF Waiting, Holding
      <3> QED BY <2>s, <2>g, <3>1, <3>2, MoveKeeps DEF Waiting
    <2>2. CASE Goto(c, "lastDelete", "complete") /\ UNCHANGED <<held, at>>
      <3>1. pc[c] = "lastDelete" /\ pc' = [pc EXCEPT ![c] = "complete"] /\ held' = held /\ at' = at
        BY <2>2 DEF Goto
      <3>2. pc'[c] = "complete"  BY <3>1 DEF TypeOK
      <3>3. Accepted' <=> Accepted  BY <2>s DEF Accepted, CompileRun
      <3>4. Placed(c)'
        BY <1>f, <2>s, <3>1, <3>2, <3>3 DEF Placed, Mine, Uncompleted, Waiting, Holding
      <3> QED BY <2>s, <2>g, <3>1, <3>4, MoveKeeps DEF Waiting
    <2>3. CASE Raise(c)
      BY <2>s, <2>3, LeaveKeeps DEF Raise
    <2> QED BY <1>4, <2>1, <2>2, <2>3 DEF DeleteEnvironment
  <1>5. CASE Settle(c)
    <2> DEFINE a == [h EXCEPT !.cleanup = "completed"]
               e == [h EXCEPT !.cleanup = "completed", !.state = "infrastructure_failed"]
    <2>1. /\ pc[c] = "settle" /\ Leave(c, "raise") /\ UNCHANGED <<status, purpose>>
          /\ record' = record \/ record' = e
      BY <1>5 DEF Settle, Raise, axernVars
    <2>2. CASE record' = record
      BY <2>1, <2>2, LeaveKeeps
    <2>3. CASE record' = e
      <3>1. Grows /\ SameCompileRuns  BY <2>1, Still
      <3>2. h.run[Compile] # NoRun /\ h.step[Compile] # "pending"
        BY <1>h, <2>1 DEF Waiting
      <3>3. e.run = h.run /\ e.step = h.step  BY <1>f DEF Record
      <3>4. BackedBy(e, status, purpose)
        <4>1. a \in Record /\ BackedBy(a, status, purpose)
          <5> HIDE DEF h
          <5> QED BY <1>f, CopyType, FieldBacked
        <4>2. e = [a EXCEPT !.state = "infrastructure_failed"]  BY <1>f DEF Record
        <4> HIDE DEF a
        <4> QED BY <4>1, <4>2, FieldBacked
      <3> HIDE DEF e
      <3>5. Placed(c)' /\ CopyBacked(held[c])' /\ ~Claimant(c)' /\ Alone(c)
        BY <2>1, LeaverPlaced
      <3>6. \A d \in Caller \ {c} : CopyBacked(held[d])' /\ Placed(d)' /\ (Claimant(d)' <=> Claimant(d))
        BY <2>3, <3>1, <3>2, <3>3, <3>5, OthersKept, CallerFacts
      <3>7. \A d \in Caller : ~Claimant(d)
        BY <1>f, <2>1, Unclaimed DEF Waiting
      <3>8. OneClaim'
        BY <1>f, <2>3, <3>1, <3>2, <3>3, <3>5, <3>6, <3>7, ClaimSaved
      <3>9. CopyBacked(record)'  BY <2>1, <2>3, <3>4 DEF CopyBacked
      <3> QED BY <3>5, <3>6, <3>8, <3>9 DEF RunsBacked, CallersBacked
    <2> QED BY <2>1, <2>2, <2>3
  <1>6. CASE Complete(c)
    <2> DEFINE e == [h EXCEPT !.cleanup = "completed", !.state = "completed"]
    <2>1. pc[c] = "complete" /\ SaveLive(c, "complete", e, "finish")
      BY <1>6 DEF Complete, SaveLive, Saved, Refused, Goto
    <2>2. h.run[Compile] # NoRun /\ h.step[Compile] # "pending" /\ Accepted
             /\ Uncompleted(h) \subseteq {Compile}
      BY <1>f, <1>h, <2>1 DEF Placed, Waiting
    <2>3. \A s \in Step : h.run[s] # NoRun /\ status[h.run[s]] = "succeeded"
      <3>1. status[h.run[Compile]] = "succeeded"  BY <1>f, <2>2, CompileSucceeded
      <3>2. \A s \in Step : s = Compile \/ h.step[s] = "completed"  BY <2>2 DEF Uncompleted
      <3> QED BY <1>f, <2>2, <3>1, <3>2 DEF BackedBy
    <2>4. e.run = h.run /\ e.step = h.step /\ e \in Record  BY <1>f DEF Record
    <2>5. BackedBy(e, status, purpose)
      <3> HIDE DEF h
      <3> QED BY <1>f, <2>2, <2>3, VerdictBacked
    <2> HIDE DEF e
    <2> QED BY <2>1, <2>2, <2>4, <2>5, PublishKeeps DEF CopyBacked, Waiting
  <1> QED BY <1>1, <1>2, <1>3, <1>4, <1>5, <1>6 DEF Conclude

\* The cancel command and Axern leave what the record says of Runs as it is.
LEMMA OthersKeep ==
  ASSUME TypeOK, CancelOwnsRecord, RunsBacked, Canceller \/ Axern
  PROVE  RunsBacked'
  <1> USE StepFacts
  <1>s. pc' = pc /\ held' = held /\ at' = at
    BY DEF Canceller, BeginCancel, CancelPrimary, MarkCancelling, CancelRuns, CancelEnvironment,
           EndCancel, SaveCancelled, CancelFails, Axern, Exit, EndsEarly, callerVars
  <1>g. Grows /\ SameCompileRuns
    <2>1. CASE Canceller
      <3>1. UNCHANGED <<status, purpose>>
        BY <2>1 DEF Canceller, BeginCancel, CancelPrimary, MarkCancelling, CancelRuns,
                    CancelEnvironment, EndCancel, SaveCancelled, CancelFails, axernVars
      <3> QED BY <3>1, Still
    <2>2. CASE Axern
      <3>1. PICK r \in RunId, x \in Ended :
                    /\ status[r] \in {"waiting", "executing"}
                    /\ status' = [status EXCEPT ![r] = x] /\ purpose' = purpose
        BY <2>2 DEF Axern, Exit, EndsEarly, Ended
      <3> QED BY <3>1, StatusGrows DEF Ended
    <2> QED BY <2>1, <2>2
  <1>w. /\ record'.step = record.step /\ record'.run = record.run /\ record'.derived = record.derived
        /\ record'.state \in {record.state, "cancelling", "cancelled"}
    BY OthersWrite
  <1>1. BackedBy(record, status', purpose')
    BY <1>g, BackedGrows DEF RunsBacked, TypeOK
  <1>2. BackedBy(record', status', purpose')
    BY <1>w, <1>1 DEF BackedBy
  <1>3. \A d \in Caller : CopyBacked(held[d])' /\ Placed(d)'
    <2> SUFFICES ASSUME NEW d \in Caller PROVE CopyBacked(held[d])' /\ Placed(d)'
      OBVIOUS
    <2>1. Placed(d)'  BY <1>s, <1>g, <1>w, PlacedStays DEF RunsBacked, CallersBacked
    <2>2. BackedBy(held[d], status', purpose')
      BY <1>g, BackedGrows DEF RunsBacked, CallersBacked, TypeOK
    <2> QED BY <1>s, <2>1, <2>2 DEF CopyBacked
  <1>4. OneClaim'
    <2>1. \A d \in Caller : Claimant(d)' => Claimant(d)  BY <1>s DEF Claimant, Mine
    <2> QED BY <1>s, <1>g, <1>w, <2>1, ClaimStays DEF RunsBacked
  <1> QED BY <1>2, <1>3, <1>4 DEF RunsBacked, CallersBacked, CopyBacked

------------------------------------------------------------------------------
(* The theorems. *)

LEMMA BackedInit == Init => RecordIsBacked
  <1> SUFFICES ASSUME Init PROVE RecordIsBacked
    OBVIOUS
  <1>1. CancelOwnsRecord  BY DEF Init, CancelOwnsRecord
  <1>2. \A copy \in {Blank} : CopyBacked(copy)  BY BlankBacked DEF CopyBacked
  <1>3. OneClaim
    BY StepFacts DEF Init, OneClaim, CompileRun, Fresh, Claimant, Waiting
  <1>4. \A c \in Caller : Placed(c)
    BY StepFacts DEF Init, Placed, Waiting, Holding, Blank
  <1> QED BY <1>1, <1>2, <1>3, <1>4 DEF Init, RecordIsBacked

LEMMA BackedStep == TypeOK /\ RecordIsBacked /\ [Next]_vars => RecordIsBacked'
  <1> SUFFICES ASSUME TypeOK, RecordIsBacked, [Next]_vars PROVE RecordIsBacked'
    OBVIOUS
  <1>0. CancelOwnsRecord /\ RunsBacked
    BY DEF RecordIsBacked, RunsBacked, CallersBacked
  <1>1. CancelOwnsRecord'  BY <1>0, CancelStep
  <1>2. RunsBacked'
    <2>1. CASE UNCHANGED vars
      <3>1. UNCHANGED <<record, pc, held, at, status, purpose>>
        BY <2>1 DEF vars, recordVars, callerVars, axernVars
      <3> QED BY <1>0, <3>1
         DEF RunsBacked, CallersBacked, CopyBacked, OneClaim, Placed, Claimant, Mine, Fresh,
             CompileRun, Accepted, Uncompleted
    <2>2. CASE \E c \in Caller : Prepare(c) \/ Evaluate(c) \/ Conclude(c)
      BY <1>0, <2>2, PrepareKeeps, EvaluateKeeps, ConcludeKeeps
    <2>3. CASE Canceller \/ Axern
      BY <1>0, <2>3, OthersKeep
    <2> QED BY <2>1, <2>2, <2>3 DEF Next
  <1> QED BY <1>1, <1>2 DEF RecordIsBacked, RunsBacked, CallersBacked

\* What the record, and every copy of it that a caller holds, says of Runs is true,
\* and the compile step has one owner at a time.
THEOREM RecordBacked == Spec => []RecordIsBacked
  BY BackedInit, BackedStep, TypeCorrect, PTL DEF Spec

\* A verification that is completed rests on a compile Run that rejected the candidate
\* and left no Environment, or on a Run of its own for each step, that succeeded.
THEOREM VerdictsBacked == Spec => []CompletedIsBacked
  <1>1. TypeOK /\ RecordIsBacked => CompletedIsBacked
    <2> SUFFICES ASSUME TypeOK, RecordIsBacked, record.state = "completed"
                 PROVE  CompletedIsBacked
      BY DEF CompletedIsBacked
    <2>1. BackedBy(record, status, purpose)  BY DEF RecordIsBacked, CopyBacked
    <2> QED BY <2>1, StepFacts DEF BackedBy, CompletedIsBacked
  <1> QED BY <1>1, TypeCorrect, RecordBacked, PTL

\* However many callers verify at once, the candidate is compiled once.
THEOREM CompiledOnce == Spec => [](\A q, r \in RunsOf(Compile) : q = r)
  <1>1. RecordIsBacked => \A q, r \in RunsOf(Compile) : q = r
    BY DEF RecordIsBacked, OneClaim, CompileRun, RunsOf
  <1> QED BY <1>1, RecordBacked, PTL

------------------------------------------------------------------------------
(* Clean-up, with any number of callers: once the compile Run has ended there is *)
(* no other, so an Environment that was deleted does not come back.              *)

Closed(copy) == copy.state \in {"cancelling", "cancelled"}
Sealing == \E r \in RunId : CompileRun(r) /\ status[r] \in Sealed
Gone == environment # "exists" /\ \E r \in RunId : CompileRun(r) /\ RunEnded(r)

\* What is said of the Environment holds of every copy of the record, and whoever is about to
\* delete the Environment has seen it sealed.
CallerClean(c) ==
    /\ held[c].cleanup = "completed" => Gone
    /\ Closed(held[c]) => Closed(record)
    /\ pc[c] \in {"delete", "lastDelete", "discard"} => Sealing
    /\ pc[c] \in {"settle", "complete", "finish"} => Gone
RecordClean ==
    /\ record.cleanup = "completed" => Gone
    /\ record.state = "cancelled" /\ record.derived => Gone
    /\ canceller = "environment" => record.derived
    /\ canceller = "end" /\ record.derived => Gone
Clean ==
    /\ environment = "exists" => Sealing
    /\ phase = "completed" => Gone
    /\ RecordClean
    /\ \A c \in Caller : CallerClean(c)

\* Runs that go on keep what was sealed, and an Environment that is gone stays so.
LEMMA SealingStays ==
  ASSUME Grows
  PROVE  /\ Sealing => Sealing'
         /\ Gone /\ environment' \in {environment, "deleted"} => Gone'
  BY DEF Grows, Sealing, Gone, CompileRun, RunEnded, Sealed, Ended

\* What a caller has to show for its step.
LEMMA CleanKeeps ==
  ASSUME TypeOK, Clean, NEW c \in Caller, Alone(c), Grows,
         environment' \in {environment, "deleted"}, canceller' = canceller,
         phase' = "completed" => phase = "completed" \/ Gone',
         \/ record' = record
         \/ /\ StoreFree /\ (Closed(record) => Closed(record'))
            /\ record'.cleanup = "completed" => Gone'
            /\ record'.state = "cancelled" /\ record'.derived => Gone',
         CallerClean(c)'
  PROVE  Clean'
  <1>1. (Sealing => Sealing') /\ (Gone => Gone')  BY SealingStays
  <1>2. Closed(record) => Closed(record')  BY DEF Closed
  <1>3. RecordClean'
    <2>1. CASE record' = record  BY <1>1, <2>1 DEF Clean, RecordClean
    <2>2. CASE record' # record  BY <1>1, <2>2 DEF Clean, RecordClean, StoreFree
    <2> QED BY <2>1, <2>2
  <1>4. ASSUME NEW d \in Caller PROVE CallerClean(d)'
    <2>1. CASE d = c  BY <2>1
    <2>2. CASE d # c
      <3>1. held'[d] = held[d] /\ pc'[d] = pc[d]  BY <2>2 DEF Alone
      <3>2. CallerClean(d)  BY DEF Clean
      <3>3. Closed(held'[d]) => Closed(record')  BY <1>2, <3>1, <3>2 DEF CallerClean, Closed
      <3> QED BY <1>1, <3>1, <3>2, <3>3 DEF CallerClean
    <2> QED BY <2>1, <2>2
  <1>5. environment' = "exists" => Sealing'  BY <1>1 DEF Clean
  <1>6. phase' = "completed" => Gone'  BY <1>1 DEF Clean
  <1> QED BY <1>3, <1>4, <1>5, <1>6 DEF Clean

\* A caller that leaves.
LEMMA LeaveClean ==
  ASSUME TypeOK, Clean, NEW c \in Caller, NEW to \in {"idle", "raise"}, Leave(c, to), Grows,
         environment' \in {environment, "deleted"}, canceller' = canceller,
         phase' = "completed" => phase = "completed" \/ Gone',
         \/ record' = record
         \/ /\ StoreFree /\ (Closed(record) => Closed(record'))
            /\ record'.cleanup = "completed" => Gone'
            /\ record'.state = "cancelled" /\ record'.derived => Gone'
  PROVE  Clean'
  <1>1. pc'[c] = to /\ held'[c] = Blank /\ Alone(c)  BY DEF Leave, TypeOK, Alone
  <1>2. CallerClean(c)'  BY <1>1 DEF CallerClean, Blank, Closed
  <1> QED BY <1>1, <1>2, CleanKeeps

\* A caller that goes on with its copy.
LEMMA MoveClean ==
  ASSUME TypeOK, Clean, NEW c \in Caller, NEW to, pc' = [pc EXCEPT ![c] = to],
         held' = held, at' = at, record' = record, Grows,
         environment' \in {environment, "deleted"}, UNCHANGED <<canceller, phase>>,
         to \in {"delete", "lastDelete", "discard"} => Sealing',
         to \in {"settle", "complete", "finish"} => Gone'
  PROVE  Clean'
  <1>1. pc'[c] = to /\ Alone(c)  BY DEF TypeOK, Alone
  <1>2. Gone => Gone'  BY SealingStays
  <1>3. CallerClean(c)'  BY <1>1, <1>2 DEF CallerClean, Clean, Closed
  <1> QED BY <1>1, <1>3, CleanKeeps

\* A caller that publishes its copy.
LEMMA SaveClean ==
  ASSUME TypeOK, Clean, NEW c \in Caller, NEW from, NEW to, NEW copy,
         Saved(c, from, copy, to),
         copy.cleanup = "completed" => Gone,
         copy.state = held[c].state \/ ~Closed(copy),
         to \in {"delete", "lastDelete", "discard"} => Sealing,
         to \in {"settle", "complete", "finish"} => Gone
  PROVE  Clean'
  <1>1. /\ pc'[c] = to /\ held'[c] = copy /\ record' = copy /\ Alone(c) /\ StoreFree /\ Open
        /\ UNCHANGED <<status, purpose, environment, canceller, phase>>
    BY DEF Saved, Goto, Alone, TypeOK, axernVars, episodeVars
  <1>2. Grows  BY <1>1, Still
  <1>3. (Sealing => Sealing') /\ (Gone => Gone')  BY <1>1, <1>2, SealingStays
  <1>4. ~Closed(record) /\ ~Closed(held[c])  BY <1>1 DEF Open, Closed, Clean, CallerClean
  <1>5. ~Closed(copy)  BY <1>4 DEF Closed
  <1>6. CallerClean(c)'  BY <1>1, <1>3, <1>5 DEF CallerClean, Closed
  <1>7. copy.state # "cancelled"  BY <1>5 DEF Closed
  <1> QED BY <1>1, <1>2, <1>3, <1>4, <1>6, <1>7, CleanKeeps

LEMMA SaveLiveClean ==
  ASSUME TypeOK, Clean, NEW c \in Caller, NEW from, NEW to, NEW copy,
         SaveLive(c, from, copy, to),
         copy.cleanup = "completed" => Gone,
         copy.state = held[c].state \/ ~Closed(copy),
         to \in {"delete", "lastDelete", "discard"} => Sealing,
         to \in {"settle", "complete", "finish"} => Gone
  PROVE  Clean'
  <1>1. CASE Saved(c, from, copy, to)  BY <1>1, SaveClean
  <1>2. CASE Refused(c, from) /\ Leave(c, "raise")
    <2>1. UNCHANGED <<status, purpose, environment, canceller, phase, record>>
      BY <1>2 DEF Refused, axernVars, episodeVars, recordVars
    <2> QED BY <1>2, <2>1, Still, LeaveClean
  <1> QED BY <1>1, <1>2 DEF SaveLive, Raise

LEMMA SaveLiveOrClean ==
  ASSUME TypeOK, Clean, NEW c \in Caller, NEW from, NEW to, NEW copy, NEW refused,
         SaveLiveOr(c, from, copy, to, refused),
         copy.cleanup = "completed" => Gone,
         copy.state = held[c].state \/ ~Closed(copy),
         to \notin {"delete", "lastDelete", "discard", "settle", "complete", "finish"},
         refused = "abort" \/ (refused = "discard" /\ Sealing)
  PROVE  Clean'
  <1>1. CASE Saved(c, from, copy, to)  BY <1>1, SaveClean
  <1>2. CASE Refused(c, from) /\ Goto(c, from, refused) /\ UNCHANGED <<held, at>>
    <2>1. UNCHANGED <<status, purpose, environment, canceller, phase, record, held, at>>
      BY <1>2 DEF Refused, axernVars, episodeVars, recordVars
    <2>2. pc' = [pc EXCEPT ![c] = refused]  BY <1>2 DEF Goto
    <2>3. Grows /\ (Sealing => Sealing')  BY <2>1, Still, SealingStays
    <2> QED BY <2>1, <2>2, <2>3, MoveClean
  <1> QED BY <1>1, <1>2 DEF SaveLiveOr

\* A caller that reads a sealed compile Run, or has gone on to the branches, knows of the Environment.
LEMMA SealingSeen ==
  ASSUME TypeOK, RunsBacked, NEW c \in Caller
  PROVE  /\ at[c] = Compile /\ pc[c] \in Holding /\ status[Mine(c)] \in Sealed => Sealing
         /\ at[c] # Compile \/ pc[c] \in {"publish", "lastDelete", "complete"} => Sealing
  <1>1. ASSUME NEW copy \in Record, CopyBacked(copy), copy.run[Compile] # NoRun,
               status[copy.run[Compile]] \in Sealed
        PROVE  Sealing
    BY <1>1, NamedNotFresh, StepFacts, CopyType DEF Sealing
  <1>2. at[c] = Compile /\ pc[c] \in Holding /\ status[Mine(c)] \in Sealed => Sealing
    BY <1>1, CallerFacts DEF CopyBacked, Placed, Mine
  <1>3. at[c] # Compile \/ pc[c] \in {"publish", "lastDelete", "complete"} => Sealing
    BY CallerFacts DEF Placed, Accepted, Sealing, Sealed
  <1> QED BY <1>2, <1>3

\* So does whoever reads a record that names the Environment.
LEMMA DerivedSealing == TypeOK /\ RunsBacked /\ record.derived => Sealing
  <1> SUFFICES ASSUME TypeOK, RunsBacked, record.derived PROVE Sealing
    OBVIOUS
  <1>1. record \in Record /\ CopyBacked(record)  BY DEF TypeOK, RunsBacked
  <1>2. record.run[Compile] # NoRun /\ status[record.run[Compile]] \in Sealed
    BY <1>1 DEF CopyBacked, BackedBy
  <1>3. record.run[Compile] \in RunId  BY <1>1, <1>2, StepFacts, CopyType
  <1> QED BY <1>1, <1>2, <1>3, NamedNotFresh DEF Sealing

\* A candidate that does not compile leaves no Environment.
LEMMA RejectedGone ==
  ASSUME TypeOK, RunsBacked, Clean, NEW c \in Caller, pc[c] = "reject"
  PROVE  Gone
  <1>1. at[c] = Compile /\ status[Mine(c)] = "rejected" /\ Mine(c) # NoRun /\ Mine(c) \in RunId
    BY CallerFacts DEF Placed, Mine, Holding
  <1>2. CompileRun(Mine(c))
    BY <1>1, CallerFacts DEF BackedBy, CompileRun, Mine
  <1>3. ~Sealing
    BY <1>1, <1>2 DEF RunsBacked, OneClaim, Sealing, Sealed
  <1> QED BY <1>1, <1>2, <1>3 DEF Clean, Gone, RunEnded, Ended

\* The fields of a copy that clean-up looks at.
LEMMA CleanFields ==
  ASSUME NEW copy \in Record, NEW s \in Step, NEW x, NEW y
  PROVE  /\ [copy EXCEPT !.step[s] = x].cleanup = copy.cleanup
         /\ [copy EXCEPT !.step[s] = x].state = copy.state
         /\ [copy EXCEPT !.step[s] = x].derived = copy.derived
         /\ [copy EXCEPT !.run[s] = x].cleanup = copy.cleanup
         /\ [copy EXCEPT !.run[s] = x].state = copy.state
         /\ [copy EXCEPT !.derived = x].cleanup = copy.cleanup
         /\ [copy EXCEPT !.derived = x].state = copy.state
         /\ [copy EXCEPT !.state = x].cleanup = copy.cleanup
         /\ [copy EXCEPT !.state = x].state = x
         /\ [copy EXCEPT !.cleanup = x].state = copy.state
         /\ [copy EXCEPT !.cleanup = x].cleanup = x
         /\ [copy EXCEPT !.cleanup = x, !.state = y].cleanup = x
         /\ [copy EXCEPT !.cleanup = x, !.state = y].state = y
         /\ [copy EXCEPT !.step[s] = x, !.state = y].cleanup = copy.cleanup
         /\ [copy EXCEPT !.step[s] = x, !.state = y].state = y
         /\ [copy EXCEPT !.step[s] = x, !.state = y].derived = copy.derived
         /\ Failed(copy).cleanup = "running" /\ Failed(copy).state = "infrastructure_failed"
  BY DEF Record, Failed

LEMMA ClaimedFields ==
  ASSUME TypeOK, NEW s \in Step
  PROVE  /\ Claimed(s).cleanup = record.cleanup /\ Claimed(s).derived = record.derived
         /\ Claimed(s).state = record.state \/ Claimed(s).state = "compile_running"
  <1>1. record \in Record  BY DEF TypeOK
  <1>2. CASE Claimed(s) = record  BY <1>2
  <1>3. CASE Claimed(s) = [record EXCEPT !.step[s] = "running",
                             !.state = IF s = Compile THEN "compile_running" ELSE @]
    <2>1. PICK y : /\ Claimed(s) = [record EXCEPT !.step[s] = "running", !.state = y]
                   /\ y = record.state \/ y = "compile_running"
      BY <1>3
    <2> QED BY <1>1, <2>1, CleanFields
  <1> QED BY <1>2, <1>3 DEF Claimed

LEMMA PrepareClean ==
  ASSUME TypeOK, RunsBacked, Clean, NEW c \in Caller, Prepare(c)
  PROVE  Clean'
  <1>f. held[c] \in Record /\ record \in Record /\ at[c] \in Step  BY CallerFacts
  <1>c. CallerClean(c) /\ RecordClean  BY DEF Clean
  <1>1. CASE Enter(c)
    <2>1. /\ pc' = [pc EXCEPT ![c] = "verify"]
          /\ UNCHANGED <<record, held, at, status, purpose, environment, canceller, phase>>
      BY <1>1 DEF Enter, Goto, recordVars, axernVars
    <2> QED BY <2>1, Still, MoveClean
  <1>2. CASE Initialize(c)
    <2>1. StoreFree /\ UNCHANGED <<status, purpose, environment, canceller, phase>>
      BY <1>2 DEF Initialize, axernVars, episodeVars
    <2>2. Grows /\ (Gone => Gone') /\ (Sealing => Sealing')  BY <2>1, Still, SealingStays
    <2>3. CASE Raise(c) /\ UNCHANGED record
      BY <2>1, <2>2, <2>3, LeaveClean DEF Raise
    <2>4. CASE Goto(c, "verify", Entry) /\ record' = Initialized
                 /\ held' = [held EXCEPT ![c] = Initialized] /\ UNCHANGED at /\ Entry # "raise"
      <3>1. pc'[c] = Entry /\ held'[c] = Initialized /\ Alone(c)
        BY <2>4 DEF Goto, Alone, TypeOK
      <3>2. Initialized = record \/ (record.state = "absent" /\ Initialized = [Blank EXCEPT !.state = "new"])
        BY DEF Initialized
      <3>3. Entry \in {"step", "delete"} /\ (Entry = "delete" => Sealing)
        BY <2>4, DerivedSealing DEF Entry
      <3>4. /\ Initialized.cleanup = "completed" => Gone
            /\ Initialized.state = "cancelled" /\ Initialized.derived => Gone
            /\ Closed(record) => Closed(Initialized)
        <4>1. CASE Initialized = record  BY <1>c, <4>1 DEF RecordClean
        <4>2. CASE record.state = "absent" /\ Initialized = [Blank EXCEPT !.state = "new"]
          <5>1. Initialized.cleanup = "not_started" /\ Initialized.state = "new"
            BY <4>2 DEF Blank
          <5> QED BY <4>2, <5>1 DEF Closed
        <4> QED BY <3>2, <4>1, <4>2
      <3>5. CallerClean(c)'
        BY <2>2, <2>4, <3>1, <3>3, <3>4 DEF CallerClean, Closed
      <3>6. Closed(record) => Closed(record')  BY <2>4, <3>4 DEF Closed
      <3> QED BY <2>1, <2>2, <2>4, <3>1, <3>4, <3>5, <3>6, CleanKeeps
    <2> QED BY <1>2, <2>3, <2>4 DEF Initialize
  <1>3. CASE Claim(c)
    <2>1. StoreFree /\ UNCHANGED <<status, purpose, environment, canceller, phase>>
      BY <1>3 DEF Claim, axernVars, episodeVars
    <2>2. Grows /\ (Gone => Gone')  BY <2>1, Still, SealingStays
    <2>3. CASE Raise(c) /\ UNCHANGED record
      BY <2>1, <2>2, <2>3, LeaveClean DEF Raise
    <2>4. ASSUME NEW s \in Step, Open, Claims(c, s) PROVE Clean'
      <3>1. pc'[c] = "live" /\ held'[c] = Claimed(s) /\ record' = Claimed(s) /\ Alone(c)
        BY <2>4 DEF Claims, Goto, Alone, TypeOK
      <3>2. ~Closed(record) /\ ~Closed(Claimed(s))
        BY <2>4, ClaimedFields DEF Open, Closed
      <3>3. Claimed(s).state # "cancelled" /\ (Claimed(s).cleanup = "completed" => Gone)
        BY <1>c, <3>2, ClaimedFields DEF Closed, RecordClean
      <3>4. CallerClean(c)'  BY <2>2, <3>1, <3>2, <3>3 DEF CallerClean, Closed
      <3> QED BY <2>1, <2>2, <3>1, <3>2, <3>3, <3>4, CleanKeeps
    <2> QED BY <1>3, <2>3, <2>4 DEF Claim
  <1>4. CASE RequireLive(c)
    <2>1. UNCHANGED <<record, status, purpose, environment, canceller, phase>>
      BY <1>4 DEF RequireLive, recordVars, axernVars, episodeVars
    <2>2. Grows  BY <2>1, Still
    <2>3. CASE Raise(c)  BY <2>1, <2>2, <2>3, LeaveClean DEF Raise
    <2>4. CASE ~Raise(c)
      <3>1. PICK to \in {"create", "follow"} : pc' = [pc EXCEPT ![c] = to] /\ UNCHANGED <<held, at>>
        BY <1>4, <2>4 DEF RequireLive, Goto
      <3> QED BY <2>1, <2>2, <3>1, MoveClean
    <2> QED BY <2>3, <2>4
  <1>5. CASE CreateRun(c)
    <2>1. PICK r \in RunId :
             /\ status[r] = "absent" /\ status' = [status EXCEPT ![r] = "waiting"]
             /\ purpose' = [purpose EXCEPT ![r] = at[c]]
             /\ \/ /\ Goto(c, "create", "bind")
                   /\ held' = [held EXCEPT ![c].run[at[c]] = r]
                   /\ UNCHANGED at
                \/ Raise(c)
      BY <1>5 DEF CreateRun
    <2>2. UNCHANGED <<record, environment, canceller, phase>>
      BY <1>5 DEF CreateRun, recordVars, episodeVars
    <2>3. Grows  BY <1>f, <2>1, CreateGrows
    <2>4. CASE Raise(c)  BY <2>2, <2>3, <2>4, LeaveClean DEF Raise
    <2>5. CASE Goto(c, "create", "bind") /\ held' = [held EXCEPT ![c].run[at[c]] = r] /\ UNCHANGED at
      <3>1. pc'[c] = "bind" /\ held'[c] = [held[c] EXCEPT !.run[at[c]] = r] /\ Alone(c)
        BY <2>5 DEF Goto, Alone, TypeOK
      <3>2. held'[c].cleanup = held[c].cleanup /\ held'[c].state = held[c].state
        BY <1>f, <3>1, CleanFields
      <3>3. CallerClean(c)'
        BY <1>c, <2>2, <2>3, <3>1, <3>2, SealingStays DEF CallerClean, Closed
      <3> QED BY <2>2, <2>3, <3>1, <3>3, CleanKeeps
    <2> QED BY <2>1, <2>4, <2>5
  <1>6. CASE CreateRunFails(c)
    <2>1. UNCHANGED <<record, status, purpose, environment, canceller, phase>>
      BY <1>6 DEF CreateRunFails, recordVars, axernVars, episodeVars
    <2> QED BY <1>6, <2>1, Still, LeaveClean DEF CreateRunFails, Raise
  <1>7. CASE Bind(c)
    <2>1. held[c].cleanup = "completed" => Gone  BY <1>c DEF CallerClean
    <2>2. ASSUME NEW from, NEW to \in {"primary", "await", "reprimary", "release"},
                 SaveLiveOr(c, from, held[c], to, "abort")
          PROVE  Clean'
      <3>1. CASE Saved(c, from, held[c], to)
        BY <2>1, <3>1, SaveClean
      <3>2. CASE Refused(c, from) /\ Goto(c, from, "abort") /\ UNCHANGED <<held, at>>
        <4>1. /\ UNCHANGED <<status, purpose, environment, canceller, phase, record, held, at>>
              /\ pc' = [pc EXCEPT ![c] = "abort"]
          BY <3>2 DEF Refused, Goto, axernVars, episodeVars, recordVars
        <4> QED BY <4>1, Still, MoveClean
      <3> QED BY <2>2, <3>1, <3>2 DEF SaveLiveOr
    <2> QED BY <1>7, <2>2 DEF Bind
  <1>8. CASE BindPrimary(c) \/ AwaitRunning(c) \/ PreparationFails(c)
    <2>1. /\ UNCHANGED <<record, held, at, status, purpose, environment, canceller, phase>>
          /\ \E to \in {"await", "release", "abort", "rebind"} : pc' = [pc EXCEPT ![c] = to]
      BY <1>8 DEF BindPrimary, AwaitRunning, PreparationFails, Goto, recordVars, axernVars, episodeVars
    <2> QED BY <2>1, Still, MoveClean
  <1>9. CASE Release(c)
    <2>1. /\ UNCHANGED <<record, held, at, purpose, environment, canceller, phase>>
          /\ \E to \in {"follow", "abort"} : pc' = [pc EXCEPT ![c] = to]
          /\ status[Mine(c)] = "waiting" /\ status' = [status EXCEPT ![Mine(c)] = "executing"]
          /\ pc[c] = "release"
      BY <1>9 DEF Release, Goto, recordVars, episodeVars
    <2>2. Mine(c) \in RunId  BY <2>1, CallerFacts DEF Mine, Placed, Holding
    <2>3. Grows  BY <2>1, <2>2, StatusGrows DEF Ended
    <2> QED BY <2>1, <2>3, MoveClean
  <1>10. CASE Abort(c)
    <2>1. /\ UNCHANGED <<record, status, purpose, environment, canceller, phase>>
          /\ Leave(c, "raise") \/ Leave(c, "idle")
      BY <1>10 DEF Abort, Raise, recordVars, episodeVars
    <2> QED BY <2>1, Still, LeaveClean
  <1> QED BY <1>1, <1>2, <1>3, <1>4, <1>5, <1>6, <1>7, <1>8, <1>9, <1>10 DEF Prepare

LEMMA EvaluateClean ==
  ASSUME TypeOK, RunsBacked, Clean, NEW c \in Caller, Evaluate(c)
  PROVE  Clean'
  <1> DEFINE h == held[c]
  <1>f. h \in Record /\ at[c] \in Step /\ Compile \in Step  BY CallerFacts
  <1>c. h.cleanup = "completed" => Gone  BY DEF Clean, CallerClean
  <1>b. at[c] \in Branch => at[c] # Compile  BY StepFacts
  <1>1. CASE Follow(c)
    <2>1. /\ UNCHANGED <<record, held, at, status, purpose, environment, canceller, phase>>
          /\ pc' = [pc EXCEPT ![c] = "result"]
      BY <1>1 DEF Follow, Goto, recordVars, axernVars, episodeVars
    <2> QED BY <2>1, Still, MoveClean
  <1>2. CASE FollowFails(c) \/ DownloadFails(c)
    <2>1. /\ UNCHANGED <<record, status, purpose, canceller, phase>> /\ Leave(c, "raise")
          /\ environment' \in {environment, "deleted"}
      BY <1>2 DEF FollowFails, DownloadFails, Raise, recordVars, axernVars, episodeVars
    <2> QED BY <2>1, Still, LeaveClean
  <1>3. CASE RejectCandidate(c)
    <2> DEFINE copy == [h EXCEPT !.step[Compile] = "business_failed", !.state = "aggregating"]
    <2>1. copy.cleanup = h.cleanup /\ copy.state = "aggregating"  BY <1>f, CleanFields
    <2>2. SaveLive(c, "result", copy, "reject")  BY <1>3 DEF RejectCandidate
    <2> HIDE DEF copy
    <2> QED BY <1>c, <2>1, <2>2, SaveLiveClean DEF Closed
  <1>4. CASE FinishRejected(c)
    <2> DEFINE copy == [h EXCEPT !.cleanup = "not_created", !.state = "completed"]
    <2>1. copy.cleanup = "not_created" /\ copy.state = "completed"  BY <1>f, CleanFields
    <2>2. SaveLive(c, "reject", copy, "finish")  BY <1>4 DEF FinishRejected
    <2>3. pc[c] = "reject"  BY <2>2 DEF SaveLive, Saved, Refused, Goto
    <2>4. Gone  BY <2>3, RejectedGone
    <2> HIDE DEF copy
    <2> QED BY <2>1, <2>2, <2>4, SaveLiveClean DEF Closed
  <1>5. CASE PublishEnvironment(c)
    <2> DEFINE copy == [h EXCEPT !.derived = TRUE]
    <2>1. copy.cleanup = h.cleanup /\ copy.state = h.state  BY <1>f, CleanFields
    <2>2. SaveLiveOr(c, "result", copy, "loaded", "discard")  BY <1>5 DEF PublishEnvironment
    <2>3. Sealing
      BY <1>5, SealingSeen DEF PublishEnvironment, At, Holding
    <2> HIDE DEF copy
    <2> QED BY <1>c, <2>1, <2>2, <2>3, SaveLiveOrClean
  <1>6. CASE AcceptCompile(c)
    <2> DEFINE copy == [h EXCEPT !.step[Compile] = "completed", !.state = "branches_running"]
    <2>1. copy.cleanup = h.cleanup /\ copy.state = "branches_running"  BY <1>f, CleanFields
    <2>2. SaveLive(c, "loaded", copy, "step")  BY <1>6 DEF AcceptCompile
    <2> HIDE DEF copy
    <2> QED BY <1>c, <2>1, <2>2, SaveLiveClean DEF Closed
  <1>7. CASE SaveFailure(c)
    <2>1. Sealing
      <3>1. CASE At(c, "loaded", {Compile}, {"unusable"})
        BY <3>1, SealingSeen DEF At, Holding, Sealed
      <3>2. CASE At(c, "result", Branch, {"unusable"})
        BY <1>b, <3>2, SealingSeen DEF At
      <3> QED BY <1>7, <3>1, <3>2 DEF SaveFailure
    <2>2. \E copy \in Record : \/ SaveLive(c, "loaded", Failed(copy), "delete")
                               \/ SaveLive(c, "result", Failed(copy), "delete")
      <3> DEFINE k == [h EXCEPT !.step[at[c]] = "infrastructure_failed"]
      <3>1. k \in Record  BY <1>f, CopyType
      <3>2. \/ SaveLive(c, "loaded", Failed(h), "delete") \/ SaveLive(c, "result", Failed(h), "delete")
            \/ SaveLive(c, "result", Failed(k), "delete")
        BY <1>7 DEF SaveFailure
      <3> HIDE DEF k
      <3> QED BY <1>f, <3>1, <3>2
    <2>3. PICK copy \in Record, from \in {"loaded", "result"} : SaveLive(c, from, Failed(copy), "delete")
      BY <2>2
    <2>4. Failed(copy).cleanup = "running" /\ Failed(copy).state = "infrastructure_failed"
      BY <1>f, CleanFields
    <2> QED BY <2>1, <2>3, <2>4, SaveLiveClean DEF Closed
  <1>8. CASE BranchFails(c)
    <2> DEFINE copy == [h EXCEPT !.cleanup = "running"]
    <2>1. copy.cleanup = "running" /\ copy.state = h.state  BY <1>f, CleanFields
    <2>2. SaveLive(c, "result", copy, "delete")  BY <1>8 DEF BranchFails
    <2>3. Sealing  BY <1>8, <1>b, SealingSeen DEF BranchFails, At
    <2> HIDE DEF copy
    <2> QED BY <2>1, <2>2, <2>3, SaveLiveClean
  <1>9. CASE AcceptBranch(c)
    <2> DEFINE copy == [h EXCEPT !.step[at[c]] = "completed"]
    <2>1. copy.cleanup = h.cleanup /\ copy.state = h.state  BY <1>f, CleanFields
    <2>2. SaveLive(c, "result", copy, "step")  BY <1>9 DEF AcceptBranch
    <2> HIDE DEF copy
    <2> QED BY <1>c, <2>1, <2>2, SaveLiveClean
  <1> QED BY <1>1, <1>2, <1>3, <1>4, <1>5, <1>6, <1>7, <1>8, <1>9 DEF Evaluate

LEMMA ConcludeClean ==
  ASSUME TypeOK, RunsBacked, Clean, NEW c \in Caller, Conclude(c)
  PROVE  Clean'
  <1> DEFINE h == held[c]
  <1>f. h \in Record /\ at[c] \in Step /\ Compile \in Step  BY CallerFacts
  <1>c. CallerClean(c)  BY DEF Clean
  <1>1. CASE Aggregate(c)
    <2> DEFINE copy == [h EXCEPT !.state = "aggregating"]
    <2>1. copy.cleanup = h.cleanup /\ copy.state = "aggregating"  BY <1>f, CleanFields
    <2>2. SaveLive(c, "step", copy, "publish")  BY <1>1 DEF Aggregate
    <2> HIDE DEF copy
    <2> QED BY <1>c, <2>1, <2>2, SaveLiveClean DEF Closed, CallerClean
  <1>2. CASE PublishDetails(c)
    <2> DEFINE copy == [h EXCEPT !.cleanup = "running"]
    <2>1. copy.cleanup = "running" /\ copy.state = h.state  BY <1>f, CleanFields
    <2>2. SaveLive(c, "publish", copy, "lastDelete")  BY <1>2 DEF PublishDetails
    <2>3. pc[c] = "publish"  BY <2>2 DEF SaveLive, Saved, Refused, Goto
    <2>4. Sealing  BY <2>3, SealingSeen
    <2> HIDE DEF copy
    <2> QED BY <2>1, <2>2, <2>4, SaveLiveClean
  <1>3. CASE AggregationFails(c) \/ DeleteFails(c) \/ Crash(c)
    <2>1. /\ UNCHANGED <<record, status, purpose, environment, canceller, phase>>
          /\ Leave(c, "raise") \/ Leave(c, "idle")
      BY <1>3 DEF AggregationFails, DeleteFails, Crash, Raise, recordVars, axernVars, episodeVars
    <2> QED BY <2>1, Still, LeaveClean
  <1>4. CASE DeleteEnvironment(c)
    <2>1. UNCHANGED <<record, status, purpose, canceller, phase>> /\ environment' = "deleted"
      BY <1>4 DEF DeleteEnvironment, recordVars, episodeVars
    <2>2. Grows  BY <2>1, Still
    <2>3. CASE Raise(c)  BY <2>1, <2>2, <2>3, LeaveClean DEF Raise
    <2>4. CASE ~Raise(c)
      <3>1. PICK to \in {"settle", "complete"} :
               /\ pc' = [pc EXCEPT ![c] = to] /\ UNCHANGED <<held, at>>
               /\ pc[c] \in {"delete", "lastDelete"}
        BY <1>4, <2>4 DEF DeleteEnvironment, Goto
      <3>2. Gone'
        BY <1>c, <2>1, <3>1 DEF CallerClean, Sealing, Gone, CompileRun, RunEnded, Sealed, Ended
      <3> QED BY <2>1, <2>2, <3>1, <3>2, MoveClean
    <2> QED BY <2>3, <2>4
  <1>5. CASE Settle(c)
    <2> DEFINE copy == [h EXCEPT !.cleanup = "completed", !.state = "infrastructure_failed"]
    <2>1. copy.cleanup = "completed" /\ copy.state = "infrastructure_failed"  BY <1>f, CleanFields
    <2>2. /\ UNCHANGED <<status, purpose, environment, canceller, phase>> /\ Leave(c, "raise")
          /\ StoreFree /\ pc[c] = "settle"
          /\ record' = record \/ (Open /\ record' = copy)
      BY <1>5 DEF Settle, Raise, axernVars, episodeVars
    <2>3. Grows /\ Gone /\ Gone'  BY <1>c, <2>2, Still, SealingStays DEF CallerClean
    <2> HIDE DEF copy
    <2>4. record' = copy => ~Closed(record) \/ record' = record
      BY <2>2 DEF Open, Closed
    <2> QED BY <2>1, <2>2, <2>3, <2>4, LeaveClean
  <1>6. CASE Complete(c)
    <2> DEFINE copy == [h EXCEPT !.cleanup = "completed", !.state = "completed"]
    <2>1. copy.cleanup = "completed" /\ copy.state = "completed"  BY <1>f, CleanFields
    <2>2. SaveLive(c, "complete", copy, "finish")  BY <1>6 DEF Complete
    <2>3. pc[c] = "complete"  BY <2>2 DEF SaveLive, Saved, Refused, Goto
    <2>4. Gone  BY <1>c, <2>3 DEF CallerClean
    <2> HIDE DEF copy
    <2> QED BY <2>1, <2>2, <2>4, SaveLiveClean DEF Closed
  <1>7. CASE Finish(c) \/ RecordFailure(c)
    <2>1. /\ UNCHANGED <<record, status, purpose, environment, canceller>>
          /\ Leave(c, "raise") \/ Leave(c, "idle")
          /\ phase' = phase \/ phase' = "failed" \/ (pc[c] = "finish" /\ phase' = "completed")
      BY <1>7 DEF Finish, RecordFailure, Raise, recordVars, axernVars
    <2>2. Grows  BY <2>1, Still
    <2>3. phase' = "completed" => phase = "completed" \/ Gone'
      BY <1>c, <2>1, <2>2, SealingStays DEF CallerClean
    <2> QED BY <2>1, <2>2, <2>3, LeaveClean
  <1> QED BY <1>1, <1>2, <1>3, <1>4, <1>5, <1>6, <1>7 DEF Conclude

\* The cancel command deletes the Environment before it says so; an Environment can only come
\* from a compile Run that still executes.
LEMMA OthersClean ==
  ASSUME TypeOK, CancelOwnsRecord, RunsBacked, Clean, Canceller \/ Axern
  PROVE  Clean'
  <1>s. /\ UNCHANGED <<pc, held, at>> /\ record \in Record
        /\ \A c \in Caller : CallerClean(c)
        /\ record'.derived = record.derived
        /\ record'.state \in {record.state, "cancelling", "cancelled"}
    <2>1. UNCHANGED <<pc, held, at>>
      BY DEF Canceller, BeginCancel, CancelPrimary, MarkCancelling, CancelRuns, CancelEnvironment,
             EndCancel, SaveCancelled, CancelFails, Axern, Exit, EndsEarly, callerVars
    <2> QED BY <2>1, OthersWrite DEF Clean, TypeOK
  <1>k. ASSUME Gone => Gone', Sealing => Sealing'
        PROVE  \A c \in Caller : CallerClean(c)'
    BY <1>s, <1>k DEF CallerClean, Closed
  <1>1. CASE Axern
    <2>1. UNCHANGED <<record, canceller, phase>>
      BY <1>1 DEF Axern, Exit, EndsEarly, recordVars, episodeVars
    <2>2. PICK r \in RunId, x \in Ended :
             /\ status[r] \in {"waiting", "executing"}
             /\ status' = [status EXCEPT ![r] = x] /\ purpose' = purpose
             /\ \/ environment' = environment
                \/ environment' = "exists" /\ purpose[r] = Compile /\ x \in Sealed
      BY <1>1 DEF Axern, Exit, EndsEarly, Ended
    <2>3. Grows /\ status'[r] = x /\ status[r] # "absent" /\ status[r] \notin Ended
      BY <2>2, StatusGrows DEF Ended, TypeOK
    <2>4. Sealing => Sealing'  BY <2>3, SealingStays
    <2>5. Gone => Gone'
      <3>1. ASSUME Gone PROVE environment' = environment
        BY <2>2, <2>3, <3>1 DEF Gone, RunsBacked, OneClaim, CompileRun, RunEnded
      <3> QED BY <2>3, <3>1, SealingStays
    <2>6. environment' = "exists" => Sealing'
      <3>1. CASE environment' = environment  BY <2>4, <3>1 DEF Clean
      <3>2. CASE purpose[r] = Compile /\ x \in Sealed
        BY <2>2, <2>3, <3>2 DEF Sealing, CompileRun, Grows
      <3> QED BY <2>2, <3>1, <3>2
    <2> QED BY <1>k, <2>1, <2>4, <2>5, <2>6 DEF Clean, RecordClean
  <1>2. CASE Canceller
    <2>1. UNCHANGED <<status, purpose>> /\ environment' \in {environment, "deleted"}
      BY <1>2 DEF Canceller, BeginCancel, CancelPrimary, MarkCancelling, CancelRuns,
                  CancelEnvironment, EndCancel, SaveCancelled, CancelFails, axernVars
    <2>2. (Gone => Gone') /\ (Sealing => Sealing')  BY <2>1, Still, SealingStays
    <2>3. phase' = "completed" => phase = "completed"
      BY <1>2 DEF Canceller, BeginCancel, CancelPrimary, MarkCancelling, CancelRuns,
                  CancelEnvironment, EndCancel, SaveCancelled, CancelFails, episodeVars
    <2>4. RecordClean'
      <3> USE DEF RecordClean
      <3>0. RecordClean  BY DEF Clean
      <3>1. CASE BeginCancel \/ CancelPrimary \/ SaveCancelled \/ CancelFails
        BY <2>2, <3>0, <3>1
           DEF BeginCancel, CancelPrimary, SaveCancelled, CancelFails, Proceed, recordVars
      <3>2. CASE MarkCancelling
        <4>1. CASE record' = record /\ canceller' = "save"
          BY <2>2, <3>0, <4>1
        <4>2. CASE record' = [record EXCEPT !.state = "cancelling"] /\ canceller' = "runs"
          <5>1. record'.cleanup = record.cleanup /\ record'.state = "cancelling"
            BY <1>s, <4>2, StepFacts, CleanFields
          <5> QED BY <2>2, <3>0, <4>2, <5>1
        <4> QED BY <3>2, <4>1, <4>2 DEF MarkCancelling
      <3>3. CASE CancelRuns
        <4>1. canceller = "runs" /\ record.state = "cancelling"
          BY <3>3 DEF CancelRuns, CancelOwnsRecord
        <4>2. CASE /\ record.derived /\ record.cleanup # "completed"
                   /\ canceller' = "environment" /\ record' = [record EXCEPT !.cleanup = "running"]
          <5>1. /\ record'.cleanup = "running" /\ record'.state = record.state
                /\ record'.derived = record.derived
            BY <1>s, <4>2, StepFacts, CleanFields
          <5> QED BY <2>2, <3>0, <4>1, <4>2, <5>1
        <4>3. CASE /\ ~(record.derived /\ record.cleanup # "completed")
                   /\ canceller' = "end" /\ record' = record
          BY <2>2, <3>0, <4>1, <4>3
        <4> QED BY <3>3, <4>2, <4>3 DEF CancelRuns
      <3>4. CASE CancelEnvironment
        <4>1. record' = record /\ canceller = "environment" /\ canceller' = "end" /\ environment' = "deleted"
          BY <3>4 DEF CancelEnvironment, Proceed, recordVars
        <4>2. Gone'
          BY <2>1, <3>0, <4>1, DerivedSealing
             DEF Sealing, Gone, CompileRun, RunEnded, Sealed, Ended
        <4> QED BY <3>0, <4>1, <4>2
      <3>5. CASE EndCancel
        <4>1. /\ canceller = "end" /\ canceller' = "save"
              /\ record' = [record EXCEPT !.state = "cancelled",
                                          !.cleanup = IF record.derived THEN "completed" ELSE @]
          BY <3>5 DEF EndCancel, Proceed
        <4>2. /\ record'.derived = record.derived
              /\ record'.cleanup = "completed" => record.derived \/ record.cleanup = "completed"
          BY <1>s, <4>1 DEF Record
        <4> QED BY <2>2, <3>0, <4>1, <4>2
      <3> QED BY <1>2, <3>1, <3>2, <3>3, <3>4, <3>5 DEF Canceller
    <2> QED BY <1>k, <2>1, <2>2, <2>3, <2>4 DEF Clean
  <1> QED BY <1>1, <1>2

LEMMA CleanStep == TypeOK /\ RecordIsBacked /\ Clean /\ [Next]_vars => Clean'
  <1> SUFFICES ASSUME TypeOK, RecordIsBacked, Clean, [Next]_vars PROVE Clean'
    OBVIOUS
  <1>0. CancelOwnsRecord /\ RunsBacked
    BY DEF RecordIsBacked, RunsBacked, CallersBacked
  <1>1. CASE UNCHANGED vars
    BY <1>1 DEF vars, episodeVars, recordVars, callerVars, axernVars, Clean, RecordClean, CallerClean,
                Sealing, Gone, CompileRun, RunEnded, Closed
  <1>2. CASE \E c \in Caller : Prepare(c) \/ Evaluate(c) \/ Conclude(c)
    BY <1>0, <1>2, PrepareClean, EvaluateClean, ConcludeClean
  <1>3. CASE Canceller \/ Axern
    BY <1>0, <1>3, OthersClean
  <1> QED BY <1>1, <1>2, <1>3 DEF Next

LEMMA CleanInvariant == Spec => []Clean
  <1>1. Init => Clean
    BY DEF Init, Clean, RecordClean, CallerClean, Blank, Closed
  <1> QED BY <1>1, CleanStep, TypeCorrect, RecordBacked, PTL DEF Spec

\* The record, and the episode, say that the Environment was deleted only when it is gone, however
\* many callers verify at once and whatever the cancel command does meanwhile.
THEOREM CleanedUpAlways == Spec => []CleanedUp
  <1>1. Clean => CleanedUp
    BY DEF Clean, RecordClean, Gone, CleanedUp
  <1> QED BY <1>1, CleanInvariant, PTL

------------------------------------------------------------------------------
(* Callers that follow each other, each started after the one before it has ended or died. *)

OneAtATime == \A c, d \in Caller : c = d

Outside == {"idle", "verify", "raise"}
AtWork == {"live", "create", "bind", "primary", "await", "rebind", "reprimary", "release", "abort",
           "follow", "result", "loaded", "discard", "reject"}
Starting == {"primary", "await", "rebind", "reprimary", "release"}
Quiet == \A r \in Executing : purpose[r] = Compile

\* The copy of the caller is the record, but for what a cancellation wrote and for a Run that is
\* not bound yet.
Agrees(c) ==
    pc[c] \notin Outside =>
        /\ held[c].step = record.step /\ held[c].derived = record.derived
        /\ Closed(record) \/ held[c].state = record.state
        /\ \A s \in Step : s # at[c] \/ pc[c] \notin {"bind", "abort"} => held[c].run[s] = record.run[s]

\* The caller works on the first step that is not completed, and its branch has an Environment
\* unless a cancellation has come.
Works(c) ==
    /\ \A t \in Step : t < at[c] => held[c].step[t] = "completed"
    /\ pc[c] \in AtWork => record.step[at[c]] # "completed"
    /\ pc[c] \in {"create", "bind"} \union Starting => record.step[at[c]] = "running"
    /\ pc[c] \in {"live", "create"} /\ Mine(c) = NoRun =>
          record.step[at[c]] = "running" /\ RunsOf(at[c]) = {}
    /\ pc[c] \in {"loaded", "discard"} => at[c] = Compile
    /\ pc[c] \in {"delete", "settle"} => Quiet
    /\ at[c] # Compile /\ pc[c] = "bind" => environment = "exists" \/ Closed(record)
    /\ at[c] # Compile /\ pc[c] \in Starting =>
          environment = "exists" \/ Mine(c) \in cancelling \/ RunEnded(Mine(c))

\* Every Run is the one the record names for its step, or the step is ambiguous; only Runs the
\* record names execute; and the steps run in their order.
Tracked ==
    /\ \A r \in RunId : status[r] # "absent" =>
          \/ record.run[purpose[r]] = r
          \/ /\ record.run[purpose[r]] = NoRun /\ record.step[purpose[r]] = "running"
             /\ status[r] # "executing"
    /\ \A r \in Executing : record.step[purpose[r]] = "running"
    /\ \A q, r \in RunId :
          status[q] # "absent" /\ status[r] # "absent" /\ purpose[q] = purpose[r] => q = r
    /\ \A s, t \in Step : record.step[s] # "pending" /\ t < s => record.step[t] = "completed"
    /\ record.state = "absent" => record = Blank
FailedIsQuiet ==
    record.state = "infrastructure_failed" =>
        Quiet /\ \A c \in Caller : pc[c] \in Outside \union {"delete", "settle"}

\* A cancellation has asked Axern to end all that the record has running.
Covered ==
    \A s \in Step : record.step[s] = "running" /\ record.run[s] # NoRun /\ ~RunEnded(record.run[s])
                       => record.run[s] \in cancelling
CancelCovers ==
    /\ canceller \in {"environment", "end"} \/ record.state = "cancelled" => Covered
    /\ canceller = "save" \/ phase = "cancelled" => record.state = "cancelled" \/ marker

Recorded == Tracked /\ FailedIsQuiet /\ CancelCovers /\ EnvironmentOutlivesBranches
Serial == Recorded /\ \A c \in Caller : Agrees(c) /\ Works(c)

LEMMA StepNat == \A s \in Step : s \in Nat /\ Compile <= s
  BY BranchesAssumption DEF Step, Branch, Compile

\* What a caller starts from.
LEMMA SerialFacts ==
  ASSUME TypeOK, RunsBacked, Serial, NEW c \in Caller
  PROVE  /\ Agrees(c) /\ Works(c) /\ Placed(c) /\ held[c] \in Record /\ record \in Record
         /\ at[c] \in Step /\ BackedBy(held[c], status, purpose) /\ BackedBy(record, status, purpose)
         /\ Tracked /\ FailedIsQuiet /\ CancelCovers /\ EnvironmentOutlivesBranches
  BY CallerFacts DEF Serial, Recorded

\* Nothing but the work of the caller's own step executes, and not that once its Run has ended.
LEMMA QuietAtWork ==
  ASSUME TypeOK, RunsBacked, Serial, NEW c \in Caller, pc[c] \in AtWork
  PROVE  /\ at[c] = Compile => Quiet
         /\ pc[c] \notin {"bind", "abort"} /\ RunEnded(Mine(c)) => Executing = {}
  <1>f. /\ Agrees(c) /\ Works(c) /\ Tracked /\ at[c] \in Step /\ record \in Record
        /\ held[c].step = record.step
        /\ \A r \in Executing : purpose[r] \in Step
    BY SerialFacts DEF Agrees, AtWork, Outside, TypeOK, Executing
  <1>1. ASSUME NEW r \in Executing PROVE purpose[r] = at[c]
    <2>1. record.step[purpose[r]] = "running" /\ record.step[at[c]] # "completed"
      BY <1>f DEF Tracked, Works
    <2>2. ~(at[c] < purpose[r])  BY <1>f, <2>1 DEF Tracked
    <2>3. ~(purpose[r] < at[c])  BY <1>f, <2>1 DEF Works
    <2> QED BY <1>f, <2>2, <2>3, StepNat
  <1>2. ASSUME pc[c] \notin {"bind", "abort"}, RunEnded(Mine(c)) PROVE Executing = {}
    <2> SUFFICES ASSUME NEW r \in Executing PROVE FALSE
      OBVIOUS
    <2>1. status[r] = "executing" /\ purpose[r] = at[c] /\ r \in RunId
      BY <1>1 DEF Executing
    <2>2. record.run[at[c]] = r  BY <1>f, <2>1 DEF Tracked
    <2>3. Mine(c) = r  BY <1>2, <1>f, <2>2 DEF Agrees, AtWork, Outside, Mine
    <2> QED BY <1>2, <2>1, <2>3 DEF RunEnded, Ended
  <1> QED BY <1>1, <1>2 DEF Quiet

\* A step that leaves the record and the Runs alone.
LEMMA Unwritten ==
  ASSUME Recorded, UNCHANGED <<record, status, purpose, canceller, marker>>,
         cancelling \subseteq cancelling', environment' = environment \/ Quiet,
         phase' = "cancelled" => phase = "cancelled",
         record.state = "infrastructure_failed" =>
            \A d \in Caller : pc'[d] \in Outside \union {"delete", "settle"}
  PROVE  Recorded' /\ (Quiet' <=> Quiet)
  <1>1. Tracked'  BY DEF Recorded, Tracked, Executing
  <1>2. Quiet' <=> Quiet  BY DEF Quiet, Executing
  <1>3. FailedIsQuiet'  BY <1>2 DEF Recorded, FailedIsQuiet
  <1>4. CancelCovers'  BY DEF Recorded, CancelCovers, Covered, RunEnded
  <1>5. EnvironmentOutlivesBranches'
    BY DEF Recorded, EnvironmentOutlivesBranches, Executing, Quiet
  <1> QED BY <1>1, <1>2, <1>3, <1>4, <1>5 DEF Recorded

\* A caller that leaves.
LEMMA LeaveSerial ==
  ASSUME TypeOK, OneAtATime, NEW c \in Caller, NEW to \in {"idle", "raise"}, Leave(c, to), Recorded'
  PROVE  Serial'
  <1>1. pc'[c] = to /\ at'[c] = Compile /\ \A d \in Caller : d = c
    BY DEF Leave, TypeOK, OneAtATime
  <1>2. Agrees(c)'  BY <1>1 DEF Agrees, Outside
  <1>3. \A t \in Step : ~(t < at'[c])  BY <1>1, StepNat DEF Compile
  <1>4. Works(c)'  BY <1>1, <1>3 DEF Works, AtWork, Starting
  <1> QED BY <1>1, <1>2, <1>4 DEF Serial

LEMMA LeaveUnwritten ==
  ASSUME TypeOK, OneAtATime, Serial, NEW c \in Caller, NEW to \in {"idle", "raise"}, Leave(c, to),
         UNCHANGED <<record, status, purpose, canceller, marker>>,
         cancelling \subseteq cancelling', environment' = environment \/ Quiet,
         phase' = "cancelled" => phase = "cancelled"
  PROVE  Serial'
  <1>1. \A d \in Caller : pc'[d] = to  BY DEF Leave, TypeOK, OneAtATime
  <1>2. Recorded'  BY <1>1, Unwritten DEF Serial, Outside
  <1> QED BY <1>2, LeaveSerial

\* A caller that goes on with its copy.
LEMMA MoveSerial ==
  ASSUME TypeOK, OneAtATime, Serial, NEW c \in Caller, NEW to, pc' = [pc EXCEPT ![c] = to],
         UNCHANGED <<held, at, record, status, purpose, canceller, marker, cancelling, phase>>,
         environment' = environment \/ Quiet,
         \/ to = "verify"
         \/ pc[c] \notin Outside \union {"bind", "abort"}
         \/ pc[c] = "bind" /\ to = "abort",
         record.state = "infrastructure_failed" => to \in {"verify", "settle"},
         to \in AtWork => pc[c] \in AtWork,
         to \in {"create", "bind"} \union Starting => record.step[at[c]] = "running",
         to \in {"live", "create"} => pc[c] \in {"live", "create"},
         to \in {"loaded", "discard"} => at[c] = Compile,
         to \in {"delete", "settle"} => Quiet,
         to # "bind",
         to \in Starting => pc[c] \in Starting /\ environment' = environment
  PROVE  Serial'
  <1>1. pc'[c] = to /\ \A d \in Caller : d = c  BY DEF TypeOK, OneAtATime
  <1>2. Recorded' /\ (Quiet' <=> Quiet)  BY <1>1, Unwritten DEF Serial, Outside
  <1>3. Agrees(c) /\ Works(c)  BY DEF Serial
  <1>4. Agrees(c)'  BY <1>1, <1>3 DEF Agrees, Outside, Closed
  <1>5. Works(c)'
    <2>1. RunsOf(at[c])' = RunsOf(at[c]) /\ Mine(c)' = Mine(c)  BY DEF RunsOf, Mine
    <2>2. to \in Starting => (RunEnded(Mine(c))' <=> RunEnded(Mine(c)))
      BY <2>1 DEF RunEnded
    <2> QED BY <1>1, <1>2, <1>3, <2>1, <2>2 DEF Works
  <1> QED BY <1>1, <1>2, <1>4, <1>5 DEF Serial

\* A caller that publishes its copy: it changes its own step at most, and that when its Run has ended.
LEMMA SaveSerial ==
  ASSUME TypeOK, OneAtATime, RunsBacked, Serial, NEW c \in Caller, NEW from, NEW to,
         NEW copy \in Record, Saved(c, from, copy, to),
         from \notin Outside \union {"abort"},
         copy.run = held[c].run,
         \A t \in Step : t # at[c] => copy.step[t] = held[c].step[t],
         \/ copy.step[at[c]] = held[c].step[at[c]]
         \/ /\ from \in {"result", "loaded"} /\ RunEnded(Mine(c)) /\ copy.step[at[c]] # "pending"
            /\ to \in AtWork => copy.step[at[c]] # "completed" /\ to \notin Starting,
         \/ copy.state = held[c].state /\ from \notin {"delete", "settle"}
         \/ copy.state \notin {"absent", "cancelling", "cancelled", "infrastructure_failed"}
         \/ copy.state = "infrastructure_failed" /\ to = "delete",
         to \notin Outside \union {"live", "create", "bind", "abort", "discard"},
         to \in AtWork => from \in AtWork,
         to \in Starting => from \in {"bind"} \union Starting,
         to = "loaded" => at[c] = Compile,
         to \in {"delete", "settle"} => Quiet
  PROVE  Serial'
  <1>f. /\ Agrees(c) /\ Works(c) /\ Placed(c) /\ held[c] \in Record /\ record \in Record
        /\ at[c] \in Step /\ BackedBy(held[c], status, purpose) /\ Tracked /\ FailedIsQuiet
        /\ CancelCovers /\ EnvironmentOutlivesBranches
    BY SerialFacts
  <1>1. /\ pc[c] = from /\ pc'[c] = to /\ held'[c] = copy /\ record' = copy /\ at' = at
        /\ StoreFree /\ Open /\ \A d \in Caller : d = c
        /\ UNCHANGED <<status, purpose, environment, cancelling, canceller, phase, marker>>
    BY DEF Saved, Goto, TypeOK, OneAtATime, axernVars, episodeVars
  <1>2. /\ held[c].step = record.step /\ held[c].state = record.state
        /\ \A s \in Step : s # at[c] \/ from # "bind" => held[c].run[s] = record.run[s]
    BY <1>1, <1>f DEF Agrees, Open, Closed
  <1>3. /\ copy.state \notin {"absent", "cancelling", "cancelled"}
        /\ copy.state = "infrastructure_failed" =>
              Quiet /\ to \in {"delete", "settle"}
    BY <1>1, <1>2, <1>f DEF Open, FailedIsQuiet, AtWork
  <1>4. UNCHANGED <<Executing, Quiet>> /\ RunsOf(at[c])' = RunsOf(at[c])
        /\ \A r : RunEnded(r)' = RunEnded(r)
    BY <1>1 DEF Executing, Quiet, RunsOf, RunEnded
  <1>5. ASSUME copy.step[at[c]] # held[c].step[at[c]]
        PROVE  Executing = {} /\ record.step[at[c]] # "completed" /\ from # "bind"
    BY <1>1, <1>5, <1>f, QuietAtWork DEF Works, AtWork
  <1>6. Tracked'
    <2>1. ASSUME NEW r \in RunId, status[r] # "absent"
          PROVE  \/ copy.run[purpose[r]] = r
                 \/ /\ copy.run[purpose[r]] = NoRun /\ copy.step[purpose[r]] = "running"
                    /\ status[r] # "executing"
      <3>s. purpose[r] \in Step  BY DEF TypeOK
      <3>1. CASE purpose[r] # at[c]
        BY <1>2, <1>f, <2>1, <3>s, <3>1 DEF Tracked
      <3>2. CASE purpose[r] = at[c] /\ held[c].run[at[c]] # NoRun
        <4>1. held[c].run[at[c]] \in RunId
          <5>1. held[c].run \in [Step -> RunId \union {NoRun}]  BY <1>f, CopyType
          <5> QED BY <1>f, <3>2, <5>1
        <4>2. status[held[c].run[at[c]]] # "absent" /\ purpose[held[c].run[at[c]]] = at[c]
          BY <1>f, <3>2 DEF BackedBy
        <4> QED BY <1>f, <2>1, <3>2, <4>1, <4>2 DEF Tracked
      <3>3. CASE purpose[r] = at[c] /\ held[c].run[at[c]] = NoRun
        <4>1. from # "bind"  BY <1>1, <1>f, <3>3 DEF Placed, Holding, Mine
        <4>2. record.run[at[c]] = NoRun  BY <1>2, <1>f, <3>3, <4>1
        <4>3. record.step[at[c]] = "running" /\ status[r] # "executing"
          BY <1>f, <2>1, <3>3, <4>2, NoRunAssumption DEF Tracked
        <4>4. copy.step[at[c]] = held[c].step[at[c]]
          BY <1>1, <1>f, <3>3 DEF Mine, Placed, Holding
        <4> QED BY <1>2, <3>3, <4>3, <4>4
      <3> QED BY <3>1, <3>2, <3>3
    <2>2. ASSUME NEW r \in Executing PROVE copy.step[purpose[r]] = "running"
      <3>1. purpose[r] \in Step  BY DEF Executing, TypeOK
      <3>2. copy.step[at[c]] = held[c].step[at[c]]  BY <1>5
      <3> QED BY <1>2, <1>f, <3>1, <3>2 DEF Tracked
    <2>3. ASSUME NEW s \in Step, NEW t \in Step, copy.step[s] # "pending", t < s
          PROVE  copy.step[t] = "completed"
      <3>0. s \in Nat /\ t \in Nat /\ at[c] \in Nat  BY <1>f, StepNat
      <3>1. s # t  BY <2>3, <3>0
      <3>2. CASE copy.step[at[c]] = held[c].step[at[c]]
        BY <1>2, <1>f, <2>3, <3>2 DEF Tracked
      <3>3. CASE copy.step[at[c]] # held[c].step[at[c]]
        <4>1. CASE t = at[c]
          BY <1>2, <1>5, <1>f, <2>3, <3>1, <3>3, <4>1 DEF Tracked
        <4>2. CASE s = at[c]
          BY <1>f, <2>3, <3>1, <4>2 DEF Works
        <4>3. CASE s # at[c] /\ t # at[c]
          BY <1>2, <1>f, <2>3, <4>3 DEF Tracked
        <4> QED BY <4>1, <4>2, <4>3
      <3> QED BY <3>2, <3>3
    <2>4. \A q, r \in RunId :
             status[q] # "absent" /\ status[r] # "absent" /\ purpose[q] = purpose[r] => q = r
      BY <1>f DEF Tracked
    <2> QED BY <1>1, <1>3, <1>4, <2>1, <2>2, <2>3, <2>4 DEF Tracked
  <1>7. FailedIsQuiet'  BY <1>1, <1>3, <1>4 DEF FailedIsQuiet
  <1>8. CancelCovers'
    BY <1>1, <1>3, <1>f DEF CancelCovers, StoreFree, Open
  <1>9. EnvironmentOutlivesBranches'
    BY <1>1, <1>4, <1>f DEF EnvironmentOutlivesBranches
  <1>10. Agrees(c)'  BY <1>1 DEF Agrees
  <1>11. Works(c)'
    <2>1. \A t \in Step : t < at[c] => copy.step[t] = "completed"
      BY <1>f, StepNat DEF Works
    <2>2. to \in AtWork => copy.step[at[c]] # "completed"
      BY <1>1, <1>2, <1>f DEF Works
    <2>3. to \in Starting => copy.step[at[c]] = "running"
      BY <1>1, <1>2, <1>f DEF Works, Starting, AtWork
    <2>4. Mine(c)' = Mine(c)  BY <1>1 DEF Mine
    <2>5. at[c] # Compile /\ to \in Starting =>
             environment = "exists" \/ Mine(c) \in cancelling \/ RunEnded(Mine(c))
      BY <1>1, <1>f DEF Works, Open, Closed
    <2> QED BY <1>1, <1>4, <2>1, <2>2, <2>3, <2>4, <2>5 DEF Works
  <1> QED BY <1>1, <1>6, <1>7, <1>8, <1>9, <1>10, <1>11 DEF Serial, Recorded

\* A refused caller leaves.
LEMMA RefusedSerial ==
  ASSUME TypeOK, OneAtATime, Serial, NEW c \in Caller, NEW from, Refused(c, from), Raise(c)
  PROVE  Serial'
  <1>1. UNCHANGED <<record, status, purpose, canceller, marker, cancelling, environment, phase>>
    BY DEF Refused, recordVars, axernVars, episodeVars
  <1> QED BY <1>1, LeaveUnwritten DEF Raise

LEMMA InitializeSerial ==
  ASSUME TypeOK, OneAtATime, RunsBacked, Serial, NEW c \in Caller, Initialize(c)
  PROVE  Serial'
  <1>f. /\ Placed(c) /\ Tracked /\ FailedIsQuiet /\ CancelCovers /\ EnvironmentOutlivesBranches
        /\ record \in Record
    BY SerialFacts
  <1>1. /\ pc[c] = "verify" /\ at[c] = Compile /\ StoreFree
        /\ UNCHANGED <<status, purpose, environment, cancelling, canceller, phase, marker>>
    BY <1>f DEF Initialize, Placed, axernVars, episodeVars
  <1>2. CASE Raise(c) /\ UNCHANGED record
    BY <1>1, <1>2, LeaveUnwritten DEF Raise
  <1>3. CASE Goto(c, "verify", Entry) /\ record' = Initialized
               /\ held' = [held EXCEPT ![c] = Initialized] /\ UNCHANGED at
               /\ ~(marker \/ Entry = "raise")
    <2>1. /\ pc'[c] = Entry /\ held'[c] = record' /\ record' = Initialized /\ at'[c] = Compile
          /\ \A d \in Caller : d = c
      BY <1>1, <1>3 DEF Goto, TypeOK, OneAtATime
    <2>2. /\ Entry \in {"step", "delete"}
          /\ Entry = "delete" <=> record.state = "infrastructure_failed"
      BY <1>3 DEF Entry
    <2>3. CASE record.state # "absent"
      <3>1. record' = record  BY <2>1, <2>3 DEF Initialized
      <3>2. Recorded' /\ (Quiet' <=> Quiet)
        <4>1. record.state = "infrastructure_failed" =>
                 \A d \in Caller : pc'[d] \in Outside \union {"delete", "settle"}
          BY <2>1, <2>2
        <4> QED BY <1>1, <3>1, <4>1, Unwritten DEF Serial
      <3>3. Agrees(c)'  BY <2>1 DEF Agrees
      <3>4. Entry = "delete" => Quiet  BY <1>f, <2>2 DEF FailedIsQuiet
      <3>5. \A t \in Step : ~(t < Compile)  BY StepNat DEF Compile
      <3>6. Works(c)'  BY <2>1, <2>2, <3>2, <3>4, <3>5 DEF Works, AtWork, Starting
      <3> QED BY <2>1, <3>2, <3>3, <3>6 DEF Serial
    <2>4. CASE record.state = "absent"
      <3>1. record = Blank  BY <1>f, <2>4 DEF Tracked
      <3>2. \A r \in RunId : status[r] = "absent"
        BY <1>f, <3>1, NoRunAssumption DEF Tracked, Blank, TypeOK
      <3>3. /\ record'.state = "new" /\ record'.step = [s \in Step |-> "pending"]
        BY <2>1, <2>4 DEF Initialized, Blank
      <3>4. Executing' = {} /\ Executing = {}  BY <1>1, <3>2 DEF Executing
      <3>5. Tracked'
        BY <1>1, <3>2, <3>3, <3>4 DEF Tracked
      <3>6. FailedIsQuiet' /\ EnvironmentOutlivesBranches'
        BY <3>3, <3>4 DEF FailedIsQuiet, EnvironmentOutlivesBranches
      <3>7. CancelCovers'
        BY <1>1, <1>3, <1>f, <2>4, <3>3 DEF CancelCovers, StoreFree
      <3>8. Agrees(c)'  BY <2>1 DEF Agrees
      <3>9. \A t \in Step : ~(t < Compile)  BY StepNat DEF Compile
      <3>10. Works(c)'  BY <2>1, <2>2, <2>4, <3>9 DEF Works, AtWork, Starting
      <3> QED BY <2>1, <3>5, <3>6, <3>7, <3>8, <3>10 DEF Serial, Recorded
    <2> QED BY <2>3, <2>4
  <1> QED BY <1>2, <1>3 DEF Initialize

\* The record after a claim.
LEMMA ClaimedSteps ==
  ASSUME TypeOK, NEW s \in Step
  PROVE  /\ Claimed(s).run = record.run /\ Claimed(s).derived = record.derived
         /\ \A t \in Step : t # s => Claimed(s).step[t] = record.step[t]
         /\ \/ Claimed(s).step[s] = "running"
            \/ Claimed(s) = record /\ record.step[s] \in {"completed", "business_failed"}
               /\ (record.step[s] = "business_failed" => s = Compile)
  <1>1. record \in Record  BY DEF TypeOK
  <1>2. CASE record.step[s] = "completed" \/ (s = Compile /\ record.step[s] = "business_failed")
    BY <1>2 DEF Claimed
  <1>3. CASE ~(record.step[s] = "completed" \/ (s = Compile /\ record.step[s] = "business_failed"))
    <2>1. PICK y : Claimed(s) = [record EXCEPT !.step[s] = "running", !.state = y]
      BY <1>3 DEF Claimed
    <2>2. Claimed(s).derived = record.derived  BY <1>1, <2>1, CleanFields
    <2>3. Claimed(s).run = record.run  BY <1>1, <2>1, StepSet
    <2>4. \A t \in Step : Claimed(s).step[t] = IF t = s THEN "running" ELSE record.step[t]
      BY <1>1, <2>1, StepSet
    <2> QED BY <2>2, <2>3, <2>4
  <1> QED BY <1>2, <1>3

LEMMA ClaimSerial ==
  ASSUME TypeOK, OneAtATime, RunsBacked, Serial, NEW c \in Caller, Claim(c)
  PROVE  Serial'
  <1>f. /\ Agrees(c) /\ Works(c) /\ Placed(c) /\ held[c] \in Record /\ record \in Record /\ at[c] \in Step
        /\ BackedBy(record, status, purpose) /\ Tracked /\ FailedIsQuiet /\ CancelCovers
        /\ EnvironmentOutlivesBranches
    BY SerialFacts
  <1>1. /\ pc[c] = "step" /\ StoreFree
        /\ UNCHANGED <<status, purpose, environment, cancelling, canceller, phase, marker>>
    BY DEF Claim, axernVars, episodeVars
  <1>2. CASE Raise(c) /\ UNCHANGED record
    BY <1>1, <1>2, LeaveUnwritten DEF Raise
  <1>3. ASSUME NEW s \in Step, Due(c, s), Open, ~Ambiguous(s), Claims(c, s)
        PROVE  Serial'
    <2>1. /\ pc'[c] = "live" /\ record' = Claimed(s) /\ held'[c] = record' /\ at'[c] = s
          /\ \A d \in Caller : d = c
      BY <1>3 DEF Claims, Goto, TypeOK, OneAtATime
    <2>2. /\ held[c].step = record.step /\ record.step[s] # "completed" /\ at[c] <= s
          /\ \A t \in Step : t < s => record.step[t] = "completed"
      <3>1. held[c].step = record.step  BY <1>1, <1>f DEF Agrees, Outside
      <3>2. record.step[s] # "completed" /\ at[c] <= s
        BY <1>3, <3>1 DEF Due, Ahead, Uncompleted
      <3>3. ASSUME NEW t \in Step, t < s PROVE record.step[t] = "completed"
        <4>1. t \in Nat /\ s \in Nat /\ at[c] \in Nat  BY <1>f, StepNat
        <4>2. CASE t < at[c]  BY <1>f, <3>1, <4>2 DEF Works
        <4>3. CASE t >= at[c]
          <5>1. t \notin Ahead(c)  BY <1>3, <3>3, <4>1 DEF Due
          <5> QED BY <3>1, <4>3, <5>1 DEF Ahead, Uncompleted
        <4> QED BY <4>1, <4>2, <4>3
      <3> QED BY <3>1, <3>2, <3>3
    <2>3. /\ record'.run = record.run
          /\ \A t \in Step : t # s => record'.step[t] = record.step[t]
          /\ record'.step[s] # "completed"
          /\ record.run[s] = NoRun => record'.step[s] = "running" /\ record.step[s] # "running"
          /\ record.step[s] = "running" => record'.step[s] = "running"
      BY <1>3, <1>f, <2>1, <2>2, ClaimedSteps DEF BackedBy, Ambiguous
    <2>4. /\ ~Closed(record) /\ ~Closed(record') /\ record'.state # "absent"
          /\ record'.state # "infrastructure_failed" /\ ~marker
      BY <1>1, <1>3, <1>f, <2>1, ClaimedFields DEF Open, Closed, FailedIsQuiet, Outside
    <2>5. Executing' = Executing /\ \A t \in Step : RunsOf(t)' = RunsOf(t)
      BY <1>1 DEF Executing, RunsOf
    <2>6. Tracked'
      <3>1. \A r \in RunId : status[r] # "absent" =>
               \/ record'.run[purpose[r]] = r
               \/ /\ record'.run[purpose[r]] = NoRun /\ record'.step[purpose[r]] = "running"
                  /\ status[r] # "executing"
        BY <1>f, <2>3 DEF Tracked, TypeOK
      <3>2. \A r \in Executing : record'.step[purpose[r]] = "running"
        BY <1>f, <2>3 DEF Tracked, TypeOK, Executing
      <3>3. ASSUME NEW x \in Step, NEW t \in Step, record'.step[x] # "pending", t < x
            PROVE  record'.step[t] = "completed"
        <4>0. x \in Nat /\ t \in Nat /\ s \in Nat  BY StepNat
        <4>1. CASE x = s  BY <2>2, <2>3, <3>3, <4>0, <4>1
        <4>2. CASE x # s
          <5>1. record.step[x] # "pending"  BY <2>3, <3>3, <4>2
          <5>2. record.step[t] = "completed"  BY <1>f, <3>3, <5>1 DEF Tracked
          <5> QED BY <2>2, <2>3, <5>2
        <4> QED BY <4>1, <4>2
      <3>4. \A q, r \in RunId :
             status[q] # "absent" /\ status[r] # "absent" /\ purpose[q] = purpose[r] => q = r
        BY <1>f DEF Tracked
      <3> QED BY <1>1, <2>4, <2>5, <3>1, <3>2, <3>3, <3>4 DEF Tracked
    <2>7. FailedIsQuiet' /\ EnvironmentOutlivesBranches'
      BY <1>1, <1>f, <2>4, <2>5 DEF FailedIsQuiet, EnvironmentOutlivesBranches
    <2>8. CancelCovers'
      BY <1>1, <1>f, <2>4 DEF CancelCovers, StoreFree, Closed
    <2>9. Agrees(c)'  BY <2>1 DEF Agrees
    <2>10. Works(c)'
      <3>1. \A t \in Step : t < s => record'.step[t] = "completed"
        BY <2>2, <2>3, StepNat
      <3>2. Mine(c)' = record.run[s]  BY <2>1, <2>3 DEF Mine
      <3>3. record.run[s] = NoRun => RunsOf(s) = {}
        BY <1>f, <2>3, NoRunAssumption DEF Tracked, RunsOf
      <3> QED BY <2>1, <2>3, <2>5, <3>1, <3>2, <3>3 DEF Works, AtWork, Starting
    <2> QED BY <2>1, <2>6, <2>7, <2>8, <2>9, <2>10 DEF Serial, Recorded
  <1> QED BY <1>2, <1>3 DEF Claim

LEMMA CreateSerial ==
  ASSUME TypeOK, OneAtATime, RunsBacked, Serial, NEW c \in Caller, CreateRun(c)
  PROVE  Serial'
  <1>f. /\ Agrees(c) /\ Works(c) /\ Placed(c) /\ held[c] \in Record /\ record \in Record /\ at[c] \in Step
        /\ BackedBy(record, status, purpose) /\ Tracked /\ FailedIsQuiet /\ CancelCovers
        /\ EnvironmentOutlivesBranches
    BY SerialFacts
  <1>1. PICK r \in RunId :
           /\ status[r] = "absent" /\ status' = [status EXCEPT ![r] = "waiting"]
           /\ purpose' = [purpose EXCEPT ![r] = at[c]]
           /\ \/ /\ Goto(c, "create", "bind")
                 /\ held' = [held EXCEPT ![c].run[at[c]] = r]
                 /\ UNCHANGED at
              \/ Raise(c)
    BY DEF CreateRun
  <1>2. /\ UNCHANGED <<record, environment, canceller, phase, marker, cancelling>>
        /\ pc[c] = "create" /\ (at[c] = Compile \/ environment = "exists")
        /\ \A d \in Caller : d = c
    BY DEF CreateRun, recordVars, episodeVars, OneAtATime
  <1>3. /\ record.step[at[c]] = "running" /\ record.run[at[c]] = NoRun /\ RunsOf(at[c]) = {}
        /\ Mine(c) = NoRun
    BY <1>2, <1>f DEF Works, Placed, Agrees, Outside, Mine
  <1>4. /\ \A q \in RunId : q # r => status'[q] = status[q] /\ purpose'[q] = purpose[q]
        /\ status'[r] = "waiting" /\ purpose'[r] = at[c]
    BY <1>1 DEF TypeOK
  <1>5. Executing' = Executing /\ \A q \in Executing : purpose'[q] = purpose[q]
    BY <1>1, <1>4 DEF Executing
  <1>6. Quiet' <=> Quiet  BY <1>5 DEF Quiet
  <1>7. Tracked'
    <2>1. ASSUME NEW q \in RunId, status'[q] # "absent"
          PROVE  \/ record.run[purpose'[q]] = q
                 \/ /\ record.run[purpose'[q]] = NoRun /\ record.step[purpose'[q]] = "running"
                    /\ status'[q] # "executing"
      BY <1>3, <1>4, <1>f, <2>1 DEF Tracked
    <2>2. ASSUME NEW q \in RunId, NEW x \in RunId, status'[q] # "absent", status'[x] # "absent",
                 purpose'[q] = purpose'[x]
          PROVE  q = x
      <3>1. CASE q # r /\ x # r  BY <1>4, <1>f, <2>2, <3>1 DEF Tracked
      <3>2. ASSUME NEW y \in RunId, y # r, status'[y] # "absent" PROVE purpose'[y] # at[c]
        BY <1>3, <1>4, <3>2 DEF RunsOf
      <3> QED BY <1>4, <2>2, <3>1, <3>2
    <2> QED BY <1>2, <1>5, <1>f, <2>1, <2>2 DEF Tracked
  <1>8. FailedIsQuiet'
    BY <1>2, <1>f DEF FailedIsQuiet, Outside
  <1>9. EnvironmentOutlivesBranches'
    BY <1>2, <1>5, <1>f DEF EnvironmentOutlivesBranches
  <1>10. CancelCovers'
    <2>1. ASSUME Covered PROVE Covered'
      <3> SUFFICES ASSUME NEW s \in Step, record.step[s] = "running", record.run[s] # NoRun,
                          ~(status'[record.run[s]] \in Ended)
                   PROVE  record.run[s] \in cancelling
        BY <1>2 DEF Covered, RunEnded
      <3>1. record.run[s] \in RunId
        <4>1. record.run \in [Step -> RunId \union {NoRun}]  BY <1>f, CopyType
        <4> QED BY <4>1
      <3>2. status[record.run[s]] # "absent"  BY <1>f DEF BackedBy
      <3>3. status'[record.run[s]] = status[record.run[s]]  BY <1>1, <1>4, <3>1, <3>2
      <3> QED BY <2>1, <3>3 DEF Covered, RunEnded
    <2> QED BY <1>2, <1>f, <2>1 DEF CancelCovers
  <1>11. Recorded'  BY <1>7, <1>8, <1>9, <1>10 DEF Recorded
  <1>12. CASE Raise(c)  BY <1>11, <1>12, LeaveSerial DEF Raise
  <1>13. CASE Goto(c, "create", "bind") /\ held' = [held EXCEPT ![c].run[at[c]] = r] /\ UNCHANGED at
    <2>1. pc'[c] = "bind" /\ held'[c] = [held[c] EXCEPT !.run[at[c]] = r] /\ at'[c] = at[c]
      BY <1>13 DEF Goto, TypeOK
    <2>2. /\ held'[c].step = held[c].step /\ held'[c].derived = held[c].derived
          /\ held'[c].state = held[c].state
          /\ \A t \in Step : t # at[c] => held'[c].run[t] = held[c].run[t]
      <3>1. /\ held'[c].step = held[c].step /\ held'[c].derived = held[c].derived
            /\ held'[c].state = held[c].state /\ held'[c].run = [held[c].run EXCEPT ![at[c]] = r]
        BY <2>1, <1>f DEF Record
      <3> QED BY <3>1
    <2>3. Agrees(c)'
      BY <1>2, <1>f, <2>1, <2>2 DEF Agrees, Outside, Closed
    <2>4. Works(c)'
      BY <1>2, <1>3, <1>f, <2>1, <2>2 DEF Works, AtWork, Starting
    <2> QED BY <1>2, <1>11, <2>3, <2>4 DEF Serial
  <1> QED BY <1>1, <1>12, <1>13

LEMMA ReleaseSerial ==
  ASSUME TypeOK, OneAtATime, RunsBacked, Serial, NEW c \in Caller, Release(c)
  PROVE  Serial'
  <1>f. /\ Agrees(c) /\ Works(c) /\ Placed(c) /\ held[c] \in Record /\ record \in Record /\ at[c] \in Step
        /\ BackedBy(held[c], status, purpose) /\ Tracked /\ FailedIsQuiet /\ CancelCovers
        /\ EnvironmentOutlivesBranches
    BY SerialFacts
  <1>1. PICK to \in {"follow", "abort"} :
           /\ UNCHANGED <<record, held, at, purpose, environment, canceller, phase, marker, cancelling>>
           /\ pc' = [pc EXCEPT ![c] = to]
           /\ status[Mine(c)] = "waiting" /\ status' = [status EXCEPT ![Mine(c)] = "executing"]
           /\ pc[c] = "release"
    BY DEF Release, Goto, recordVars, episodeVars
  <1>2. pc'[c] = to /\ \A d \in Caller : d = c  BY <1>1 DEF TypeOK, OneAtATime
  <1>3. /\ Mine(c) \in RunId /\ purpose[Mine(c)] = at[c] /\ record.run[at[c]] = Mine(c)
        /\ record.step[at[c]] = "running"
    <2>1. Mine(c) # NoRun /\ held[c].run[at[c]] = record.run[at[c]] /\ record.step[at[c]] = "running"
      BY <1>1, <1>f DEF Placed, Holding, Agrees, Works, Starting, Outside
    <2>2. held[c].run \in [Step -> RunId \union {NoRun}]  BY <1>f, CopyType
    <2> QED BY <1>f, <2>1, <2>2 DEF BackedBy, Mine
  <1>4. /\ \A q \in RunId : q # Mine(c) => status'[q] = status[q]
        /\ status'[Mine(c)] = "executing"
        /\ \A q \in RunId : /\ RunEnded(q)' <=> RunEnded(q)
                            /\ status'[q] # "absent" <=> status[q] # "absent"
    BY <1>1, <1>3 DEF TypeOK, RunEnded, Ended
  <1>5. Executing' = Executing \union {Mine(c)}
    BY <1>3, <1>4 DEF Executing
  <1>6. Tracked'
    BY <1>1, <1>3, <1>4, <1>5, <1>f DEF Tracked
  <1>7. FailedIsQuiet'
    BY <1>1, <1>f DEF FailedIsQuiet, Outside
  <1>8. EnvironmentOutlivesBranches'
    <2>1. at[c] # Compile => environment = "exists" \/ Mine(c) \in cancelling
      BY <1>1, <1>f DEF Works, Starting, RunEnded, Ended
    <2> QED BY <1>1, <1>3, <1>5, <1>f, <2>1 DEF EnvironmentOutlivesBranches
  <1>9. CancelCovers'
    <2>1. ASSUME Covered PROVE Covered'
      <3>1. record.run \in [Step -> RunId \union {NoRun}]  BY <1>f, CopyType
      <3> QED BY <1>1, <1>4, <2>1, <3>1 DEF Covered
    <2> QED BY <1>1, <1>f, <2>1 DEF CancelCovers
  <1>10. Agrees(c)'  BY <1>1, <1>2, <1>f DEF Agrees, Outside, Closed
  <1>11. Works(c)'  BY <1>1, <1>2, <1>f DEF Works, AtWork, Starting
  <1> QED BY <1>2, <1>6, <1>7, <1>8, <1>9, <1>10, <1>11 DEF Serial, Recorded

LEMMA PrepareSerial ==
  ASSUME TypeOK, OneAtATime, RunsBacked, Serial, NEW c \in Caller, Prepare(c)
  PROVE  Serial'
  <1>f. /\ Agrees(c) /\ Works(c) /\ Placed(c) /\ held[c] \in Record /\ at[c] \in Step /\ FailedIsQuiet
    BY SerialFacts
  <1>q. record.state = "infrastructure_failed" => pc[c] \in Outside \union {"delete", "settle"}
    BY <1>f DEF FailedIsQuiet
  <1>1. CASE Enter(c)
    <2>1. /\ pc' = [pc EXCEPT ![c] = "verify"]
          /\ UNCHANGED <<held, at, record, status, purpose, canceller, marker, cancelling, phase, environment>>
      BY <1>1 DEF Enter, Goto, recordVars, axernVars
    <2> QED BY <2>1, MoveSerial DEF AtWork, Starting
  <1>2. CASE Initialize(c) \/ Claim(c) \/ CreateRun(c) \/ Release(c)
    BY <1>2, InitializeSerial, ClaimSerial, CreateSerial, ReleaseSerial
  <1>3. CASE RequireLive(c)
    <2>1. /\ UNCHANGED <<record, status, purpose, environment, canceller, phase, marker, cancelling>>
          /\ pc[c] = "live"
      BY <1>3 DEF RequireLive, recordVars, axernVars, episodeVars
    <2>2. CASE Raise(c)  BY <2>1, <2>2, LeaveUnwritten DEF Raise
    <2>3. CASE ~Raise(c)
      <3>1. PICK to \in {"create", "follow"} :
               /\ pc' = [pc EXCEPT ![c] = to] /\ UNCHANGED <<held, at>>
               /\ to = "create" => Mine(c) = NoRun
        BY <1>3, <2>3 DEF RequireLive, Goto
      <3>2. to = "create" => record.step[at[c]] = "running"  BY <1>f, <2>1, <3>1 DEF Works
      <3> QED BY <1>q, <2>1, <3>1, <3>2, MoveSerial DEF AtWork, Starting, Outside
    <2> QED BY <2>2, <2>3
  <1>4. CASE CreateRunFails(c)
    <2>1. UNCHANGED <<record, status, purpose, environment, canceller, phase, marker, cancelling>>
      BY <1>4 DEF CreateRunFails, recordVars, axernVars, episodeVars
    <2> QED BY <1>4, <2>1, LeaveUnwritten DEF CreateRunFails, Raise
  <1>5. CASE Bind(c)
    <2>1. ASSUME NEW from \in {"bind", "rebind"}, NEW to \in {"primary", "await", "reprimary", "release"},
                 SaveLiveOr(c, from, held[c], to, "abort")
          PROVE  Serial'
      <3>1. CASE Saved(c, from, held[c], to)
        BY <1>f, <3>1, SaveSerial DEF AtWork, Starting, Outside
      <3>2. CASE Refused(c, from) /\ Goto(c, from, "abort") /\ UNCHANGED <<held, at>>
        <4>1. /\ UNCHANGED <<held, at, record, status, purpose, canceller, marker, cancelling, phase,
                             environment>>
              /\ pc[c] = from /\ pc' = [pc EXCEPT ![c] = "abort"]
          BY <3>2 DEF Refused, Goto, axernVars, episodeVars, recordVars
        <4> QED BY <1>q, <4>1, MoveSerial DEF AtWork, Starting, Outside
      <3> QED BY <2>1, <3>1, <3>2 DEF SaveLiveOr
    <2> QED BY <1>5, <2>1 DEF Bind
  <1>6. CASE BindPrimary(c) \/ AwaitRunning(c) \/ PreparationFails(c)
    <2>1. PICK to \in {"await", "release", "abort", "rebind"} :
             /\ UNCHANGED <<held, at, record, status, purpose, canceller, marker, cancelling, phase,
                            environment>>
             /\ pc' = [pc EXCEPT ![c] = to] /\ pc[c] \in Starting
      BY <1>6 DEF BindPrimary, AwaitRunning, PreparationFails, Goto, recordVars, axernVars, episodeVars,
                  Starting
    <2>2. record.step[at[c]] = "running"  BY <1>f, <2>1 DEF Works
    <2> QED BY <1>q, <2>1, <2>2, MoveSerial DEF AtWork, Starting, Outside
  <1>7. CASE Abort(c)
    <2>1. /\ UNCHANGED <<record, status, purpose, environment, canceller, phase, marker>>
          /\ cancelling \subseteq cancelling'
          /\ Leave(c, "raise") \/ Leave(c, "idle")
      BY <1>7 DEF Abort, Raise, Cancel, recordVars, episodeVars
    <2> QED BY <2>1, LeaveUnwritten
  <1> QED BY <1>1, <1>2, <1>3, <1>4, <1>5, <1>6, <1>7 DEF Prepare

\* The copies that a caller publishes are records, and keep the rest of what it held.
LEMMA StateMade ==
  ASSUME NEW copy \in Record, NEW y \in {"branches_running", "aggregating", "completed",
                                         "infrastructure_failed"}
  PROVE  /\ [copy EXCEPT !.state = y] \in Record /\ [copy EXCEPT !.state = y].state = y
         /\ [copy EXCEPT !.state = y].step = copy.step /\ [copy EXCEPT !.state = y].run = copy.run
  <1>1. [copy EXCEPT !.state = y] \in Record  BY StepFacts, CopyType
  <1> QED BY <1>1 DEF Record

LEMMA CleanupMade ==
  ASSUME NEW copy \in Record, NEW z \in {"running", "completed", "not_created"}
  PROVE  /\ [copy EXCEPT !.cleanup = z] \in Record /\ [copy EXCEPT !.cleanup = z].state = copy.state
         /\ [copy EXCEPT !.cleanup = z].step = copy.step /\ [copy EXCEPT !.cleanup = z].run = copy.run
  <1>1. [copy EXCEPT !.cleanup = z] \in Record  BY StepFacts, CopyType
  <1> QED BY <1>1 DEF Record

LEMMA EndMade ==
  ASSUME NEW copy \in Record, NEW z \in {"running", "completed", "not_created"},
         NEW y \in {"branches_running", "aggregating", "completed", "infrastructure_failed"}
  PROVE  /\ [copy EXCEPT !.cleanup = z, !.state = y] \in Record
         /\ [copy EXCEPT !.cleanup = z, !.state = y].state = y
         /\ [copy EXCEPT !.cleanup = z, !.state = y].step = copy.step
         /\ [copy EXCEPT !.cleanup = z, !.state = y].run = copy.run
  <1> DEFINE g == [copy EXCEPT !.cleanup = z]
  <1>1. [copy EXCEPT !.cleanup = z, !.state = y] = [g EXCEPT !.state = y]  BY DEF Record
  <1>2. g \in Record /\ g.step = copy.step /\ g.run = copy.run  BY CleanupMade
  <1>3. /\ [g EXCEPT !.state = y] \in Record /\ [g EXCEPT !.state = y].state = y
        /\ [g EXCEPT !.state = y].step = g.step /\ [g EXCEPT !.state = y].run = g.run
    <2> HIDE DEF g
    <2> QED BY <1>2, StateMade
  <1> QED BY <1>1, <1>2, <1>3

LEMMA FailedMade ==
  ASSUME NEW copy \in Record
  PROVE  /\ Failed(copy) \in Record /\ Failed(copy).state = "infrastructure_failed"
         /\ Failed(copy).step = copy.step /\ Failed(copy).run = copy.run
  <1> DEFINE g == [copy EXCEPT !.state = "infrastructure_failed"]
  <1>1. Failed(copy) = [g EXCEPT !.cleanup = "running"]  BY DEF Failed, Record
  <1>2. /\ g \in Record /\ g.step = copy.step /\ g.run = copy.run /\ g.state = "infrastructure_failed"
    BY StateMade
  <1>3. /\ [g EXCEPT !.cleanup = "running"] \in Record /\ [g EXCEPT !.cleanup = "running"].state = g.state
        /\ [g EXCEPT !.cleanup = "running"].step = g.step /\ [g EXCEPT !.cleanup = "running"].run = g.run
    <2> HIDE DEF g
    <2> QED BY <1>2, CleanupMade
  <1> QED BY <1>1, <1>2, <1>3

LEMMA StepMade ==
  ASSUME NEW copy \in Record, NEW s \in Step,
         NEW x \in {"running", "completed", "business_failed", "infrastructure_failed"}
  PROVE  /\ [copy EXCEPT !.step[s] = x] \in Record /\ [copy EXCEPT !.step[s] = x].state = copy.state
         /\ [copy EXCEPT !.step[s] = x].run = copy.run
         /\ \A t \in Step : [copy EXCEPT !.step[s] = x].step[t] = IF t = s THEN x ELSE copy.step[t]
  <1>1. [copy EXCEPT !.step[s] = x] \in Record  BY CopyType
  <1>2. [copy EXCEPT !.step[s] = x].state = copy.state  BY DEF Record
  <1>3. [copy EXCEPT !.step[s] = x].run = copy.run
        /\ \A t \in Step : [copy EXCEPT !.step[s] = x].step[t] = IF t = s THEN x ELSE copy.step[t]
    BY StepSet
  <1> QED BY <1>1, <1>2, <1>3

LEMMA EvaluateSerial ==
  ASSUME TypeOK, OneAtATime, RunsBacked, Serial, NEW c \in Caller, Evaluate(c)
  PROVE  Serial'
  <1> DEFINE h == held[c]
  <1>f. /\ h \in Record /\ at[c] \in Step /\ Compile \in Step /\ Works(c) /\ FailedIsQuiet
    BY SerialFacts, StepFacts
  <1>b. at[c] \in Branch => at[c] # Compile  BY StepFacts
  <1>q. /\ record.state = "infrastructure_failed" => pc[c] \in Outside \union {"delete", "settle"}
        /\ pc[c] \in AtWork /\ at[c] = Compile => Quiet
    BY <1>f, QuietAtWork DEF FailedIsQuiet
  <1>e. ASSUME NEW place \in {"result", "loaded"}, NEW steps, NEW outcomes \in SUBSET Ended,
               At(c, place, steps, outcomes)
        PROVE  RunEnded(Mine(c)) /\ Quiet /\ pc[c] = place /\ at[c] \in steps
    BY <1>e, QuietAtWork DEF At, RunEnded, Quiet, AtWork
  <1>s. ASSUME NEW from, NEW to, NEW copy, SaveLive(c, from, copy, to),
               Saved(c, from, copy, to) => Serial'
        PROVE  Serial'
    BY <1>s, RefusedSerial DEF SaveLive
  <1> USE DEF AtWork, Outside, Starting
  <1>1. CASE Follow(c)
    <2>1. /\ UNCHANGED <<held, at, record, status, purpose, canceller, marker, cancelling, phase,
                         environment>>
          /\ pc' = [pc EXCEPT ![c] = "result"] /\ pc[c] = "follow"
      BY <1>1 DEF Follow, Goto, recordVars, axernVars, episodeVars
    <2> QED BY <1>q, <2>1, MoveSerial
  <1>2. CASE FollowFails(c) \/ DownloadFails(c)
    <2>1. /\ UNCHANGED <<record, status, purpose, canceller, marker, cancelling, phase>>
          /\ Leave(c, "raise")
          /\ environment' = environment \/ Quiet
      BY <1>2, <1>e DEF FollowFails, DownloadFails, Raise, recordVars, axernVars, episodeVars, Sealed,
                        Ended
    <2> QED BY <2>1, LeaveUnwritten
  <1>3. CASE RejectCandidate(c)
    <2> DEFINE copy == [h EXCEPT !.step[Compile] = "business_failed", !.state = "aggregating"]
    <2>1. RunEnded(Mine(c)) /\ at[c] = Compile  BY <1>3, <1>e DEF RejectCandidate, Ended
    <2>2. SaveLive(c, "result", copy, "reject")  BY <1>3 DEF RejectCandidate
    <2>3. /\ copy \in Record /\ copy.run = h.run /\ copy.state = "aggregating"
          /\ \A t \in Step : copy.step[t] = IF t = Compile THEN "business_failed" ELSE h.step[t]
      <3> DEFINE f == [h EXCEPT !.step[Compile] = "business_failed"]
      <3>1. /\ f \in Record /\ f.run = h.run
            /\ \A t \in Step : f.step[t] = IF t = Compile THEN "business_failed" ELSE h.step[t]
        BY <1>f, StepMade
      <3>2. copy = [f EXCEPT !.state = "aggregating"]  BY <1>f DEF Record
      <3>3. /\ [f EXCEPT !.state = "aggregating"] \in Record /\ [f EXCEPT !.state = "aggregating"].state = "aggregating"
            /\ [f EXCEPT !.state = "aggregating"].step = f.step /\ [f EXCEPT !.state = "aggregating"].run = f.run
        <4> HIDE DEF f
        <4> QED BY <3>1, StateMade
      <3> HIDE DEF copy, f
      <3> QED BY <3>1, <3>2, <3>3
    <2> HIDE DEF copy
    <2>4. Saved(c, "result", copy, "reject") => Serial'
      BY <1>f, <2>1, <2>3, SaveSerial
    <2> QED BY <1>s, <2>2, <2>4
  <1>4. CASE FinishRejected(c)
    <2> DEFINE copy == [h EXCEPT !.cleanup = "not_created", !.state = "completed"]
    <2>1. SaveLive(c, "reject", copy, "finish")  BY <1>4 DEF FinishRejected
    <2>2. copy \in Record /\ copy.run = h.run /\ copy.step = h.step /\ copy.state = "completed"
      BY <1>f, EndMade
    <2> HIDE DEF copy
    <2>3. Saved(c, "reject", copy, "finish") => Serial'  BY <2>2, SaveSerial
    <2> QED BY <1>s, <2>1, <2>3
  <1>5. CASE PublishEnvironment(c)
    <2> DEFINE copy == [h EXCEPT !.derived = TRUE]
    <2>1. SaveLiveOr(c, "result", copy, "loaded", "discard") /\ at[c] = Compile /\ pc[c] = "result"
      BY <1>5 DEF PublishEnvironment, At
    <2>2. copy \in Record /\ copy.run = h.run /\ copy.step = h.step /\ copy.state = h.state
      <3>1. copy \in Record  BY <1>f, CopyType
      <3> QED BY <1>f, <3>1 DEF Record
    <2> HIDE DEF copy
    <2>3. CASE Saved(c, "result", copy, "loaded")  BY <2>1, <2>2, <2>3, SaveSerial
    <2>4. CASE Refused(c, "result") /\ Goto(c, "result", "discard") /\ UNCHANGED <<held, at>>
      <3>1. /\ UNCHANGED <<held, at, record, status, purpose, canceller, marker, cancelling, phase,
                           environment>>
            /\ pc' = [pc EXCEPT ![c] = "discard"]
        BY <2>4 DEF Refused, Goto, axernVars, episodeVars, recordVars
      <3> QED BY <1>q, <2>1, <3>1, MoveSerial
    <2> QED BY <2>1, <2>3, <2>4 DEF SaveLiveOr
  <1>6. CASE AcceptCompile(c)
    <2> DEFINE copy == [h EXCEPT !.step[Compile] = "completed", !.state = "branches_running"]
    <2>1. RunEnded(Mine(c)) /\ at[c] = Compile  BY <1>6, <1>e DEF AcceptCompile, Ended
    <2>2. SaveLive(c, "loaded", copy, "step")  BY <1>6 DEF AcceptCompile
    <2>3. /\ copy \in Record /\ copy.run = h.run /\ copy.state = "branches_running"
          /\ \A t \in Step : copy.step[t] = IF t = Compile THEN "completed" ELSE h.step[t]
      <3> DEFINE f == [h EXCEPT !.step[Compile] = "completed"]
      <3>1. /\ f \in Record /\ f.run = h.run
            /\ \A t \in Step : f.step[t] = IF t = Compile THEN "completed" ELSE h.step[t]
        BY <1>f, StepMade
      <3>2. copy = [f EXCEPT !.state = "branches_running"]  BY <1>f DEF Record
      <3>3. /\ [f EXCEPT !.state = "branches_running"] \in Record /\ [f EXCEPT !.state = "branches_running"].state = "branches_running"
            /\ [f EXCEPT !.state = "branches_running"].step = f.step /\ [f EXCEPT !.state = "branches_running"].run = f.run
        <4> HIDE DEF f
        <4> QED BY <3>1, StateMade
      <3> HIDE DEF copy, f
      <3> QED BY <3>1, <3>2, <3>3
    <2> HIDE DEF copy
    <2>4. Saved(c, "loaded", copy, "step") => Serial'
      BY <1>f, <2>1, <2>3, SaveSerial
    <2> QED BY <1>s, <2>2, <2>4
  <1>7. CASE SaveFailure(c)
    <2> DEFINE k == [h EXCEPT !.step[at[c]] = "infrastructure_failed"]
    <2>1. RunEnded(Mine(c)) /\ Quiet  BY <1>7, <1>e DEF SaveFailure, Ended
    <2>2. /\ k \in Record /\ k.run = h.run
          /\ \A t \in Step : k.step[t] = IF t = at[c] THEN "infrastructure_failed" ELSE h.step[t]
      BY <1>f, StepMade
    <2>3. PICK from \in {"result", "loaded"}, base \in {h, k} :
             SaveLive(c, from, Failed(base), "delete")
      BY <1>7 DEF SaveFailure
    <2> HIDE DEF k
    <2>4. /\ base \in Record /\ Failed(base) \in Record
          /\ Failed(base).run = base.run /\ Failed(base).step = base.step
          /\ Failed(base).state = "infrastructure_failed"
      BY <1>f, <2>2, FailedMade
    <2>5. ASSUME Saved(c, from, Failed(base), "delete") PROVE Serial'
      <3> DEFINE copy == Failed(base)
      <3>1. /\ copy \in Record /\ copy.run = h.run /\ copy.state = "infrastructure_failed"
            /\ \A t \in Step : \/ (copy.step[t] = h.step[t])
                                \/ (t = at[c] /\ copy.step[t] = "infrastructure_failed")
        <4>1. CASE base = h  BY <2>4, <4>1
        <4>2. CASE base = k  BY <2>2, <2>4, <4>2
        <4> QED BY <2>3, <4>1, <4>2
      <3> HIDE DEF copy
      <3>2. Saved(c, from, copy, "delete")  BY <2>5 DEF copy
      <3> QED BY <1>f, <2>1, <3>1, <3>2, SaveSerial
    <2> QED BY <1>s, <2>3, <2>5
  <1>8. CASE BranchFails(c)
    <2> DEFINE copy == [h EXCEPT !.cleanup = "running"]
    <2>1. Quiet /\ SaveLive(c, "result", copy, "delete")  BY <1>8, <1>e DEF BranchFails, Ended
    <2>2. copy \in Record /\ copy.run = h.run /\ copy.step = h.step /\ copy.state = h.state
      BY <1>f, CleanupMade
    <2> HIDE DEF copy
    <2>3. Saved(c, "result", copy, "delete") => Serial'  BY <2>1, <2>2, SaveSerial
    <2> QED BY <1>s, <2>1, <2>3
  <1>9. CASE AcceptBranch(c)
    <2> DEFINE copy == [h EXCEPT !.step[at[c]] = "completed"]
    <2>1. RunEnded(Mine(c)) /\ SaveLive(c, "result", copy, "step")
      BY <1>9, <1>e DEF AcceptBranch, Ended
    <2>2. /\ copy \in Record /\ copy.run = h.run /\ copy.state = h.state
          /\ \A t \in Step : copy.step[t] = IF t = at[c] THEN "completed" ELSE h.step[t]
      BY <1>f, StepMade
    <2> HIDE DEF copy
    <2>3. Saved(c, "result", copy, "step") => Serial'  BY <1>f, <2>1, <2>2, SaveSerial
    <2> QED BY <1>s, <2>1, <2>3
  <1> QED BY <1>1, <1>2, <1>3, <1>4, <1>5, <1>6, <1>7, <1>8, <1>9 DEF Evaluate

LEMMA ConcludeSerial ==
  ASSUME TypeOK, OneAtATime, RunsBacked, Serial, NEW c \in Caller, Conclude(c)
  PROVE  Serial'
  <1> DEFINE h == held[c]
  <1>f. /\ h \in Record /\ at[c] \in Step /\ Compile \in Step /\ Agrees(c) /\ Works(c) /\ Placed(c)
        /\ Tracked /\ FailedIsQuiet
    BY SerialFacts, StepFacts
  <1>q. record.state = "infrastructure_failed" => pc[c] \in Outside \union {"delete", "settle"}
    BY <1>f DEF FailedIsQuiet
  <1>s. ASSUME NEW from, NEW to, NEW copy, SaveLive(c, from, copy, to),
               Saved(c, from, copy, to) => Serial'
        PROVE  Serial'
    BY <1>s, RefusedSerial DEF SaveLive
  <1>d. pc[c] \in {"delete", "lastDelete", "discard", "settle"} => Quiet
    <2>1. CASE pc[c] \in {"delete", "settle"}  BY <1>f, <2>1 DEF Works
    <2>2. CASE pc[c] = "discard"  BY <1>f, <2>2, QuietAtWork DEF Works, AtWork
    <2>3. CASE pc[c] = "lastDelete"
      <3>1. \A t \in Step : record.step[t] = "completed" \/ t = Compile
        BY <1>f, <2>3 DEF Placed, Uncompleted, Agrees, Outside
      <3> QED BY <1>f, <3>1 DEF Quiet, Tracked, Executing, TypeOK
    <2> QED BY <2>1, <2>2, <2>3
  <1>1. CASE Aggregate(c)
    <2> DEFINE copy == [h EXCEPT !.state = "aggregating"]
    <2>1. SaveLive(c, "step", copy, "publish")  BY <1>1 DEF Aggregate
    <2>2. copy \in Record /\ copy.run = h.run /\ copy.step = h.step /\ copy.state = "aggregating"
      BY <1>f, StateMade
    <2> HIDE DEF copy
    <2>3. Saved(c, "step", copy, "publish") => Serial'
      BY <2>2, SaveSerial DEF AtWork, Outside, Starting
    <2> QED BY <1>s, <2>1, <2>3
  <1>2. CASE PublishDetails(c)
    <2> DEFINE copy == [h EXCEPT !.cleanup = "running"]
    <2>1. SaveLive(c, "publish", copy, "lastDelete")  BY <1>2 DEF PublishDetails
    <2>2. copy \in Record /\ copy.run = h.run /\ copy.step = h.step /\ copy.state = h.state
      BY <1>f, CleanupMade
    <2> HIDE DEF copy
    <2>3. Saved(c, "publish", copy, "lastDelete") => Serial'
      BY <2>2, SaveSerial DEF AtWork, Outside, Starting
    <2> QED BY <1>s, <2>1, <2>3
  <1>3. CASE AggregationFails(c) \/ DeleteFails(c) \/ Crash(c) \/ Finish(c) \/ RecordFailure(c)
    <2>1. /\ UNCHANGED <<record, status, purpose, canceller, marker, cancelling, environment>>
          /\ Leave(c, "raise") \/ Leave(c, "idle")
          /\ phase' = "cancelled" => phase = "cancelled"
      BY <1>3 DEF AggregationFails, DeleteFails, Crash, Finish, RecordFailure, Raise, recordVars,
                  axernVars, episodeVars
    <2> QED BY <2>1, LeaveUnwritten
  <1>4. CASE DeleteEnvironment(c)
    <2>1. /\ UNCHANGED <<record, status, purpose, canceller, marker, cancelling, phase>>
          /\ pc[c] \in {"delete", "lastDelete", "discard"} /\ Quiet
      BY <1>4, <1>d DEF DeleteEnvironment, recordVars, episodeVars, Goto
    <2>2. CASE Raise(c)  BY <2>1, <2>2, LeaveUnwritten DEF Raise
    <2>3. CASE ~Raise(c)
      <3>1. PICK to \in {"settle", "complete"} :
               /\ pc' = [pc EXCEPT ![c] = to] /\ UNCHANGED <<held, at>>
               /\ \/ pc[c] = "delete" /\ to = "settle"
                  \/ pc[c] = "lastDelete" /\ to = "complete"
        <4>1. CASE Goto(c, "delete", "settle") /\ UNCHANGED <<held, at>>  BY <4>1 DEF Goto
        <4>2. CASE Goto(c, "lastDelete", "complete") /\ UNCHANGED <<held, at>>  BY <4>2 DEF Goto
        <4> QED BY <1>4, <2>3, <4>1, <4>2 DEF DeleteEnvironment
      <3> QED BY <1>q, <2>1, <3>1, MoveSerial DEF AtWork, Outside, Starting
    <2> QED BY <2>2, <2>3
  <1>5. CASE Settle(c)
    <2> DEFINE copy == [h EXCEPT !.cleanup = "completed", !.state = "infrastructure_failed"]
    <2>1. /\ UNCHANGED <<status, purpose, environment, canceller, phase, marker, cancelling>>
          /\ Leave(c, "raise") /\ StoreFree /\ pc[c] = "settle" /\ Quiet
          /\ record' = record \/ (Open /\ record' = copy)
      BY <1>5, <1>d DEF Settle, Raise, axernVars, episodeVars
    <2>2. CASE record' = record  BY <2>1, <2>2, LeaveUnwritten
    <2>3. CASE Open /\ record' = copy
      <3>1. /\ record'.step = record.step /\ record'.run = record.run
            /\ record'.state = "infrastructure_failed"
        <4>1. /\ h.step = record.step /\ \A t \in Step : h.run[t] = record.run[t]
          BY <1>f, <2>1 DEF Agrees, Outside
        <4>2. h.run = record.run
          <5>1. h.run \in [Step -> RunId \union {NoRun}] /\ record.run \in [Step -> RunId \union {NoRun}]
            BY <1>f, CopyType DEF TypeOK
          <5> QED BY <4>1, <5>1
        <4>3. copy.step = h.step /\ copy.run = h.run /\ copy.state = "infrastructure_failed"
          BY <1>f, EndMade
        <4> QED BY <2>3, <4>1, <4>2, <4>3
      <3>2. UNCHANGED <<Executing, Quiet>>  BY <2>1 DEF Executing, Quiet
      <3>3. Tracked'  BY <1>f, <2>1, <3>1, <3>2 DEF Tracked
      <3>4. FailedIsQuiet'
        BY <2>1, <3>2 DEF FailedIsQuiet, Leave, Outside, TypeOK, OneAtATime
      <3>5. CancelCovers'
        BY <2>1, <2>3, <3>1, SerialFacts DEF CancelCovers, StoreFree, Open
      <3>6. EnvironmentOutlivesBranches'
        BY <2>1, <3>2, SerialFacts DEF EnvironmentOutlivesBranches
      <3>7. Recorded'  BY <3>3, <3>4, <3>5, <3>6 DEF Recorded
      <3> QED BY <2>1, <3>7, LeaveSerial
    <2> QED BY <2>1, <2>2, <2>3
  <1>6. CASE Complete(c)
    <2> DEFINE copy == [h EXCEPT !.cleanup = "completed", !.state = "completed"]
    <2>1. SaveLive(c, "complete", copy, "finish")  BY <1>6 DEF Complete
    <2>2. copy \in Record /\ copy.run = h.run /\ copy.step = h.step /\ copy.state = "completed"
      BY <1>f, EndMade
    <2> HIDE DEF copy
    <2>3. Saved(c, "complete", copy, "finish") => Serial'
      BY <2>2, SaveSerial DEF AtWork, Outside, Starting
    <2> QED BY <1>s, <2>1, <2>3
  <1> QED BY <1>1, <1>2, <1>3, <1>4, <1>5, <1>6 DEF Conclude

\* A Run that ends, and what the cancel command does to the Runs: it asks Axern to end what the
\* record has running before it deletes the Environment, and that is all that executes.
LEMMA AxernSerial ==
  ASSUME TypeOK, RunsBacked, Serial, Axern
  PROVE  Serial'
  <1>1. PICK r \in RunId, x \in Ended :
           /\ status[r] \in {"waiting", "executing"} /\ status' = [status EXCEPT ![r] = x]
           /\ environment' \in {environment, "exists"}
    BY DEF Axern, Exit, EndsEarly, Ended
  <1>2. UNCHANGED <<pc, held, at, record, marker, canceller, phase, purpose, cancelling>>
    BY DEF Axern, Exit, EndsEarly, recordVars, episodeVars, callerVars
  <1>3. \A q \in RunId : /\ status'[q] # "absent" <=> status[q] # "absent"
                         /\ RunEnded(q) => RunEnded(q)'
                         /\ status'[q] = "executing" => status[q] = "executing"
    BY <1>1 DEF TypeOK, RunEnded, Ended
  <1>4. Executing' \subseteq Executing /\ \A s : RunsOf(s)' = RunsOf(s)
    BY <1>2, <1>3 DEF Executing, RunsOf
  <1>5. Quiet => Quiet'  BY <1>2, <1>4 DEF Quiet
  <1>6. Tracked'  BY <1>2, <1>3, <1>4 DEF Serial, Recorded, Tracked
  <1>7. FailedIsQuiet'  BY <1>2, <1>5 DEF Serial, Recorded, FailedIsQuiet
  <1>8. CancelCovers'
    <2>1. \A s \in Step : record.run[s] # NoRun => record.run[s] \in RunId
      <3> SUFFICES ASSUME NEW s \in Step PROVE record.run[s] # NoRun => record.run[s] \in RunId
        OBVIOUS
      <3>1. record.run \in [Step -> RunId \union {NoRun}]  BY CopyType DEF TypeOK
      <3> QED BY <3>1
    <2> QED BY <1>2, <1>3, <2>1 DEF Serial, Recorded, CancelCovers, Covered
  <1>9. EnvironmentOutlivesBranches'
    BY <1>1, <1>2, <1>4 DEF Serial, Recorded, EnvironmentOutlivesBranches
  <1>10. ASSUME NEW c \in Caller PROVE Agrees(c)' /\ Works(c)'
    <2>1. Agrees(c) /\ Works(c) /\ Placed(c) /\ held[c] \in Record /\ at[c] \in Step
      BY SerialFacts
    <2>2. pc[c] \in Starting => Mine(c) \in RunId
      <3>1. pc[c] \in Starting => Mine(c) # NoRun  BY <2>1 DEF Placed, Starting, Holding
      <3>2. held[c].run \in [Step -> RunId \union {NoRun}]  BY <2>1, CopyType
      <3> QED BY <2>1, <3>1, <3>2 DEF Mine
    <2>3. Mine(c)' = Mine(c)  BY <1>2 DEF Mine
    <2>4. pc[c] \in Starting /\ RunEnded(Mine(c)) => RunEnded(Mine(c))'
      BY <1>3, <2>2, <2>3 DEF RunEnded
    <2>5. Agrees(c)'  BY <1>2, <2>1 DEF Agrees, Closed
    <2>6. Works(c)'  BY <1>1, <1>2, <1>4, <1>5, <2>1, <2>3, <2>4 DEF Works, Closed
    <2> QED BY <2>5, <2>6
  <1> QED BY <1>6, <1>7, <1>8, <1>9, <1>10 DEF Serial, Recorded

LEMMA CancellerSerial ==
  ASSUME TypeOK, CancelOwnsRecord, RunsBacked, Serial, Canceller
  PROVE  Serial'
  <1>f. Tracked /\ FailedIsQuiet /\ CancelCovers /\ EnvironmentOutlivesBranches
    BY DEF Serial, Recorded
  <1>1. /\ UNCHANGED <<pc, held, at, status, purpose>> /\ cancelling \subseteq cancelling'
        /\ environment' = environment \/ (CancelEnvironment /\ environment' = "deleted")
    BY DEF Canceller, BeginCancel, CancelPrimary, MarkCancelling, CancelRuns, CancelEnvironment,
           EndCancel, SaveCancelled, CancelFails, Cancel, callerVars, axernVars
  <1>2. /\ record'.step = record.step /\ record'.run = record.run /\ record'.derived = record.derived
        /\ record'.state \in {record.state, "cancelling", "cancelled"}
        /\ record'.state = "absent" <=> record.state = "absent"
    BY OthersWrite
  <1>3. record.state = "absent" => record' = record
    BY DEF Canceller, BeginCancel, CancelPrimary, MarkCancelling, CancelRuns, CancelEnvironment,
           EndCancel, SaveCancelled, CancelFails, recordVars, Proceed, CancelOwnsRecord
  <1>4. Executing' = Executing /\ (Quiet' <=> Quiet) /\ (\A s : RunsOf(s)' = RunsOf(s))
        /\ \A r : RunEnded(r)' <=> RunEnded(r)
    BY <1>1 DEF Executing, Quiet, RunsOf, RunEnded
  <1>5. Tracked'
    <2>1. record'.state = "absent" => record' = Blank
      BY <1>2, <1>3, <1>f DEF Tracked
    <2> QED BY <1>1, <1>2, <1>4, <1>f, <2>1 DEF Tracked
  <1>6. FailedIsQuiet'  BY <1>1, <1>2, <1>4, <1>f DEF FailedIsQuiet
  <1>7. Covered => Covered'  BY <1>1, <1>2, <1>4 DEF Covered
  <1>8. CancelEnvironment => Covered /\ record.state = "cancelling"
    BY <1>f DEF CancelEnvironment, Proceed, CancelCovers, CancelOwnsRecord
  <1>9. EnvironmentOutlivesBranches'
    <2>1. ASSUME Covered, NEW r \in Executing PROVE r \in cancelling
      <3>1. status[r] = "executing" /\ r \in RunId /\ purpose[r] \in Step
        BY DEF Executing, TypeOK
      <3>2. record.run[purpose[r]] = r /\ record.step[purpose[r]] = "running"
        BY <1>f, <3>1 DEF Tracked, Executing
      <3> QED BY <2>1, <3>1, <3>2, NoRunAssumption DEF Covered, RunEnded, Ended
    <2> QED BY <1>1, <1>4, <1>8, <1>f, <2>1 DEF EnvironmentOutlivesBranches
  <1>10. CancelCovers'
    <2> USE DEF CancelCovers
    <2>1. CASE BeginCancel \/ CancelPrimary \/ CancelEnvironment \/ SaveCancelled \/ CancelFails
      <3>1. UNCHANGED <<record, marker>>
        BY <2>1 DEF BeginCancel, CancelPrimary, CancelEnvironment, SaveCancelled, CancelFails, recordVars
      <3> QED BY <1>7, <1>f, <2>1, <3>1
            DEF BeginCancel, CancelPrimary, CancelEnvironment, SaveCancelled, CancelFails, Proceed,
                episodeVars
    <2>2. CASE MarkCancelling
      <3>1. phase' = phase /\ canceller' \in {"save", "runs"}
        BY <2>2 DEF MarkCancelling, episodeVars
      <3>2. canceller' = "save" =>
               record' = record /\ (record.state = "cancelled" \/ marker') /\ (marker => marker')
        BY <2>2 DEF MarkCancelling
      <3>3. canceller' = "runs" =>
               /\ record'.state = "cancelling" /\ record.state \notin {"absent", "cancelled"}
               /\ marker' = marker
        BY <2>2 DEF MarkCancelling, TypeOK, Record
      <3> QED BY <1>7, <1>f, <3>1, <3>2, <3>3 DEF CancelOwnsRecord
    <2>3. CASE CancelRuns
      <3>1. /\ phase' = phase /\ marker' = marker /\ canceller' \in {"environment", "end"}
            /\ canceller = "runs" /\ Cancel(Owned)
        BY <2>3 DEF CancelRuns, episodeVars
      <3>2. Covered'
        BY <1>2, <1>4, <3>1 DEF Covered, Cancel, Owned
      <3>3. record.state = "cancelled" \/ marker => record' = record
        BY OthersWrite
      <3> QED BY <1>f, <3>1, <3>2, <3>3
    <2>4. CASE EndCancel
      <3>1. canceller = "end" /\ canceller' = "save" /\ record'.state = "cancelled"
        BY <2>4 DEF EndCancel, Proceed, TypeOK, Record
      <3> QED BY <1>7, <1>f, <3>1
    <2> QED BY <2>1, <2>2, <2>3, <2>4 DEF Canceller
  <1>11. ASSUME NEW c \in Caller PROVE Agrees(c)' /\ Works(c)'
    <2>1. Agrees(c) /\ Works(c) /\ Placed(c) /\ at[c] \in Step
      BY SerialFacts
    <2>2. Mine(c)' = Mine(c)  BY <1>1 DEF Mine
    <2>3. Agrees(c)'  BY <1>1, <1>2, <2>1 DEF Agrees, Closed
    <2>4. Closed(record) => Closed(record)'
      BY <1>2 DEF Closed
    <2>5. ASSUME at[c] # Compile, pc[c] \in Starting, Covered
          PROVE  Mine(c) \in cancelling \/ RunEnded(Mine(c))
      <3>1. /\ Mine(c) # NoRun /\ record.run[at[c]] = Mine(c) /\ record.step[at[c]] = "running"
        BY <2>1, <2>5 DEF Placed, Starting, Holding, Agrees, Works, Outside, Mine
      <3> QED BY <2>1, <2>5, <3>1 DEF Covered
    <2>6. at[c] # Compile /\ pc[c] = "bind" => environment' = "exists" \/ Closed(record)'
      BY <1>1, <1>2, <1>8, <2>1, <2>4 DEF Works, Closed
    <2>7. at[c] # Compile /\ pc[c] \in Starting =>
             environment' = "exists" \/ Mine(c) \in cancelling' \/ RunEnded(Mine(c))
      BY <1>1, <1>8, <2>1, <2>5 DEF Works
    <2>8. Works(c)'  BY <1>1, <1>2, <1>4, <2>1, <2>2, <2>6, <2>7 DEF Works
    <2> QED BY <2>3, <2>8
  <1> QED BY <1>5, <1>6, <1>9, <1>10, <1>11 DEF Serial, Recorded

LEMMA SerialStep ==
  ASSUME OneAtATime
  PROVE  TypeOK /\ RecordIsBacked /\ Serial /\ [Next]_vars => Serial'
  <1> SUFFICES ASSUME TypeOK, RecordIsBacked, Serial, [Next]_vars PROVE Serial'
    OBVIOUS
  <1>0. CancelOwnsRecord /\ RunsBacked
    BY DEF RecordIsBacked, RunsBacked, CallersBacked
  <1>1. CASE UNCHANGED vars
    BY <1>1 DEF vars, episodeVars, recordVars, callerVars, axernVars, Serial, Recorded, Tracked,
                FailedIsQuiet, CancelCovers, EnvironmentOutlivesBranches, Agrees, Works, Executing, Quiet,
                Covered, RunEnded, RunsOf, Mine, Closed
  <1>2. CASE \E c \in Caller : Prepare(c) \/ Evaluate(c) \/ Conclude(c)
    BY <1>0, <1>2, PrepareSerial, EvaluateSerial, ConcludeSerial
  <1>3. CASE Canceller \/ Axern
    BY <1>0, <1>3, CancellerSerial, AxernSerial
  <1> QED BY <1>1, <1>2, <1>3 DEF Next

LEMMA SerialInit == Init => Serial
  <1> SUFFICES ASSUME Init PROVE Serial
    OBVIOUS
  <1>1. /\ Executing = {} /\ \A s : RunsOf(s) = {}
    BY DEF Init, Executing, RunsOf
  <1>2. /\ record = Blank /\ \A s \in Step : Blank.step[s] = "pending" /\ Blank.run[s] = NoRun
        /\ Blank.state = "absent"
    BY DEF Init, Blank
  <1>3. Recorded
    BY <1>1, <1>2 DEF Init, Recorded, Tracked, FailedIsQuiet, CancelCovers, EnvironmentOutlivesBranches
  <1>4. ASSUME NEW c \in Caller PROVE Agrees(c) /\ Works(c)
    <2>1. pc[c] = "idle" /\ at[c] = Compile  BY DEF Init
    <2>2. \A t \in Step : ~(t < Compile)  BY StepNat DEF Compile
    <2> QED BY <2>1, <2>2 DEF Agrees, Works, Outside, AtWork, Starting
  <1> QED BY <1>3, <1>4 DEF Serial

LEMMA SerialInvariant == ASSUME OneAtATime PROVE Spec => []Serial
  <1>1. Init => Serial  BY SerialInit
  <1>2. TypeOK /\ RecordIsBacked /\ Serial /\ [Next]_vars => Serial'  BY SerialStep
  <1> QED BY <1>1, <1>2, TypeCorrect, RecordBacked, PTL DEF Spec

\* Callers that follow each other never have two Runs made for one step, whatever answer or
\* process is lost on the way: a step whose Run may exist unrecorded is never run again.
THEOREM OneRunForEachStep == ASSUME OneAtATime PROVE Spec => []OneRunPerStep
  <1>1. Serial => OneRunPerStep
    <2> SUFFICES ASSUME Serial, NEW s \in Step PROVE Cardinality(RunsOf(s)) <= 1
      BY DEF OneRunPerStep
    <2>1. \A q, r \in RunsOf(s) : q = r  BY DEF Serial, Recorded, Tracked, RunsOf
    <2>2. CASE RunsOf(s) = {}  BY <2>2, FS_EmptySet
    <2>3. CASE RunsOf(s) # {}
      <3>1. PICK r : RunsOf(s) = {r}  BY <2>1, <2>3
      <3> QED BY <3>1, FS_Singleton
    <2> QED BY <2>2, <2>3
  <1>2. Spec => []Serial  BY SerialInvariant
  <1> QED BY <1>1, <1>2, PTL

\* Once the episode says cancelled, every workload that still executes is one that Axern was asked
\* to end, wherever the callers were and whichever of them died.
THEOREM CancelLeavesNoWork == ASSUME OneAtATime PROVE Spec => []CancelledLeavesNoWork
  <1>1. TypeOK /\ CancelOwnsRecord /\ Serial => CancelledLeavesNoWork
    <2> SUFFICES ASSUME TypeOK, CancelOwnsRecord, Serial, phase = "cancelled", NEW r \in Executing
                 PROVE  r \in cancelling
      BY DEF CancelledLeavesNoWork
    <2>1. /\ r \in RunId /\ status[r] = "executing" /\ purpose[r] \in Step
          /\ Tracked /\ CancelCovers
      BY DEF Executing, TypeOK, Serial, Recorded
    <2>2. record.step[purpose[r]] = "running" /\ record.run[purpose[r]] = r
      BY <2>1 DEF Tracked
    <2>3. CASE marker
      <3>1. record = Blank  BY <2>1, <2>3 DEF CancelOwnsRecord, Tracked
      <3> QED BY <2>1, <2>2, <3>1 DEF Blank
    <2>4. CASE record.state = "cancelled"
      BY <2>1, <2>2, <2>4, NoRunAssumption DEF CancelCovers, Covered, RunEnded, Ended
    <2> QED BY <2>1, <2>3, <2>4 DEF CancelCovers
  <1>2. Spec => []Serial  BY SerialInvariant
  <1> QED BY <1>1, <1>2, TypeCorrect, CancelInvariant, PTL

\* A branch only runs in an Environment that is there, or is being cancelled: whoever deletes the
\* Environment has first seen every Run of the verification end, or asked Axern to end it.
THEOREM EnvironmentOutlives == ASSUME OneAtATime PROVE Spec => []EnvironmentOutlivesBranches
  <1>1. Serial => EnvironmentOutlivesBranches  BY DEF Serial, Recorded
  <1>2. Spec => []Serial  BY SerialInvariant
  <1> QED BY <1>1, <1>2, PTL

=============================================================================

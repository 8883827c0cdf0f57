-------------------------- MODULE PreparationProofs --------------------------
(* Theorems about Preparation. *)
EXTENDS Preparation, TLAPS

\* Types.

LEMMA InitType == Init => TypeOK
BY ZenonT(60), NoEnvironmentAssumption DEF Init, TypeOK, State, BuildStatus, EnvironmentStatus, Label, Failure

LEMMA HandlerType == TypeOK => Handler \in Label
BY DEF TypeOK, Handler, Label

LEMMA LocalType ==
    ASSUME TypeOK, NEW p \in Resumer, NEW label \in Label,
           NEW e \in EnvironmentId \union {NoEnvironment}, NEW f \in Failure,
           Goto(p, label) \/ GotoWith(p, label, e) \/ Leave(p) \/ Fail(p, f)
    PROVE  /\ pc' \in [Resumer -> Label]
           /\ held' \in [Resumer -> EnvironmentId \union {NoEnvironment}]
           /\ failure' \in [Resumer -> Failure]
BY DEF TypeOK, Goto, GotoWith, Leave, Fail, Label, Failure

LEMMA StepType == TypeOK /\ [Next]_vars => TypeOK'
<1> SUFFICES ASSUME TypeOK, [Next]_vars PROVE TypeOK'
  OBVIOUS
<1> USE DEF recordVars, localVars, remoteVars
<1>1. CASE UNCHANGED vars
  BY <1>1 DEF vars, TypeOK
<1>2. CASE Remote
  BY <1>2 DEF Remote, BuildEnds, ArrivesLate, Created, TypeOK, BuildStatus, EnvironmentStatus
<1>3. ASSUME NEW p \in Resumer, ResumerNext(p) PROVE TypeOK'
  <2>1. CASE Resume(p)
    BY <2>1, HandlerType, LocalType DEF Resume, TypeOK
  <2>2. CASE Mark(p) \/ Identify(p) \/ CloseBuild(p) \/ SaveResults(p)
    BY <2>2 DEF Mark, Identify, CloseBuild, SaveResults, Leave, TypeOK, State, Terminal,
                Label, Failure
  <2>11. CASE Submit(p) \/ Observe(p) \/ Results(p)
    BY <2>11 DEF Submit, Observe, Results, Goto, TypeOK, Label, BuildStatus
  <2>3. CASE List(p) \/ GiveUp(p) \/ Announce(p)
    BY ZenonT(60), <2>3 DEF List, GiveUp, Announce, Existing, Goto, GotoWith, Leave, TypeOK, State,
                Terminal, Label, Failure
  <2>4. CASE CreateEnvironment(p)
    BY ZenonT(60), <2>4 DEF CreateEnvironment, Created, GotoWith, TypeOK, Label, EnvironmentStatus
  <2>5. CASE Adopt(p) \/ Inspect(p) \/ Publish(p)
    BY ZenonT(60), <2>5 DEF Adopt, Inspect, Publish, Goto, Leave, Fail, TypeOK, State, Terminal, Label,
                Failure
  <2>6. CASE SubmitAmbiguous(p)
    BY ZenonT(60), <2>6 DEF SubmitAmbiguous, Fail, TypeOK, Label, Failure, Mutation, BuildStatus
  <2>7. CASE SubmitFails(p) \/ ObserveTimesOut(p) \/ ReadFails(p) \/ AxernFails(p)
    BY <2>7 DEF SubmitFails, ObserveTimesOut, ReadFails, AxernFails, Fail, Leave, TypeOK,
                Label, Failure
  <2>8. CASE CreateEnvironmentFails(p)
    BY <2>8 DEF CreateEnvironmentFails, Created, Fail, TypeOK, Label, Failure, Mutation,
                EnvironmentStatus
  <2>9. CASE RecordFailure(p)
    BY <2>9 DEF RecordFailure, Leave, TypeOK, Label, Failure, Mutation, State, Terminal
  <2>10. CASE Crash(p)
    BY <2>10 DEF Crash, Leave, TypeOK, Label, Failure
  <2> QED
    BY <1>3, <2>1, <2>2, <2>3, <2>4, <2>5, <2>6, <2>7, <2>8, <2>9, <2>10,
       <2>11
       DEF ResumerNext, Build, Materialize, Fails
<1> QED
  BY <1>1, <1>2, <1>3 DEF Next

\* The record, the locals of every process and what Kova and Axern hold stay
\* within their types.
THEOREM TypeCorrect == Spec => []TypeOK
BY InitType, StepType, PTL DEF Spec

------------------------------------------------------------------------------
\* Nothing is done before its record, whoever else resumes.

LEMMA InitBacked == Init => RecordBacked
BY DEF Init, RecordBacked, StateBacked, NothingBeforeItsRecord, Existing, ProcessBacked, Resolving

\* A step of one process leaves the others their locals.
LEMMA OthersKeepLocals ==
    ASSUME TypeOK, NEW p \in Resumer, NEW q \in Resumer, q # p, NEW label, NEW e, NEW f,
           Goto(p, label) \/ GotoWith(p, label, e) \/ Leave(p) \/ Fail(p, f)
    PROVE  pc'[q] = pc[q] /\ held'[q] = held[q] /\ failure'[q] = failure[q]
BY DEF TypeOK, Goto, GotoWith, Leave, Fail

\* What backs a process stays, as long as nothing is taken back.
LEMMA StaysBacked ==
    ASSUME TypeOK, NEW q \in Resumer, ProcessBacked(q),
           pc'[q] = pc[q], held'[q] = held[q], failure'[q] = failure[q],
           receipt = "image" => receipt' = "image",
           build' = build,
           state' = "new" => state = "new",
           \A e \in EnvironmentId : environments[e] # "absent" => environments'[e] = environments[e]
    PROVE  ProcessBacked(q)'
BY DEF TypeOK, ProcessBacked, Verified, Resolving

\* A new Environment changes nothing about the ones that exist.
LEMMA CreatedKeeps ==
    ASSUME TypeOK, RecordBacked, NEW e \in EnvironmentId, Created(e), receipt = "image",
           UNCHANGED recordVars, UNCHANGED build,
           "create_build" \in late' => "create_build" \in late
    PROVE  /\ \A d \in EnvironmentId : environments[d] # "absent" => environments'[d] = environments[d]
           /\ environments'[e] # "absent"
           /\ NothingBeforeItsRecord'
           /\ StateBacked'
<1>1. PICK s \in {"matching", "mismatched"} :
          environments' = [environments EXCEPT ![e] = s]
  BY DEF Created
<1>2. \A d \in EnvironmentId : environments[d] # "absent" => environments'[d] = environments[d]
  BY <1>1 DEF Created, TypeOK
<1>3. environments'[e] # "absent"
  BY <1>1 DEF TypeOK
<1>4. NothingBeforeItsRecord'
  BY DEF RecordBacked, StateBacked, NothingBeforeItsRecord, recordVars
<1>5. StateBacked'
  BY <1>2 DEF RecordBacked, StateBacked, Verified, recordVars, TypeOK
<1> QED
  BY <1>2, <1>3, <1>4, <1>5

LEMMA BackedStep == TypeOK /\ RecordBacked /\ [Next]_vars => RecordBacked'
<1> SUFFICES ASSUME TypeOK, RecordBacked, [Next]_vars PROVE RecordBacked'
  OBVIOUS
<1> USE DEF recordVars, localVars, remoteVars, TypeOK, RecordBacked, StateBacked, NothingBeforeItsRecord,
            Existing, ProcessBacked, Verified, Resolving, At
<1>1. CASE UNCHANGED vars
  BY <1>1 DEF vars
<1>2. CASE BuildEnds
  BY <1>2 DEF BuildEnds
<1>3. CASE ArrivesLate
  BY ZenonT(60), <1>3, NoEnvironmentAssumption DEF ArrivesLate, Created, Mutation
<1>4. ASSUME NEW p \in Resumer, ResumerNext(p) PROVE RecordBacked'
  <2>1. CASE Resume(p)
    BY ZenonT(60), <2>1 DEF Resume, Handler, GotoWith
  <2>2. CASE Mark(p)
    BY <2>2 DEF Mark, Leave
  <2>3. CASE Submit(p)
    BY <2>3 DEF Submit, Goto
  <2>4. CASE Identify(p)
    BY <2>4 DEF Identify, Leave
  <2>5. CASE Observe(p)
    BY <2>5 DEF Observe, Goto
  <2>6. CASE CloseBuild(p)
    BY <2>6 DEF CloseBuild, Leave
  <2>7. CASE Results(p)
    BY <2>7 DEF Results, Goto
  <2>8. CASE SaveResults(p)
    BY <2>8 DEF SaveResults, Leave
  <2>9. CASE List(p)
    <3>1. CASE Existing = {} /\ Goto(p, "announce")
      BY ZenonT(60), <2>9, <3>1 DEF List, Goto
    <3>2. ASSUME NEW e \in Existing, GotoWith(p, "adopt", e) PROVE RecordBacked'
      BY <2>9, <3>2, NoEnvironmentAssumption DEF List, GotoWith
    <3>3. CASE Goto(p, "giveUp")
      BY <2>9, <3>3 DEF List, Goto
    <3> HIDE DEF Existing, RecordBacked
    <3> QED
      BY <2>9, <3>1, <3>2, <3>3 DEF List
  <2>10. CASE GiveUp(p)
    BY <2>10 DEF GiveUp, Leave
  <2>11. CASE Announce(p)
    BY <2>11 DEF Announce, Goto
  <2>12. CASE CreateEnvironment(p)
    <3> HIDE DEF TypeOK, RecordBacked, StateBacked, NothingBeforeItsRecord, ProcessBacked
    <3>1. PICK e \in EnvironmentId : Created(e) /\ GotoWith(p, "adopt", e)
      BY <2>12 DEF CreateEnvironment
    <3>2. receipt = "image"
      BY <2>12 DEF CreateEnvironment, RecordBacked, ProcessBacked
    <3>3. /\ \A d \in EnvironmentId : environments[d] # "absent" => environments'[d] = environments[d]
          /\ NothingBeforeItsRecord' /\ StateBacked'
      BY <2>12, <3>1, <3>2, CreatedKeeps DEF CreateEnvironment
    <3>4. ASSUME NEW q \in Resumer, q # p PROVE ProcessBacked(q)'
      BY <2>12, <3>1, <3>3, <3>4, OthersKeepLocals, StaysBacked DEF CreateEnvironment, RecordBacked
    <3>5. ProcessBacked(p)'
      BY <2>12, <3>1, <3>2, NoEnvironmentAssumption
         DEF CreateEnvironment, GotoWith, RecordBacked, ProcessBacked, TypeOK
    <3> QED
      BY <3>3, <3>4, <3>5 DEF RecordBacked
  <2>13. CASE Adopt(p)
    <3> HIDE DEF TypeOK, RecordBacked, StateBacked, NothingBeforeItsRecord, ProcessBacked
    <3>1. receipt = "image" /\ held[p] # NoEnvironment
      BY <2>13 DEF Adopt, RecordBacked, ProcessBacked
    <3>2. ASSUME NEW q \in Resumer, q # p PROVE ProcessBacked(q)'
      BY <2>13, <3>2, OthersKeepLocals, StaysBacked DEF Adopt, RecordBacked
    <3>3. ProcessBacked(p)'
      <4>1. \/ pc'[p] = "idle" /\ failure'[p] = "none"
            \/ pc'[p] = "recordFailure" /\ failure'[p] = "final"
        BY <2>13 DEF Adopt, Leave, Fail, TypeOK
      <4>2. state' # "new"
        BY <2>13 DEF Adopt, RecordBacked, ProcessBacked
      <4> QED
        BY <4>1, <4>2 DEF ProcessBacked
    <3>4. NothingBeforeItsRecord'
      BY <2>13 DEF Adopt, RecordBacked, NothingBeforeItsRecord
    <3>5. StateBacked'
      BY <2>13, <3>1 DEF Adopt, RecordBacked, StateBacked
    <3> QED
      BY <3>2, <3>3, <3>4, <3>5 DEF RecordBacked
  <2>14. CASE Inspect(p)
    BY <2>14 DEF Inspect, Goto
  <2>15. CASE Publish(p)
    BY <2>15 DEF Publish, Leave
  <2>16. CASE SubmitAmbiguous(p)
    BY <2>16 DEF SubmitAmbiguous, Fail
  <2>17. CASE RecordFailure(p)
    BY <2>17 DEF RecordFailure, Leave, Mutation
  <2>18. CASE Crash(p)
    BY <2>18 DEF Crash, Leave
  <2>19. CASE SubmitFails(p)
    <3>1. PICK f \in {"transient", "final"} : Fail(p, f)
      BY <2>19 DEF SubmitFails
    <3> QED
      BY <2>19, <3>1 DEF SubmitFails, Fail
  <2>20. CASE ObserveTimesOut(p)
    BY <2>20 DEF ObserveTimesOut, Leave
  <2>21. CASE ReadFails(p)
    <3>1. PICK f \in {"transient", "final"} : Fail(p, f)
      BY <2>21 DEF ReadFails
    <3> QED
      BY <2>21, <3>1 DEF ReadFails, Fail
  <2>22. CASE AxernFails(p)
    BY <2>22 DEF AxernFails, Fail
  <2>23. CASE CreateEnvironmentFails(p)
    <3>1. CASE UNCHANGED environments
      BY <2>23, <3>1 DEF CreateEnvironmentFails, Fail
    <3> HIDE DEF TypeOK, RecordBacked, StateBacked, NothingBeforeItsRecord, ProcessBacked
    <3>2. ASSUME NEW e \in EnvironmentId, Created(e), UNCHANGED late PROVE RecordBacked'
      <4>1. receipt = "image"
        BY <2>23 DEF CreateEnvironmentFails, RecordBacked, ProcessBacked
      <4>2. /\ \A d \in EnvironmentId : environments[d] # "absent" => environments'[d] = environments[d]
            /\ NothingBeforeItsRecord' /\ StateBacked'
        BY <2>23, <3>2, <4>1, CreatedKeeps DEF CreateEnvironmentFails
      <4>3. ASSUME NEW q \in Resumer, q # p PROVE ProcessBacked(q)'
        BY <2>23, <4>2, <4>3, OthersKeepLocals, StaysBacked DEF CreateEnvironmentFails, RecordBacked
      <4>4. ProcessBacked(p)'
        BY <2>23, <4>1 DEF CreateEnvironmentFails, Fail, RecordBacked, ProcessBacked, TypeOK
      <4> QED
        BY <4>2, <4>3, <4>4 DEF RecordBacked
    <3> QED
      BY <2>23, <3>1, <3>2 DEF CreateEnvironmentFails
  <2> QED
    BY <1>4, <2>1, <2>2, <2>3, <2>4, <2>5, <2>6, <2>7, <2>8, <2>9, <2>10, <2>11, <2>12,
       <2>13, <2>14, <2>15, <2>16, <2>17, <2>18, <2>19, <2>20, <2>21, <2>22, <2>23
       DEF ResumerNext, Build, Materialize, Fails
<1> QED
  BY <1>1, <1>2, <1>3, <1>4 DEF Next, Remote

\* Whatever the processes interleave, lose or crash, every state of the record
\* is backed by the build and the Environments that exist.
THEOREM RecordSafety == Spec => []RecordBacked
<1>1. TypeOK /\ RecordBacked /\ [Next]_vars => (TypeOK /\ RecordBacked)'
  BY StepType, BackedStep
<1> QED
  BY InitType, InitBacked, <1>1, PTL DEF Spec

\* The request is durable before Kova can know it, the receipt before Axern can.
THEOREM NothingUnrecorded == Spec => []NothingBeforeItsRecord
<1>1. RecordBacked => NothingBeforeItsRecord
  BY DEF RecordBacked
<1> QED
  BY <1>1, RecordSafety, PTL

\* An Environment the record adopts or publishes is the requested one.
THEOREM OnlyVerifiedAdopted == Spec => []AdoptedIsVerified
<1>1. RecordBacked => AdoptedIsVerified
  BY DEF RecordBacked, StateBacked, AdoptedIsVerified
<1> QED
  BY <1>1, RecordSafety, PTL

------------------------------------------------------------------------------
\* One process at a time.

LEMMA InitInOrder == Init => InOrder
BY InitBacked DEF Init, InOrder, UpToDate, Building, Resolving, Terminal, Submitting, Resolvable

LEMMA OrderedStep ==
    ASSUME Alone, TypeOK, InOrder, [Next]_vars
    PROVE  InOrder'
<1> USE DEF recordVars, localVars, remoteVars
<1>0. RecordBacked /\ RecordBacked'
  BY BackedStep DEF InOrder
<1>1. CASE UNCHANGED vars
  BY <1>0, <1>1 DEF vars, InOrder, UpToDate, Building, Resolving, Terminal, Submitting, Resolvable
<1>2. CASE Remote
  BY <1>0, <1>2 DEF Remote, BuildEnds, ArrivesLate, InOrder, UpToDate, Building, Resolving, Terminal, Submitting, Resolvable
<1>3. ASSUME NEW p \in Resumer, ResumerNext(p) PROVE InOrder'
  <2> USE DEF InOrder, UpToDate, Building, Resolving, Terminal, Submitting, Resolvable, TypeOK, At, RecordBacked, ProcessBacked
  <2>0. \A q \in Resumer : q = p
    BY DEF Alone
  <2>1. CASE Resume(p)
    <3> HIDE DEF RecordBacked, ProcessBacked
    <3>1. failure[p] = "none"
      BY <1>0, <2>1 DEF Resume, RecordBacked, ProcessBacked
    <3>2. /\ pc'[p] = Handler /\ UNCHANGED <<recordVars, failure>>
          /\ held'[p] = IF Handler = "inspect" THEN environment ELSE NoEnvironment
      BY <2>1 DEF Resume, GotoWith
    <3>3. UpToDate(p)'
      BY <3>1, <3>2 DEF Handler
    <3> QED
      BY <1>0, <2>0, <3>2, <3>3
  <2>2. CASE Mark(p)
    BY <1>0, <2>0, <2>2 DEF Mark, Leave
  <2>3. CASE Submit(p)
    BY <1>0, <2>0, <2>3 DEF Submit, Goto
  <2>4. CASE Identify(p)
    BY <1>0, <2>0, <2>4 DEF Identify, Leave
  <2>5. CASE Observe(p)
    BY <1>0, <2>0, <2>5 DEF Observe, Goto
  <2>6. CASE CloseBuild(p)
    BY <1>0, <2>0, <2>6 DEF CloseBuild, Leave
  <2>7. CASE Results(p)
    BY <1>0, <2>0, <2>7 DEF Results, Goto
  <2>8. CASE SaveResults(p)
    BY <1>0, <2>0, <2>8 DEF SaveResults, Leave
  <2>9. CASE List(p)
    BY ZenonT(60), <1>0, <2>0, <2>9 DEF List, Goto, GotoWith
  <2>10. CASE GiveUp(p)
    BY <1>0, <2>0, <2>10 DEF GiveUp, Leave
  <2>11. CASE Announce(p)
    BY <1>0, <2>0, <2>11 DEF Announce, Goto
  <2>12. CASE CreateEnvironment(p)
    BY <1>0, <2>0, <2>12 DEF CreateEnvironment, GotoWith
  <2>13. CASE Adopt(p)
    <3> HIDE DEF RecordBacked, ProcessBacked
    <3>1. CASE environments[held[p]] = "matching"
      BY ZenonT(60), <1>0, <2>0, <2>13, <3>1 DEF Adopt, Leave
    <3>2. CASE environments[held[p]] # "matching"
      BY <1>0, <2>0, <2>13, <3>2 DEF Adopt, Fail
    <3> QED
      BY <3>1, <3>2
  <2>14. CASE Inspect(p)
    <3> HIDE DEF RecordBacked, ProcessBacked
    <3> QED
      BY <1>0, <2>0, <2>14 DEF Inspect, Goto
  <2>15. CASE Publish(p)
    BY <1>0, <2>0, <2>15 DEF Publish, Leave
  <2>16. CASE SubmitAmbiguous(p)
    BY ZenonT(60), <1>0, <2>0, <2>16 DEF SubmitAmbiguous, Fail
  <2>17. CASE SubmitFails(p)
    BY <1>0, <2>0, <2>17 DEF SubmitFails, Fail
  <2>18. CASE ObserveTimesOut(p)
    BY <1>0, <2>0, <2>18 DEF ObserveTimesOut, Leave
  <2>19. CASE ReadFails(p)
    BY ZenonT(60), <1>0, <2>0, <2>19 DEF ReadFails, Fail
  <2>20. CASE AxernFails(p)
    BY ZenonT(60), <1>0, <2>0, <2>20 DEF AxernFails, Fail
  <2>21. CASE CreateEnvironmentFails(p)
    BY <1>0, <2>0, <2>21 DEF CreateEnvironmentFails, Fail
  <2>22. CASE RecordFailure(p)
    <3>1. CASE failure[p] = "create_build"
      BY <1>0, <2>0, <2>22, <3>1 DEF RecordFailure, Leave, Mutation
    <3>2. CASE failure[p] = "create_environment"
      BY <1>0, <2>0, <2>22, <3>2 DEF RecordFailure, Leave, Mutation
    <3>3. CASE failure[p] = "final"
      BY <1>0, <2>0, <2>22, <3>3 DEF RecordFailure, Leave, Mutation
    <3>4. CASE failure[p] = "transient"
      BY <1>0, <2>0, <2>22, <3>4 DEF RecordFailure, Leave, Mutation
    <3> QED
      BY <2>22, <3>1, <3>2, <3>3, <3>4 DEF RecordFailure, Failure, Mutation
  <2>23. CASE Crash(p)
    BY <1>0, <2>0, <2>23 DEF Crash, Leave
  <2> QED
    BY <1>3, <2>1, <2>2, <2>3, <2>4, <2>5, <2>6, <2>7, <2>8, <2>9, <2>10, <2>11, <2>12, <2>13, <2>14, <2>15, <2>16, <2>17, <2>18, <2>19, <2>20, <2>21, <2>22, <2>23
       DEF ResumerNext, Build, Materialize, Fails
<1> QED
  BY <1>1, <1>2, <1>3 DEF Next

\* Processes that follow each other work on the state they have read, so that
\* the state tells what has been done.
THEOREM OrderedAlone == ASSUME Alone PROVE Spec => []InOrder
<1>1. Init => TypeOK /\ InOrder
  BY InitType, InitInOrder
<1>2. TypeOK /\ InOrder /\ [Next]_vars => (TypeOK /\ InOrder)'
  BY StepType, OrderedStep
<1> QED
  BY <1>1, <1>2, PTL DEF Spec

\* ... a build whose identity is durable is never submitted again,
THEOREM SubmittedUntilIdentified == ASSUME Alone PROVE Spec => IdentifiedOnce
<1>1. TypeOK /\ InOrder /\ [Next]_vars =>
        [\A p \in Resumer : Submit(p) \/ SubmitAmbiguous(p) => ~identified]_vars
  BY DEF InOrder, UpToDate, Submitting, Submit, SubmitAmbiguous, At
<1>2. Spec => []TypeOK
  BY TypeCorrect
<1>3. Spec => []InOrder
  BY OrderedAlone
<1> QED
  BY <1>1, <1>2, <1>3, PTL DEF Spec, IdentifiedOnce

------------------------------------------------------------------------------
\* ... and the promise is kept.

LEMMA InitPromise == Init => Promise!Init
BY DEF Init, Promise!Init, Stage, Terminal

LEMMA PromiseStep ==
    ASSUME TypeOK, InOrder, InOrder', [Next]_vars
    PROVE  [Promise!Next]_(Promise!vars)
<1> USE DEF recordVars, localVars, remoteVars, Promise!vars
<1>1. CASE UNCHANGED vars
  BY <1>1 DEF vars, Stage
<1>2. CASE BuildEnds
  BY <1>2 DEF BuildEnds, Stage, Promise!Next, Promise!Deliver
<1>3. CASE ArrivesLate
  BY <1>3 DEF ArrivesLate, Stage
<1>4. ASSUME NEW p \in Resumer, ResumerNext(p) PROVE [Promise!Next]_(Promise!vars)
  <2> USE DEF At, Stage, Terminal
  <2>1. CASE Resume(p)
    BY <2>1 DEF Resume
  <2>2. CASE Submit(p)
    BY <2>2 DEF Submit
  <2>3. CASE Observe(p)
    BY <2>3 DEF Observe
  <2>4. CASE Results(p)
    BY <2>4 DEF Results
  <2>5. CASE List(p)
    BY <2>5 DEF List
  <2>6. CASE CreateEnvironment(p)
    BY <2>6 DEF CreateEnvironment
  <2>7. CASE Inspect(p)
    BY <2>7 DEF Inspect
  <2>8. CASE SubmitAmbiguous(p)
    BY <2>8 DEF SubmitAmbiguous
  <2>9. CASE SubmitFails(p)
    BY <2>9 DEF SubmitFails
  <2>10. CASE ObserveTimesOut(p)
    BY <2>10 DEF ObserveTimesOut
  <2>11. CASE ReadFails(p)
    BY <2>11 DEF ReadFails
  <2>12. CASE AxernFails(p)
    BY <2>12 DEF AxernFails
  <2>13. CASE CreateEnvironmentFails(p)
    BY <2>13 DEF CreateEnvironmentFails
  <2>14. CASE Crash(p)
    BY <2>14 DEF Crash
  <2>15. CASE Mark(p)
    BY <2>15 DEF Mark, InOrder, RecordBacked, StateBacked, ProcessBacked, UpToDate, Building, Resolving, Submitting, Resolvable
  <2>16. CASE Identify(p)
    BY <2>16 DEF Identify, InOrder, RecordBacked, StateBacked, ProcessBacked, UpToDate, Building, Resolving, Submitting, Resolvable
  <2>17. CASE CloseBuild(p)
    BY <2>17 DEF CloseBuild, InOrder, RecordBacked, StateBacked, ProcessBacked, UpToDate, Building, Resolving, Submitting, Resolvable,
       Promise!Next, Promise!GiveUp, Promise!Ended
  <2>18. CASE SaveResults(p)
    BY <2>18 DEF SaveResults, InOrder, RecordBacked, StateBacked, ProcessBacked, UpToDate, Building, Resolving, Submitting, Resolvable,
       Promise!Next, Promise!Build, Promise!Ended
  <2>19. CASE GiveUp(p)
    BY <2>19 DEF GiveUp, InOrder, RecordBacked, StateBacked, ProcessBacked, UpToDate, Building, Resolving, Submitting, Resolvable,
       Promise!Next, Promise!GiveUp, Promise!Ended
  <2>20. CASE Announce(p)
    BY <2>20 DEF Announce, InOrder, RecordBacked, StateBacked, ProcessBacked, UpToDate, Building, Resolving, Submitting, Resolvable
  <2>21. CASE Adopt(p)
    <3>1. receipt = "image" /\ Resolvable /\ held[p] # NoEnvironment
      BY <2>21 DEF Adopt, InOrder, RecordBacked, ProcessBacked, UpToDate, Resolving
    <3>2. environment = NoEnvironment /\ Stage = "built"
      BY <3>1 DEF Resolvable, InOrder
    <3>3. CASE environments[held[p]] = "matching"
      <4>1. Promise!Adopt(held[p])
        BY <2>21, <3>2, <3>3 DEF Adopt, Promise!Adopt
      <4>2. held[p] \in EnvironmentId
        BY <3>1 DEF TypeOK
      <4> QED
        BY <4>1, <4>2 DEF Promise!Next
    <3>4. CASE environments[held[p]] # "matching"
      BY <2>21, <3>4 DEF Adopt
    <3> QED
      BY <3>3, <3>4
  <2>22. CASE Publish(p)
    BY <2>22 DEF Publish, InOrder, RecordBacked, StateBacked, ProcessBacked, UpToDate, Building, Resolving, Submitting, Resolvable,
       Promise!Next, Promise!Publish, Promise!Ended
  <2>23. CASE RecordFailure(p)
    <3>0. state \notin {"failed", "cancelled", "new", "ready"}
      BY <2>23 DEF RecordFailure, InOrder, UpToDate
    <3>1. CASE failure[p] = "final"
      BY <2>23, <3>0, <3>1 DEF RecordFailure, Mutation, Promise!Next, Promise!GiveUp, Promise!Ended
    <3>2. CASE failure[p] = "transient" \/ failure[p] = "create_build" \/ failure[p] = "create_environment"
      <4>1. state # "environment_created"
        BY <3>2 DEF InOrder, UpToDate, Submitting, Resolvable
      <4> QED
        BY <2>23, <3>0, <3>2, <4>1 DEF RecordFailure, Mutation
    <3>3. failure[p] # "none"
      BY <2>23 DEF RecordFailure, InOrder, RecordBacked, ProcessBacked
    <3> QED
      BY <3>1, <3>2, <3>3 DEF TypeOK, Failure, Mutation
  <2> QED
    BY <1>4, <2>1, <2>2, <2>3, <2>4, <2>5, <2>6, <2>7, <2>8, <2>9, <2>10, <2>11, <2>12, <2>13, <2>14, <2>15, <2>16, <2>17, <2>18, <2>19, <2>20, <2>21, <2>22, <2>23
       DEF ResumerNext, Build, Materialize, Fails
<1> QED
  BY <1>1, <1>2, <1>3, <1>4 DEF Next, Remote

\* A preparation that is resumed by one process after the other, through any
\* crash, failure and lost answer, is a PreparedEnvironment.
THEOREM KeepsPromise == ASSUME Alone PROVE Spec => ImplementsPrepared
<1>1. TypeOK /\ InOrder /\ InOrder' /\ [Next]_vars => [Promise!Next]_(Promise!vars)
  BY PromiseStep
<1>2. Spec => []TypeOK
  BY TypeCorrect
<1>3. Spec => []InOrder
  BY OrderedAlone
<1> QED
  BY InitPromise, <1>1, <1>2, <1>3, PTL DEF Spec, ImplementsPrepared, Promise!Spec

------------------------------------------------------------------------------
\* ... and while no answer was lost, Axern has one Environment at most.

LEMMA KnownStep ==
    ASSUME Alone, TypeOK, EnvironmentKnown, [Next]_vars
    PROVE  EnvironmentKnown'
<1> USE DEF recordVars, localVars, remoteVars, EnvironmentKnown, OneEnvironment, TypeOK, At
<1>1. CASE UNCHANGED vars
  BY <1>1 DEF vars, Existing
<1>2. CASE Remote
  BY <1>2 DEF Remote, BuildEnds, ArrivesLate, Existing
<1>3. ASSUME NEW p \in Resumer, ResumerNext(p) PROVE EnvironmentKnown'
  <2>0. \A q \in Resumer : q = p
    BY DEF Alone
  <2>1. CASE CreateEnvironment(p)
    <3>1. CASE lost
      BY <2>1, <3>1 DEF CreateEnvironment
    <3>2. CASE ~lost
      <4>1. Existing = {}
        BY <2>1, <3>2 DEF CreateEnvironment
      <4>2. PICK e \in EnvironmentId : Created(e) /\ GotoWith(p, "adopt", e)
        BY <2>1 DEF CreateEnvironment
      <4>3. Existing' = {e}
        BY <4>1, <4>2 DEF Existing, Created
      <4> QED
        BY <2>0, <2>1, <4>2, <4>3 DEF CreateEnvironment, GotoWith
    <3> QED
      BY <3>1, <3>2
  <2>2. CASE Resume(p)
    BY <2>0, <2>2 DEF Resume, Handler, GotoWith, Existing
  <2>3. CASE Mark(p)
    BY <2>0, <2>3 DEF Mark, Leave, Existing
  <2>4. CASE Submit(p)
    BY <2>0, <2>4 DEF Submit, Goto, Existing
  <2>5. CASE Identify(p)
    BY <2>0, <2>5 DEF Identify, Leave, Existing
  <2>6. CASE Observe(p)
    BY <2>0, <2>6 DEF Observe, Goto, Existing
  <2>7. CASE CloseBuild(p)
    BY <2>0, <2>7 DEF CloseBuild, Leave, Existing
  <2>8. CASE Results(p)
    BY <2>0, <2>8 DEF Results, Goto, Existing
  <2>9. CASE SaveResults(p)
    BY <2>0, <2>9 DEF SaveResults, Leave, Existing
  <2>10. CASE List(p)
    BY <2>0, <2>10 DEF List, Goto, GotoWith, Existing
  <2>11. CASE GiveUp(p)
    BY <2>0, <2>11 DEF GiveUp, Leave, Existing
  <2>12. CASE Announce(p)
    BY <2>0, <2>12 DEF Announce, Goto, Existing
  <2>13. CASE Adopt(p)
    BY <2>0, <2>13 DEF Adopt, Leave, Fail, Existing
  <2>14. CASE Inspect(p)
    BY <2>0, <2>14 DEF Inspect, Goto, Existing
  <2>15. CASE Publish(p)
    BY <2>0, <2>15 DEF Publish, Leave, Existing
  <2>16. CASE SubmitAmbiguous(p)
    BY <2>0, <2>16 DEF SubmitAmbiguous, Fail, Existing
  <2>17. CASE SubmitFails(p)
    BY <2>0, <2>17 DEF SubmitFails, Fail, Existing
  <2>18. CASE ObserveTimesOut(p)
    BY <2>0, <2>18 DEF ObserveTimesOut, Leave, Existing
  <2>19. CASE ReadFails(p)
    BY <2>0, <2>19 DEF ReadFails, Fail, Existing
  <2>20. CASE AxernFails(p)
    BY <2>0, <2>20 DEF AxernFails, Fail, Existing
  <2>21. CASE CreateEnvironmentFails(p)
    BY <2>0, <2>21 DEF CreateEnvironmentFails, Fail, Existing
  <2>22. CASE RecordFailure(p)
    BY <2>0, <2>22 DEF RecordFailure, Leave, Existing
  <2>23. CASE Crash(p)
    BY <2>0, <2>23 DEF Crash, Leave, Existing
  <2> QED
    BY <1>3, <2>1, <2>2, <2>3, <2>4, <2>5, <2>6, <2>7, <2>8, <2>9, <2>10, <2>11, <2>12, <2>13, <2>14, <2>15, <2>16, <2>17, <2>18, <2>19, <2>20, <2>21, <2>22, <2>23
       DEF ResumerNext, Build, Materialize, Fails
<1> QED
  BY <1>1, <1>2, <1>3 DEF Next

\* Processes that follow each other never create a second Environment, as long
\* as no answer was lost.
THEOREM CreatedOnce ==
    ASSUME Alone PROVE Spec => []OneEnvironment
<1>1. Init => TypeOK /\ EnvironmentKnown
  BY InitType DEF Init, EnvironmentKnown, OneEnvironment, Existing
<1>2. TypeOK /\ EnvironmentKnown /\ [Next]_vars => (TypeOK /\ EnvironmentKnown)'
  BY StepType, KnownStep
<1>3. EnvironmentKnown => OneEnvironment
  BY DEF EnvironmentKnown
<1> QED
  BY <1>1, <1>2, <1>3, PTL DEF Spec
==============================================================================

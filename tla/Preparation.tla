----------------------------- MODULE Preparation -----------------------------
(***************************************************************************)
(* Preparation of one Axern Environment from one Kova build                *)
(* (axrun/preparation/service.py over the record of preparation/store.py). *)
(*                                                                         *)
(* A `resume` reads the record, calls Kova or Axern without the lock, and  *)
(* then writes the record in a locked section of its own, over and over    *)
(* until an exception or an ended state.  Several processes may resume the *)
(* same preparation; each may die at any time and be started again.        *)
(*                                                                         *)
(* External, modelled from how service.py uses it: Kova answers every      *)
(* submission with the same idempotency key by the same build; Axern       *)
(* creates an Environment per request.  A request whose answer was lost    *)
(* may have had its effect, may have it later, or never.                   *)
(***************************************************************************)
CONSTANTS Resumer,         \* the processes that resume the preparation
          EnvironmentId,   \* identities Axern can hand out
          NoEnvironment    \* the absent Environment

ASSUME NoEnvironmentAssumption == NoEnvironment \notin EnvironmentId

VARIABLES state,         \* PreparationRecord.state
          operation,     \* PreparationRecord.ambiguous_operation
          identified,    \* is PreparationRecord.kova_build_id set?
          receipt,       \* the outcome the seed_build_receipt reports
          environment,   \* PreparationRecord.environment_id
          published,     \* the Environment of the preparation_receipt
          pc,            \* where each process is
          held,          \* the Environment a process works with
          failure,       \* how a process tells an exception it is to record
          build,         \* the build Kova has for the idempotency key
          environments,  \* the Environments that carry the request digest
          late,          \* mutations that may still arrive
          lost           \* history: did a create_environment succeed unanswered?

recordVars == <<state, operation, identified, receipt, environment, published>>
localVars == <<pc, held, failure>>
remoteVars == <<build, environments, late, lost>>
vars == <<recordVars, localVars, remoteVars>>

Terminal == {"failed", "cancelled"}
State == {"new", "build_submitting", "build_submitted", "build_succeeded",
          "environment_creating", "environment_created", "ready", "ambiguous"}
            \union Terminal
Mutation == {"create_build", "create_environment"}

BuildStatus == {"absent", "running", "succeeded", "failed", "cancelled"}
\* "mismatched": namespace, image, digest or labels are not the requested ones.
EnvironmentStatus == {"absent", "matching", "mismatched"}

\* How PreparationRemoteError and ContractError are recorded.
Failure == {"none", "transient", "final"} \union Mutation

Label == {"idle", "mark", "submit", "identify", "observe", "closeBuild", "results",
          "saveResults", "list", "announce", "createEnvironment", "adopt", "giveUp",
          "inspect", "publish", "recordFailure"}

TypeOK ==
    /\ state \in State
    /\ operation \in Mutation \union {""}
    /\ identified \in BOOLEAN
    /\ receipt \in {"none", "image", "failure"}
    /\ environment \in EnvironmentId \union {NoEnvironment}
    /\ published \in EnvironmentId \union {NoEnvironment}
    /\ pc \in [Resumer -> Label]
    /\ held \in [Resumer -> EnvironmentId \union {NoEnvironment}]
    /\ failure \in [Resumer -> Failure]
    /\ build \in BuildStatus
    /\ environments \in [EnvironmentId -> EnvironmentStatus]
    /\ late \subseteq Mutation
    /\ lost \in BOOLEAN

\* PreparationStore.initialize has persisted the request.
Init ==
    /\ state = "new"
    /\ operation = ""
    /\ identified = FALSE
    /\ receipt = "none"
    /\ environment = NoEnvironment
    /\ published = NoEnvironment
    /\ pc = [p \in Resumer |-> "idle"]
    /\ held = [p \in Resumer |-> NoEnvironment]
    /\ failure = [p \in Resumer |-> "none"]
    /\ build = "absent"
    /\ environments = [e \in EnvironmentId |-> "absent"]
    /\ late = {}
    /\ lost = FALSE

Existing == {e \in EnvironmentId : environments[e] # "absent"}

------------------------------------------------------------------------------
(* Control flow of one process. *)

At(p, label) == pc[p] = label
Goto(p, label) == pc' = [pc EXCEPT ![p] = label] /\ UNCHANGED <<held, failure>>
GotoWith(p, label, e) ==
    /\ pc' = [pc EXCEPT ![p] = label]
    /\ held' = [held EXCEPT ![p] = e]
    /\ UNCHANGED failure

\* The locals are gone: the loop starts over, or the process ended.
Leave(p) ==
    /\ pc' = [pc EXCEPT ![p] = "idle"]
    /\ held' = [held EXCEPT ![p] = NoEnvironment]
    /\ failure' = [failure EXCEPT ![p] = "none"]

Fail(p, f) ==
    /\ pc' = [pc EXCEPT ![p] = "recordFailure"]
    /\ held' = [held EXCEPT ![p] = NoEnvironment]
    /\ failure' = [failure EXCEPT ![p] = f]

\* The part of `resume` that handles a record, if there is one.
Handler ==
    CASE state = "new" -> "mark"
      [] state = "build_submitting" \/ (state = "ambiguous" /\ operation = "create_build") -> "submit"
      [] state = "build_submitted" -> "observe"
      [] state \in {"build_succeeded", "environment_creating"}
         \/ (state = "ambiguous" /\ operation = "create_environment") -> "list"
      [] state = "environment_created" -> "inspect"
      [] OTHER -> "idle"

Resume(p) ==
    /\ At(p, "idle")
    /\ Handler # "idle"
    /\ GotoWith(p, Handler, IF Handler = "inspect" THEN environment ELSE NoEnvironment)
    /\ UNCHANGED <<recordVars, remoteVars>>

\* _mark does not look at the state it overwrites.
Mark(p) ==
    /\ At(p, "mark")
    /\ state' = "build_submitting"
    /\ Leave(p)
    /\ UNCHANGED <<operation, identified, receipt, environment, published, remoteVars>>

------------------------------------------------------------------------------
(* _submit *)

\* version and create_build were answered.
Submit(p) ==
    /\ At(p, "submit")
    /\ build' = IF build = "absent" THEN "running" ELSE build
    /\ Goto(p, "identify")
    /\ UNCHANGED <<recordVars, environments, late, lost>>

\* A transport failure of create_build, or an API error that may be retried.
SubmitAmbiguous(p) ==
    /\ At(p, "submit")
    /\ \/ UNCHANGED <<build, late>>
       \/ /\ build' = IF build = "absent" THEN "running" ELSE build
          /\ UNCHANGED late
       \/ late' = late \union {"create_build"} /\ UNCHANGED build
    /\ Fail(p, "create_build")
    /\ UNCHANGED <<recordVars, environments, lost>>

\* version fails, or Kova refuses the request or answers with another build.
SubmitFails(p) ==
    /\ At(p, "submit")
    /\ \E f \in {"transient", "final"} : Fail(p, f)
    /\ UNCHANGED <<recordVars, remoteVars>>

Identify(p) ==
    /\ At(p, "identify")
    /\ IF state \in {"build_submitting", "ambiguous"}
       THEN /\ state' = "build_submitted"
            /\ operation' = ""
            /\ identified' = TRUE
       ELSE UNCHANGED <<state, operation, identified>>
    /\ Leave(p)
    /\ UNCHANGED <<receipt, environment, published, remoteVars>>

------------------------------------------------------------------------------
(* _finish_build *)

\* Mutant of Observe: whatever ended counts as a success.
ObserveAnyEnd(p) ==
    /\ At(p, "observe")
    /\ build \in {"succeeded", "failed", "cancelled"}
    /\ Goto(p, "results")
    /\ UNCHANGED <<recordVars, remoteVars>>

\* Mutant of Observe: only a success counts as an end.
ObserveSuccess(p) ==
    /\ At(p, "observe")
    /\ build = "succeeded"
    /\ Goto(p, "results")
    /\ UNCHANGED <<recordVars, remoteVars>>

\* get_build or wait_build saw the build end.
Observe(p) ==
    /\ At(p, "observe")
    /\ build \in {"succeeded", "failed", "cancelled"}
    /\ Goto(p, IF build = "succeeded" THEN "results" ELSE "closeBuild")
    /\ UNCHANGED <<recordVars, remoteVars>>

\* wait_build timed out: nothing but the diagnosis is recorded.
ObserveTimesOut(p) ==
    /\ At(p, "observe")
    /\ build = "running"
    /\ Leave(p)
    /\ UNCHANGED <<recordVars, remoteVars>>

\* Kova is out of reach, refuses, or answers with another build.
ReadFails(p) ==
    /\ pc[p] \in {"observe", "results"}
    /\ \E f \in {"transient", "final"} : Fail(p, f)
    /\ UNCHANGED <<recordVars, remoteVars>>

CloseBuild(p) ==
    /\ At(p, "closeBuild")
    /\ receipt' = "failure"
    /\ state' = IF build = "cancelled" THEN "cancelled" ELSE "failed"
    /\ Leave(p)
    /\ UNCHANGED <<operation, identified, environment, published, remoteVars>>

\* get_results delivered one output that satisfies the request.
Results(p) ==
    /\ At(p, "results")
    /\ Goto(p, "saveResults")
    /\ UNCHANGED <<recordVars, remoteVars>>

SaveResults(p) ==
    /\ At(p, "saveResults")
    /\ receipt' = "image"
    /\ state' = "build_succeeded"
    /\ Leave(p)
    /\ UNCHANGED <<operation, identified, environment, published, remoteVars>>

------------------------------------------------------------------------------
(* _resolve_environment *)

\* Mutant of List: an Environment that exists is not reused.
ListCreatesAnyway(p) ==
    /\ At(p, "list")
    /\ Goto(p, "announce")
    /\ UNCHANGED <<recordVars, remoteVars>>

\* Environments with the digest of the request: none, one, or too many.
List(p) ==
    /\ At(p, "list")
    /\ \/ Existing = {} /\ Goto(p, "announce")
       \/ \E e \in Existing : Existing = {e} /\ GotoWith(p, "adopt", e)
       \/ \E d, e \in Existing : d # e /\ Goto(p, "giveUp")
    /\ UNCHANGED <<recordVars, remoteVars>>

\* No error of Axern is retryable for the preparation.
AxernFails(p) ==
    /\ pc[p] \in {"list", "inspect"}
    /\ Fail(p, "final")
    /\ UNCHANGED <<recordVars, remoteVars>>

GiveUp(p) ==
    /\ At(p, "giveUp")
    /\ state' = "failed"
    /\ Leave(p)
    /\ UNCHANGED <<operation, identified, receipt, environment, published, remoteVars>>

Announce(p) ==
    /\ At(p, "announce")
    /\ state' = "environment_creating"
    /\ Goto(p, "createEnvironment")
    /\ UNCHANGED <<operation, identified, receipt, environment, published, remoteVars>>

Created(e) ==
    /\ environments[e] = "absent"
    /\ \E s \in {"matching", "mismatched"} : environments' = [environments EXCEPT ![e] = s]

CreateEnvironment(p) ==
    /\ At(p, "createEnvironment")
    /\ \E e \in EnvironmentId : Created(e) /\ GotoWith(p, "adopt", e)
    /\ UNCHANGED <<recordVars, build, late, lost>>

\* Every error of create_environment is ambiguous, a refusal as well.
CreateEnvironmentFails(p) ==
    /\ At(p, "createEnvironment")
    /\ \/ UNCHANGED <<environments, late, lost>>
       \/ (\E e \in EnvironmentId : Created(e)) /\ UNCHANGED late /\ lost' = TRUE
       \/ /\ late' = late \union {"create_environment"}
          /\ lost' = TRUE
          /\ UNCHANGED environments
    /\ Fail(p, "create_environment")
    /\ UNCHANGED <<recordVars, build>>

\* Mutant of Adopt: the Environment is not validated.
AdoptUnchecked(p) ==
    /\ At(p, "adopt")
    /\ environment' = held[p]
    /\ state' = "environment_created"
    /\ operation' = ""
    /\ Leave(p)
    /\ UNCHANGED <<identified, receipt, published, remoteVars>>

\* _validate_environment and the binding of the Environment.
Adopt(p) ==
    /\ At(p, "adopt")
    /\ IF environments[held[p]] = "matching"
       THEN /\ environment' = held[p]
            /\ state' = "environment_created"
            /\ operation' = ""
            /\ Leave(p)
       ELSE UNCHANGED <<environment, state, operation>> /\ Fail(p, "final")
    /\ UNCHANGED <<identified, receipt, published, remoteVars>>

------------------------------------------------------------------------------
(* _finish_environment *)

Inspect(p) ==
    /\ At(p, "inspect")
    /\ environments[held[p]] = "matching"
    /\ Goto(p, "publish")
    /\ UNCHANGED <<recordVars, remoteVars>>

Publish(p) ==
    /\ At(p, "publish")
    /\ published' = held[p]
    /\ state' = "ready"
    /\ Leave(p)
    /\ UNCHANGED <<operation, identified, receipt, environment, remoteVars>>

------------------------------------------------------------------------------
\* Mutant of RecordFailure: once there is an image, a final error is retried
\* with a new Environment.
RecordFailureRetries(p) ==
    /\ At(p, "recordFailure")
    /\ state' = CASE failure[p] \in Mutation -> "ambiguous"
                  [] failure[p] = "final" ->
                        IF receipt = "image" THEN "environment_creating" ELSE "failed"
                  [] OTHER -> state
    /\ operation' = IF failure[p] \in Mutation THEN failure[p] ELSE ""
    /\ Leave(p)
    /\ UNCHANGED <<identified, receipt, environment, published, remoteVars>>

\* _remote_failure and _contract_failure: only an ambiguous failure names its
\* operation, only a transient one keeps the state.
RecordFailure(p) ==
    /\ At(p, "recordFailure")
    /\ state' = CASE failure[p] \in Mutation -> "ambiguous"
                  [] failure[p] = "final" -> "failed"
                  [] OTHER -> state
    /\ operation' = IF failure[p] \in Mutation THEN failure[p] ELSE ""
    /\ Leave(p)
    /\ UNCHANGED <<identified, receipt, environment, published, remoteVars>>

Crash(p) ==
    /\ ~At(p, "idle")
    /\ Leave(p)
    /\ UNCHANGED <<recordVars, remoteVars>>

------------------------------------------------------------------------------
(* Kova and Axern by themselves. *)

BuildEnds ==
    /\ build = "running"
    /\ build' \in {"succeeded", "failed", "cancelled"}
    /\ UNCHANGED <<recordVars, localVars, environments, late, lost>>

\* A mutation arrives after its sender gave up waiting for the answer.
ArrivesLate ==
    /\ \/ /\ "create_build" \in late
          /\ build' = IF build = "absent" THEN "running" ELSE build
          /\ late' = late \ {"create_build"}
          /\ UNCHANGED environments
       \/ /\ "create_environment" \in late
          /\ \E e \in EnvironmentId : Created(e)
          /\ late' \in {late, late \ {"create_environment"}}
          /\ UNCHANGED build
    /\ UNCHANGED <<recordVars, localVars, lost>>

Remote == BuildEnds \/ ArrivesLate

\* The steps of a resume, without its failures and its death.
Build(p) ==
    \/ Mark(p) \/ Submit(p) \/ Identify(p) \/ Observe(p) \/ CloseBuild(p)
    \/ Results(p) \/ SaveResults(p)
Materialize(p) ==
    \/ List(p) \/ GiveUp(p) \/ Announce(p) \/ CreateEnvironment(p) \/ Adopt(p)
    \/ Inspect(p) \/ Publish(p)
Fails(p) ==
    \/ SubmitAmbiguous(p) \/ SubmitFails(p) \/ ObserveTimesOut(p) \/ ReadFails(p)
    \/ AxernFails(p) \/ CreateEnvironmentFails(p) \/ RecordFailure(p)

ResumerNext(p) == Resume(p) \/ Build(p) \/ Materialize(p) \/ Fails(p) \/ Crash(p)

Next == Remote \/ \E p \in Resumer : ResumerNext(p)

Spec == Init /\ [][Next]_vars

------------------------------------------------------------------------------
(* What holds for any number of processes. *)

\* The request is durable before Kova learns about it, and the receipt of a
\* successful build before Axern does: nothing a crash or a lost answer leaves
\* behind is unknown to the record (_mark before _submit, _finish_build before
\* _resolve_environment).
NothingBeforeItsRecord ==
    /\ build # "absent" \/ "create_build" \in late => state # "new"
    /\ Existing # {} \/ "create_environment" \in late =>
          receipt = "image" /\ build = "succeeded"

Verified(e) == e # NoEnvironment /\ environments[e] = "matching"

\* An Environment the record names as created, or publishes as ready, is the
\* requested one, whichever process adopted or inspected it.
AdoptedIsVerified ==
    /\ state = "environment_created" => Verified(environment)
    /\ state = "ready" => Verified(published)

------------------------------------------------------------------------------
(* What holds as long as the processes follow each other: one at a time,    *)
(* each started after the last one ended or died.                           *)

Alone == \A p, q \in Resumer : p = q

\* Once the build is identified, neither a failed observation nor a crash
\* makes a later resume submit it again.
IdentifiedOnce ==
    [][\A p \in Resumer : Submit(p) \/ SubmitAmbiguous(p) => ~identified]_vars

\* The record, seen without the calls that advance it, keeps the promise: an
\* image, one Environment of it that is never exchanged, an end that is final.
Stage ==
    CASE state \in Terminal -> "given up"
      [] state = "ready" -> "ready"
      [] state = "environment_created" -> "adopted"
      [] state \notin Terminal \union {"ready", "environment_created"} ->
            IF receipt = "image" THEN "built" ELSE "building"

Promise == INSTANCE PreparedEnvironment WITH
    stage <- Stage, adopted <- environment, images <- (build = "succeeded")

ImplementsPrepared == Promise!Spec

\* Unless the answer to a create_environment was lost, a resume finds the
\* Environment an earlier process created before it died or failed, and never
\* creates a second one.
OneEnvironment == ~lost => \A d, e \in Existing : d = e

------------------------------------------------------------------------------
(* Why this holds: the inductive invariants.                                *)

Building == {"observe", "results", "saveResults", "closeBuild"}
Resolving == {"list", "announce", "createEnvironment", "adopt", "giveUp"}

\* A process is only where the record, Kova and Axern have led it.
ProcessBacked(p) ==
    /\ pc[p] \in {"results", "saveResults"} => build = "succeeded"
    /\ pc[p] = "closeBuild" => build \in {"failed", "cancelled"}
    /\ pc[p] \in Resolving \union {"inspect", "publish"} => receipt = "image"
    /\ pc[p] = "recordFailure" <=> failure[p] # "none"
    /\ failure[p] = "create_environment" => receipt = "image"
    /\ pc[p] = "adopt" => held[p] # NoEnvironment
    /\ pc[p] \in {"inspect", "publish"} => Verified(held[p])
    /\ state = "new" => pc[p] \in {"idle", "mark"}

\* A state of the record is backed by the receipt and the Environment it needs.
StateBacked ==
    /\ receipt = "image" => build = "succeeded"
    /\ state \in {"build_succeeded", "environment_creating"} => receipt = "image"
    /\ state = "ambiguous" /\ operation = "create_environment" => receipt = "image"
    /\ state = "environment_created" => receipt = "image" /\ Verified(environment)
    /\ state = "ready" => receipt = "image" /\ Verified(published)

\* All of this, whoever wrote the record last.
RecordBacked ==
    /\ NothingBeforeItsRecord
    /\ StateBacked
    /\ \A p \in Resumer : ProcessBacked(p)

\* The part of `resume` that a record calls for, as a relation.
Submitting == state = "build_submitting" \/ (state = "ambiguous" /\ operation = "create_build")
Resolvable == state \in {"build_succeeded", "environment_creating"}
                 \/ (state = "ambiguous" /\ operation = "create_environment")

\* Without a concurrent resume, a process works on the state it has read.
UpToDate(p) ==
    /\ pc[p] = "mark" => state = "new"
    /\ pc[p] \in {"submit", "identify"} => Submitting
    /\ pc[p] \in Building => state = "build_submitted"
    /\ pc[p] \in Resolving => Resolvable
    /\ pc[p] \in {"inspect", "publish"} =>
          state = "environment_created" /\ held[p] = environment
    /\ pc[p] = "recordFailure" => state \notin Terminal \union {"new", "ready"}
    /\ failure[p] = "transient" => Submitting \/ state = "build_submitted"
    /\ failure[p] = "create_build" => Submitting
    /\ failure[p] = "create_environment" => Resolvable

\* ... so that the state tells what has been done.
InOrder ==
    /\ RecordBacked
    /\ \A p \in Resumer : UpToDate(p)
    /\ state \in {"new", "build_submitting", "build_submitted"} => receipt = "none"
    /\ state = "ambiguous" /\ operation # "create_environment" => receipt = "none"
    /\ state \in {"new", "build_submitting"} => ~identified
    /\ state = "ambiguous" /\ operation # "create_environment" => ~identified
    /\ state \notin Terminal \union {"environment_created", "ready"} =>
          environment = NoEnvironment

\* ... and, while no answer was lost, what Axern has.
EnvironmentKnown ==
    /\ OneEnvironment
    /\ ~lost => "create_environment" \notin late
    /\ ~lost => \A p \in Resumer : pc[p] \in {"announce", "createEnvironment"} => Existing = {}

------------------------------------------------------------------------------
(* Progress: builds end, a process that is not killed goes on, an operator  *)
(* resumes, and no step of a resume fails or is killed for ever.            *)

Advance(p) == Build(p) \/ Materialize(p) \/ RecordFailure(p)
AdvanceAt(p, label) == At(p, label) /\ Advance(p)

Fairness ==
    /\ WF_vars(BuildEnds)
    /\ \A p \in Resumer :
          /\ WF_vars(Resume(p) \/ Build(p) \/ Materialize(p) \/ Fails(p))
          /\ \A label \in {"observe", "results", "saveResults", "list", "announce",
                          "createEnvironment", "adopt", "inspect", "recordFailure"} :
                SF_vars(AdvanceAt(p, label))
          /\ SF_vars(CloseBuild(p) \/ GiveUp(p) \/ Publish(p))

FairSpec == Spec /\ Fairness

\* A preparation whose build is identified ends, ready or not.
IdentifiedSettles == identified ~> state \in Terminal \union {"ready"}
==============================================================================

---------------------------- MODULE ImageAdmission ----------------------------
(***************************************************************************)
(* The admission of an image before an episode may use it.                 *)
(*                                                                         *)
(* Flask (tasks/flask_admission.py): any number of processes admit the     *)
(* image under one key.  The first claims it in a record, submits the      *)
(* audit Run and binds it; the others recover that Run or give up.  The    *)
(* receipt is written once.  Every `with store.lock(...)` block is one     *)
(* action.                                                                 *)
(*                                                                         *)
(* Django (tools/validation/swebench_django_axern_runtime_probe.py): one   *)
(* process creates an Environment, audits in it, deletes it, and keeps a   *)
(* receipt of how far it came, which load_django_admission reads.          *)
(***************************************************************************)
EXTENDS AuditRun

CONSTANT Caller

VARIABLES at,        \* of each caller: the step of admit_flask_image
          record,    \* execution.json: the Run it names, and whether with its Allocation
          receipt,   \* the Run the admission receipt names; 0 without one
          probe,     \* the probe: its step, and what it knows
          file,      \* receipt.json of the probe
          environment, \* the Environment of the probe
          adopted   \* whether an episode was accepted on the strength of a receipt

flaskVars == <<at, record, receipt>>
probeVars == <<probe, file, environment, adopted>>
vars == <<auditVars, flaskVars, probeVars>>

Absent == [state |-> "absent", run |-> 0]
Record(state, n) == [state |-> state, run |-> n]
NoReceipt == [status |-> "none", cleanup |-> "not_created", run |-> 0]
Step == {"idle", "submit", "bind", "await", "release", "follow", "recover", "judge", "publish"}
ProbeStep == {"start", "environment", "submit", "bind", "await", "release", "follow",
              "observe", "cleanup", "close", "settle", "end"}

TypeOK ==
  /\ run \in RunStatus /\ created \in 0..MaxRuns /\ allocated \in BOOLEAN
  /\ source \in 1..3 /\ matches \subseteq Prefix
  /\ at \in [Caller -> Step] /\ receipt \in 0..MaxRuns
  /\ record.state \in {"absent", "claimed", "bound", "allocated"} /\ record.run \in 0..MaxRuns
  /\ probe.at \in ProbeStep
  /\ environment \in {"absent", "present", "deleted"} /\ adopted \in BOOLEAN

Init ==
  /\ AuditInit
  /\ at = [c \in Caller |-> "idle"] /\ record = Absent /\ receipt = 0
  /\ probe = [at |-> "start", receipt |-> NoReceipt, named |-> FALSE,
              submitted |-> FALSE, terminal |-> FALSE]
  /\ file = NoReceipt /\ environment = "absent" /\ adopted = FALSE

------------------------------------------------------------------------------
(* Flask. *)

Move(c, from, to) == at[c] = from /\ at' = [at EXCEPT ![c] = to]
Rest == UNCHANGED probeVars

\* Mutant of Begin: the claim is kept in memory only.
BeginUnclaimed(c) ==
  /\ receipt = 0
  /\ \/ record.state = "absent" /\ Move(c, "idle", "submit")
     \/ record.run # 0 /\ Move(c, "idle", "recover")
  /\ UNCHANGED <<auditVars, record, receipt>> /\ Rest

\* A receipt is returned as it is; a claim without a Run is refused for good.
Begin(c) ==
  /\ receipt = 0
  /\ \/ /\ record.state = "absent" /\ record' = Record("claimed", 0)
        /\ Move(c, "idle", "submit")
     \/ record.run # 0 /\ Move(c, "idle", "recover") /\ UNCHANGED record
  /\ UNCHANGED <<auditVars, receipt>> /\ Rest

\* create_run answers, fails, or creates a Run whose answer is lost.
Submit(c) ==
  /\ \/ Create /\ Move(c, "submit", "bind")
     \/ Create /\ Move(c, "submit", "idle")
     \/ UNCHANGED auditVars /\ Move(c, "submit", "idle")
  /\ UNCHANGED <<record, receipt>> /\ Rest

\* bound: the record may gain an Allocation, never change its Run.
MayBind == record.run \in {0, created}

Bind(c) ==
  /\ MayBind /\ record' = Record("bound", created)
  /\ Move(c, "bind", "await")
  /\ UNCHANGED <<auditVars, receipt>> /\ Rest

Await(c) ==
  /\ allocated /\ run = "waiting" /\ MayBind
  /\ record' = Record("allocated", created)
  /\ Move(c, "await", "release")
  /\ UNCHANGED <<auditVars, receipt>> /\ Rest

Release(c) ==
  /\ MarkReady /\ Move(c, "release", "follow")
  /\ UNCHANGED <<record, receipt>> /\ Rest

Abort(c) ==
  /\ \E from \in {"bind", "await", "release"} : Move(c, from, "idle")
  /\ CancelUnreleased
  /\ UNCHANGED <<record, receipt>> /\ Rest

\* wait_run, and recover's get_run: the Run ended.  An active one is left alone.
Ended(c) ==
  /\ Terminal
  /\ \E from \in {"follow", "recover"} : Move(c, from, "judge")
  /\ UNCHANGED <<auditVars, record, receipt>> /\ Rest

\* The Run is the recorded one, succeeded, and its sealed audit passes.
Judge(c) ==
  /\ IF AuditPassed /\ allocated /\ record.run = created
     THEN record' = Record("allocated", created) /\ Move(c, "judge", "publish")
     ELSE UNCHANGED record /\ Move(c, "judge", "idle")
  /\ UNCHANGED <<auditVars, receipt>> /\ Rest

\* Under the lock, and refused when another process was first.
Publish(c) ==
  /\ Move(c, "publish", "idle")
  /\ receipt' = IF receipt = 0 THEN record.run ELSE receipt
  /\ UNCHANGED <<auditVars, record>> /\ Rest

\* The process dies, loses Axern, or finds the Run active.
GiveUp(c) ==
  /\ at[c] # "idle" /\ at' = [at EXCEPT ![c] = "idle"]
  /\ UNCHANGED <<auditVars, record, receipt>> /\ Rest

AdmitFlask ==
  /\ task = "flask"
  /\ \E c \in Caller :
       \/ Begin(c) \/ Submit(c) \/ Bind(c) \/ Await(c) \/ Release(c) \/ Abort(c)
       \/ Ended(c) \/ Judge(c) \/ Publish(c) \/ GiveUp(c)

------------------------------------------------------------------------------
(* Django. *)

Aside == UNCHANGED <<flaskVars, adopted>>
Go(p, to) == [p EXCEPT !.at = to]
Note(p, field, value) == [p EXCEPT !.receipt[field] = value]
Persist(p) == probe' = p /\ file' = p.receipt
Incomplete(p) == Note(Go(p, "cleanup"), "status", "incomplete")

Start ==
  /\ probe.at = "start"
  /\ Persist(Go(Note(probe, "status", "started"), "environment"))
  /\ UNCHANGED <<auditVars, environment>> /\ Aside

CreateEnvironment ==
  /\ probe.at = "environment"
  /\ \/ /\ environment' = "present"
        /\ Persist([Go(probe, "submit") EXCEPT !.named = TRUE])
     \/ /\ environment' \in {"absent", "present"}     \* no answer, whether it exists or not
        /\ probe' = Incomplete(probe) /\ UNCHANGED file
  /\ UNCHANGED auditVars /\ Aside

\* The image of the Environment is another one.
ImageDrift ==
  /\ probe.at = "submit" /\ probe' = Incomplete(probe)
  /\ UNCHANGED <<auditVars, file, environment>> /\ Aside

SubmitProbe ==
  /\ probe.at = "submit"
  /\ LET p == [probe EXCEPT !.submitted = TRUE]
     IN  \/ Create /\ probe' = Go(p, "bind")
         \/ Create /\ probe' = Incomplete(p)
         \/ UNCHANGED auditVars /\ probe' = Incomplete(p)
  /\ UNCHANGED <<file, environment>> /\ Aside

BindProbe ==
  /\ \/ probe.at = "bind" /\ Persist(Note(Go(probe, "await"), "run", created))
     \/ /\ probe.at = "await" /\ allocated /\ run = "waiting"
        /\ Persist(Note(Go(probe, "release"), "run", created))
  /\ UNCHANGED <<auditVars, environment>> /\ Aside

ReleaseProbe ==
  /\ probe.at = "release" /\ MarkReady /\ probe' = Go(probe, "follow")
  /\ UNCHANGED <<file, environment>> /\ Aside

AbortProbe ==
  /\ probe.at \in {"bind", "await", "release"}
  /\ CancelUnreleased /\ probe' = Incomplete(probe)
  /\ UNCHANGED <<file, environment>> /\ Aside

\* The Run ended, or contact was lost; get_run must report the end as well.
FollowProbe ==
  /\ \/ probe.at = "follow" /\ Terminal /\ probe' = Go(probe, "observe")
     \/ probe.at \in {"follow", "observe"} /\ probe' = Incomplete(probe)
  /\ UNCHANGED <<auditVars, file, environment>> /\ Aside

Observe ==
  /\ probe.at = "observe" /\ Terminal /\ allocated
  /\ LET p == [probe EXCEPT !.terminal = TRUE]
     IN  \/ Persist(Note(Go(p, "cleanup"), "status",
                         IF AuditPassed THEN "passed" ELSE "blocked"))
         \/ probe' = Incomplete(p) /\ UNCHANGED file     \* the sealed output is refused
  /\ UNCHANGED <<auditVars, environment>> /\ Aside

\* Mutant of MayDelete: the Environment goes whatever became of the Run.
MayDeleteAlways == probe.named

MayDelete == probe.named /\ (probe.terminal \/ ~probe.submitted)

\* Deleted and confirmed, deleted and not confirmed, or the call failed.
Cleanup ==
  /\ probe.at = "cleanup"
  /\ IF MayDelete
     THEN \/ /\ environment' = "deleted"
             /\ probe' = Note(Go(probe, "close"), "cleanup", "deleted_verified")
          \/ /\ environment' \in {environment, "deleted"}
             /\ probe' \in {Note(Go(probe, "close"), "cleanup", "delete_unverified"),
                            Note(Note(Go(probe, "close"), "cleanup", "delete_failed"),
                                 "status", "incomplete")}
     ELSE /\ probe' = IF probe.named
                      THEN Note(Go(probe, "close"), "cleanup", "retained_for_ambiguous_run")
                      ELSE Go(probe, "close")
          /\ UNCHANGED environment
  /\ UNCHANGED <<auditVars, file>> /\ Aside

Close ==
  /\ probe.at = "close"
  /\ \E p \in {probe, Note(probe, "status", "incomplete")} : probe' = Go(p, "settle")
  /\ UNCHANGED <<auditVars, file, environment>> /\ Aside

\* The last receipt: it does not pass over an Environment that may remain.
Settle ==
  /\ probe.at = "settle"
  /\ Persist(Go(IF probe.receipt.status = "passed" /\ probe.receipt.cleanup # "deleted_verified"
                THEN Note(probe, "status", "incomplete") ELSE probe, "end"))
  /\ UNCHANGED <<auditVars, environment>> /\ Aside

Die ==
  /\ probe.at \notin {"start", "end"} /\ probe' = Go(probe, "end")
  /\ UNCHANGED <<auditVars, file, environment>> /\ Aside

ProbeDjango ==
  /\ task = "django"
  /\ \/ Start \/ CreateEnvironment \/ ImageDrift \/ SubmitProbe \/ BindProbe \/ ReleaseProbe
     \/ AbortProbe \/ FollowProbe \/ Observe \/ Cleanup \/ Close \/ Settle \/ Die

------------------------------------------------------------------------------
(* The task adapters: an episode is accepted with a receipt only. *)

\* The locked contract, distinct Environments, and the digest of the receipt it names.
Episodes == [contract : BOOLEAN, separate : BOOLEAN, approved : BOOLEAN]

load_flask_admission(e) == e.approved /\ receipt # 0

\* The receipt whose digest was approved passed, and cleaned up.
load_django_admission(e) ==
  e.approved /\ file.status = "passed" /\ file.cleanup = "deleted_verified"

AdoptFlask ==
  /\ task = "flask" /\ ~adopted
  /\ \E e \in Episodes : e.contract /\ e.separate /\ load_flask_admission(e)
  /\ adopted' = TRUE
  /\ UNCHANGED <<auditVars, flaskVars, probe, file, environment>>

AdoptDjango ==
  /\ task = "django" /\ ~adopted
  /\ \E e \in Episodes : e.contract /\ e.separate /\ load_django_admission(e)
  /\ adopted' = TRUE
  /\ UNCHANGED <<auditVars, flaskVars, probe, file, environment>>

------------------------------------------------------------------------------
Axern == AuditNext /\ UNCHANGED <<flaskVars, probeVars>>

Next == AdmitFlask \/ ProbeDjango \/ AdoptFlask \/ AdoptDjango \/ Axern

Spec == Init /\ [][Next]_vars

------------------------------------------------------------------------------
(* AdmittedIsClean.  An episode is accepted only when a Run that succeeded scanned the
   whole image and no text a locked patch adds occurs anywhere in it, short runs of lines
   that are no signature included: the derivation of the signatures, the chunked
   scan, the audit it seals, the recovery by other processes and the receipt lose none. *)
AdmittedIsClean ==
  adopted =>
    /\ run = "succeeded" /\ image.git = "none"
    /\ \A p \in Prefix : ~GivesAway(p)

(* OneAudit.  Whatever processes come, die and come again, a key is audited by one
   Run at most ("do not resubmit"), and the receipt is about that Run. *)
OneAudit ==
  task = "flask" => created <= 1 /\ receipt \in {0, record.run}

(* ProbeSparesItsRun.  The probe deletes its Environment only when no Run in it can
   still be active, and a receipt that is accepted means that it is gone. *)
ProbeSparesItsRun ==
  /\ environment = "deleted" => run \notin {"waiting", "cancelling", "released"}
  /\ task = "django" /\ adopted => environment = "deleted"
===============================================================================

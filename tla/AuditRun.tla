------------------------------- MODULE AuditRun -------------------------------
(***************************************************************************)
(* The Run that audits an image: it waits for its inputs, scans the image  *)
(* (ImageScan) once it is released, and seals the audit.  The callers of   *)
(* either task reach it through AxernBackend, whose steps are here too.    *)
(***************************************************************************)
EXTENDS ImageScan

CONSTANTS Images,    \* the images to choose from
          MaxRuns    \* bound: Runs that can be created

\* Patches and files are finite, and made of bytes.
ASSUME ImagesAssumption ==
  /\ MaxRuns \in Nat
  /\ \A i \in Images :
       /\ \A s \in {1, 2} : i.content[s] \in Seq(Byte)
       /\ \A p \in Prefix : IsFiniteSet(i.patch[p]) /\ i.patch[p] \subseteq Seq(HunkLine)

VARIABLES task,        \* whose image it is: Flask's or Django's
          run,         \* what get_run reports of the last Run that was created
          created,     \* how many were created
          allocated    \* whether it has an Allocation

auditVars == <<task, image, run, created, allocated, scanVars>>

RunStatus == {"none", "waiting", "cancelling", "released", "succeeded", "failed", "cancelled"}
Terminal == run \in {"succeeded", "failed", "cancelled"}

AuditInit ==
  /\ task \in {"flask", "django", "seqtk"} /\ image \in Images
  /\ run = "none" /\ created = 0 /\ allocated = FALSE
  /\ ScanInit

------------------------------------------------------------------------------
(* What Axern does by itself; it is not part of the repository. *)

Allocate ==
  /\ run = "waiting" /\ ~allocated /\ allocated' = TRUE
  /\ UNCHANGED <<task, image, run, created, scanVars>>

Scan == run = "released" /\ ScanStep /\ UNCHANGED <<task, run, created, allocated>>

\* The scanner printed its audit and the output was sealed.
Sealed ==
  /\ run = "released" /\ ScanComplete /\ run' = "succeeded"
  /\ UNCHANGED <<task, image, created, allocated, scanVars>>

\* A bound, a file that changed, the deadline of the scanner; or the platform lost the Run.
AuditFails ==
  /\ run \in {"waiting", "cancelling", "released"}
  /\ run' \in {"failed"} \cup (IF run = "cancelling" THEN {"cancelled"} ELSE {})
  /\ UNCHANGED <<task, image, created, allocated, scanVars>>

AuditNext == Allocate \/ Scan \/ Sealed \/ AuditFails

------------------------------------------------------------------------------
(* What AxernBackend does for a caller. *)

Create ==
  /\ created < MaxRuns /\ created' = created + 1
  /\ run' = "waiting" /\ allocated' = FALSE
  /\ source' = 1 /\ consumed' = 0 /\ tail' = <<>> /\ matches' = {}
  /\ reached' = [s \in {1, 2} |-> {}]
  /\ UNCHANGED <<task, image>>

\* The marker reaches a Run that waits; to one that ended the write fails.
MarkReady ==
  /\ run = "waiting" /\ run' = "released"
  /\ UNCHANGED <<task, image, created, allocated, scanVars>>

\* A failure before the release cancels the Run, unless the cancellation fails as well.
CancelUnreleased ==
  /\ \/ run' = IF run = "waiting" THEN "cancelling" ELSE run
     \/ UNCHANGED run
  /\ UNCHANGED <<task, image, created, allocated, scanVars>>

AuditPassed == run = "succeeded" /\ audit_status(reached) = "passed"
===============================================================================

------------------------------ MODULE AxernRuns ------------------------------
(***************************************************************************)
(* The Runs of the Axern service, as far as Axrun can observe and change   *)
(* them through the released SDK.  Axern itself is not part of the         *)
(* repository: this module is what axrun/axern_backend.py relies on.       *)
(*                                                                         *)
(* A Run is created for one stage, gets one Allocation, and waits inside   *)
(* its wrapper until the caller writes the input-ready marker (the Run is  *)
(* then released).  Only a released Run executes the workload.  A          *)
(* cancellation is a request: the Run ends some time later, and the        *)
(* workload may still end first.                                           *)
(***************************************************************************)
CONSTANTS RunId,   \* identities Axern can hand out
          NoRun    \* the absent Run

ASSUME NoRunAssumption == NoRun \notin RunId

VARIABLES purpose,     \* the stage a Run was created for
          status,      \* what get_run and watch_run report
          allocated,   \* Runs with an Allocation
          released,    \* Runs whose input-ready marker was written
          cancelling   \* Runs whose cancellation Axern accepted

runVars == <<purpose, status, allocated, released, cancelling>>

Stage == {"inference", "verification"}

\* "unusable": the process exited with 0, but what it sealed is refused by
\* the adapter that reads it (a missing or oversized output, a candidate or a
\* verdict that violates its contract, a verdict for another candidate).
Ended == {"succeeded", "unusable", "failed", "cancelled"}
Status == {"absent", "live"} \union Ended

RunsTypeOK ==
    /\ purpose \in [RunId -> Stage \union {"none"}]
    /\ status \in [RunId -> Status]
    /\ allocated \subseteq RunId
    /\ released \subseteq RunId
    /\ cancelling \subseteq RunId

RunsInit ==
    /\ purpose = [r \in RunId |-> "none"]
    /\ status = [r \in RunId |-> "absent"]
    /\ allocated = {}
    /\ released = {}
    /\ cancelling = {}

Live(r) == status[r] = "live"
Executing == {r \in released : Live(r)}

------------------------------------------------------------------------------
(* What the SDK calls do. *)

Created(r, s) ==
    /\ status[r] = "absent"
    /\ status' = [status EXCEPT ![r] = "live"]
    /\ purpose' = [purpose EXCEPT ![r] = s]
    /\ UNCHANGED <<allocated, released, cancelling>>

\* The file write reaches the wrapper only while the Run is live.
MarkerWritten(r) ==
    /\ r \in RunId /\ Live(r)
    /\ released' = released \union {r}
    /\ UNCHANGED <<purpose, status, allocated, cancelling>>

\* Cancelling a Run that has ended changes nothing.
CancelRequested(r) ==
    /\ cancelling' = IF r \in RunId /\ Live(r) THEN cancelling \union {r} ELSE cancelling
    /\ UNCHANGED <<purpose, status, allocated, released>>

------------------------------------------------------------------------------
(* What Axern does by itself. *)

Allocate(r) ==
    /\ Live(r)
    /\ r \notin allocated
    /\ allocated' = allocated \union {r}
    /\ UNCHANGED <<purpose, status, released, cancelling>>

Exit(r) ==
    /\ r \in Executing
    /\ \E outcome \in {"succeeded", "unusable", "failed"} :
          status' = [status EXCEPT ![r] = outcome]
    /\ UNCHANGED <<purpose, allocated, released, cancelling>>

\* The platform loses a Run: image pull, node or Allocation failure.
PlatformFailure(r) ==
    /\ Live(r)
    /\ status' = [status EXCEPT ![r] = "failed"]
    /\ UNCHANGED <<purpose, allocated, released, cancelling>>

CancellationEnds(r) ==
    /\ Live(r)
    /\ r \in cancelling
    /\ status' = [status EXCEPT ![r] = "cancelled"]
    /\ UNCHANGED <<purpose, allocated, released, cancelling>>

AxernNext ==
    \E r \in RunId :
        Allocate(r) \/ Exit(r) \/ PlatformFailure(r) \/ CancellationEnds(r)
==============================================================================

--------------------------- MODULE SeqtkAcceptance ---------------------------
(***************************************************************************)
(* The acceptance of the locked seqtk instance on Axern                    *)
(* (programbench_seqtk_axern.py): it creates two Environments, runs every  *)
(* case through the command line against the native evidence, probes the   *)
(* isolation of the compiled image with two Runs of its own, cancels the   *)
(* case that fails, and removes what it created.                           *)
(***************************************************************************)
EXTENDS ValidationTool

At(step) == tool = "axern" /\ pc = step
Stays == UNCHANGED <<tool, present>>

StartAxern ==
  /\ Launch("axern") /\ paper["native"].status # "none"
  /\ Goto("evidence")
  /\ UNCHANGED present /\ Rested

\* The native receipt passed, left nothing behind, and its inputs are unchanged.
AxernEvidence ==
  /\ At("evidence")
  /\ \/ /\ paper["native"].status = "complete" /\ paper["native"].cleanup = "completed"
        /\ paper["native"].cases = MaxCases
        /\ Keep(held) /\ Goto("extract") /\ UNCHANGED tool
     \/ Quit(Failed)
  /\ UNCHANGED present /\ Rested

\* Every member of a candidate's archive is a plain file or directory inside it, once, and
\* within the limits.
AxernExtracts ==
  /\ At("extract")
  /\ (Keep(held) /\ Goto("inference") /\ UNCHANGED tool) \/ Quit(Failed)
  /\ UNCHANGED present /\ Rested

AxernFails == Keep(Failed) /\ Goto("runs")

\* create_environment answers, or not; an Environment without an answer is on no list.
CreatesEnvironment(e, to, failing) ==
  \/ present' = present \cup {e} /\ Keep([held EXCEPT !.owned = @ \cup {e}]) /\ Goto(to)
  \/ present' \in {present, present \cup {e}} /\ Keep(Failed) /\ Goto(failing)

AxernCreates ==
  /\ tool = "axern" /\ pc \in {"inference", "verification"}
  /\ CreatesEnvironment(pc, IF pc = "inference" THEN "verification" ELSE "identity", "runs")
  /\ UNCHANGED tool /\ Rested

\* Both answers name the locked images.
AxernIdentity ==
  /\ At("identity")
  /\ AxernFails \/ (Keep(held) /\ Goto("resolve"))
  /\ Stays /\ Rested

AxernResolves ==
  /\ At("resolve")
  /\ \/ Keep(held) /\ Goto("run")
     \/ AxernFails                     \* nothing was started: nothing to cancel
  /\ Stays /\ Rested

\* The command run: the verification commits an image and derives an Environment from it,
\* which it deletes in the end; a candidate that does not compile has none.
AxernDerives ==
  /\ At("run") /\ 4 \in bound \ Live /\ work[4] = "succeeded"
  /\ present' = present \cup {"derived"} /\ Keep(held) /\ Goto("derived")
  /\ UNCHANGED tool /\ Rested

AxernRan ==
  /\ \/ /\ At("run") /\ Answered /\ UNCHANGED present
        /\ held.receipt.cases > 0       \* the first case is the reference, which compiles
     \/ At("derived") /\ present' = present \ {"derived"}
  /\ Keep(held) /\ Goto("check")
  /\ UNCHANGED tool /\ Rested

\* Results, executables and cleanup_state are those of the native evidence.
AxernChecks ==
  /\ At("check")
  /\ Keep(held) /\ Goto(IF held.receipt.cases = 0 THEN "isolation" ELSE "record")
  /\ Stays /\ Rested

\* Once, an Environment of the compiled image is probed.
AxernIsolates ==
  /\ At("isolation")
  /\ \E failing \in {"cancel", "runs"} : CreatesEnvironment("isolation", "probe", failing)
  /\ UNCHANGED tool /\ Rested

\* Two Runs one after the other; one without an answer is on no list.
AxernProbes ==
  /\ At("probe")
  /\ LET s == IF work[5] = "none" THEN 5 ELSE 6
         created == [work EXCEPT ![s] = "live"]
     IN  \/ /\ work' = created
            /\ Keep([held EXCEPT !.active = @ \cup {s}]) /\ Goto("probing")
         \/ work' \in {work, created} /\ Keep(Failed) /\ pc' \in {"cancel", "runs"}
  /\ UNCHANGED bound /\ Stays

\* A probe that ended otherwise stays on the list.
AxernProbed ==
  /\ At("probing")
  /\ \E s \in held.active :
       /\ work[s] = "succeeded"
       /\ Keep([held EXCEPT !.active = @ \ {s}])
       /\ Goto(IF s = 5 THEN "probe" ELSE "record")
  /\ Stays /\ Rested

AxernRecords ==
  /\ At("record")
  /\ Keep(OneMore) /\ work' = Fresh /\ bound' = {}
  /\ Goto(IF OneMore.receipt.cases < MaxCases THEN "resolve" ELSE "runs")
  /\ Stays

------------------------------------------------------------------------------
(* A case fails: what the handler names is cancelled, and the loop is left. *)

AxernCaseFails ==
  /\ tool = "axern" /\ pc \in {"run", "derived", "check", "probing", "record"}
  /\ \/ Keep(Failed) /\ Goto("cancel")
     \/ AxernFails                     \* an error of another type is not caught
  /\ Stays /\ Rested

\* The command cancel: the recorded Runs are asked to end and a derived Environment is
\* deleted, or it fails, and the exception leaves the handler.
AxernCancels ==
  /\ At("cancel")
  /\ present' \in {present, present \ {"derived"}}
  /\ Keep(held) /\ Goto("runs")
  /\ UNCHANGED tool /\ Rested

\* The finally block: cancel_run for each active Run, then the Environments.
AxernCancelsRuns ==
  /\ At("runs")
  /\ \/ Keep(held)
     \/ held.active # {} /\ Keep(Noted("cleanup", "failed"))
  /\ Goto("environments")
  /\ Stays /\ Rested

\* The tool succeeds when nothing failed, here included.
AxernDeletes ==
  /\ At("environments")
  /\ \E deleted \in SUBSET held.owned :
       /\ present' = present \ deleted
       /\ \/ /\ held.receipt.status = "started" /\ held.receipt.cleanup # "failed"
             /\ deleted = held.owned
             /\ Quit(Noted("status", "complete"))
          \/ Quit(Failed)               \* an error, or a deletion without its answer
  /\ Rested

Seqtk ==
  \/ StartAxern \/ AxernEvidence \/ AxernExtracts \/ AxernCreates \/ AxernIdentity
  \/ AxernResolves \/ AxernDerives \/ AxernRan
  \/ AxernChecks \/ AxernIsolates \/ AxernProbes \/ AxernProbed
  \/ AxernRecords \/ AxernCaseFails \/ AxernCancels \/ AxernCancelsRuns \/ AxernDeletes
===============================================================================

---------------------------- MODULE ValidationTool ----------------------------
(***************************************************************************)
(* What the validation tools have in common (tools/validation): a tool     *)
(* works through its cases, keeps a receipt of how far it came, and owns   *)
(* things outside its process: containers and images of Docker,            *)
(* Environments and Runs of Axern.  Each is started once, and may be       *)
(* killed at any step.                                                     *)
(*                                                                         *)
(* Runs are numbered by what they are for: 1 and 2 qualify the two         *)
(* Environments, 3 is the inference, 4 the verification, 5 and 6 are the   *)
(* isolation probes of seqtk.  The first four are created by the command   *)
(* line, a child process whose own steps are those of EpisodeRunner and    *)
(* Qualification: it creates a Run, records it, and only then releases it. *)
(***************************************************************************)
EXTENDS Naturals

CONSTANT MaxCases    \* bound: cases of an acceptance; the oracles have their three

ASSUME MaxCasesAssumption == MaxCases \in Nat \ {0}

VARIABLES tool,      \* the tool that runs
          pc,        \* its step
          held,      \* its receipt, what it remembers to clean up, and its docker run
          paper,     \* the receipts as last written, and how a tool ended
          present,   \* containers, images and Environments that exist
          work,      \* the Runs of the episode at hand
          bound      \* those its records name

toolVars == <<tool, pc, held, paper, present, work, bound>>

Tool == {"flask_oracle", "django_oracle", "native", "parity", "claude", "axern"}
Resource == {"container", "image", "inference", "verification", "derived", "isolation"}
Stage == 1..6

Receipt == [status |-> "none", cases |-> 0, cleanup |-> "not_started"]
Fresh == [s \in Stage |-> "none"]

\* A tool as it starts: `box` is the phase of the docker run it waits for, `exit` its end.
Started ==
  [receipt |-> [Receipt EXCEPT !.status = "started"], owned |-> {}, active |-> {},
   box |-> "none", exit |-> "none"]

ToolInit ==
  /\ tool = "none" /\ pc = "idle" /\ held = Started
  /\ paper = [t \in Tool |-> Receipt]
  /\ present = {} /\ work = Fresh /\ bound = {}

ToolTypeOK ==
  /\ tool \in Tool \cup {"none"} /\ present \subseteq Resource /\ bound \subseteq Stage
  /\ held.owned \subseteq Resource /\ held.active \subseteq Stage
  /\ \A t \in Tool : paper[t].cases \in 0..3 \cup 0..MaxCases
  /\ work \in [Stage -> {"none", "live", "succeeded", "failed"}]

Live == {s \in Stage : work[s] = "live"}

Goto(to) == pc' = to
Noted(field, value) == [held EXCEPT !.receipt[field] = value]
OneMore == Noted("cases", held.receipt.cases + 1)
Failed == Noted("status", "failed")

\* The receipt in memory, and the file that replaces the one before.
Keep(h) == held' = h /\ UNCHANGED paper
Save(h) == held' = h /\ paper' = [paper EXCEPT ![tool] = h.receipt]

Rested == UNCHANGED <<work, bound>>

Launch(t) ==
  /\ tool = "none" /\ paper[t].status = "none"
  /\ tool' = t /\ held' = Started /\ paper' = [paper EXCEPT ![t] = Started.receipt]

\* It ends with a last receipt, or as an error that writes none.
Quit(h) == Save(h) /\ tool' = "none" /\ Goto("idle")
Stop == Keep(held) /\ tool' = "none" /\ Goto("idle")

Killed ==
  /\ tool # "none" /\ tool' = "none" /\ Goto("idle")
  /\ UNCHANGED <<held, paper, present>> /\ Rested

------------------------------------------------------------------------------
(* A command of axrun.cli in a child process. *)

\* The command run qualifies too, where it has not been done.
StagesOf(command) ==
  IF command = "qualify" THEN {1, 2} ELSE IF command = "run" THEN 1..4 ELSE {}

CliCreates ==
  /\ \E s \in StagesOf(pc) :
       /\ work[s] = "none"
       /\ \A t \in StagesOf(pc) : t < s => t \in bound /\ work[t] = "succeeded"
       /\ work' = [work EXCEPT ![s] = "live"]
  /\ UNCHANGED <<tool, pc, held, paper, present, bound>>

CliBinds ==
  /\ \E s \in StagesOf(pc) \cap Live : s \notin bound /\ bound' = bound \cup {s}
  /\ UNCHANGED <<tool, pc, held, paper, present, work>>

\* It ended with 0 and printed an object.
Answered == \A s \in StagesOf(pc) : s \in bound /\ work[s] = "succeeded"

\* Only a recorded Run of the command line is released, and only a released one can succeed.
RunEnds ==
  /\ \E s \in Live :
       \E outcome \in {"failed"} \cup (IF s \in bound \cup {5, 6} THEN {"succeeded"} ELSE {}) :
         work' = [work EXCEPT ![s] = outcome]
  /\ UNCHANGED <<tool, pc, held, paper, present, bound>>
===============================================================================

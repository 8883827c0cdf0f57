----------------------------- MODULE NativeSeqtk -----------------------------
(***************************************************************************)
(* The repeated native evaluation of the locked seqtk instance             *)
(* (programbench_seqtk_native.py).  For every repetition of every variant  *)
(* a container compiles, its image is committed, and a container of that   *)
(* image runs the tests of each branch; the variant that must not compile  *)
(* has no image.  `owned` names what the finally block removes, and a      *)
(* receipt of a run that failed still says "started".                      *)
(***************************************************************************)
EXTENDS ValidationTool

Native(step) == tool = "native" /\ pc = step
Own(r) == [held EXCEPT !.owned = @ \cup {r}]
Disown(r) == [held EXCEPT !.owned = @ \ {r}]

\* An exception leaves the try block.
NativeFails == Goto("cleanup") /\ Keep(held)
NativeContinues == UNCHANGED tool /\ Rested

StartNative == Launch("native") /\ Goto("inputs") /\ UNCHANGED present /\ Rested

\* Downloads with their digests, archives without unsafe members, and a fixture that fails.
NativeInputs ==
  /\ Native("inputs")
  /\ (Goto("image") /\ Keep(held) /\ UNCHANGED tool) \/ Stop
  /\ UNCHANGED present /\ Rested

\* The image of the evaluator, built under a tag of its own that nothing removes.
NativeImage ==
  /\ Native("image")
  /\ (Goto("create") /\ Keep(held) /\ UNCHANGED tool) \/ Stop
  /\ UNCHANGED present /\ Rested

\* docker create: a name is owned once the command has succeeded.
CreatesContainer(to) ==
  \/ present' = present \cup {"container"} /\ Keep(Own("container")) /\ Goto(to)
  \/ present' \in {present, present \cup {"container"}} /\ NativeFails

NativeCreates == Native("create") /\ CreatesContainer("compile") /\ NativeContinues

\* The archive is copied in, the container starts and is waited for.
NativeCompiles ==
  /\ Native("compile")
  /\ \/ \E code \in {"zero", "nonzero"} :
          Keep([held EXCEPT !.exit = code]) /\ Goto("compiled")
     \/ NativeFails
  /\ UNCHANGED present /\ NativeContinues

RemovesContainer(h, to) ==
  \/ present' = present \ {"container"} /\ Keep(h) /\ Goto(to)
  \/ present' \in {present, present \ {"container"}} /\ NativeFails

NextCase(h) == IF h.receipt.cases < MaxCases THEN "create" ELSE "compare"
Done == [OneMore EXCEPT !.owned = @ \ {"container"}, !.exit = "none"]

\* The variant that must not compile: its container is removed and the case is done.
NativeRefuses ==
  /\ Native("compiled") /\ held.exit = "nonzero"
  /\ RemovesContainer(Done, NextCase(Done))
  /\ NativeContinues

NativeCommits ==
  /\ Native("compiled")
  /\ \/ held.exit = "zero" /\ present' = present \cup {"image"} /\ Keep(Own("image")) /\ Goto("remove")
     \/ held.exit = "zero" /\ present' \in {present, present \cup {"image"}} /\ NativeFails
     \/ UNCHANGED present /\ NativeFails          \* another variant was to compile, or not
  /\ NativeContinues

NativeRemoves ==
  /\ Native("remove") /\ RemovesContainer(Disown("container"), "branch")
  /\ NativeContinues

NativeBranch == Native("branch") /\ CreatesContainer("test") /\ NativeContinues

\* The evaluator exits with 0 or 1, and its results are of exactly the expected tests.
NativeTests ==
  /\ Native("test")
  /\ (Keep(held) /\ Goto("result")) \/ NativeFails
  /\ UNCHANGED present /\ NativeContinues

\* One branch stands for all.
NativeResult ==
  /\ Native("result") /\ RemovesContainer(Done, NextCase(Done))
  /\ NativeContinues

\* The repetitions agree, the reference passes every test, the published results are met.
NativeCompares ==
  /\ Native("compare") /\ Goto("cleanup")
  /\ Keep(Noted("status", "complete")) \/ Keep(held)
  /\ UNCHANGED present /\ NativeContinues

\* Mutant of NativeCleanup: only the containers are looked at for errors.
NativeCleanupForgiving ==
  /\ Native("cleanup")
  /\ \E removed \in SUBSET held.owned :
       /\ present' = present \ removed
       /\ Quit(Noted("cleanup", IF "container" \in held.owned \ removed THEN "failed" ELSE "completed"))
  /\ Rested

\* Each owned name and image is removed or becomes an error of the receipt.
NativeCleanup ==
  /\ Native("cleanup")
  /\ \E removed \in SUBSET held.owned :
       /\ present' = present \ removed
       /\ Quit(Noted("cleanup", IF removed = held.owned THEN "completed" ELSE "failed"))
  /\ Rested

SeqtkNative ==
  \/ StartNative \/ NativeInputs \/ NativeImage \/ NativeCreates \/ NativeCompiles
  \/ NativeRefuses \/ NativeCommits \/ NativeRemoves \/ NativeBranch \/ NativeTests
  \/ NativeResult \/ NativeCompares \/ NativeCleanup
===============================================================================

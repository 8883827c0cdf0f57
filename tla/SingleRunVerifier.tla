-------------------------- MODULE SingleRunVerifier --------------------------
(***************************************************************************)
(* A verification stage of one Run: the host plans it, the fixture in the  *)
(* fresh Allocation applies the patch, runs the evaluation script, grades  *)
(* its log and leaves a result, both files are sealed, and the host        *)
(* accepts the result or refuses it.  A process the evaluation left behind *)
(* still holds the log of the Flask and the Verified fixture and may       *)
(* write to it until the Run ends; Django's fixture reads a pipe to its    *)
(* end.  For Flask the accepted result is compared with the grade of the   *)
(* upstream harness.                                                       *)
(***************************************************************************)
EXTENDS TestLog

CONSTANTS Prints,       \* bound: of each verifier, the logs its evaluation may leave
          LateLines     \* bound: the lines a process left behind may add, one of them

Kinds == {"flask", "django", "verified"}
Codes == {0, 1, -9}     \* of the evaluation: success, failure, killed by a signal

ASSUME LogAssumption == \A k \in Kinds : Prints[k] \subseteq Seq(Lines(k))

VARIABLES kind, empty,   \* the verifier, and whether the patch is empty
          at,            \* the step of the stage
          tree,          \* the work tree: clean, whole patch, some hunks, hunks and a fuzzy retry
          log, late,     \* the lines in the log, and whether one was added after the evaluation
          code, result,  \* exit code of the evaluation, and the result file
          exit,          \* exit code of the fixture
          outcome        \* what the host made of it

verifierVars == <<kind, empty, at, tree, log, late, code, result, exit, outcome>>
file == <<kind, empty, tree, log, late, code>>

Steps == {"plan", "check", "apply", "reject", "fuzzy", "evaluate", "score", "seal",
          "parse", "compare", "unsealed", "end"}
NoResult == [class |-> "none", applied |-> FALSE, code |-> 0, digest |-> <<>>,
             grade |-> [resolved |-> FALSE]]

VerifierTypeOK ==
  /\ kind \in Kinds /\ empty \in BOOLEAN /\ at \in Steps
  /\ tree \in {"clean", "whole", "partial", "mixed"}
  /\ log \in Seq(Lines(kind)) /\ late \in BOOLEAN /\ code \in Codes
  /\ result.class \in {"none", "empty", "unapplied", "scored"}
  /\ exit \in {-1, 0, 2}
  /\ outcome \in {"none", "refused", "infrastructure", "contract", "passed", "failed",
                  "unscored", "parity", "divergent"}

VerifierInit ==
  /\ kind \in Kinds /\ empty \in BOOLEAN
  /\ at = "plan" /\ tree = "clean" /\ log = <<>> /\ late = FALSE
  /\ code = 0 /\ result = NoResult /\ exit = -1 /\ outcome = "none"

Official == kind # "verified"

(***************************************************************************)
(* The host plans the Run, or refuses what it is asked to verify.          *)
(***************************************************************************)
(* lock: the task, the verifier and the assets the code names; offline: image,
   platform and network; patch: of this episode, of another one, or missing. *)
Requests == [lock : BOOLEAN, offline : BOOLEAN, assets : BOOLEAN,
             patch : {"own", "foreign", "none"}]

Planned(admits) ==
  /\ at = "plan"
  /\ IF admits THEN at' = "check" /\ UNCHANGED outcome
     ELSE at' = "end" /\ outcome' = "refused"
  /\ UNCHANGED <<file, result, exit>>

PlanFlask == kind = "flask" /\ \E r \in Requests :
  Planned(r.lock /\ r.offline /\ r.patch = "own" /\ r.assets)

PlanDjango == kind = "django" /\ \E r \in Requests :
  Planned(r.lock /\ r.offline /\ r.patch = "own" /\ r.assets)

(* The Verified adapter looks for a patch, not for this episode's. *)
PlanVerified == kind = "verified" /\ \E r \in Requests :
  Planned(r.lock /\ r.patch # "none" /\ r.assets)

(***************************************************************************)
(* The fixture.  It leaves with 0 and a result, or with 2 and none.        *)
(***************************************************************************)
Leave(status) == exit' = status /\ at' = "seal"

(* The workspace is at the locked commit and clean, the files are regular and
   at their digests. *)
GiveUp ==
  /\ at = "check" /\ Leave(2)
  /\ UNCHANGED <<file, result, outcome>>

(* git, patch or bash did not start or ran out of time, the log is too long, or an
   official fixture finds that it is not UTF-8. *)
ToolFails ==
  /\ at \in {"apply", "reject", "fuzzy", "evaluate"} \/ (at = "score" /\ Official)
  /\ Leave(2)
  /\ UNCHANGED <<file, result, outcome>>

Unscored(class) == [class |-> class, applied |-> FALSE, code |-> 0, digest |-> <<>>,
                    grade |-> [resolved |-> FALSE]]

(* An empty patch is not evaluated. *)
Check ==
  /\ Official /\ at = "check"
  /\ IF empty THEN result' = Unscored("empty") /\ Leave(0)
     ELSE at' = "apply" /\ UNCHANGED <<result, exit>>
  /\ UNCHANGED <<file, outcome>>

(* The Verified fixture evaluates it, and applies a patch only as a whole. *)
CheckVerified ==
  /\ ~Official /\ at = "check"
  /\ IF empty THEN at' = "evaluate" /\ UNCHANGED <<tree, exit>>
     ELSE \/ tree' = "whole" /\ at' = "evaluate" /\ UNCHANGED exit
          \/ Leave(2) /\ UNCHANGED tree
  /\ UNCHANGED <<kind, empty, log, late, code, result, outcome>>

(* `git apply`, all or nothing. *)
Apply ==
  /\ at = "apply"
  /\ \/ tree' = "whole" /\ at' = "evaluate"
     \/ at' = "reject" /\ UNCHANGED tree
  /\ UNCHANGED <<kind, empty, log, late, code, result, exit, outcome>>

(* `git apply --reject` leaves the hunks that fit when it fails. *)
ApplyReject ==
  /\ at = "reject"
  /\ \/ tree' = "whole" /\ at' = "evaluate"
     \/ tree' \in {"clean", "partial"} /\ at' = "fuzzy"
  /\ UNCHANGED <<kind, empty, log, late, code, result, exit, outcome>>

(* `patch --fuzz=5` on the tree as the attempt before it left it. *)
ApplyFuzzy ==
  /\ at = "fuzzy"
  /\ \/ /\ tree' = IF tree = "clean" THEN "whole" ELSE "mixed"
        /\ at' = "evaluate" /\ UNCHANGED <<result, exit>>
     \/ UNCHANGED tree /\ result' = Unscored("unapplied") /\ Leave(0)
  /\ UNCHANGED <<kind, empty, log, late, code, outcome>>

(* The script ran to its end. *)
Evaluate ==
  /\ at = "evaluate"
  /\ log' \in Prints[kind] /\ code' \in Codes
  /\ at' = "score"
  /\ UNCHANGED <<kind, empty, tree, late, result, exit, outcome>>

(* Only Django's fixture reads a pipe until nobody can write to it any more. *)
LateWrite ==
  /\ kind # "django" /\ ~late
  /\ at = "score" \/ (at = "seal" /\ result.class = "scored")
  /\ \E l \in LateLines \cap Lines(kind) : log' = Append(log, l)
  /\ late' = TRUE
  /\ UNCHANGED <<kind, empty, at, tree, code, result, exit, outcome>>

Scored(grade) ==
  [class |-> "scored", applied |-> TRUE, code |-> code, digest |-> log, grade |-> grade]

(* The log is read once: its digest and its grade are of the same bytes. *)
Score ==
  /\ at = "score" /\ Official
  /\ IF MayScore(kind, log)
     THEN result' = Scored(Grade(kind, log)) /\ Leave(0)
     ELSE Leave(2) /\ UNCHANGED result
  /\ UNCHANGED <<file, outcome>>

ScoreVerified ==
  /\ at = "score" /\ ~Official
  /\ IF VerifiedMayScore(log)
     THEN result' = Scored([resolved |-> VerifiedResolved(log)]) /\ Leave(0)
     ELSE Leave(2) /\ UNCHANGED result
  /\ UNCHANGED <<file, outcome>>

(***************************************************************************)
(* The host parses the sealed result and grades the sealed log once more.  *)
(***************************************************************************)
(* The Run ended: no process of it is left, and both files are sealed, unless one is
   missing or longer than the plan allows. *)
Seal ==
  /\ at = "seal"
  /\ \/ at' = "parse" /\ UNCHANGED outcome
     \/ at' = "unsealed" /\ outcome' = "infrastructure"
  /\ UNCHANGED <<file, result, exit>>

(* _check_test_details: the report against its own status map. *)
Contradictory(g) ==
  \/ \E t \in DOMAIN g.statuses : g.statuses[t] \notin TestStatuses
  \/ g.success \cap g.failure # {}
  \/ g.success \cup g.failure # Expected("flask")
  \/ \E t \in g.success : StatusOf(g.statuses, t) \notin {"PASSED", "XFAIL"}
  \/ \E t \in g.failure : StatusOf(g.statuses, t) \in {"PASSED", "XFAIL", "SKIPPED"}
  \/ g.missing # Expected("flask") \ DOMAIN g.statuses
  \/ g.resolved # (g.failure = {})

(* _check_sealed_test_log: the report against the log. *)
SealedLogAgrees(g) == MayScore("flask", log) /\ g = score_log(log)

(* Django's _check_test_details is both, and refuses a status without a name. *)
DjangoDetailsAgree(g) ==
  /\ \A t \in DOMAIN g.statuses : t # Unnamed /\ g.statuses[t] \in TestStatuses
  /\ FailToPass \subseteq DOMAIN g.statuses
  /\ g.success \cup g.failure = FailToPass /\ g.success \cap g.failure = {}
  /\ g.missing = {}
  /\ MayScore("django", log) /\ g = score_locked_log(log)

Verdict == IF result.grade.resolved THEN "passed" ELSE "failed"

(* Mutant of parse_result: the sealed log is not graded again. *)
parse_resultTrusting ==
  IF exit # 0 THEN "infrastructure"
  ELSE IF result.class # "scored" THEN "unscored"
  ELSE IF result.code \notin 0..255 THEN "contract"
  ELSE Verdict

parse_result ==
  IF exit # 0 THEN "infrastructure"
  ELSE IF result.digest # log THEN "contract"
  ELSE IF result.class # "scored" THEN IF log = <<>> THEN "unscored" ELSE "contract"
  ELSE IF result.code \notin 0..255 THEN "contract"
  ELSE IF Contradictory(result.grade) \/ ~SealedLogAgrees(result.grade) THEN "contract"
  ELSE Verdict

ParseFlask ==
  /\ kind = "flask" /\ at = "parse"
  /\ outcome' = parse_result
  /\ at' = IF outcome' \in {"passed", "failed"} \/ result.class = "empty" THEN "compare" ELSE "end"
  /\ UNCHANGED <<file, result, exit>>

ParseDjango ==
  /\ kind = "django" /\ at = "parse" /\ at' = "end"
  /\ outcome' = IF exit # 0 THEN "infrastructure"
                ELSE IF result.digest # log THEN "contract"
                ELSE IF result.class # "scored"
                     THEN IF log = <<>> THEN "unscored" ELSE "contract"
                ELSE IF result.code \in 0..255 /\ DjangoDetailsAgree(result.grade)
                     THEN Verdict ELSE "contract"
  /\ UNCHANGED <<file, result, exit>>

(* The command verifier takes the result as it is. *)
ParseVerified ==
  /\ kind = "verified" /\ at = "parse" /\ at' = "end"
  /\ outcome' = IF exit # 0 THEN "infrastructure" ELSE Verdict
  /\ UNCHANGED <<file, result, exit>>

(***************************************************************************)
(* The parity tool: the accepted result against the grade the oracle made  *)
(* of the same log, when there is one.                                     *)
(***************************************************************************)
(* _official_scored refuses a grade with an expected test missing or skipped. *)
Comparable(g) ==
  /\ \A t \in Expected("flask") : StatusOf(g.statuses, t) \notin {"missing", "SKIPPED"}
  /\ g.resolved = (g.failure = {})

compare_scored(g) ==
  /\ result.class = "scored"
  /\ result.grade.statuses = g.statuses
  /\ result.grade.success = g.success
  /\ result.grade.failure = g.failure
  /\ result.grade.missing = {}
  /\ result.grade.resolved = g.resolved
  /\ outcome = IF g.resolved THEN "passed" ELSE "failed"

(* The upstream report of an empty patch has no test in it. *)
compare_empty == result.class = "empty" /\ ~result.applied /\ outcome = "unscored"

Compare ==
  LET g == OfficialGrade(kind, log)
  IN  /\ at = "compare" /\ at' = "end"
      /\ outcome' = IF empty THEN IF compare_empty THEN "parity" ELSE "divergent"
                    ELSE IF ~OracleAccepts(kind, log) \/ ~Comparable(g) THEN outcome
                    ELSE IF compare_scored(g) THEN "parity" ELSE "divergent"
      /\ UNCHANGED <<file, result, exit>>

VerifierNext ==
  \/ PlanFlask \/ PlanDjango \/ PlanVerified
  \/ Check \/ CheckVerified \/ Apply \/ ApplyReject \/ ApplyFuzzy
  \/ Evaluate \/ LateWrite \/ Score \/ ScoreVerified \/ GiveUp \/ ToolFails
  \/ Seal \/ ParseFlask \/ ParseDjango \/ ParseVerified \/ Compare

VerifierSpec == VerifierInit /\ [][VerifierNext]_verifierVars
(***************************************************************************)
(* Properties.                                                             *)
(***************************************************************************)
Accepted == {"passed", "failed", "parity", "divergent"}

(* VerdictIsSound.  A verdict the host accepted from an official verifier is the
   one the upstream harness reads from the very log that was sealed, whatever was
   appended to it and whenever, and was measured on a tree the patch changed.  A
   pass of the Verified fixture, which has a parser of its own, over a well-marked
   log that the harness can read is one of the harness too. *)
VerdictIsSound ==
  outcome \in Accepted /\ ~(Official /\ empty) =>
    /\ Official =>
         /\ OfficialFound(kind, log) /\ tree \in {"whole", "mixed"}
         /\ result.grade.resolved = OfficialGrade(kind, log).resolved
    /\ ~Official /\ ~late /\ WellMarked(log) /\ OfficialFound(kind, log)
       /\ outcome = "passed" => OfficialGrade(kind, log).resolved

(* The one thing on which fixture and host differ: the multiline patterns of the Django
   fixture may pass a test without a name, and the host takes no such name. *)
PassedUnnamed(g) == kind = "django" /\ Unnamed \in DOMAIN g.statuses

(* HostAgrees.  The fixture and the host check the same evidence by rules written twice
   (run_verifier.py and parse_result): a sealed result whose log nobody touched after it
   was graded, of a script that was not killed, is accepted as it stands, except that the
   host of Django refuses, always, a status map with a test without a name. *)
HostAgrees ==
  at = "end" /\ exit = 0 /\ result.class = "scored" /\ result.digest = log /\ result.code >= 0 =>
    /\ outcome \in Accepted <=> ~PassedUnnamed(result.grade)
    /\ outcome \notin Accepted => outcome = "contract"
    /\ outcome = "passed" => result.grade.resolved
    /\ outcome = "failed" => ~result.grade.resolved

(* ParityHolds.  When the oracle accepts the upstream grade of the sealed log, the
   comparison of an accepted verdict reports parity: three implementations of one
   rule (fixture, oracle, comparison) never tell one log apart. *)
ParityHolds ==
  at = "end" /\ kind = "flask" /\ outcome \in Accepted =>
    (outcome = "parity" <=> empty \/ OracleAccepts(kind, log))

===============================================================================

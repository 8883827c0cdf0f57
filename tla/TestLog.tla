------------------------------ MODULE TestLog ------------------------------
(***************************************************************************)
(* How a test log becomes a grade.  A log is a sequence of lines: the      *)
(* markers the evaluation script prints around the tests, a marker of an   *)
(* upstream failure, and lines that report the status of a test; of        *)
(* Django also the headings of its summary, and a bare "ok" with the       *)
(* output that came between it and the name of its test.  Four readers     *)
(* grade it: the fixtures of the Flask, the Django and the SWE-bench       *)
(* Verified verifier, and the pinned upstream harness, which is not part   *)
(* of this repository and is taken from what the code says it mirrors.     *)
(***************************************************************************)
EXTENDS Integers, Sequences, FiniteSetsExt

CONSTANTS FailToPass,   \* the tests the task expects to start passing
          PassToPass,   \* the tests it expects to keep passing
          TestLines,    \* the pairs <<test, status>> a log may report
          Interruptions \* the triples <<where, test, length>> of its interrupted reports

ASSUME SelectionAssumption ==
  /\ FailToPass # {}
  /\ FailToPass \cap PassToPass = {}

TestStatuses == {"FAILED", "PASSED", "SKIPPED", "ERROR", "XFAIL"}

(* The only test of the Django selection is its one fail-to-pass case. *)
Expected(kind) ==
  FailToPass \cup (IF kind = "django" THEN {} ELSE PassToPass)

Mark(m) == [mark |-> m, test |-> "none", status |-> "none"]
TestLine(t, s) == [mark |-> "none", test |-> t, status |-> s]

Unnamed == ""

(* The heading of a failure in the summary; without a name the parsers trip over it. *)
Heading(t, s) == [mark |-> "heading", test |-> t, status |-> s]

(* A report cut off by other output: the name is on the line of that output, or alone (or
   nothing is) on the line before.  The output is one line, or goes on to "silenced". *)
Interruption(where, t, length) == [mark |-> where, test |-> t, status |-> length]

DjangoLines ==
  {Mark(m) : m \in {"ok", "silenced", "version"}}
  \cup {Heading("none", "FAILED")}
  \cup {Heading(l[1], l[2]) : l \in {x \in TestLines : x[2] \in {"FAILED", "ERROR"}}}
  \cup {Interruption(x[1], x[2], x[3]) : x \in Interruptions}

(* The Django runner prints no XFAIL and its parser invents no status. *)
Lines(kind) ==
  {Mark(m) : m \in {"start", "end", "bad"}}
  \cup {TestLine(l[1], l[2]) :
          l \in {x \in TestLines :
                   kind # "flask" => x[2] \in TestStatuses \ {"XFAIL"}}}
  \cup (IF kind = "flask" THEN {} ELSE DjangoLines)

Positions(log, m) == {i \in DOMAIN log : log[i].mark = m}
Reports(lines, t) == {i \in DOMAIN lines : lines[i].test = t}

(***************************************************************************)
(* The parsers: the status map of a run of lines.                          *)
(***************************************************************************)
(* pytest: the last report of a test counts. *)
parse_log_flask(lines) ==
  [t \in {lines[i].test : i \in DOMAIN lines} \ {"none"} |->
     lines[Max(Reports(lines, t))].status]

(* Django: an "ok" passes the last test named before it, even one reported failed; a
   heading names no such test. *)
Subject(lines, i) ==
  LET named == {j \in 1..i : lines[j].mark \in {"none", "same line"}}
  IN  CASE lines[i].mark \in {"none", "heading"} -> lines[i].test
        [] lines[i].mark = "ok" /\ named # {} -> lines[Max(named)].test
        [] OTHER -> "none"

(* The loop over the lines, which is all that the parser of the Verified fixture has. *)
django_statuses(lines) ==
  LET About(t) == {i \in DOMAIN lines : Subject(lines, i) = t}
      status(i) == IF lines[i].mark = "ok" THEN "PASSED" ELSE lines[i].status
  IN  [t \in {Subject(lines, i) : i \in DOMAIN lines} \ {"none"} |-> status(Max(About(t)))]

(* The "ok" after the end of an interruption. *)
Stops(lines, i) ==
  {j \in DOMAIN lines :
     /\ lines[j].mark = "ok"
     /\ IF lines[i].status = "brief" THEN j = i + 1
        ELSE j > i + 1 /\ lines[j - 1].mark = "silenced"}

(* What the three multiline patterns find: matches of one pattern do not overlap, and an
   interruption inside a longer one is part of it. *)
Resumed(lines) ==
  LET cut == {i \in DOMAIN lines : lines[i].mark \in {"same line", "line before"}}
  IN  {i \in cut : /\ Stops(lines, i) # {}
                   /\ \A k \in cut : k < i => Stops(lines, k) # Stops(lines, i)}

(* The Django fixture and the harness pass those tests whatever the lines report, also one
   without a name, and a test of their own that only its own line names. *)
parse_log_django(lines) ==
  LET passed == {lines[i].test : i \in Resumed(lines)}
                \cup {lines[i].mark : i \in Positions(lines, "version")}
  IN  [t \in passed \cup DOMAIN django_statuses(lines) |->
         IF t \in passed THEN "PASSED" ELSE django_statuses(lines)[t]]

parse_log(kind, lines) ==
  IF kind = "flask" THEN parse_log_flask(lines) ELSE parse_log_django(lines)

(* A section without a report of its own falls back to the whole log. *)
StatusesOf(kind, section, log) ==
  IF DOMAIN parse_log(kind, section) = {} THEN parse_log(kind, log)
  ELSE parse_log(kind, section)

(* A heading without a name stops the parser, in the section or in the fallback. *)
Parses(kind, section, log) ==
  LET malformed(lines) == \E i \in DOMAIN lines : lines[i] = Heading("none", "FAILED")
  IN  /\ ~malformed(section)
      /\ DOMAIN parse_log(kind, section) = {} => ~malformed(log)

StatusOf(statuses, t) ==
  IF t \in DOMAIN statuses THEN statuses[t] ELSE "missing"

(***************************************************************************)
(* The fixtures of the official Flask and Django verifiers.                *)
(***************************************************************************)
WellMarked(log) ==
  /\ Positions(log, "bad") = {}
  /\ \E s, e \in DOMAIN log :
       /\ s < e
       /\ Positions(log, "start") = {s}
       /\ Positions(log, "end") = {e}

BetweenMarks(log) ==
  LET s == CHOOSE i \in Positions(log, "start") : TRUE
      e == CHOOSE i \in Positions(log, "end") : TRUE
  IN  SubSeq(log, s + 1, e - 1)

status_map(kind, log) == StatusesOf(kind, BetweenMarks(log), log)

(* Mutant of Inconclusive: a skipped Flask test counts as a failure. *)
InconclusiveNever(kind) ==
  IF kind = "django" THEN {"missing", "SKIPPED", "XFAIL"} ELSE {}

(* A test whose status is neither a success nor a failure upstream. *)
Inconclusive(kind) ==
  IF kind = "django" THEN {"missing", "SKIPPED", "XFAIL"} ELSE {"SKIPPED"}

MayScore(kind, log) ==
  /\ WellMarked(log) /\ Parses(kind, BetweenMarks(log), log)
  /\ \A t \in DOMAIN status_map(kind, log) : status_map(kind, log)[t] \in TestStatuses
  /\ \A t \in Expected(kind) :
       StatusOf(status_map(kind, log), t) \notin Inconclusive(kind)

Report(kind, statuses, success, failure) ==
  [statuses |-> statuses,
   success  |-> success,
   failure  |-> failure,
   missing  |-> Expected(kind) \ DOMAIN statuses,
   resolved |-> failure = {}]

(* What does not pass fails, a test the log does not name included. *)
score_log(log) ==
  LET statuses == status_map("flask", log)
      success == {t \in Expected("flask") : StatusOf(statuses, t) \in {"PASSED", "XFAIL"}}
  IN  Report("flask", statuses, success, Expected("flask") \ success)

score_locked_log(log) ==
  LET statuses == status_map("django", log)
  IN  Report("django", statuses,
             {t \in Expected("django") : statuses[t] = "PASSED"},
             {t \in Expected("django") : statuses[t] \in {"FAILED", "ERROR"}})

Grade(kind, log) == IF kind = "flask" THEN score_log(log) ELSE score_locked_log(log)

(***************************************************************************)
(* The fixture of the SWE-bench Verified verifier: both markers anywhere,  *)
(* the lines between the first start marker and the end marker after it,   *)
(* and a test that must keep passing may be skipped.                       *)
(***************************************************************************)
VerifiedMayScore(log) ==
  Positions(log, "start") # {} /\ Positions(log, "end") # {}

VerifiedResolved(log) ==
  LET s == Min(Positions(log, "start"))
      ends == {i \in Positions(log, "end") : i > s}
      statuses == django_statuses(SubSeq(log, s + 1,
                              (IF ends = {} THEN Len(log) + 1 ELSE Min(ends)) - 1))
  IN  /\ \A t \in FailToPass : StatusOf(statuses, t) = "PASSED"
      /\ \A t \in PassToPass : StatusOf(statuses, t) \in {"PASSED", "SKIPPED"}

(***************************************************************************)
(* The upstream harness, external: get_logs_eval and the pass-and-fail     *)
(* report, in which a skipped test neither succeeds nor fails.             *)
(***************************************************************************)
OfficialSection(log) ==
  LET s == Min(Positions(log, "start"))
      stops == {i \in Positions(log, "start") \cup Positions(log, "end") : i > s}
      e == IF stops = {} THEN Len(log) + 1 ELSE Min(stops)
  IN  SubSeq(log, s + 1, e - 1)

OfficialFound(kind, log) ==
  /\ Positions(log, "bad") = {}
  /\ Positions(log, "start") # {}
  /\ Positions(log, "end") # {}
  /\ Parses(kind, OfficialSection(log), log)

OfficialStatuses(kind, log) == StatusesOf(kind, OfficialSection(log), log)

OfficialGrade(kind, log) ==
  LET statuses == OfficialStatuses(kind, log)
      st(t) == StatusOf(statuses, t)
  IN  Report(kind, statuses,
             {t \in Expected(kind) : st(t) \in {"PASSED", "XFAIL"}},
             {t \in Expected(kind) : st(t) \in {"missing", "FAILED", "ERROR"}})

(***************************************************************************)
(* What the native oracles require of an upstream grade before they record *)
(* it: every expected test observed, none of them inconclusive, and the    *)
(* two classes of the report a partition of the expected tests.            *)
(***************************************************************************)
Partitions(kind, grade) ==
  /\ grade.success \cup grade.failure = Expected(kind)
  /\ grade.success \cap grade.failure = {}

(* Mutant of validate_official_grade: an expected test may be missing. *)
validate_official_gradePartial(grade) ==
  /\ \A t \in DOMAIN grade.statuses : grade.statuses[t] \in TestStatuses
  /\ \A t \in Expected("flask") : StatusOf(grade.statuses, t) # "SKIPPED"
  /\ Partitions("flask", grade)

validate_official_grade(grade) ==
  /\ \A t \in DOMAIN grade.statuses : grade.statuses[t] \in TestStatuses
  /\ Expected("flask") \subseteq DOMAIN grade.statuses
  /\ \A t \in Expected("flask") : grade.statuses[t] # "SKIPPED"
  /\ Partitions("flask", grade)

validate_grade(grade) ==
  /\ Expected("django") \subseteq DOMAIN grade.statuses
  /\ \A t \in Expected("django") :
       /\ grade.statuses[t] \notin {"SKIPPED", "XFAIL"}
       /\ grade.statuses[t] = "PASSED" <=> t \in grade.success
  /\ Partitions("django", grade)

(* The evaluation of an oracle: a log without both markers has no verdict. *)
classify_case(log) ==
  Positions(log, "start") # {} /\ Positions(log, "end") # {}

OracleAccepts(kind, log) ==
  /\ classify_case(log) /\ OfficialFound(kind, log)
  /\ IF kind = "flask" THEN validate_official_grade(OfficialGrade(kind, log))
     ELSE validate_grade(OfficialGrade(kind, log))
=============================================================================

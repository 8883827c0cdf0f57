----------------------------- MODULE NativeOracle -----------------------------
(***************************************************************************)
(* The oracles of the official SWE-bench instances on a native Docker      *)
(* host, before Axern is involved (swebench_flask_official_oracle.py,      *)
(* swebench_django_native_oracle.py).  An oracle runs one container after  *)
(* another: the audit of the image, for Flask the offline installation,    *)
(* and a case for each control patch, which the pinned upstream scorer     *)
(* grades (TestLog).  Every container is a docker run --rm under a         *)
(* deadline, and the finally block makes sure it is gone.  An oracle that  *)
(* fails stops without another receipt.                                    *)
(***************************************************************************)
EXTENDS ValidationTool

Oracle == {"flask_oracle", "django_oracle"}

\* The cases in their order; the empty patch of Flask has no container.
Control(n) == CASE n = 1 -> "gold" [] n = 2 -> "known_bad" [] OTHER -> "empty"
Case == Control(held.receipt.cases + 1)

OracleStops == Stop /\ UNCHANGED present /\ Rested

\* The next step, with no container, and the receipt or not.
Proceed(step) == Goto(step) /\ UNCHANGED <<tool, present>> /\ Rested
Empty(h) == [h EXCEPT !.box = "none", !.exit = "none"]

------------------------------------------------------------------------------
(* The container of a step. *)

DockerRun ==
  /\ held.box = "none"
  /\ present' = present \cup {"container"}
  /\ Keep([held EXCEPT !.box = "running"])
  /\ UNCHANGED <<tool, pc>> /\ Rested

\* It ended and is gone, or the deadline killed the client, whose container may go on.
ContainerEnds ==
  /\ tool \in Oracle /\ held.box = "running"
  /\ \/ /\ present' = present \ {"container"}
        /\ \E exit \in {"zero", "nonzero", "unapplied", "unmarked"} :
             Keep([held EXCEPT !.box = "ended", !.exit = exit])
     \/ /\ present' \in {present, present \ {"container"}}
        /\ Keep([held EXCEPT !.box = "ended", !.exit = "timed_out"])
  /\ UNCHANGED <<tool, pc>> /\ Rested

\* Removed if it is still there, and looked for again; a doubt ends the tool.
EnsureRemoved ==
  /\ tool \in Oracle /\ held.box = "ended"
  /\ \/ /\ present' = present \ {"container"}
        /\ Keep([held EXCEPT !.box = "removed"])
        /\ UNCHANGED <<tool, pc>>
     \/ UNCHANGED present /\ Stop
  /\ Rested

Judging(t, step) == tool = t /\ pc = step /\ held.box = "removed"

------------------------------------------------------------------------------
(* Flask. *)

StartFlaskOracle == Launch("flask_oracle") /\ Goto("assets") /\ UNCHANGED present /\ Rested

\* The locked files, wheels, harness, scorer and image are there, downloaded or found.
FlaskAssets ==
  /\ tool = "flask_oracle" /\ pc = "assets"
  /\ OracleStops \/ (Keep(held) /\ Proceed("inputs"))

\* The scorer is the frozen one, the output is new, and the row is that of the dataset.
FlaskInputs ==
  /\ tool = "flask_oracle" /\ pc = "inputs"
  /\ OracleStops \/ (Keep(held) /\ Proceed("audit"))

FlaskAuditRun == tool = "flask_oracle" /\ pc = "audit" /\ DockerRun

\* The image answers with the identity of its repository; the first receipt.
FlaskAudited ==
  /\ Judging("flask_oracle", "audit")
  /\ OracleStops \/ (held.exit = "zero" /\ Save(Empty(held)) /\ Proceed("install"))

FlaskInstallRun == tool = "flask_oracle" /\ pc = "install" /\ DockerRun

FlaskInstalled ==
  /\ Judging("flask_oracle", "install")
  /\ \/ held.exit # "zero" /\ OracleStops
     \/ held.exit = "zero" /\ Save(Empty(held)) /\ Proceed("case")

FlaskCaseRun == tool = "flask_oracle" /\ pc = "case" /\ DockerRun

\* Within the deadline the patch applied and the log has both its markers.
Completed == held.exit \in {"zero", "nonzero"}

\* Whether the scorer calls it resolved is to be as the control has it.
FlaskGraded ==
  /\ Judging("flask_oracle", "case")
  /\ \E resolved \in BOOLEAN :
       IF Completed /\ resolved = (Case = "gold")
       THEN \/ /\ Save(Empty(OneMore))
               /\ Proceed(IF Case = "gold" THEN "case" ELSE "empty")
            \/ OracleStops                       \* the helper or its grade is malformed
       ELSE OracleStops

\* The scorer alone classifies the empty patch as unscored.
FlaskEmpty ==
  /\ tool = "flask_oracle" /\ pc = "empty"
  /\ \/ Quit([OneMore EXCEPT !.receipt.status = "complete"]) /\ UNCHANGED present /\ Rested
     \/ OracleStops

------------------------------------------------------------------------------
(* Django. *)

StartDjangoOracle == Launch("django_oracle") /\ Goto("inputs") /\ UNCHANGED present /\ Rested

\* The host, the assets, the source, the scorer and the two images are the locked ones.
DjangoInputs ==
  /\ tool = "django_oracle" /\ pc = "inputs"
  /\ OracleStops \/ (Keep(held) /\ Proceed("audit"))

DjangoAuditRun == tool = "django_oracle" /\ pc = "audit" /\ DockerRun

DjangoAudited ==
  /\ Judging("django_oracle", "audit")
  /\ OracleStops \/ (held.exit = "zero" /\ Save(Empty(held)) /\ Proceed("case"))

DjangoCaseRun == tool = "django_oracle" /\ pc = "case" /\ DockerRun

\* The empty patch has a container for diagnosis only; the scorer leaves it unscored.
DjangoGraded ==
  /\ Judging("django_oracle", "case")
  /\ \E resolved \in BOOLEAN :
       IF Completed /\ (Case = "empty" \/ resolved = (Case = "gold"))
       THEN \/ IF Case # "empty"
               THEN Save(Empty(OneMore)) /\ Proceed("case")
               ELSE /\ Quit([OneMore EXCEPT !.receipt.status = "complete"])
                    /\ UNCHANGED present /\ Rested
            \/ OracleStops
       ELSE OracleStops

FlaskOracle ==
  \/ StartFlaskOracle \/ FlaskAssets \/ FlaskInputs \/ FlaskAuditRun \/ FlaskAudited
  \/ FlaskInstallRun \/ FlaskInstalled \/ FlaskCaseRun \/ FlaskGraded \/ FlaskEmpty

DjangoOracle ==
  \/ StartDjangoOracle \/ DjangoInputs \/ DjangoAuditRun \/ DjangoAudited
  \/ DjangoCaseRun \/ DjangoGraded

OracleContainer == ContainerEnds \/ EnsureRemoved
===============================================================================

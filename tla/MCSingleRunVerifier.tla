------------------------- MODULE MCSingleRunVerifier -------------------------
(* A small instance of SingleRunVerifier for TLC: one test of each class. *)
EXTENDS SingleRunVerifier

MCFailToPass == {"f"}
MCPassToPass == {"p"}
MCTestLines ==
  ({"f"} \X {"PASSED", "FAILED", "SKIPPED", "XFAIL", "UNKNOWN"})
  \cup ({"p"} \X {"PASSED", "FAILED", "SKIPPED"})
MCInterruptions ==
  {<<"same line", "f", "long">>, <<"line before", "f", "brief">>,
   <<"line before", Unnamed, "brief">>}
MCLateLines == {TestLine("f", "FAILED"), Mark("bad")}

Words(S, least, most) == UNION {[1..n -> S] : n \in least..most}

(* Markers and reports in every order, up to four lines. *)
Plain(k) ==
  Words({l \in Lines(k) : l.mark \in {"none", "start", "end", "bad", "ok"}}, 0, 4)

(* What Django prints in and after a section: any three lines, and four of those that bear
   on one test. *)
Printed == DjangoLines \cup {TestLine(t, s) : t \in {"f", "p"}, s \in {"PASSED", "FAILED"}}
AboutOne ==
  Printed \ {Mark("version"), Heading("none", "FAILED"), Heading("p", "FAILED"),
             TestLine("p", "FAILED")}
Sections ==
  {<<Mark("start")>> \o b \o <<Mark("end")>> : b \in Words(Printed, 1, 3) \cup Words(AboutOne, 4, 4)}
  \cup {<<Mark("start"), Mark("end")>> \o b : b \in Words(Printed, 1, 2)}

MCPrints ==
  [k \in Kinds |-> Plain(k) \cup (IF k = "flask" THEN {} ELSE Sections)]
===============================================================================

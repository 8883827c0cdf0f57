---------------------------- MODULE MCValidation ----------------------------
(* Small instances of Validation for TLC: bytes are 0 and 1, a read is two of
   them, and an added run of one byte proves nothing. *)
EXTENDS Validation, TLC

CONSTANTS c1, c2

MCCaller == {c1, c2}

Line(op, text) == [op |-> op, text |-> text]
Gold == {<<Line("added", <<0, 1>>), Line("added", <<0, 1>>), Line("removed", <<1>>)>>}
Tests == {<<Line("added", <<1, 1>>), Line("kept", <<0>>), Line("removed", <<0>>)>>,
          <<Line("added", <<1, 0, 0, 1>>)>>}
Short == {<<Line("added", <<1, 1>>), Line("kept", <<0>>), Line("added", <<1>>)>>}
Patch(test) == [p \in Prefix |-> IF p = "test" THEN test ELSE Gold]

Texts == {<<>>, <<0>>, <<1>>} \cup {t \in [1..5 -> {0, 1}] : t[1] = 0 /\ t[2] = 1}
Image(f, g, git) == [patch |-> Patch(Tests), content |-> <<f, g>>, git |-> git]
MCImages ==
  {Image(f, <<0>>, "none") : f \in Texts}
  \cup {Image(<<1>>, g, "none") : g \in {<<>>, <<0, 1>>, <<1, 1>>, <<0, 1, 0, 1>>}}
  \cup {Image(<<0, 0, 1>>, <<0, 0>>, git) : git \in GitFinding \ {"none"}}
  \cup {[Image(f, <<0>>, "none") EXCEPT !.patch = Patch(Short)] : f \in {<<0>>, <<1, 0>>}}

Symmetry == Permutations(MCCaller)
===============================================================================

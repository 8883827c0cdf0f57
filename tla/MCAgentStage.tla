---------------------------- MODULE MCAgentStage ----------------------------
(* A small instance of AgentStage for TLC. *)
EXTENDS AgentStage

CONSTANTS k1, k2

MCCollector == {k1, k2}

\* One message "m" with a tool call "k", its result, a block of the call's subagent, the ends of a
\* stream, and a line that no one understands.
MCLines ==
    {Line("init", "none", "none", "none"), Line("call", "m", "k", "none"),
     Line("result", "none", "k", "none"), Line("assistant", "s", "none", "k"),
     Line("system", "none", "none", "none"),
     Line("final", "none", "none", "none"), Line("max_turns", "none", "none", "none"),
     Line("garbage", "none", "none", "none")}
==============================================================================

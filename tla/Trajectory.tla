------------------------------ MODULE Trajectory ------------------------------
(***************************************************************************)
(* The canonical trajectory `axrun.trajectory@1`: what Claude's native     *)
(* stream becomes, line by line (trajectories/adapters/claude_code.py),    *)
(* and what a reader of the file accepts (trajectories/schema.py).         *)
(*                                                                         *)
(* A line of the stream is a record of what the normalizer looks at, an    *)
(* event a record of its relations; their texts are left out.  An event's  *)
(* sequence number is its place, 0 stands for null.                        *)
(***************************************************************************)
EXTENDS Integers, Sequences, FiniteSets

CONSTANTS MaxEvents   \* TrajectoryLimits.max_events

ASSUME MaxEventsAssumption == MaxEvents \in Nat \ {0}

\* A native line: its type, the message it belongs to, the tool call it makes or answers, and the
\* call whose subagent wrote it (parent_tool_use_id); "none" for null.
Line(type, message, call, under) ==
    [type |-> type, message |-> message, call |-> call, under |-> under]

Event(kind, turn, call, parent) ==
    [kind |-> kind, turn |-> turn, call |-> call, parent |-> parent]

------------------------------------------------------------------------------
(* The normalizer.  Its dictionaries are what the events emitted so far    *)
(* tell: the last call of an id, the last event of a turn.                 *)

Last(events, Match(_)) ==
    LET places == {i \in 1 .. Len(events) : Match(events[i])}
    IN  IF places = {} THEN 0 ELSE CHOOSE i \in places : \A j \in places : j <= i

\* tool_events[call], with its turn in tool_turns[call].
ToolEvent(events, call) == Last(events, LAMBDA e : e.kind = "tool_call" /\ e.call = call)
ToolTurn(events, call) == events[ToolEvent(events, call)].turn
\* turn_events[turn]: the last block of the assistant in that turn.
TurnEvent(events, turn) ==
    Last(events, LAMBDA e : e.turn = turn /\ e.kind \in {"assistant_message", "tool_call"})
\* last_assistant_event
LastAssistant(events) == Last(events, LAMBDA e : e.kind = "assistant_message")
\* usage_observations: whose numbers have been reported; a message repeats its own.
UsageSeen(events, source) == \E i \in 1 .. Len(events) : events[i].kind = "usage" /\ events[i].call = source

Usage(events, source, parent) ==
    IF UsageSeen(events, source) THEN <<>> ELSE <<Event("usage", "none", source, parent)>>

\* The line tells a subagent's message whose call is not in the stream before it.
Orphan(line, events) == line.under # "none" /\ ToolEvent(events, line.under) = 0

\* A line the normalizer refuses at once, or one that is no line of the protocol.
Refused(line, events) ==
    \/ line.type \notin {"init", "assistant", "call", "user", "result", "system", "thinking", "final",
                         "max_turns"}
    \/ line.type = "init" /\ events # <<>>
    \/ line.type \in {"assistant", "call", "user"} /\ Orphan(line, events)
    \/ line.type = "result" /\ ToolEvent(events, line.call) = 0

\* A block of the assistant hangs on its subagent's call, or on the turn so far.
AssistantParent(line, events) ==
    IF line.under # "none" THEN ToolEvent(events, line.under) ELSE TurnEvent(events, line.message)

\* A text of the assistant, or a call of a tool, and the usage its message reports.
map_assistant(line, events) ==
    LET kind == IF line.type = "call" THEN "tool_call" ELSE "assistant_message"
    IN  <<Event(kind, line.message, line.call, AssistantParent(line, events))>>
        \o Usage(events, line.message, Len(events) + 1)

\* A result hangs on the call it answers, and belongs to the turn of the call.
map_user(line, events) ==
    <<IF line.type = "user"
      THEN Event("user_message", line.message, "none", ToolEvent(events, line.under))
      ELSE Event("tool_result", ToolTurn(events, line.call), line.call, ToolEvent(events, line.call))>>

map_result(events) ==
    Usage(events, "final-result", LastAssistant(events))
    \o <<Event("final_result", "none", "none", LastAssistant(events))>>

\* What a line that is not refused adds.
Emitted(line, events) ==
    CASE line.type = "init" ->
           <<Event("session_start", "none", "none", 0), Event("context", "none", "none", 0)>>
      [] line.type \in {"assistant", "call"} -> map_assistant(line, events)
      [] line.type \in {"user", "result"} -> map_user(line, events)
      [] line.type = "system" -> <<Event("context", "none", "none", 0)>>
      [] line.type = "thinking" -> <<Event("reasoning_metadata", "none", "none", 0)>>
      [] OTHER -> map_result(events)

\* feed_native_line: whether it returns, and the events of the emitter after it.  The bound may
\* strike between two events of one line, and leaves the first.
Feed(line, events) ==
    LET all == IF Refused(line, events) THEN events ELSE events \o Emitted(line, events)
    IN  [ok |-> ~Refused(line, events) /\ Len(all) <= MaxEvents,
         events |-> IF Len(all) <= MaxEvents THEN all ELSE SubSeq(all, 1, MaxEvents)]

\* normalize_claude_stream: the events of a whole native file.
Normalized(lines) ==
    LET fed[n \in 0 .. Len(lines)] ==
          IF n = 0 THEN [ok |-> TRUE, events |-> <<>>]
          ELSE LET now == Feed(lines[n], fed[n - 1].events)
               IN  [now EXCEPT !.ok = @ /\ fed[n - 1].ok]
    IN  fed[Len(lines)]

------------------------------------------------------------------------------
(* The reader: validate_trajectory, which the normalizer calls at the end  *)
(* of the stream and every reader of the file calls again.                 *)

CallAt(events, i, call) == events[i].kind = "tool_call" /\ events[i].call = call

WellFormed(events) ==
    /\ events # <<>>
    /\ events[1].kind = "session_start"
    /\ \A i \in 1 .. Len(events) :
          LET e == events[i]
          IN  /\ e.parent < i
              /\ e.kind = "session_start" => i = 1
              /\ e.kind = "tool_call" => \A j \in 1 .. i - 1 : ~CallAt(events, j, e.call)
              /\ e.kind = "tool_result" =>
                    \E j \in 1 .. i - 1 :
                        CallAt(events, j, e.call) /\ e.parent = j /\ e.turn = events[j].turn

\* finalize: the session was seen, and the events are well-formed.
Finalizes(events) == WellFormed(events)

\* The one sequence is a beginning of the other.
Prefix(shorter, longer) == Len(shorter) <= Len(longer) /\ SubSeq(longer, 1, Len(shorter)) = shorter
==============================================================================

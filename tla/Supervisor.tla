------------------------------ MODULE Supervisor ------------------------------
(***************************************************************************)
(* The inference script of Claude Code in its Allocation                   *)
(* (harnesses/claude_code.py, fixtures/claude/runtime_supervisor.py): the  *)
(* supervisor starts the agent, a reader thread takes its lines from the   *)
(* pipe into a bounded queue, and the supervisor writes them, normalizes   *)
(* them and publishes its progress; then the candidate is captured.        *)
(*                                                                         *)
(* Every write may fail, the agent may end at any time, and a child of it  *)
(* may keep the pipe open.                                                 *)
(***************************************************************************)
EXTENDS Trajectory

CONSTANTS Lines,      \* native lines the agent may write
          MaxLines,   \* bound: lines of a run
          PipeSize,   \* bound: lines the pipe holds
          QueueSize   \* queue.Queue(maxsize=16)

ASSUME SupervisorBounds ==
    MaxLines \in Nat /\ PipeSize \in Nat \ {0} /\ QueueSize \in Nat \ {0}

VARIABLES agent,      \* the agent's process: none, running, stopping (terminated), ended
          code,       \* its exit status: 0, or 1 for any other
          holders,    \* who holds the writing end of the pipe: the agent, a child of it
          said,       \* every line the agent has written
          pipe, queue,
          reader, inHand,           \* the reader thread, and the line it wants to put
          pc, line, emitted,        \* supervise(), its line, and the events of that line
          native, emitter,          \* claude-raw.jsonl, and the events of the normalizer
          counted,                  \* native_event_count: the lines it has taken
          trajectory, usage,        \* trajectory.jsonl, and the observations in usage.json
          progress,                 \* progress.json
          result,                   \* what supervise() returned
          captured,                 \* was the agent over when the candidate was captured?
          exit                      \* the status of the script

agentVars == <<agent, code, holders, said>>
readerVars == <<pipe, queue, reader, inHand>>
fileVars == <<native, emitter, counted, trajectory, usage>>
endVars == <<result, captured, exit>>
lineVars == <<line, emitted>>
vars == <<agentVars, readerVars, pc, lineVars, fileVars, progress, endVars>>

End == Line("end", "none", "none", "none")     \* the None that the reader puts last
None == Line("none", "none", "none", "none")

\* The reader's None is no line.
ASSUME LinesAssumption == End \notin Lines

\* progress.json: its first publication precedes the agent's start.
Progress == [started : BOOLEAN, alive : BOOLEAN, native : 0 .. MaxLines, canonical : 0 .. MaxEvents]

TypeOK ==
    /\ agent \in {"none", "running", "stopping", "ended"} /\ code \in {0, 1}
    /\ holders \subseteq {"agent", "child"}
    /\ said \in Seq(Lines) /\ Len(said) <= MaxLines
    /\ pipe \in Seq(Lines) /\ Len(pipe) <= PipeSize
    /\ queue \in Seq(Lines \union {End}) /\ Len(queue) <= QueueSize
    /\ reader \in {"none", "read", "put", "done"}
    /\ inHand \in Lines \union {End, None} /\ line \in Lines \union {None}
    /\ Len(emitted) <= MaxEvents
    /\ pc \in {"setup", "start", "popen", "publish", "get", "native", "feed", "trajectory", "usage", "progress",
               "wait", "finalize", "failing", "killing", "last", "lastfailed", "returned"}
    /\ native \in Seq(Lines) /\ Len(emitter) <= MaxEvents /\ Len(trajectory) <= MaxEvents
    /\ counted \in 0 .. MaxLines /\ usage \in 0 .. MaxEvents /\ progress \in Progress
    /\ result \in {-1, 0, 1} /\ captured \in BOOLEAN /\ exit \in {-1, 0, 1, 125}

Init ==
    /\ agent = "none" /\ code = 0 /\ holders = {} /\ said = <<>>
    /\ pipe = <<>> /\ queue = <<>> /\ reader = "none" /\ inHand = None
    /\ pc = "setup" /\ line = None /\ emitted = <<>>
    /\ native = <<>> /\ emitter = <<>> /\ counted = 0 /\ trajectory = <<>> /\ usage = 0
    /\ progress = [started |-> FALSE, alive |-> FALSE, native |-> 0, canonical |-> 0]
    /\ result = -1 /\ captured = FALSE /\ exit = -1

Running == agent \in {"running", "stopping"}

------------------------------------------------------------------------------
(* The agent. *)

\* A line goes to the pipe while somebody holds its other end.
Write ==
    /\ Running /\ "agent" \in holders /\ Len(said) < MaxLines /\ Len(pipe) < PipeSize /\ result = -1
    /\ \E l \in Lines : said' = Append(said, l) /\ pipe' = Append(pipe, l)
    /\ UNCHANGED <<agent, code, holders, queue, reader, inHand, pc, lineVars, fileVars, progress, endVars>>

Spawn ==
    /\ agent = "running" /\ holders = {"agent"} /\ holders' = {"agent", "child"}
    /\ UNCHANGED <<agent, code, said, readerVars, pc, lineVars, fileVars, progress, endVars>>

\* The agent closes its stdout some time before it ends, or a child ends.
LetGo ==
    /\ \/ Running /\ "agent" \in holders /\ holders' = holders \ {"agent"}
       \/ "child" \in holders /\ holders' = holders \ {"child"}
    /\ UNCHANGED <<agent, code, said, readerVars, pc, lineVars, fileVars, progress, endVars>>

AgentEnds ==
    /\ Running /\ agent' = "ended" /\ code' \in {0, 1} /\ holders' = holders \ {"agent"}
    /\ UNCHANGED <<said, readerVars, pc, lineVars, fileVars, progress, endVars>>

------------------------------------------------------------------------------
(* The reader thread, which ends with the process of the supervisor. *)

Read ==
    /\ reader = "read" /\ result = -1
    /\ \/ /\ pipe # <<>>
          /\ inHand' = Head(pipe) /\ pipe' = Tail(pipe)
       \/ /\ pipe = <<>> /\ holders = {}       \* end of file
          /\ inHand' = End /\ UNCHANGED pipe
    /\ reader' = "put"
    /\ UNCHANGED <<agentVars, queue, pc, lineVars, fileVars, progress, endVars>>

\* Mutant of Put: a full queue drops the line.
PutOrDrop ==
    /\ reader = "put" /\ result = -1
    /\ \/ Len(queue) < QueueSize /\ queue' = Append(queue, inHand)
       \/ Len(queue) = QueueSize /\ inHand # End /\ UNCHANGED queue
    /\ reader' = (IF inHand = End THEN "done" ELSE "read") /\ inHand' = None
    /\ UNCHANGED <<agentVars, pipe, pc, lineVars, fileVars, progress, endVars>>

\* lines.put waits for a place in the queue.
Put ==
    /\ reader = "put" /\ result = -1
    /\ Len(queue) < QueueSize /\ queue' = Append(queue, inHand)
    /\ reader' = (IF inHand = End THEN "done" ELSE "read") /\ inHand' = None
    /\ UNCHANGED <<agentVars, pipe, pc, lineVars, fileVars, progress, endVars>>

------------------------------------------------------------------------------
(* supervise(). *)

Goto(from, to) == pc = from /\ pc' = to

\* publish(): the counters of the normalizer at this moment.
Publish(alive) ==
    progress' = [started |-> pc # "start", alive |-> alive,
                 native |-> counted, canonical |-> Len(emitter)]

\* An exception outside the `try`: nothing is stopped and nothing more is published.
Raise == pc' = "returned" /\ result' = 1

\* The script before the supervisor: `set -e` ends it when the workspace is not as it must be.
Setup ==
    /\ \/ Goto("setup", "start") /\ UNCHANGED exit
       \/ Goto("setup", "returned") /\ exit' = 1
    /\ UNCHANGED <<agentVars, readerVars, lineVars, fileVars, progress, result, captured>>

Start ==
    /\ pc = "start"
    /\ \/ pc' = "popen" /\ Publish(FALSE) /\ UNCHANGED result
       \/ Raise /\ UNCHANGED progress
    /\ UNCHANGED <<agentVars, readerVars, lineVars, fileVars, captured, exit>>

Popen ==
    /\ pc = "popen"
    /\ \/ pc' = "publish" /\ agent' = "running" /\ holders' = {"agent"} /\ UNCHANGED result
       \/ Raise /\ UNCHANGED <<agent, holders>>
    /\ UNCHANGED <<code, said, readerVars, lineVars, fileVars, progress, captured, exit>>

\* The first heartbeat of the agent and the start of the reader.
Attach ==
    /\ pc = "publish"
    /\ \/ pc' = "get" /\ reader' = "read" /\ Publish(TRUE) /\ UNCHANGED result
       \/ Raise /\ UNCHANGED <<reader, progress>>
    /\ UNCHANGED <<agentVars, pipe, queue, inHand, lineVars, fileVars, captured, exit>>

\* A step of the loop that may raise into the `except`.
Fails(from) == Goto(from, "failing") /\ UNCHANGED <<fileVars, progress>>

Heartbeat ==
    /\ queue = <<>>
    /\ \/ Goto("get", "get") /\ Publish(TRUE) /\ UNCHANGED fileVars
       \/ Fails("get")
    /\ UNCHANGED <<agentVars, readerVars, lineVars, endVars>>

Get ==
    /\ queue # <<>> /\ queue' = Tail(queue)
    /\ IF Head(queue) = End THEN Goto("get", "wait") /\ UNCHANGED line
       ELSE Goto("get", "native") /\ line' = Head(queue)
    /\ UNCHANGED <<agentVars, pipe, reader, inHand, emitted, fileVars, progress, endVars>>

WriteNative ==
    /\ \/ /\ Goto("native", "feed") /\ native' = Append(native, line)
          /\ UNCHANGED <<emitter, counted, trajectory, usage, progress>>
       \/ Fails("native")
    /\ UNCHANGED <<agentVars, readerVars, lineVars, endVars>>

FeedLine ==
    /\ LET fed == Feed(line, emitter)
       IN  /\ Goto("feed", IF fed.ok THEN "trajectory" ELSE "failing")
           /\ emitter' = fed.events
          /\ counted' = counted + (IF fed.ok THEN 1 ELSE 0)
           /\ emitted' = SubSeq(fed.events, Len(emitter) + 1, Len(fed.events))
    /\ UNCHANGED <<agentVars, readerVars, line, native, trajectory, usage, progress, endVars>>

\* Mutant of WriteTrajectory: the last event of a line waits for the next one.
WriteAllButLast ==
    /\ Goto("trajectory", "usage")
    /\ trajectory' = trajectory \o SubSeq(emitted, 1, Len(emitted) - 1)
    /\ UNCHANGED <<agentVars, readerVars, lineVars, native, emitter, counted, usage, progress, endVars>>

\* The events the line has added, one write each; the last of them may be missing.
WriteTrajectory ==
    /\ \/ Goto("trajectory", "usage") /\ trajectory' = trajectory \o emitted
       \/ /\ Goto("trajectory", "failing")
          /\ \E n \in 0 .. Len(emitted) - 1 : trajectory' = trajectory \o SubSeq(emitted, 1, n)
    /\ UNCHANGED <<agentVars, readerVars, lineVars, native, emitter, counted, usage, progress, endVars>>

Observations == Cardinality({i \in 1 .. Len(emitter) : emitter[i].kind = "usage"})

WriteUsage ==
    /\ \/ /\ Goto("usage", "progress") /\ usage' = Observations
          /\ UNCHANGED <<native, emitter, counted, trajectory, progress>>
       \/ Fails("usage")
    /\ UNCHANGED <<agentVars, readerVars, lineVars, endVars>>

PublishLine ==
    /\ \/ Goto("progress", "get") /\ Publish(TRUE) /\ UNCHANGED fileVars
       \/ Fails("progress")
    /\ line' = None /\ emitted' = <<>>
    /\ UNCHANGED <<agentVars, readerVars, endVars>>

\* Mutant of Wait: the end of the stream is taken for the end of the agent.
WaitNot ==
    /\ Goto("wait", "finalize")
    /\ UNCHANGED <<agentVars, readerVars, lineVars, fileVars, progress, endVars>>

\* process.wait(), reader.join, finalize(), the last usage.
Wait ==
    /\ Goto("wait", "finalize") /\ agent = "ended"
    /\ UNCHANGED <<agentVars, readerVars, lineVars, fileVars, progress, endVars>>

Finalize ==
    /\ pc = "finalize"
    /\ \/ pc' = "last" /\ Finalizes(emitter) /\ usage' = Observations
       \/ pc' = "failing" /\ UNCHANGED usage
    /\ UNCHANGED <<agentVars, readerVars, lineVars, native, emitter, counted, trajectory, progress, endVars>>

\* Mutant of Terminate: the exception leaves the agent alone.
TerminateNot ==
    /\ Goto("failing", "lastfailed")
    /\ UNCHANGED <<agentVars, readerVars, lineVars, fileVars, progress, endVars>>

\* Mutant of Terminate: the exception waits for the reader before it stops the agent.
TerminateJoined ==
    /\ pc = "failing" /\ reader = "done"
    /\ IF agent = "ended" THEN pc' = "lastfailed" /\ UNCHANGED agent
       ELSE pc' = "killing" /\ agent' = "stopping"
    /\ UNCHANGED <<code, holders, said, readerVars, lineVars, fileVars, progress, endVars>>

\* except: terminate, and kill what has not ended five seconds later.
Terminate ==
    /\ pc = "failing"
    /\ IF agent = "ended" THEN pc' = "lastfailed" /\ UNCHANGED agent
       ELSE pc' = "killing" /\ agent' = "stopping"
    /\ UNCHANGED <<code, holders, said, readerVars, lineVars, fileVars, progress, endVars>>

Kill ==
    /\ Goto("killing", "lastfailed")
    /\ agent' = "ended" /\ code' = (IF agent = "ended" THEN code ELSE 1)
    /\ holders' = holders \ {"agent"}
    /\ UNCHANGED <<said, readerVars, lineVars, fileVars, progress, endVars>>

\* claude_stage_exit_code: a run that used up its turns is a success.
StageExitCode ==
    IF code = 0 \/ (native # <<>> /\ native[Len(native)].type = "max_turns") THEN 0 ELSE 1

\* finally: the last publication, which may fail like any other.
LastPublish ==
    /\ pc \in {"last", "lastfailed"} /\ pc' = "returned"
    /\ \/ Publish(FALSE) /\ result' = IF pc = "last" THEN StageExitCode ELSE 1
       \/ UNCHANGED progress /\ result' = 1
    /\ UNCHANGED <<agentVars, readerVars, lineVars, fileVars, captured, exit>>

\* The finalizer of the candidate runs whatever the supervisor returned.
Capture ==
    /\ pc = "returned" /\ exit = -1
    /\ captured' = ~Running
    /\ exit' \in {result, 125}
    /\ UNCHANGED <<agentVars, readerVars, pc, lineVars, fileVars, progress, result>>

Supervise ==
    \/ Setup \/ Start \/ Popen \/ Attach \/ Get \/ WriteNative \/ FeedLine \/ WriteTrajectory \/ WriteUsage
    \/ PublishLine \/ Wait \/ Finalize \/ Terminate \/ Kill \/ LastPublish \/ Capture

Next ==
    \/ Write \/ Spawn \/ LetGo \/ AgentEnds
    \/ Read \/ Put
    \/ Supervise \/ Heartbeat

------------------------------------------------------------------------------
(* Properties. *)

\* A script that ends with 0 has sealed the trajectory that the whole stream of the agent has when
\* it is normalized at once, whatever was in the pipe and the queue and however the reader and the
\* supervisor interleaved; and every reader of the file accepts it.
SealedIsWhole ==
    exit = 0 => /\ native = said
                /\ Normalized(said) = [ok |-> TRUE, events |-> trajectory]
                /\ WellFormed(trajectory)

\* Whatever fails, the files hold a beginning of what the agent said and of its events.
FilesArePrefixes ==
    /\ Prefix(native, said)
    /\ Prefix(trajectory, Normalized(native).events)

\* While the published progress calls the agent alive, its counters are not ahead of the files; and
\* once it has called the agent alive, it calls it dead only when it has ended.
ProgressIsTrue ==
    /\ progress.alive => /\ progress.native <= Len(native)
                         /\ progress.canonical <= Len(trajectory)
    /\ progress.started /\ ~progress.alive => ~Running

\* The agent does not outlive a supervisor that had attached to it: nothing writes to the
\* workspace while the candidate is captured, nor is a candidate accepted that was.
CapturedAlone ==
    /\ exit = 0 => captured
    /\ pc = "returned" /\ reader # "none" => ~Running

\* When the agent and its children have let go of the pipe, the supervisor returns, also when it has
\* left its loop and the reader waits at the full queue.
SuperviseReturns == agent = "ended" /\ holders = {} ~> result # -1
==============================================================================

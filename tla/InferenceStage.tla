---------------------------- MODULE InferenceStage ----------------------------
(***************************************************************************)
(* The caller's side of one inference stage, from the moment its Run and   *)
(* Allocation are bound: the composite of model tunnel and progress        *)
(* observer (axrun/lifecycle), started before the workload is released and *)
(* closed after it, the observer's own thread, and the two files it writes *)
(* -- the progress snapshot and, under the lock, the episode record --     *)
(* against other callers that commit or cancel the episode meanwhile.      *)
(***************************************************************************)
EXTENDS Naturals

CONSTANT MaxRevision   \* bound: periodic samples end at this revision

ASSUME MaxRevisionAssumption == MaxRevision \in Nat \ {0}

VARIABLES phase,      \* EpisodeRecord.phase, from inference_running on
          progress,   \* EpisodeRecord.progress_revision; 0: no progress_path
          snapshot,   \* the revision in the progress file; 0: no file
          ended,      \* has the Run ended?
          pc,         \* where the caller is
          why,        \* what the close in progress, or the next one, is for
          error,      \* the exception on its way
          started,    \* CompositePreStartLifecycle._started
          session, connector,   \* does the tunnel hold one?
          proxy,      \* the server of the model proxy
          thread,     \* the thread of the observer
          stopping,   \* the observer's _stop event
          closed,     \* the observer's _closed
          reason,     \* does the observer have a _failure_reason?
          revision    \* the observer's _revision

recordVars == <<phase, progress>>
mainVars == <<pc, why, error, started>>
tunnelVars == <<session, connector, proxy>>
observerVars == <<thread, stopping, closed, reason, revision>>
vars == <<recordVars, snapshot, ended, mainVars, tunnelVars, observerVars>>

Component == {"tunnel", "observer"}
Ended == {"completed", "failed", "cancelled"}
Live == {"waiting", "saved", "savedLast"}
Unborn == {"none", "unstarted"}   \* "unstarted": there is an object, but it never ran
\* "serving": the loop runs. "bound": there is a socket, but no loop to wait for.
\* "closing": the socket is closed, the join of the loop timed out.
Proxy == {"off", "bound", "serving", "closing"}

TypeOK ==
    /\ phase \in {"inference_running", "candidate_ready"} \union Ended
    /\ progress \in 0..(MaxRevision + 1)
    /\ snapshot \in 0..(MaxRevision + 1)
    /\ ended \in BOOLEAN
    /\ pc \in {"proxy", "session", "connector", "preflight", "innerClose", "observe",
               "bindProgress", "inputs", "follow", "close", "join", "closeTunnel",
               "closed", "commit", "fail", "done", "dead"}
    /\ why \in {"setup", "abort", "finish"}
    /\ error \in {"none", "stage", "observer", "cleanup"}
    /\ started \subseteq Component
    /\ session \in BOOLEAN /\ connector \in BOOLEAN /\ proxy \in Proxy
    /\ thread \in Unborn \union {"gone"} \union Live
    /\ stopping \in BOOLEAN /\ closed \in BOOLEAN /\ reason \in BOOLEAN
    /\ revision \in 0..(MaxRevision + 1)

Init ==
    /\ phase = "inference_running" /\ progress = 0 /\ snapshot = 0
    /\ ended = FALSE
    /\ pc = "proxy" /\ why = "setup" /\ error = "none" /\ started = {}
    /\ session = FALSE /\ connector = FALSE /\ proxy = "off"
    /\ thread = "none" /\ stopping = FALSE /\ closed = FALSE
    /\ reason = FALSE /\ revision = 0

Alive == thread \in Live
TunnelOpen == session \/ connector \/ proxy # "off"

Goto(from, to) == pc = from /\ pc' = to

------------------------------------------------------------------------------
(* ModelTunnelLifecycle.start *)

\* Mutant of StartProxy: a component is registered once it has started.
StartProxyUnregistered ==
    /\ pc = "proxy"
    /\ \/ proxy' = "serving" /\ pc' = "session" /\ error' = error /\ started' = {"tunnel"}
       \/ proxy' \in {"off", "bound"} /\ pc' = "close" /\ error' = "stage" /\ started' = {}
    /\ UNCHANGED <<recordVars, snapshot, ended, why, session, connector, observerVars>>

\* The server may be bound although its thread did not start; the tunnel does
\* not close itself then.
StartProxy ==
    /\ pc = "proxy"
    /\ started' = {"tunnel"}
    /\ \/ proxy' = "serving" /\ pc' = "session" /\ error' = error
       \/ proxy' \in {"off", "bound"} /\ pc' = "close" /\ error' = "stage"
    /\ UNCHANGED <<recordVars, snapshot, ended, why, session, connector, observerVars>>

OpenSession ==
    /\ Goto("session", "connector")
    /\ session' = TRUE
    /\ UNCHANGED <<recordVars, snapshot, ended, why, error, started, connector, proxy,
                   observerVars>>

StartConnector ==
    /\ Goto("connector", "preflight")
    /\ connector' = TRUE
    /\ UNCHANGED <<recordVars, snapshot, ended, why, error, started, session, proxy,
                   observerVars>>

\* The session is refused, the connector does not start, or the model does not
\* answer through the tunnel.
TunnelStartFails ==
    /\ pc \in {"session", "connector", "preflight"}
    /\ pc' = "innerClose" /\ error' = "stage"
    /\ IF pc = "connector" THEN connector' \in BOOLEAN ELSE UNCHANGED connector
    /\ UNCHANGED <<recordVars, snapshot, ended, why, started, session, proxy, observerVars>>

Preflight ==
    /\ Goto("preflight", "observe")
    /\ started' = started \union {"observer"}
    /\ UNCHANGED <<recordVars, snapshot, ended, why, error, tunnelVars, observerVars>>

------------------------------------------------------------------------------
(* StageProgressObserver.start, then the inputs and the ready marker. *)

\* start itself publishes that there is no progress yet.
Observe ==
    /\ Goto("observe", "bindProgress")
    /\ revision' = revision + 1
    /\ snapshot' = revision'
    /\ UNCHANGED <<recordVars, ended, why, error, started, tunnelVars, thread, stopping,
                   closed, reason>>

\* The record half of _publish: silent once the phase is over.
NameRevision ==
    /\ progress' = IF phase = "inference_running" THEN revision ELSE progress
    /\ UNCHANGED phase

BindProgress ==
    /\ Goto("bindProgress", "inputs")
    /\ NameRevision
    /\ thread' = "waiting"
    /\ UNCHANGED <<snapshot, ended, why, error, started, tunnelVars, stopping, closed,
                   reason, revision>>

\* A file cannot be written, the record names another Run, no thread starts.
ObserverStartFails ==
    /\ pc \in {"observe", "bindProgress"}
    /\ pc' = "close" /\ error' = "stage"
    /\ \/ UNCHANGED recordVars /\ UNCHANGED thread
       \/ pc = "bindProgress" /\ NameRevision /\ thread' = "unstarted"
    /\ UNCHANGED <<snapshot, ended, why, started, tunnelVars, stopping, closed, reason, revision>>

Release ==
    /\ Goto("inputs", "follow")
    /\ why' = "finish"
    /\ UNCHANGED <<recordVars, snapshot, ended, error, started, tunnelVars, observerVars>>

InputsFail ==
    /\ Goto("inputs", "close")
    /\ why' = "abort" /\ error' = "stage"
    /\ UNCHANGED <<recordVars, snapshot, ended, started, tunnelVars, observerVars>>

\* The Run ended and was read, or something on the way raises.
Follow ==
    /\ Goto("follow", "close")
    /\ \/ ended /\ error' = error
       \/ error' = "stage"
    /\ UNCHANGED <<recordVars, snapshot, ended, why, started, tunnelVars, observerVars>>

------------------------------------------------------------------------------
(* Closing: ModelTunnelLifecycle.close, StageProgressObserver.close and     *)
(* CompositePreStartLifecycle.close.                                        *)

\* Mutant of StopProxy: shutdown waits for a loop that never ran.
StopProxyAlways ==
    /\ proxy # "bound"
    /\ \/ proxy' = "off"
       \/ proxy' = proxy
       \/ proxy = "serving" /\ proxy' \in {"bound", "closing"}

\* shutdown only waits for a loop; closing the socket, or the join, may fail.
StopProxy ==
    \/ proxy' = "off"
    \/ proxy # "serving" /\ proxy' = proxy
    \/ proxy = "serving" /\ proxy' \in {"bound", "closing"}

\* Each resource is tried; what fails stays.
TunnelCloses ==
    /\ session' = FALSE \/ UNCHANGED session
    /\ connector' = FALSE \/ UNCHANGED connector
    /\ StopProxy
    /\ UNCHANGED observerVars

\* tunnel.start closes what it has opened, then raises to the composite.
InnerClose ==
    /\ Goto("innerClose", "close")
    /\ TunnelCloses
    /\ UNCHANGED <<recordVars, snapshot, ended, why, error, started>>

\* Mutant of Close: the tunnel first.
CloseTunnelFirst ==
    /\ Goto("close", "closeTunnel")
    /\ UNCHANGED <<recordVars, snapshot, ended, why, error, started, tunnelVars, observerVars>>

\* In reverse order: first the observer is told to stop.
Close ==
    /\ pc = "close"
    /\ IF "observer" \in started
       THEN pc' = "join" /\ stopping' = TRUE
       ELSE pc' = "closeTunnel" /\ UNCHANGED stopping
    /\ UNCHANGED <<recordVars, snapshot, ended, why, error, started, tunnelVars, thread,
                   closed, reason, revision>>

\* _execute gives a failed close before release a code of its own, the composite
\* one to an error that has none.
ObserverError == IF why = "abort" \/ thread = "unstarted" THEN "cleanup" ELSE "observer"
Joinable == thread # "unstarted" /\ ~Alive

\* Mutant of Join: what the observer noticed is not looked at.
JoinForgiving ==
    /\ Goto("join", "closeTunnel")
    /\ Joinable
    /\ closed' = TRUE
    /\ started' = started \ {"observer"}
    /\ UNCHANGED error
    /\ UNCHANGED <<recordVars, snapshot, ended, why, tunnelVars, thread, stopping, reason,
                   revision>>

\* The thread is gone. An observer that failed raises, once.
Join ==
    /\ Goto("join", "closeTunnel")
    /\ Joinable
    /\ closed' = TRUE
    /\ IF reason /\ ~closed
       THEN error' = ObserverError /\ UNCHANGED started
       ELSE started' = started \ {"observer"} /\ UNCHANGED error
    /\ UNCHANGED <<recordVars, snapshot, ended, why, tunnelVars, thread, stopping, reason,
                   revision>>

\* The join times out, or raises: a thread that never started cannot be joined.
JoinFails ==
    /\ Goto("join", "closeTunnel")
    /\ ~Joinable
    /\ error' = ObserverError
    /\ UNCHANGED <<recordVars, snapshot, ended, why, started, tunnelVars, observerVars>>

\* The first error of a close is the one it raises.
CloseTunnel ==
    /\ Goto("closeTunnel", "closed")
    /\ IF "tunnel" \in started
       THEN /\ TunnelCloses
            /\ IF TunnelOpen'
               THEN /\ error' = IF "observer" \in started THEN error ELSE "cleanup"
                    /\ UNCHANGED started
               ELSE started' = started \ {"tunnel"} /\ UNCHANGED error
       ELSE UNCHANGED <<tunnelVars, observerVars, started, error>>
    /\ UNCHANGED <<recordVars, snapshot, ended, why>>

\* After its own close, the composite's start raises to _execute, which closes
\* once more and cancels the Run; after a release nobody closes again.
Closed ==
    /\ pc = "closed"
    /\ pc' = CASE why = "setup" -> "close"
               [] why = "abort" -> "fail"
               [] why = "finish" -> IF error = "none" THEN "commit" ELSE "fail"
    /\ why' = IF why = "setup" THEN "abort" ELSE why
    /\ UNCHANGED <<recordVars, snapshot, ended, error, started, tunnelVars, observerVars>>

------------------------------------------------------------------------------
(* What the runner makes of it; EpisodeRunner has the details.              *)

Commit ==
    /\ Goto("commit", "done")
    /\ phase' \in CASE phase = "inference_running" -> {phase, "candidate_ready", "failed"}
                    [] phase = "candidate_ready" -> {phase, "failed"}
                    [] OTHER -> {phase}
    /\ UNCHANGED <<progress, snapshot, ended, why, error, started, tunnelVars, observerVars>>

\* _record_failure: a failed observer ends the episode, a failed close does not.
Fail ==
    /\ Goto("fail", "done")
    /\ phase' \in CASE phase \in Ended \/ error = "cleanup" -> {phase}
                    [] error = "observer" /\ phase \notin Ended -> {"failed"}
                    [] OTHER -> {phase, "failed"}
    /\ UNCHANGED <<progress, snapshot, ended, why, error, started, tunnelVars, observerVars>>

------------------------------------------------------------------------------
(* The observer's thread. *)

\* Read the Allocation and the proxy, write the progress file; once more after
\* the observer was told to stop.
Sample ==
    /\ thread = "waiting"
    /\ stopping \/ revision < MaxRevision
    /\ revision' = revision + 1
    /\ snapshot' = revision'
    /\ thread' = IF stopping THEN "savedLast" ELSE "saved"
    /\ UNCHANGED <<recordVars, ended, mainVars, tunnelVars, stopping, closed, reason>>

PublishProgress ==
    /\ thread \in {"saved", "savedLast"}
    /\ NameRevision
    /\ thread' = IF thread = "saved" THEN "waiting" ELSE "gone"
    /\ UNCHANGED <<snapshot, ended, mainVars, tunnelVars, stopping, closed, reason, revision>>

\* The file of the Allocation violates its contract, or a write fails.
ObserverFails ==
    /\ Alive
    /\ thread' = "gone"
    /\ reason' = TRUE
    /\ UNCHANGED recordVars \/ (thread # "waiting" /\ NameRevision)
    /\ UNCHANGED <<snapshot, ended, mainVars, tunnelVars, stopping, closed, revision>>

------------------------------------------------------------------------------
(* The workload, other callers, and the death of this one. *)

RunEnds ==
    /\ why = "finish" /\ ~ended /\ ended' = TRUE
    /\ UNCHANGED <<recordVars, snapshot, mainVars, tunnelVars, observerVars>>

\* `resume` commits the ended Run, `cancel` ends the episode, verification does.
Elsewhere ==
    /\ \/ phase = "inference_running" /\ ended /\ phase' \in {"candidate_ready", "failed"}
       \/ phase \in {"inference_running", "candidate_ready"} /\ phase' = "cancelled"
       \/ phase = "candidate_ready" /\ phase' \in {"completed", "failed"}
    /\ UNCHANGED <<progress, snapshot, ended, mainVars, tunnelVars, observerVars>>

\* Memory is lost; the session lives on at Axern until its time is over.
Crash ==
    /\ pc \notin {"done", "dead"}
    /\ pc' = "dead" /\ started' = {}
    /\ connector' = FALSE /\ proxy' = "off" /\ thread' = "gone"
    /\ UNCHANGED <<recordVars, snapshot, ended, why, error, session, stopping, closed,
                   reason, revision>>

Starts ==
    \/ StartProxy \/ OpenSession \/ StartConnector \/ Preflight \/ TunnelStartFails
    \/ Observe \/ BindProgress \/ ObserverStartFails \/ Release \/ InputsFail
Closes ==
    \/ InnerClose \/ Close \/ Join \/ JoinFails \/ CloseTunnel \/ Closed
Caller == Starts \/ Follow \/ Closes \/ Commit \/ Fail
Observer == Sample \/ PublishProgress \/ ObserverFails

Next == Caller \/ Observer \/ RunEnds \/ Elsewhere \/ Crash

Spec == Init /\ [][Next]_vars

\* Every remote call and every join has a timeout; a workload has one as well.
Fairness == WF_vars(Caller) /\ WF_vars(Observer) /\ WF_vars(RunEnds)
FairSpec == Spec /\ Fairness

------------------------------------------------------------------------------
\* Whatever is open can still be closed by the composite, however far a start
\* got and however often a close failed; a stage that ends without reporting a
\* failed close leaves nothing open.
NothingLeaks ==
    /\ pc # "dead" => (TunnelOpen => "tunnel" \in started) /\ (Alive => "observer" \in started)
    /\ pc = "done" /\ error \in {"none", "stage"} => started = {}

\* An observer that was not told to stop has the tunnel it reports about ("Run
\* completion stops the observer before Tunnel cleanup", docs/architecture.md).
TunnelOutlivesObserver ==
    Alive /\ ~stopping => session /\ connector /\ proxy = "serving"

\* A stage is committed by its own caller only when the observer has gone
\* without a complaint, and then the record names the revision of the file.
CommitsSettledProgress ==
    pc = "commit" =>
        /\ ~Alive /\ ~reason
        /\ phase = "inference_running" => progress = snapshot

------------------------------------------------------------------------------
(* Why this holds: the inductive invariant.                                 *)

Starting == {"proxy", "session", "connector", "preflight", "innerClose", "observe",
             "bindProgress"}
Closing == {"close", "join", "closeTunnel", "closed"}
Unreported == error \in {"none", "stage"}

\* What a place in the caller's code says about its purpose and the observer.
PlaceBacked ==
    /\ pc \in Starting \union {"inputs"} => why = "setup" /\ ~stopping /\ ~closed
    /\ pc = "follow" => why = "finish" /\ ~stopping
    /\ pc = "commit" => why = "finish"
    /\ pc \in {"fail", "done"} => why # "setup"
    /\ pc \in Starting => thread = "none"
    /\ pc \in Closing /\ why = "setup" => thread \in Unborn
    /\ pc = "inputs" \/ why = "finish" => thread \notin Unborn
    /\ thread \in Unborn => ~reason
    /\ pc \in (Starting \ {"innerClose"}) \union {"inputs", "follow", "commit"} => error = "none"
    /\ pc = "dead" => ~Alive

\* What is open, and what the composite knows of it.
OpenBacked ==
    /\ pc = "proxy" => ~TunnelOpen
    /\ pc \in {"session", "connector", "preflight", "observe", "bindProgress"} => proxy = "serving"
    /\ pc \in {"connector", "preflight", "observe", "bindProgress"} => session
    /\ pc \in {"preflight", "observe", "bindProgress"} => connector
    /\ pc \in {"observe", "bindProgress", "inputs", "follow", "join"} => "observer" \in started
    /\ pc = "closeTunnel" /\ Unreported => "observer" \notin started
    /\ pc \in {"closed", "commit", "fail", "done"} /\ why # "setup" /\ Unreported => started = {}
    /\ Alive /\ ~stopping => pc \in {"inputs", "follow", "close"}
    /\ pc = "join" => stopping

\* What the two files say while the episode is not taken over.
FilesAgree ==
    /\ pc \in Starting \ {"bindProgress", "innerClose"} => revision = 0
    /\ pc = "bindProgress" => revision = 1
    /\ thread \in {"waiting", "saved"} => revision <= MaxRevision
    /\ pc = "bindProgress" \/ Alive => snapshot = revision
    /\ pc # "dead" /\ thread \in {"waiting", "gone"} /\ ~reason /\ phase = "inference_running" =>
          progress = snapshot

\* When the stage ran, its observer is closed once.
ClosedOnce ==
    /\ why = "finish" /\ pc \in {"follow", "close", "join"} => "observer" \in started /\ ~closed
    /\ why = "finish" /\ pc \in {"closeTunnel", "closed", "commit"} /\ error = "none" =>
          ~Alive /\ ~reason

StageIsConsistent ==
    /\ NothingLeaks /\ TunnelOutlivesObserver /\ CommitsSettledProgress
    /\ PlaceBacked /\ OpenBacked /\ FilesAgree /\ ClosedOnce

\* No start and no close waits for ever.
StageReturns == pc = "proxy" ~> pc \in {"done", "dead"}
==============================================================================

------------------------------ MODULE ModelProxy ------------------------------
(***************************************************************************)
(* The loopback proxy of one inference stage (axrun/proxy/model.py, with   *)
(* the Anthropic protocol of proxy/protocols/anthropic.py).                *)
(*                                                                         *)
(* The owner (ModelTunnelLifecycle) starts and stops it; a thread of its   *)
(* own serves the socket and gives every connection a daemon thread, which *)
(* outlives `stop`.  A connection carries one call after another.  The     *)
(* model server and the client may fail at every read and write.           *)
(***************************************************************************)
EXTENDS Integers, FiniteSets

CONSTANTS Conn,           \* connections from the sandbox
          MaxConcurrent,  \* max_concurrent_requests
          MaxResponse,    \* max_response_bytes, in chunks
          MaxStarts       \* bound: successful and failed start() calls

ASSUME ProxyBounds ==
    /\ MaxConcurrent \in Nat \ {0} /\ MaxResponse \in Nat \ {0} /\ MaxStarts \in Nat

VARIABLES owner,       \* what the owner is doing: between calls, or in stop()
          server,      \* _server is not None
          thread,      \* _thread: none, unstarted (start() of it failed), or known
          loops,       \* serve_forever loops that run, of every start() ever made
          leaving,     \* threads whose loop has ended but that are still alive
          sockets,     \* listening sockets that are open
          starts,      \* start() calls so far (bound)
          credential,  \* _credential is not empty
          slots,       \* free places of _request_slots
          inFlight,    \* _requests_in_flight
          pc, call     \* of the thread of each connection; a call knows its summaries

ownerVars == <<owner, server, thread, loops, leaving, sockets, starts, credential>>
countVars == <<slots, inFlight>>
vars == <<ownerVars, countVars, pc, call>>

Key == {"none", "key", "empty"}
Reason == {"none", "proxy_protocol_rejected", "proxy_upstream_error",
           "proxy_upstream_timeout", "upstream_response"}
\* What the client got of a reply: nothing, all of it, less than was announced because the model
\* server ended early, or a part after which the proxy gave up.
Reply == {"none", "whole", "short", "cut"}

Call == [key : Key, reply : Reply, closing : BOOLEAN, bytes : 0 .. MaxResponse,
         sized : BOOLEAN, reason : Reason, recorded : 0 .. 1]
NoCall == [key |-> "none", reply |-> "none", closing |-> FALSE, bytes |-> 0,
           sized |-> FALSE, reason |-> "none", recorded |-> 0]
Label == {"none", "idle", "started", "body", "prepare", "upstream", "headers", "stream",
          "rejected", "record", "finish", "release"}

TypeOK ==
    /\ owner \in {"idle", "shutdown", "close", "join"}
    /\ server \in BOOLEAN /\ thread \in {"none", "unstarted", "known"} /\ credential \in BOOLEAN
    /\ loops \in 0 .. MaxStarts /\ leaving \in 0 .. MaxStarts /\ sockets \in 0 .. MaxStarts
    /\ starts \in 0 .. MaxStarts
    /\ slots \in 0 .. MaxConcurrent /\ inFlight \in Nat
    /\ pc \in [Conn -> Label] /\ call \in [Conn -> Call]

Init ==
    /\ owner = "idle" /\ server = FALSE /\ thread = "none" /\ credential = TRUE
    /\ loops = 0 /\ leaving = 0 /\ sockets = 0 /\ starts = 0
    /\ slots = MaxConcurrent /\ inFlight = 0
    /\ pc = [c \in Conn |-> "none"] /\ call = [c \in Conn |-> NoCall]

------------------------------------------------------------------------------
(* The owner. *)

MayStart == ~server /\ thread = "none"

\* start(): a socket and a thread; the thread may fail to start.
Start ==
    /\ owner = "idle" /\ starts < MaxStarts /\ MayStart
    /\ server' = TRUE /\ sockets' = sockets + 1 /\ starts' = starts + 1
    /\ \/ thread' = "known" /\ loops' = loops + 1
       \/ thread' = "unstarted" /\ loops' = loops
    /\ UNCHANGED <<owner, leaving, credential, countVars, pc, call>>

\* stop(): the credential goes first, whatever fails after it.
StopBegins ==
    /\ owner = "idle"
    /\ credential' = FALSE
    /\ owner' = CASE server /\ thread = "known" -> "shutdown"
                  [] server /\ thread # "known" -> "close"
                  [] OTHER -> "join"
    /\ UNCHANGED <<server, thread, loops, leaving, sockets, starts, countVars, pc, call>>

\* shutdown() waits for the loop; a loop that has ended before is not waited for.
Shutdown ==
    /\ owner = "shutdown" /\ owner' = "close"
    /\ IF loops > 0 THEN loops' = loops - 1 /\ leaving' = leaving + 1
       ELSE UNCHANGED <<loops, leaving>>
    /\ UNCHANGED <<server, thread, sockets, starts, credential, countVars, pc, call>>

\* server_close() closes the socket; it may raise before it does.
Close ==
    /\ owner = "close"
    /\ \/ owner' = "join" /\ server' = FALSE /\ sockets' = sockets - 1
       \/ owner' = "idle" /\ UNCHANGED <<server, sockets>>
    /\ UNCHANGED <<thread, loops, leaving, starts, credential, countVars, pc, call>>

\* Mutant of Join: the thread is forgotten whether it has ended or not.
JoinForgets ==
    /\ owner = "join" /\ owner' = "idle" /\ thread' = "none"
    /\ UNCHANGED <<server, loops, leaving, sockets, starts, credential, countVars, pc, call>>

\* The thread is forgotten once it has ended; a join that times out raises and keeps it.
Join ==
    /\ owner = "join" /\ owner' = "idle"
    /\ thread' = IF thread = "known" /\ leaving > 0 THEN thread ELSE "none"
    /\ UNCHANGED <<server, loops, leaving, sockets, starts, credential, countVars, pc, call>>

ThreadEnds ==
    /\ leaving > 0 /\ leaving' = leaving - 1
    /\ UNCHANGED <<owner, server, thread, loops, sockets, starts, credential, countVars, pc, call>>

------------------------------------------------------------------------------
(* A connection, up to the model server. *)

Goto(c, from, to) == pc[c] = from /\ pc' = [pc EXCEPT ![c] = to]
Set(c, value) == call' = [call EXCEPT ![c] = value]
Closing(c, reply) == Set(c, [call[c] EXCEPT !.reply = reply, !.closing = TRUE])

Accept(c) ==
    /\ loops > 0 /\ sockets > 0
    /\ Goto(c, "none", "idle") /\ Set(c, NoCall)
    /\ UNCHANGED <<ownerVars, countVars>>

\* Only the second call of a connection can find the server gone: the thread stays.
Post(c) ==
    /\ pc[c] = "idle" /\ call[c].reply # "short"
    /\ IF slots > 0
       THEN Goto(c, "idle", "started") /\ slots' = slots - 1 /\ Set(c, NoCall)
       ELSE Goto(c, "idle", "none") /\ UNCHANGED slots /\ Set(c, NoCall)   \* 503
    /\ UNCHANGED <<ownerVars, inFlight>>

RequestStarted(c) ==
    /\ Goto(c, "started", "body") /\ inFlight' = inFlight + 1
    /\ UNCHANGED <<ownerVars, slots, call>>

\* The idle connection times out, or the client closes it.
Hangup(c) ==
    /\ Goto(c, "idle", "none") /\ Set(c, NoCall)
    /\ UNCHANGED <<ownerVars, countVars>>

\* Mutant of ReadBody: the handler of a late body ends without the `finally` of do_POST.
ReadBodyLeaky(c) ==
    /\ \/ Goto(c, "body", "prepare") /\ UNCHANGED call
       \/ Goto(c, "body", "finish") /\ Closing(c, "whole")
       \/ Goto(c, "body", "none") /\ Closing(c, "none")
    /\ UNCHANGED <<ownerVars, countVars>>

\* The body; or 411, 413, 400, after which the connection closes; or it does not come in time.
ReadBody(c) ==
    /\ \/ Goto(c, "body", "prepare") /\ UNCHANGED call
       \/ Goto(c, "body", "finish") /\ Closing(c, "whole")
       \/ Goto(c, "body", "finish") /\ Closing(c, "none")
    /\ UNCHANGED <<ownerVars, countVars>>

\* prepare_request: the credential of this moment goes with the request, whatever key it came with.
Prepared(c) == [call[c] EXCEPT !.key = IF credential THEN "key" ELSE "empty",
                               !.reason = "proxy_upstream_error"]

\* The path is not one of the protocol, and 404 reaches the client or not; or the request goes on.
Prepare(c) ==
    /\ \/ /\ Goto(c, "prepare", "rejected")
          /\ Set(c, [call[c] EXCEPT !.reply = "whole", !.closing = TRUE,
                                    !.reason = "proxy_protocol_rejected"])
       \/ Goto(c, "prepare", "finish") /\ Closing(c, "none")
       \/ Goto(c, "prepare", "upstream") /\ Set(c, Prepared(c))
    /\ UNCHANGED <<ownerVars, countVars>>

------------------------------------------------------------------------------
(* The model server's answer and its way to the client. *)

\* Mutant of GiveUp: a reply that is cut leaves its connection open.
GiveUpOpen(c, reason) ==
    Set(c, [call[c] EXCEPT !.reason = reason, !.reply = IF @ = "none" THEN "whole" ELSE "cut"])

\* An exception on the way: 502 or 504 when no header was sent, and the connection closes.
GiveUp(c, reason) ==
    Set(c, [call[c] EXCEPT !.reason = reason, !.closing = TRUE,
                           !.reply = IF @ = "none" THEN "whole" ELSE "cut"])

\* A response that announces too much is answered 502, and recorded as the upstream's.
Respond(c) ==
    /\ \/ \E sized \in BOOLEAN :
             /\ Goto(c, "upstream", "headers")
             /\ Set(c, [call[c] EXCEPT !.reason = "upstream_response", !.sized = sized,
                                       !.key = "none"])
       \/ /\ Goto(c, "upstream", "record")
          /\ \E reason \in {"proxy_upstream_error", "proxy_upstream_timeout", "upstream_response"} :
                GiveUp(c, reason)
    /\ UNCHANGED <<ownerVars, countVars>>

\* The status line and the headers; without a length the end of the connection ends the reply.
\* The client may be gone, or too slow: that is recorded as a timeout of the upstream.
SendHeaders(c) ==
    /\ \/ /\ Goto(c, "headers", "stream")
          /\ Set(c, [call[c] EXCEPT !.reply = "cut", !.closing = ~call[c].sized])
       \/ /\ Goto(c, "headers", "record")
          /\ \E reason \in {"proxy_upstream_timeout", "upstream_response"} :
                Set(c, [call[c] EXCEPT !.reason = reason, !.closing = TRUE])
    /\ UNCHANGED <<ownerVars, countVars>>

\* Mutant of Relay: the bytes of a response without a length are not counted.
RelayUncounted(c) ==
    /\ Goto(c, "stream", "stream") /\ call[c].bytes < MaxResponse
    /\ Set(c, [call[c] EXCEPT !.bytes = IF call[c].sized THEN @ + 1 ELSE 1 - @])
    /\ UNCHANGED <<ownerVars, countVars>>

\* A chunk within max_response_bytes.
Relay(c) ==
    /\ Goto(c, "stream", "stream") /\ call[c].bytes < MaxResponse
    /\ Set(c, [call[c] EXCEPT !.bytes = @ + 1])
    /\ UNCHANGED <<ownerVars, countVars>>

\* One chunk too many, a read that times out, or a client that is gone.
Cut(c) ==
    /\ Goto(c, "stream", "record")
    /\ \E reason \in {"proxy_upstream_timeout", "upstream_response"} : GiveUp(c, reason)
    /\ UNCHANGED <<ownerVars, countVars>>

\* The end; http.client does not tell a response that ends before its length from a whole one.
EndStream(c) ==
    /\ Goto(c, "stream", "record")
    /\ \/ Set(c, [call[c] EXCEPT !.reply = "whole"])
       \/ call[c].sized /\ Set(c, [call[c] EXCEPT !.reply = "short"])
    /\ UNCHANGED <<ownerVars, countVars>>

------------------------------------------------------------------------------
(* The end of a call. *)

\* _record_summary: one more summary, of this call.
Record(c) ==
    /\ \E from \in {"record", "rejected"} : Goto(c, from, "finish")
    /\ Set(c, [call[c] EXCEPT !.recorded = @ + 1])
    /\ UNCHANGED <<ownerVars, countVars>>

RequestFinished(c) ==
    /\ Goto(c, "finish", "release") /\ inFlight' = inFlight - 1
    /\ UNCHANGED <<ownerVars, slots, call>>

Release(c) ==
    /\ Goto(c, "release", IF call[c].closing THEN "none" ELSE "idle")
    /\ slots' = slots + 1
    /\ Set(c, IF call[c].closing THEN NoCall ELSE [NoCall EXCEPT !.reply = call[c].reply])
    /\ UNCHANGED <<ownerVars, inFlight>>

\* What the thread of a connection does once a call has begun: every wait in it has a timeout.
Handle(c) ==
    \/ RequestStarted(c) \/ ReadBody(c) \/ Prepare(c) \/ Respond(c) \/ SendHeaders(c)
    \/ Relay(c) \/ Cut(c) \/ EndStream(c) \/ Record(c) \/ RequestFinished(c) \/ Release(c)

Next ==
    \/ Start \/ StopBegins \/ Shutdown \/ Close \/ Join \/ ThreadEnds
    \/ \E c \in Conn : Accept(c) \/ Post(c) \/ Hangup(c) \/ Handle(c)

Spec == Init /\ [][Next]_vars /\ \A c \in Conn : WF_vars(Handle(c))
------------------------------------------------------------------------------
(* Properties. *)

Holding == {c \in Conn : pc[c] \notin {"none", "idle"}}
Counted == {c \in Holding : pc[c] \notin {"started", "release"}}

\* Every place of _request_slots is free or held by one running call, and requests_in_flight counts
\* the calls between its two updates: no path out of do_POST forgets a release or a decrement.
SlotsBalance ==
    /\ slots + Cardinality(Holding) = MaxConcurrent
    /\ inFlight = Cardinality(Counted)

\* However start and stop fail and are called again, the proxy is one thread, one loop and one socket
\* at most; and when it says it is stopped (stop returned, start is possible) nothing of it is left
\* but the threads of the calls in flight.
OneServer ==
    /\ loops + leaving <= 1 /\ sockets <= 1 /\ (sockets = 1) = server
    /\ owner = "idle" /\ MayStart => loops = 0 /\ leaving = 0 /\ sockets = 0

\* A connection on which the proxy broke off a reply carries no other call: the client would take
\* the next reply for the rest of the body.
CutIsClosed == \A c \in Conn : pc[c] = "idle" => call[c].reply # "cut"

\* A call gives its place back, however slow the model server and the client are, so one stage
\* cannot lose its places to calls that never end.
SlotIsReturned == \A c \in Conn : pc[c] = "started" ~> pc[c] \in {"none", "idle"}
==============================================================================

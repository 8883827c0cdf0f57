--------------------------- MODULE ModelProxyProofs ---------------------------
(***************************************************************************)
(* Theorems about ModelProxy, for any set of connections, any number of    *)
(* places, any size of a reply and any number of starts.                   *)
(***************************************************************************)
EXTENDS ModelProxy, FiniteSetTheorems, TLAPS

------------------------------------------------------------------------------
(* The inductive invariant, in parts. *)

\* What the owner's place in stop() says of the server and its thread.
OwnerKnows ==
    /\ owner = "shutdown" => server /\ thread = "known"
    /\ owner = "close" => server /\ loops = 0
    /\ owner = "join" => ~server
    /\ thread # "known" => loops = 0 /\ leaving = 0
    /\ loops > 0 => server
    /\ server => thread # "none"
    /\ sockets = IF server THEN 1 ELSE 0
    /\ loops + leaving <= 1 /\ loops + leaving <= starts /\ sockets <= starts

\* A summary is made at the end of a call, and a reply that was broken off closes its connection:
\* it is unfinished while the call streams, and the call knows it afterwards.
CallKnows ==
    \A c \in Conn :
        /\ call[c].recorded = 1 => pc[c] \in {"finish", "release"}
        /\ pc[c] = "idle" => call[c].reply # "cut"
        /\ call[c].reply = "cut" /\ pc[c] # "stream" => call[c].closing

\* The running calls are finitely many, however many connections the sandbox may open.
Balance == IsFiniteSet(Holding) /\ SlotsBalance

ProxyInv == TypeOK /\ OwnerKnows /\ CallKnows /\ Balance

LEMMA NoCallType == NoCall \in Call
BY ProxyBounds DEF NoCall, Call, Key, Reply, Reason

LEMMA InitHolds == Init => ProxyInv
<1> SUFFICES ASSUME Init PROVE ProxyInv
  OBVIOUS
<1>1. TypeOK
  <2>1. pc \in [Conn -> Label] /\ call \in [Conn -> Call]
    BY NoCallType DEF Init, Label
  <2>2. /\ owner = "idle" /\ server = FALSE /\ thread = "none" /\ credential = TRUE
        /\ loops = 0 /\ leaving = 0 /\ sockets = 0 /\ starts = 0
        /\ slots = MaxConcurrent /\ inFlight = 0
    BY DEF Init
  <2>3. server \in BOOLEAN /\ credential \in BOOLEAN
    BY <2>2, Zenon
  <2>4. /\ loops \in 0 .. MaxStarts /\ leaving \in 0 .. MaxStarts /\ sockets \in 0 .. MaxStarts
        /\ starts \in 0 .. MaxStarts /\ slots \in 0 .. MaxConcurrent /\ inFlight \in Nat
    BY <2>2, ProxyBounds
  <2> QED
    BY <2>1, <2>2, <2>3, <2>4, Zenon DEF TypeOK
<1>2. OwnerKnows
  BY DEF Init, OwnerKnows
<1>3. CallKnows
  BY DEF Init, CallKnows, NoCall
<1>4. Holding = {} /\ Counted = {}
  BY DEF Init, Holding, Counted
<1>5. Balance
  BY <1>4, FS_EmptySet, ProxyBounds DEF Init, Balance, SlotsBalance
<1> QED
  BY <1>1, <1>2, <1>3, <1>5 DEF ProxyInv

------------------------------------------------------------------------------
(* The owner. *)

OwnerNext == Start \/ StopBegins \/ Shutdown \/ Close \/ Join \/ ThreadEnds

\* What the owner does leaves the calls alone.
LEMMA OwnerLeavesCalls == OwnerNext => UNCHANGED <<countVars, pc, call>>
BY DEF OwnerNext, Start, StopBegins, Shutdown, Close, Join, ThreadEnds

LEMMA OwnerType == TypeOK /\ OwnerKnows /\ OwnerNext => TypeOK'
<1> SUFFICES ASSUME TypeOK, OwnerKnows, OwnerNext PROVE TypeOK'
  OBVIOUS
<1>1. UNCHANGED <<slots, inFlight, pc, call>>
  BY OwnerLeavesCalls DEF countVars
<1> USE ProxyBounds DEF TypeOK, OwnerKnows
<1>2. CASE Start
  BY <1>1, <1>2 DEF Start, MayStart
<1>3. CASE StopBegins
  BY <1>1, <1>3 DEF StopBegins
<1>4. CASE Shutdown
  BY <1>1, <1>4 DEF Shutdown
<1>5. CASE Close
  <2>1. owner' \in {"join", "idle"} /\ server' \in BOOLEAN /\ sockets' \in 0 .. MaxStarts
    <3>1. sockets = 1
      BY <1>5 DEF Close
    <3>2. sockets' = sockets - 1 \/ sockets' = sockets
      BY <1>5, Zenon DEF Close
    <3>3. sockets' \in 0 .. MaxStarts
      BY <3>1, <3>2
    <3>4. server' \in BOOLEAN
      BY <1>5, Zenon DEF Close
    <3> QED
      BY <1>5, <3>3, <3>4, Zenon DEF Close
  <2> QED
    BY <1>1, <1>5, <2>1 DEF Close
<1>6. CASE Join \/ ThreadEnds
  BY <1>1, <1>6 DEF Join, ThreadEnds
<1> QED
  BY <1>2, <1>3, <1>4, <1>5, <1>6 DEF OwnerNext

LEMMA OwnerStep == TypeOK /\ OwnerKnows /\ OwnerNext => OwnerKnows'
<1> SUFFICES ASSUME TypeOK, OwnerKnows, OwnerNext PROVE OwnerKnows'
  OBVIOUS
<1> USE DEF TypeOK, OwnerKnows
<1>2. CASE Start
  BY <1>2 DEF Start, MayStart
<1>3. CASE StopBegins
  BY <1>3 DEF StopBegins
<1>4. CASE Shutdown
  BY <1>4 DEF Shutdown
<1>5. CASE Close
  <2>1. UNCHANGED <<thread, loops, leaving, starts>> /\ sockets = 1 /\ server /\ loops = 0
    BY <1>5 DEF Close
  <2>2. CASE owner' = "join" /\ server' = FALSE /\ sockets' = sockets - 1
    BY <2>1, <2>2
  <2>3. CASE owner' = "idle" /\ server' = server /\ sockets' = sockets
    BY <2>1, <2>3
  <2> QED
    BY <1>5, <2>2, <2>3 DEF Close
<1>6. CASE Join
  BY <1>6 DEF Join
<1>7. CASE ThreadEnds
  BY <1>7 DEF ThreadEnds
<1> QED
  BY <1>2, <1>3, <1>4, <1>5, <1>6, <1>7 DEF OwnerNext

------------------------------------------------------------------------------
(* The calls. *)

ConnNext(c) == Accept(c) \/ Post(c) \/ Hangup(c) \/ Handle(c)

\* A connection does nothing to the server.
LEMMA CallsLeaveOwner == \A c \in Conn : ConnNext(c) => UNCHANGED ownerVars
BY DEF ConnNext, Handle, Accept, Post, Hangup, RequestStarted, ReadBody, Prepare, Respond,
       SendHeaders, Relay, Cut, EndStream, Record, RequestFinished, Release

\* A place of do_POST and of _record_summary, as a number of places taken and calls counted.
Taken(label) == IF label \in {"none", "idle"} THEN 0 ELSE 1
Serving(label) == IF label \in {"none", "idle", "started", "release"} THEN 0 ELSE 1

Served == {"body", "prepare", "upstream", "headers", "stream", "rejected", "record", "finish"}

\* What a connection writes of its call is a call.
LEMMA CallFields ==
    ASSUME NEW value \in Call
    PROVE  /\ value.key \in Key /\ value.reply \in Reply /\ value.closing \in BOOLEAN
           /\ value.bytes \in 0 .. MaxResponse /\ value.sized \in BOOLEAN
           /\ value.reason \in Reason /\ value.recorded \in 0 .. 1
BY DEF Call

LEMMA GotoType ==
    ASSUME TypeOK, NEW c \in Conn, NEW from, NEW to \in Label, Goto(c, from, to)
    PROVE  pc' \in [Conn -> Label] /\ from \in Label
BY DEF TypeOK, Goto

LEMMA SetType ==
    ASSUME TypeOK, NEW c \in Conn, NEW value \in Call, Set(c, value)
    PROVE  call' \in [Conn -> Call]
BY DEF TypeOK, Set

\* What any step of a connection comes to: its thread goes on, its call becomes v, and a place and the
\* count change with the place it goes to.
Moves(c, from, to, v) ==
    /\ Goto(c, from, to) /\ Set(c, v)
    /\ slots' = slots + Taken(from) - Taken(to) /\ slots' \in Nat
    /\ inFlight' = inFlight + Serving(to) - Serving(from)
    /\ v.recorded = 1 => to \in {"finish", "release"}
    /\ to = "idle" => v.reply # "cut"
    /\ v.reply = "cut" /\ to # "stream" => v.closing

LEMMA NoCallMoves ==
    ASSUME NEW c \in Conn, NEW from, NEW to, Goto(c, from, to), Set(c, NoCall),
           slots' = slots + Taken(from) - Taken(to), slots' \in Nat,
           inFlight' = inFlight + Serving(to) - Serving(from)
    PROVE  Moves(c, from, to, NoCall)
BY DEF Moves, NoCall

\* Between its two updates of the count a call keeps its place and the count.
LEMMA ServingMoves ==
    ASSUME ProxyInv, NEW c \in Conn, NEW from \in Served, NEW to \in Served, NEW v \in Call,
           Goto(c, from, to), Set(c, v), UNCHANGED countVars,
           v.recorded = 1 => to = "finish",
           v.reply = "cut" /\ to # "stream" => v.closing
    PROVE  \E a, b \in Label, w \in Call : Moves(c, a, b, w)
<1>1. slots \in Nat /\ inFlight \in Nat
  BY ProxyBounds DEF ProxyInv, TypeOK
<1>2. Moves(c, from, to, v)
  BY <1>1 DEF Moves, Served, Taken, Serving, countVars
<1> QED
  BY <1>2 DEF Served, Label

LEMMA ConnMoves ==
    ASSUME ProxyInv, NEW c \in Conn, ConnNext(c)
    PROVE  \E from, to \in Label, v \in Call : Moves(c, from, to, v)
<1> DEFINE k == call[c]
<1>1. /\ k \in Call /\ k = call[c] /\ call = [call EXCEPT ![c] = k]
      /\ slots \in Nat /\ inFlight \in Nat
      /\ k.recorded = 1 => pc[c] \in {"finish", "release"}
      /\ k.reply = "cut" /\ pc[c] # "stream" => k.closing
      /\ k.recorded \in 0 .. 1 /\ k.closing \in BOOLEAN /\ k.reply \in Reply /\ k.sized \in BOOLEAN
  BY CallFields, ProxyBounds DEF ProxyInv, TypeOK, CallKnows
<1> HIDE DEF k
<1> USE DEF ownerVars, countVars
<1>2. CASE Accept(c)
  <2>1. Goto(c, "none", "idle") /\ Set(c, NoCall) /\ slots' = slots /\ inFlight' = inFlight
    BY <1>2 DEF Accept
  <2>2. Moves(c, "none", "idle", NoCall)
    BY <1>1, <2>1, NoCallMoves DEF Taken, Serving
  <2> QED
    BY <2>2, NoCallType DEF Label
<1>3. CASE Post(c)
  <2>1. CASE slots > 0
    <3>1. Goto(c, "idle", "started") /\ Set(c, NoCall) /\ slots' = slots - 1 /\ inFlight' = inFlight
      BY <1>3, <2>1 DEF Post
    <3>2. Moves(c, "idle", "started", NoCall)
      BY <1>1, <2>1, <3>1, NoCallMoves DEF Taken, Serving
    <3> QED
      BY <3>2, NoCallType DEF Label
  <2>2. CASE ~(slots > 0)
    <3>1. Goto(c, "idle", "none") /\ Set(c, NoCall) /\ slots' = slots /\ inFlight' = inFlight
      BY <1>3, <2>2 DEF Post
    <3>2. Moves(c, "idle", "none", NoCall)
      BY <1>1, <3>1, NoCallMoves DEF Taken, Serving
    <3> QED
      BY <3>2, NoCallType DEF Label
  <2> QED
    BY <2>1, <2>2
<1>4. CASE Hangup(c)
  <2>1. Goto(c, "idle", "none") /\ Set(c, NoCall) /\ slots' = slots /\ inFlight' = inFlight
    BY <1>4 DEF Hangup
  <2>2. Moves(c, "idle", "none", NoCall)
    BY <1>1, <2>1, NoCallMoves DEF Taken, Serving
  <2> QED
    BY <2>2, NoCallType DEF Label
<1>5. CASE RequestStarted(c)
  <2>1. /\ Goto(c, "started", "body") /\ slots' = slots /\ inFlight' = inFlight + 1
        /\ Set(c, k) /\ pc[c] = "started"
    BY <1>1, <1>5 DEF RequestStarted, Set, Goto
  <2>2. Moves(c, "started", "body", k)
    BY <1>1, <2>1 DEF Moves, Taken, Serving
  <2> QED
    BY <1>1, <2>2 DEF Label
<1>6. CASE ReadBody(c)
  <2>1. pc[c] = "body" /\ UNCHANGED countVars
    BY <1>6 DEF ReadBody, Goto
  <2>2. CASE Goto(c, "body", "prepare") /\ UNCHANGED call
    BY <1>1, <2>1, <2>2, ServingMoves DEF Set, Served
  <2>3. ASSUME NEW reply \in {"whole", "none"}, Goto(c, "body", "finish"), Closing(c, reply)
        PROVE  \E from, to \in Label, w \in Call : Moves(c, from, to, w)
    <3>1. PICK w : Set(c, w) /\ w = [k EXCEPT !.reply = reply, !.closing = TRUE]
      BY <1>1, <2>3 DEF Closing
    <3>2. w \in Call /\ w.recorded = k.recorded /\ w.closing
      BY <1>1, <3>1, CallFields, ProxyBounds DEF Call, Key, Reply, Reason
    <3> QED
      BY <1>1, <2>1, <2>3, <3>1, <3>2, ServingMoves DEF Served
  <2> QED
    BY <1>6, <2>2, <2>3 DEF ReadBody
<1>7. CASE Prepare(c)
  <2>1. pc[c] = "prepare" /\ UNCHANGED countVars
    BY <1>7 DEF Prepare, Goto
  <2>2. ASSUME NEW to \in {"rejected", "finish"}, Goto(c, "prepare", to), NEW w, Set(c, w),
               w.closing, w \in Call, w.recorded = k.recorded
        PROVE  \E a, b \in Label, u \in Call : Moves(c, a, b, u)
    BY <1>1, <2>1, <2>2, ServingMoves DEF Served
  <2>3. CASE /\ Goto(c, "prepare", "rejected")
             /\ Set(c, [call[c] EXCEPT !.reply = "whole", !.closing = TRUE,
                                       !.reason = "proxy_protocol_rejected"])
    <3>1. PICK w : Set(c, w) /\ w = [k EXCEPT !.reply = "whole", !.closing = TRUE,
                                               !.reason = "proxy_protocol_rejected"]
      BY <1>1, <2>3
    <3> QED
      BY <1>1, <2>2, <2>3, <3>1, CallFields, ProxyBounds DEF Call, Key, Reply, Reason
  <2>4. CASE Goto(c, "prepare", "finish") /\ Closing(c, "none")
    <3>1. PICK w : Set(c, w) /\ w = [k EXCEPT !.reply = "none", !.closing = TRUE]
      BY <1>1, <2>4 DEF Closing
    <3> QED
      BY <1>1, <2>2, <2>4, <3>1, CallFields, ProxyBounds DEF Call, Key, Reply, Reason
  <2>5. CASE Goto(c, "prepare", "upstream") /\ Set(c, Prepared(c))
    <3>1. PICK w : Set(c, w) /\ w = [k EXCEPT !.key = IF credential THEN "key" ELSE "empty",
                                              !.reason = "proxy_upstream_error"]
      BY <1>1, <2>5 DEF Prepared
    <3>2. w \in Call /\ w.recorded = k.recorded /\ w.reply = k.reply /\ w.closing = k.closing
      BY <1>1, <3>1, CallFields, ProxyBounds DEF Call, Key, Reply, Reason
    <3> QED
      BY <1>1, <2>1, <2>5, <3>1, <3>2, ServingMoves DEF Served
  <2> QED
    BY <1>7, <2>3, <2>4, <2>5 DEF Prepare
<1>8. ASSUME NEW from \in {"upstream", "stream"}, NEW reason \in Reason,
             Goto(c, from, "record"), GiveUp(c, reason), UNCHANGED countVars
      PROVE  \E a, b \in Label, u \in Call : Moves(c, a, b, u)
  <2>1. PICK w : /\ Set(c, w)
                 /\ w = [k EXCEPT !.reason = reason, !.closing = TRUE,
                                  !.reply = IF @ = "none" THEN "whole" ELSE "cut"]
    BY <1>1, <1>8 DEF GiveUp
  <2>2. PICK reply \in Reply : w = [k EXCEPT !.reason = reason, !.closing = TRUE, !.reply = reply]
    BY <2>1 DEF Reply
  <2>3. w \in Call /\ w.recorded = k.recorded /\ w.closing
    BY <1>1, <1>8, <2>2 DEF Call
  <2>4. from \in Served /\ "record" \in Served /\ w.recorded # 1
    BY <1>1, <1>8, <2>3 DEF Served, Goto
  <2> QED
    BY <1>8, <2>1, <2>3, <2>4, ServingMoves
<1>9. CASE Respond(c)
  <2>1. UNCHANGED countVars
    BY <1>9 DEF Respond
  <2>2. CASE \E sized \in BOOLEAN :
                /\ Goto(c, "upstream", "headers")
                /\ Set(c, [call[c] EXCEPT !.reason = "upstream_response", !.sized = sized,
                                          !.key = "none"])
    <3>0. PICK sized \in BOOLEAN :
             /\ Goto(c, "upstream", "headers")
             /\ Set(c, [call[c] EXCEPT !.reason = "upstream_response", !.sized = sized,
                                       !.key = "none"])
      BY <2>2
    <3>1. PICK w : /\ Goto(c, "upstream", "headers") /\ Set(c, w)
                   /\ w = [k EXCEPT !.reason = "upstream_response", !.sized = sized, !.key = "none"]
      BY <1>1, <3>0
    <3>2. w \in Call /\ w.recorded = k.recorded /\ w.reply = k.reply /\ w.closing = k.closing
      BY <1>1, <3>1, CallFields, ProxyBounds DEF Call, Key, Reply, Reason
    <3>3. pc[c] = "upstream"
      BY <3>1 DEF Goto
    <3> QED
      BY <1>1, <2>1, <3>1, <3>2, <3>3, ServingMoves DEF Served
  <2>3. CASE /\ Goto(c, "upstream", "record")
             /\ \E reason \in {"proxy_upstream_error", "proxy_upstream_timeout", "upstream_response"} :
                   GiveUp(c, reason)
    BY <1>8, <2>1, <2>3 DEF Reason
  <2> QED
    BY <1>9, <2>2, <2>3 DEF Respond
<1>10. CASE SendHeaders(c)
  <2>1. UNCHANGED countVars /\ pc[c] = "headers"
    BY <1>10 DEF SendHeaders, Goto
  <2>2. CASE /\ Goto(c, "headers", "stream")
             /\ Set(c, [call[c] EXCEPT !.reply = "cut", !.closing = ~call[c].sized])
    <3>1. PICK w : Set(c, w) /\ w = [k EXCEPT !.reply = "cut", !.closing = ~k.sized]
      BY <1>1, <2>2
    <3>2. w \in Call /\ w.recorded = k.recorded
      BY <1>1, <3>1, CallFields, ProxyBounds DEF Call, Key, Reply, Reason
    <3> QED
      BY <1>1, <2>1, <2>2, <3>1, <3>2, ServingMoves DEF Served
  <2>3. ASSUME Goto(c, "headers", "record"),
               NEW reason \in {"proxy_upstream_timeout", "upstream_response"},
               Set(c, [call[c] EXCEPT !.reason = reason, !.closing = TRUE])
        PROVE  \E a, b \in Label, u \in Call : Moves(c, a, b, u)
    <3>1. PICK w : Set(c, w) /\ w = [k EXCEPT !.reason = reason, !.closing = TRUE]
      BY <1>1, <2>3
    <3>2. w \in Call /\ w.recorded = k.recorded /\ w.closing
      BY <1>1, <3>1, CallFields, ProxyBounds DEF Call, Key, Reply, Reason
    <3> QED
      BY <1>1, <2>1, <2>3, <3>1, <3>2, ServingMoves DEF Served
  <2> QED
    BY <1>10, <2>2, <2>3 DEF SendHeaders
<1>11. CASE Relay(c)
  <2>1. UNCHANGED countVars /\ pc[c] = "stream" /\ Goto(c, "stream", "stream") /\ k.bytes < MaxResponse
    BY <1>1, <1>11 DEF Relay, Goto
  <2>2. PICK w : Set(c, w) /\ w = [k EXCEPT !.bytes = @ + 1]
    BY <1>1, <1>11 DEF Relay
  <2>3. w \in Call /\ w.recorded = k.recorded
    BY <1>1, <2>1, <2>2, CallFields, ProxyBounds DEF Call, Key, Reply, Reason
  <2> QED
    BY <1>1, <2>1, <2>2, <2>3, ServingMoves DEF Served
<1>12. CASE Cut(c)
  BY <1>8, <1>12 DEF Cut, Reason
<1>13. CASE EndStream(c)
  <2>0. PICK reply \in {"whole", "short"} :
           Set(c, [call[c] EXCEPT !.reply = reply]) /\ Goto(c, "stream", "record")
    BY <1>13 DEF EndStream
  <2>1. PICK w : Set(c, w) /\ w = [k EXCEPT !.reply = reply] /\ Goto(c, "stream", "record")
    BY <1>1, <2>0
  <2>2. w \in Call /\ w.recorded = k.recorded /\ w.reply = reply
    BY <1>1, <2>1, CallFields, ProxyBounds DEF Call, Key, Reply, Reason
  <2>3. UNCHANGED countVars /\ pc[c] = "stream"
    BY <1>13 DEF EndStream, Goto
  <2> QED
    BY <1>1, <2>1, <2>2, <2>3, ServingMoves DEF Served
<1>14. CASE Record(c)
  <2>0. PICK from \in {"record", "rejected"} :
           Goto(c, from, "finish") /\ Set(c, [call[c] EXCEPT !.recorded = @ + 1])
    BY <1>14 DEF Record
  <2>1. PICK w : Goto(c, from, "finish") /\ Set(c, w) /\ w = [k EXCEPT !.recorded = @ + 1]
    BY <1>1, <2>0
  <2>2. UNCHANGED countVars /\ pc[c] = from
    BY <1>14, <2>1 DEF Record, Goto
  <2>3. w \in Call /\ w.reply = k.reply /\ w.closing = k.closing
    BY <1>1, <2>1, <2>2, CallFields, ProxyBounds DEF Call, Key, Reply, Reason
  <2>4. from \in Served /\ "finish" \in Served
    BY DEF Served
  <2> QED
    BY <1>1, <2>1, <2>2, <2>3, <2>4, ServingMoves
<1>15. CASE RequestFinished(c)
  <2>1. /\ Goto(c, "finish", "release") /\ slots' = slots /\ inFlight' = inFlight - 1
        /\ Set(c, k) /\ pc[c] = "finish"
    BY <1>1, <1>15 DEF RequestFinished, Set, Goto
  <2>2. Moves(c, "finish", "release", k)
    BY <1>1, <2>1 DEF Moves, Taken, Serving
  <2> QED
    BY <1>1, <2>2 DEF Label
<1>16. CASE Release(c)
  <2>1. slots' = slots + 1 /\ inFlight' = inFlight /\ pc[c] = "release"
    BY <1>16 DEF Release, Goto
  <2>2. CASE k.closing
    <3>1. Goto(c, "release", "none") /\ Set(c, NoCall)
      BY <1>1, <1>16, <2>2 DEF Release
    <3>2. Moves(c, "release", "none", NoCall)
      BY <1>1, <2>1, <3>1, NoCallMoves DEF Taken, Serving
    <3> QED
      BY <3>2, NoCallType DEF Label
  <2>3. CASE ~k.closing
    <3>1. PICK w : Goto(c, "release", "idle") /\ Set(c, w) /\ w = [NoCall EXCEPT !.reply = k.reply]
      BY <1>1, <1>16, <2>3 DEF Release
    <3>2. w \in Call /\ w.recorded = 0 /\ w.reply = k.reply
      BY <1>1, <3>1, NoCallType DEF NoCall, Call, Key, Reply, Reason
    <3>3. Moves(c, "release", "idle", w)
      BY <1>1, <2>1, <2>3, <3>1, <3>2 DEF Moves, Taken, Serving
    <3> QED
      BY <3>2, <3>3 DEF Label
  <2> QED
    BY <2>2, <2>3
<1> QED
  BY <1>2, <1>3, <1>4, <1>5, <1>6, <1>7, <1>9, <1>10, <1>11, <1>12, <1>13, <1>14, <1>15, <1>16
     DEF ConnNext, Handle

------------------------------------------------------------------------------
(* Counting. *)

\* A finite set that gains or loses one element at most.
LEMMA OneElement ==
    ASSUME NEW S, IsFiniteSet(S), NEW x, NEW T, T = S \union {x} \/ T = S \ {x}
    PROVE  /\ IsFiniteSet(T) /\ Cardinality(T) \in Nat
           /\ Cardinality(T) = Cardinality(S) + (IF x \in T THEN 1 ELSE 0)
                                              - (IF x \in S THEN 1 ELSE 0)
<1>1. Cardinality(S) \in Nat
  BY FS_CardinalityType
<1>2. CASE T = S \union {x}
  BY <1>1, <1>2, FS_AddElement, FS_CardinalityType
<1>3. CASE T = S \ {x}
  BY <1>1, <1>3, FS_RemoveElement, FS_CardinalityType
<1> QED
  BY <1>2, <1>3

\* A connection that goes on changes the two sets by itself at most, as its places say.
LEMMA GotoCounts ==
    ASSUME TypeOK, IsFiniteSet(Holding), NEW c \in Conn, NEW from \in Label, NEW to \in Label,
           Goto(c, from, to)
    PROVE  /\ IsFiniteSet(Holding') /\ Cardinality(Holding') \in Nat /\ Cardinality(Counted') \in Nat
           /\ Cardinality(Holding') = Cardinality(Holding) + Taken(to) - Taken(from)
           /\ Cardinality(Counted') = Cardinality(Counted) + Serving(to) - Serving(from)
<1>1. /\ pc[c] = from /\ pc'[c] = to
      /\ \A d \in Conn : d # c => pc'[d] = pc[d]
  BY DEF TypeOK, Goto
<1>2. IsFiniteSet(Counted)
  BY FS_Subset DEF Counted
<1>3. Holding' = Holding \union {c} \/ Holding' = Holding \ {c}
  BY <1>1 DEF Holding
<1>4. Counted' = Counted \union {c} \/ Counted' = Counted \ {c}
  BY <1>1 DEF Counted, Holding
<1>5. /\ Taken(from) = IF c \in Holding THEN 1 ELSE 0
      /\ Taken(to) = IF c \in Holding' THEN 1 ELSE 0
      /\ Serving(from) = IF c \in Counted THEN 1 ELSE 0
      /\ Serving(to) = IF c \in Counted' THEN 1 ELSE 0
  BY <1>1 DEF Taken, Serving, Holding, Counted
<1>6. /\ IsFiniteSet(Holding') /\ Cardinality(Holding') \in Nat
      /\ Cardinality(Holding') = Cardinality(Holding) + Taken(to) - Taken(from)
  <2>1. /\ IsFiniteSet(Holding') /\ Cardinality(Holding') \in Nat
        /\ Cardinality(Holding') = Cardinality(Holding) + (IF c \in Holding' THEN 1 ELSE 0)
                                                        - (IF c \in Holding THEN 1 ELSE 0)
    BY <1>3, OneElement
  <2> QED
    BY <1>5, <2>1
<1>7. /\ Cardinality(Counted') \in Nat
      /\ Cardinality(Counted') = Cardinality(Counted) + Serving(to) - Serving(from)
  <2>1. /\ Cardinality(Counted') \in Nat
        /\ Cardinality(Counted') = Cardinality(Counted) + (IF c \in Counted' THEN 1 ELSE 0)
                                                        - (IF c \in Counted THEN 1 ELSE 0)
    BY <1>2, <1>4, OneElement
  <2> QED
    BY <1>5, <2>1
<1> QED
  BY <1>6, <1>7

LEMMA MovesKeep ==
    ASSUME ProxyInv, NEW c \in Conn, NEW from \in Label, NEW to \in Label, NEW v \in Call,
           Moves(c, from, to, v), UNCHANGED ownerVars
    PROVE  ProxyInv'
<1>1. /\ pc' = [pc EXCEPT ![c] = to] /\ call' = [call EXCEPT ![c] = v]
      /\ pc \in [Conn -> Label] /\ call \in [Conn -> Call]
      /\ slots \in Nat /\ inFlight \in Nat /\ slots' \in Nat
  BY ProxyBounds DEF ProxyInv, TypeOK, Moves, Goto, Set
<1>2. /\ IsFiniteSet(Holding') /\ Cardinality(Holding') \in Nat /\ Cardinality(Counted') \in Nat
      /\ Cardinality(Holding') = Cardinality(Holding) + Taken(to) - Taken(from)
      /\ Cardinality(Counted') = Cardinality(Counted) + Serving(to) - Serving(from)
  BY GotoCounts DEF ProxyInv, Balance, Moves
<1>3. Cardinality(Holding) \in Nat /\ Cardinality(Counted) \in Nat
  BY FS_CardinalityType, FS_Subset DEF ProxyInv, Balance, Counted
<1>4. SlotsBalance'
  <2>1. slots + Cardinality(Holding) = MaxConcurrent /\ inFlight = Cardinality(Counted)
    BY DEF ProxyInv, Balance, SlotsBalance
  <2>2. /\ slots' = slots + Taken(from) - Taken(to)
        /\ inFlight' = inFlight + Serving(to) - Serving(from)
    BY DEF Moves
  <2>3. Taken(from) \in Nat /\ Taken(to) \in Nat
    BY DEF Taken
  <2>4. slots' + Cardinality(Holding') = MaxConcurrent
    BY <1>1, <1>2, <1>3, <2>1, <2>2, <2>3
  <2>5. inFlight' = Cardinality(Counted')
    BY <1>2, <2>1, <2>2
  <2> QED
    BY <2>4, <2>5 DEF SlotsBalance
<1>5. slots' \in 0 .. MaxConcurrent /\ inFlight' \in Nat
  BY <1>1, <1>2, <1>4, ProxyBounds DEF SlotsBalance
<1>6. TypeOK'
  <2>1. pc' \in [Conn -> Label] /\ call' \in [Conn -> Call]
    BY <1>1
  <2> QED
    BY <1>5, <2>1 DEF ProxyInv, TypeOK, ownerVars
<1>7. OwnerKnows'
  BY DEF ProxyInv, OwnerKnows, ownerVars
<1>8. CallKnows'
  <2> SUFFICES ASSUME NEW d \in Conn
               PROVE  /\ call'[d].recorded = 1 => pc'[d] \in {"finish", "release"}
                      /\ pc'[d] = "idle" => call'[d].reply # "cut"
                      /\ call'[d].reply = "cut" /\ pc'[d] # "stream" => call'[d].closing
    BY DEF CallKnows
  <2>1. CASE d = c
    BY <1>1, <2>1 DEF Moves
  <2>2. CASE d # c
    <3>1. pc'[d] = pc[d] /\ call'[d] = call[d]
      BY <1>1, <2>2
    <3> QED
      BY <3>1 DEF ProxyInv, CallKnows
  <2> QED
    BY <2>1, <2>2
<1> QED
  BY <1>2, <1>4, <1>6, <1>7, <1>8 DEF ProxyInv, Balance

LEMMA ProxyStep == ProxyInv /\ [Next]_vars => ProxyInv'
<1> SUFFICES ASSUME ProxyInv, [Next]_vars PROVE ProxyInv'
  OBVIOUS
<1>1. CASE UNCHANGED vars
  BY <1>1 DEF vars, ownerVars, countVars, ProxyInv, TypeOK, OwnerKnows, CallKnows, Balance,
              SlotsBalance, Holding, Counted
<1>2. CASE OwnerNext
  <2>1. UNCHANGED <<slots, inFlight, pc, call>>
    BY <1>2, OwnerLeavesCalls DEF countVars
  <2>2. CallKnows' /\ Balance'
    BY <2>1 DEF ProxyInv, CallKnows, Balance, SlotsBalance, Holding, Counted
  <2> QED
    BY <1>2, <2>2, OwnerType, OwnerStep DEF ProxyInv
<1>3. ASSUME NEW c \in Conn, ConnNext(c) PROVE ProxyInv'
  BY <1>3, ConnMoves, CallsLeaveOwner, MovesKeep
<1> QED
  BY <1>1, <1>2, <1>3 DEF Next, OwnerNext, ConnNext

\* The proxy keeps its inductive invariant, however start, stop, the model server and the clients
\* fail and whatever their order.
THEOREM ProxyInvariant == Spec => []ProxyInv
BY InitHolds, ProxyStep, PTL DEF Spec

------------------------------------------------------------------------------
(* What the proxy promises. *)

\* Every variable keeps its type; in particular a call is recorded at most once, a reply never
\* exceeds max_response_bytes, and no place is returned that was not taken.
THEOREM TypeCorrect == Spec => []TypeOK
<1>1. ProxyInv => TypeOK
  BY DEF ProxyInv
<1> QED
  BY <1>1, ProxyInvariant, PTL

\* Every place of _request_slots is free or held by one running call, and requests_in_flight counts
\* the calls between its two updates, for any set of connections.
THEOREM PlacesAreBalanced == Spec => []SlotsBalance
<1>1. ProxyInv => SlotsBalance
  BY DEF ProxyInv, Balance
<1> QED
  BY <1>1, ProxyInvariant, PTL

\* However start() and stop() fail and are called again, the proxy is one thread, one loop and one
\* socket at most, and nothing of it is left when it says it is stopped.
THEOREM OneServerAtMost == Spec => []OneServer
<1>1. ProxyInv => OneServer
  BY DEF ProxyInv, TypeOK, OwnerKnows, OneServer, MayStart
<1> QED
  BY <1>1, ProxyInvariant, PTL

\* A connection on which a reply was broken off carries no other call.
THEOREM BrokenRepliesClose == Spec => []CutIsClosed
<1>1. ProxyInv => CutIsClosed
  BY DEF ProxyInv, CallKnows, CutIsClosed
<1> QED
  BY <1>1, ProxyInvariant, PTL
==============================================================================

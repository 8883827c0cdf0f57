--------------------------- MODULE AgentStageProofs ---------------------------
(* Proofs about AgentStage, and about the Trajectory and the Supervisor it is made of. *)
EXTENDS AgentStage, SequenceTheorems, FiniteSetTheorems, WellFoundedInduction, TLAPS

------------------------------------------------------------------------------
(* Induction over the length of a file: a set that holds 0 and every successor of its members
   holds the natural numbers, by the least number it would not hold. *)

LEMMA NatInduct ==
  ASSUME NEW S, 0 \in S, \A n \in Nat : n \in S => n + 1 \in S
  PROVE  Nat \subseteq S
<1> DEFINE R == {p \in Nat \X Nat : p[1] < p[2]}
           T == Nat \ S
<1> SUFFICES ASSUME T # {} PROVE FALSE
  OBVIOUS
<1>1. IsWellFoundedOn(R, Nat)
  BY NatLessThanWellFounded, Zenon DEF OpToRel
<1>2. \E x \in T : \A y \in T : <<y, x>> \notin R
  <2>1. T \subseteq Nat
    OBVIOUS
  <2> HIDE DEF R, T
  <2> QED
    BY <1>1, <2>1, WFMin
<1>3. \A x, y \in Nat : x < y => <<x, y>> \in R
  OBVIOUS
<1> HIDE DEF R
<1>4. PICK x \in T : \A y \in T : <<y, x>> \notin R
  BY <1>2
<1>5. x \in Nat /\ x # 0 /\ x - 1 \in Nat /\ x - 1 < x /\ (x - 1) + 1 = x
  BY <1>4
<1>6. x - 1 \in S
  BY <1>3, <1>4, <1>5
<1> QED
  BY <1>4, <1>5, <1>6

------------------------------------------------------------------------------
(* Sequences, whatever they are made of. *)

IsSeq(s) == \E S : s \in Seq(S)

LEMMA TwoSeqs ==
  ASSUME NEW s, NEW t, IsSeq(s), IsSeq(t)
  PROVE  \E S : s \in Seq(S) /\ t \in Seq(S)
<1>1. PICK S : s \in Seq(S)
  BY DEF IsSeq
<1>2. PICK T : t \in Seq(T)
  BY DEF IsSeq
<1>3. s \in Seq(S \union T)
  BY <1>1, SeqMonotonic
<1>4. t \in Seq(S \union T)
  BY <1>2, SeqMonotonic
<1> QED
  BY <1>3, <1>4

LEMMA SeqFacts ==
  ASSUME NEW s, IsSeq(s)
  PROVE  /\ Len(s) \in Nat /\ s \o <<>> = s /\ <<>> \o s = s
         /\ s = <<>> <=> Len(s) = 0
         /\ SubSeq(s, 1, Len(s)) = s
<1>1. PICK S : s \in Seq(S)
  BY DEF IsSeq
<1>2. Len(s) \in Nat
  BY <1>1, LenProperties
<1>3. s \o <<>> = s /\ <<>> \o s = s
  BY <1>1, ConcatEmptySeq
<1>4. s = <<>> <=> Len(s) = 0
  BY <1>1, EmptySeq
<1>5. SubSeq(s, 1, Len(s)) = s
  BY <1>1, SubSeqFull
<1> QED
  BY <1>2, <1>3, <1>4, <1>5

LEMMA SeqsEqual ==
  ASSUME NEW s, NEW t, IsSeq(s), IsSeq(t), Len(s) = Len(t), \A i \in 1 .. Len(s) : s[i] = t[i]
  PROVE  s = t
  BY TwoSeqs, SeqEqual

LEMMA Concat ==
  ASSUME NEW s, NEW t, IsSeq(s), IsSeq(t)
  PROVE  /\ IsSeq(s \o t) /\ Len(s \o t) = Len(s) + Len(t)
         /\ \A i \in 1 .. Len(s) + Len(t) :
               (s \o t)[i] = IF i <= Len(s) THEN s[i] ELSE t[i - Len(s)]
<1>1. PICK S : s \in Seq(S) /\ t \in Seq(S)
  BY TwoSeqs
<1> QED
  BY <1>1, ConcatProperties DEF IsSeq

LEMMA Part ==
  ASSUME NEW s, IsSeq(s), NEW m \in Nat \ {0}, NEW n \in 0 .. Len(s)
  PROVE  /\ IsSeq(SubSeq(s, m, n)) /\ Len(SubSeq(s, m, n)) = IF m <= n THEN n - m + 1 ELSE 0
         /\ \A i \in 1 .. n - m + 1 : SubSeq(s, m, n)[i] = s[m + i - 1]
<1>1. PICK S : s \in Seq(S)
  BY DEF IsSeq
<1>2. Len(s) \in Nat
  BY <1>1, LenProperties
<1>3. \A i \in m .. n : s[i] \in S
  <2> SUFFICES ASSUME NEW i \in m .. n PROVE s[i] \in S
    OBVIOUS
  <2>1. i \in 1 .. Len(s)
    BY <1>2
  <2> QED
    BY <1>1, <2>1, ElementOfSeq
<1>4. m \in Int /\ n \in Int
  BY <1>2
<1> QED
  BY <1>3, <1>4, SubSeqProperties DEF IsSeq

\* A beginning of a sequence, element by element.
LEMMA PrefixAt ==
  ASSUME NEW s, NEW t, IsSeq(s), IsSeq(t)
  PROVE  Prefix(s, t) <=> Len(s) <= Len(t) /\ \A i \in 1 .. Len(s) : s[i] = t[i]
<1> DEFINE p == SubSeq(t, 1, Len(s))
<1>1. Len(s) \in Nat /\ Len(t) \in Nat
  BY SeqFacts
<1>2. ASSUME Len(s) <= Len(t)
      PROVE  IsSeq(p) /\ Len(p) = Len(s) /\ \A i \in 1 .. Len(s) : p[i] = t[i]
  <2>1. Len(s) \in 0 .. Len(t)
    BY <1>1, <1>2
  <2>2. /\ IsSeq(p) /\ Len(p) = IF 1 <= Len(s) THEN Len(s) - 1 + 1 ELSE 0
        /\ \A i \in 1 .. Len(s) - 1 + 1 : p[i] = t[1 + i - 1]
    BY <2>1, Part
  <2> HIDE DEF p
  <2> QED
    BY <1>1, <2>2
<1>3. ASSUME Len(s) <= Len(t), \A i \in 1 .. Len(s) : s[i] = t[i]
      PROVE  p = s
  <2> HIDE DEF p
  <2> QED
    BY <1>2, <1>3, SeqsEqual
<1> QED
  BY <1>2, <1>3 DEF Prefix

LEMMA PrefixFacts ==
  /\ \A s : IsSeq(s) => Prefix(s, s) /\ Prefix(<<>>, s)
  /\ \A s, t : IsSeq(s) /\ IsSeq(t) => Prefix(s, s \o t)
  /\ \A s, t, u : IsSeq(s) /\ IsSeq(t) /\ IsSeq(u) /\ Prefix(s, t) /\ Prefix(t, u) => Prefix(s, u)
<1>0. IsSeq(<<>>) /\ Len(<<>>) = 0
  BY EmptySeq DEF IsSeq
<1>1. ASSUME NEW s, IsSeq(s) PROVE Prefix(s, s) /\ Prefix(<<>>, s)
  BY <1>0, <1>1, PrefixAt, SeqFacts
<1>2. ASSUME NEW s, NEW t, IsSeq(s), IsSeq(t) PROVE Prefix(s, s \o t)
  <2>1. Len(s) \in Nat /\ Len(t) \in Nat
    BY <1>2, SeqFacts
  <2>2. /\ IsSeq(s \o t) /\ Len(s \o t) = Len(s) + Len(t)
        /\ \A i \in 1 .. Len(s) + Len(t) :
              (s \o t)[i] = IF i <= Len(s) THEN s[i] ELSE t[i - Len(s)]
    BY <1>2, Concat
  <2>3. Len(s) <= Len(s \o t) /\ \A i \in 1 .. Len(s) : s[i] = (s \o t)[i]
    BY <2>1, <2>2
  <2> HIDE DEF Prefix
  <2> QED
    BY <1>2, <2>2, <2>3, PrefixAt
<1>3. ASSUME NEW s, NEW t, NEW u, IsSeq(s), IsSeq(t), IsSeq(u), Prefix(s, t), Prefix(t, u)
      PROVE  Prefix(s, u)
  <2>1. Len(s) \in Nat /\ Len(t) \in Nat /\ Len(u) \in Nat
    BY <1>3, SeqFacts
  <2>2. Len(s) <= Len(t) /\ \A i \in 1 .. Len(s) : s[i] = t[i]
    BY <1>3, PrefixAt
  <2>3. Len(t) <= Len(u) /\ \A i \in 1 .. Len(t) : t[i] = u[i]
    BY <1>3, PrefixAt
  <2> QED
    BY <1>3, <2>1, <2>2, <2>3, PrefixAt
<1> QED
  BY <1>1, <1>2, <1>3

------------------------------------------------------------------------------
(* The normalizer. *)

LEMMA TupleSeqs ==
  IsSeq(<<>>) /\ (\A e : IsSeq(<<e>>)) /\ (\A e, f : IsSeq(<<e, f>>))
<1>1. IsSeq(<<>>)
  BY EmptySeq DEF IsSeq
<1>2. ASSUME NEW e PROVE <<e>> \in Seq({e})
  OBVIOUS
<1>3. ASSUME NEW e, NEW f PROVE <<e, f>> \in Seq({e, f})
  OBVIOUS
<1> QED
  BY <1>1, <1>2, <1>3 DEF IsSeq

LEMMA EmittedSeq ==
  ASSUME NEW l, NEW events
  PROVE  IsSeq(Emitted(l, events))
<1>1. \A source, parent : IsSeq(Usage(events, source, parent))
  BY TupleSeqs DEF Usage
<1>2. IsSeq(map_assistant(l, events))
  BY <1>1, TupleSeqs, Concat DEF map_assistant
<1>3. IsSeq(map_user(l, events))
  BY TupleSeqs DEF map_user
<1>4. IsSeq(map_result(events))
  BY <1>1, TupleSeqs, Concat DEF map_result
<1> QED
  BY <1>2, <1>3, <1>4, TupleSeqs DEF Emitted

\* A line adds to the events, within the bound; what it has added is the rest of them.
LEMMA FeedAdds ==
  ASSUME NEW l, NEW events, IsSeq(events), Len(events) <= MaxEvents
  PROVE  LET fed == Feed(l, events)
             rest == SubSeq(fed.events, Len(events) + 1, Len(fed.events))
         IN  /\ IsSeq(fed.events) /\ Len(fed.events) <= MaxEvents
             /\ Prefix(events, fed.events)
             /\ IsSeq(rest) /\ Len(rest) <= MaxEvents /\ events \o rest = fed.events
             /\ fed.ok \in BOOLEAN
<1> DEFINE all == IF Refused(l, events) THEN events ELSE events \o Emitted(l, events)
           fed == Feed(l, events)
           new == fed.events
           rest == SubSeq(new, Len(events) + 1, Len(new))
<1>1. Len(events) \in Nat /\ MaxEvents \in Nat
  BY SeqFacts, MaxEventsAssumption
<1>2. IsSeq(all) /\ Prefix(events, all)
  BY EmittedSeq, Concat, PrefixFacts
<1>3. Len(events) <= Len(all) /\ Len(all) \in Nat /\ \A i \in 1 .. Len(events) : events[i] = all[i]
  <2> HIDE DEF all
  <2> QED
    BY <1>2, PrefixAt, SeqFacts
<1>4. new = IF Len(all) <= MaxEvents THEN all ELSE SubSeq(all, 1, MaxEvents)
  BY DEF Feed
<1>5. IsSeq(new) /\ Len(new) \in Nat /\ Len(new) <= MaxEvents /\ Len(events) <= Len(new)
      /\ \A i \in 1 .. Len(events) : events[i] = new[i]
  <2> HIDE DEF all, new
  <2>1. CASE Len(all) <= MaxEvents
    BY <1>2, <1>3, <1>4, <2>1
  <2>2. CASE ~(Len(all) <= MaxEvents)
    <3>1. MaxEvents \in 0 .. Len(all) /\ new = SubSeq(all, 1, MaxEvents)
      BY <1>1, <1>3, <1>4, <2>2
    <3>2. /\ IsSeq(new) /\ Len(new) = IF 1 <= MaxEvents THEN MaxEvents - 1 + 1 ELSE 0
          /\ \A i \in 1 .. MaxEvents - 1 + 1 : new[i] = all[1 + i - 1]
      BY <1>2, <3>1, Part
    <3>3. Len(new) = MaxEvents /\ \A i \in 1 .. MaxEvents : new[i] = all[i]
      BY <1>1, <3>2
    <3> QED
      BY <1>1, <1>3, <3>2, <3>3
  <2> QED
    BY <2>1, <2>2
<1>6. Prefix(events, new)
  <2> HIDE DEF new
  <2> QED
    BY <1>5, PrefixAt
<1>7. /\ IsSeq(rest) /\ Len(rest) = Len(new) - Len(events)
      /\ \A i \in 1 .. Len(new) - Len(events) : rest[i] = new[Len(events) + i]
  <2> HIDE DEF new
  <2>1. Len(events) + 1 \in Nat \ {0} /\ Len(new) \in 0 .. Len(new)
    BY <1>1, <1>5
  <2>2. /\ IsSeq(rest)
        /\ Len(rest) = IF Len(events) + 1 <= Len(new) THEN Len(new) - (Len(events) + 1) + 1 ELSE 0
        /\ \A i \in 1 .. Len(new) - (Len(events) + 1) + 1 : rest[i] = new[Len(events) + 1 + i - 1]
    BY <1>5, <2>1, Part
  <2> HIDE DEF rest
  <2> QED
    BY <1>1, <1>5, <2>2
<1>8. events \o rest = new
  <2> HIDE DEF new, rest
  <2>1. /\ IsSeq(events \o rest) /\ Len(events \o rest) = Len(new)
        /\ \A i \in 1 .. Len(new) :
              (events \o rest)[i] = IF i <= Len(events) THEN events[i] ELSE rest[i - Len(events)]
    BY <1>1, <1>5, <1>7, Concat
  <2>2. \A i \in 1 .. Len(new) : (events \o rest)[i] = new[i]
    BY <1>1, <1>5, <1>7, <2>1
  <2> QED
    BY <1>5, <2>1, <2>2, SeqsEqual
<1>9. fed.ok \in BOOLEAN
  BY DEF Feed
<1>10. Len(rest) <= MaxEvents
  <2> HIDE DEF new, rest
  <2> QED
    BY <1>1, <1>5, <1>7
<1> HIDE DEF new, rest
<1> QED
  BY <1>5, <1>6, <1>7, <1>8, <1>9, <1>10 DEF new, rest

\* What normalize_claude_stream has after no line, and after one more line.
Nothing == [ok |-> TRUE, events |-> <<>>]
After(before, l) == [Feed(l, before.events) EXCEPT !.ok = @ /\ before.ok]

IsFed(f, lines, n) ==
    f = [k \in 0 .. n |-> IF k = 0 THEN Nothing ELSE After(f[k - 1], lines[k])]

LEMMA FedExists ==
  ASSUME NEW lines, NEW n \in Nat
  PROVE  \E f : IsFed(f, lines, n)
<1> DEFINE S == {m \in Nat : \E f : IsFed(f, lines, m)}
<1>1. 0 \in S
  <2> DEFINE f == [k \in 0 .. 0 |-> Nothing]
  <2>1. IsFed(f, lines, 0)
    BY DEF IsFed
  <2> QED
    BY <2>1
<1>2. ASSUME NEW m \in Nat, m \in S PROVE m + 1 \in S
  <2>1. PICK f : IsFed(f, lines, m)
    BY <1>2
  <2> DEFINE g == [k \in 0 .. m + 1 |-> IF k <= m THEN f[k] ELSE After(f[m], lines[m + 1])]
  <2>2. ASSUME NEW k \in 0 .. m + 1
        PROVE  g[k] = IF k = 0 THEN Nothing ELSE After(g[k - 1], lines[k])
    <3>1. k <= m => f[k] = IF k = 0 THEN Nothing ELSE After(f[k - 1], lines[k])
      BY <2>1 DEF IsFed
    <3>2. k # 0 => g[k - 1] = f[k - 1]
      OBVIOUS
    <3>3. g[k] = IF k <= m THEN f[k] ELSE After(f[m], lines[m + 1])
      OBVIOUS
    <3> HIDE DEF g
    <3>4. CASE k <= m
      BY <3>1, <3>2, <3>3, <3>4
    <3>5. CASE k = m + 1
      BY <3>2, <3>3, <3>5
    <3> QED
      BY <3>4, <3>5
  <2>3. IsFed(g, lines, m + 1)
    <3>1. g = [k \in 0 .. m + 1 |-> g[k]]
      OBVIOUS
    <3> HIDE DEF g
    <3> QED
      BY <2>2, <3>1 DEF IsFed
  <2> QED
    BY <2>3
<1> HIDE DEF S
<1>3. Nat \subseteq S
  BY <1>1, <1>2, NatInduct
<1> QED
  BY <1>3 DEF S

LEMMA FedAgree ==
  ASSUME NEW s, NEW t, NEW m \in Nat, NEW n \in Nat, m <= n, \A k \in 1 .. m : s[k] = t[k],
         NEW f, IsFed(f, s, m), NEW g, IsFed(g, t, n)
  PROVE  f[m] = g[m]
<1> DEFINE S == {k \in Nat : k <= m => f[k] = g[k]}
<1>0. /\ \A k \in 0 .. m : f[k] = IF k = 0 THEN Nothing ELSE After(f[k - 1], s[k])
      /\ \A k \in 0 .. n : g[k] = IF k = 0 THEN Nothing ELSE After(g[k - 1], t[k])
  BY DEF IsFed
<1>1. 0 \in S
  BY <1>0
<1>2. ASSUME NEW k \in Nat, k \in S PROVE k + 1 \in S
  <2> SUFFICES ASSUME k + 1 <= m PROVE f[k + 1] = g[k + 1]
    OBVIOUS
  <2>1. f[k] = g[k] /\ s[k + 1] = t[k + 1]
    BY <1>2
  <2>2. f[k + 1] = After(f[k], s[k + 1]) /\ g[k + 1] = After(g[k], t[k + 1])
    <3>1. k + 1 \in 0 .. m /\ k + 1 \in 0 .. n /\ k + 1 # 0 /\ (k + 1) - 1 = k
      OBVIOUS
    <3> QED
      BY <1>0, <3>1
  <2> QED
    BY <2>1, <2>2
<1> HIDE DEF S
<1>3. m \in S
  BY <1>1, <1>2, NatInduct
<1> QED
  BY <1>3 DEF S

LEMMA NormalizedFed ==
  ASSUME NEW lines, Len(lines) \in Nat
  PROVE  \E f : IsFed(f, lines, Len(lines)) /\ Normalized(lines) = f[Len(lines)]
<1> DEFINE f == CHOOSE f : IsFed(f, lines, Len(lines))
<1>1. IsFed(f, lines, Len(lines))
  BY FedExists
<1>2. Normalized(lines) = f[Len(lines)]
  BY DEF Normalized, IsFed, Nothing, After
<1> QED
  BY <1>1, <1>2

\* Normalizing a file that has one more line is feeding that line to what the file has become.
LEMMA NormalizedAppend ==
  /\ Normalized(<<>>) = Nothing
  /\ \A S : \A s \in Seq(S), l \in S : Normalized(Append(s, l)) = After(Normalized(s), l)
<1>1. Normalized(<<>>) = Nothing
  <2>1. Len(<<>>) = 0
    BY EmptySeq
  <2>2. PICK f : IsFed(f, <<>>, 0) /\ Normalized(<<>>) = f[0]
    BY <2>1, NormalizedFed
  <2> QED
    BY <2>2 DEF IsFed
<1>2. ASSUME NEW S, NEW s \in Seq(S), NEW l \in S
      PROVE  Normalized(Append(s, l)) = After(Normalized(s), l)
  <2> DEFINE t == Append(s, l)
             n == Len(s)
  <2>1. /\ n \in Nat /\ Len(t) = n + 1 /\ t[n + 1] = l /\ \A k \in 1 .. n : s[k] = t[k]
    BY AppendProperties, LenProperties
  <2> HIDE DEF t, n
  <2>2. PICK f : IsFed(f, s, n) /\ Normalized(s) = f[n]
    BY <2>1, NormalizedFed DEF n
  <2>3. PICK g : IsFed(g, t, n + 1) /\ Normalized(t) = g[n + 1]
    BY <2>1, NormalizedFed
  <2>4. f[n] = g[n]
    <3>1. n + 1 \in Nat /\ n <= n + 1
      BY <2>1
    <3> QED
      BY <2>1, <2>2, <2>3, <3>1, FedAgree
  <2>5. g[n + 1] = After(g[n], t[n + 1])
    <3>1. n + 1 \in 0 .. n + 1 /\ n + 1 # 0 /\ (n + 1) - 1 = n
      BY <2>1
    <3>2. \A k \in 0 .. n + 1 : g[k] = IF k = 0 THEN Nothing ELSE After(g[k - 1], t[k])
      BY <2>3 DEF IsFed
    <3> QED
      BY <3>1, <3>2
  <2> QED
    BY <2>1, <2>2, <2>3, <2>4, <2>5 DEF t
<1> QED
  BY <1>1, <1>2

------------------------------------------------------------------------------
(* The inductive invariant of the supervisor. *)

Early == {"setup", "start", "popen", "publish"}
Loop == {"get", "native", "feed", "trajectory", "usage", "progress"}
Over == {"wait", "finalize", "last"}
Failing == {"failing", "killing", "lastfailed"}

\* The lines on their way to claude-raw.jsonl: the supervisor's, those of the queue, the reader's,
\* and those of the pipe.
Taken == IF pc = "native" THEN <<line>> ELSE <<>>
Unsealed(q) == IF q # <<>> /\ q[Len(q)] = End THEN SubSeq(q, 1, Len(q) - 1) ELSE q
Hand == IF reader = "put" /\ inHand # End THEN <<inHand>> ELSE <<>>
Coming == Unsealed(queue) \o (Hand \o pipe)

\* Until a step fails no line is lost and none changes its place.
Flow ==
    /\ pc \in Early \union Loop \union Over => said = native \o (Taken \o Coming)
    /\ Prefix(native, said)

\* The end of the stream comes last, and when everybody has let go of the pipe.
EndIsLast ==
    /\ \A i \in 1 .. Len(queue) : queue[i] = End => i = Len(queue) /\ reader = "done"
    /\ reader = "put" => inHand \in Lines \union {End}
    /\ reader = "done" \/ (reader = "put" /\ inHand = End) => pipe = <<>> /\ holders = {}
    /\ pc \in Over => reader = "done" /\ queue = <<>>
    /\ pc \in Early => reader = "none"
    /\ pc \in Loop \union Over \union Failing => reader # "none"
    /\ pc \in Loop \ {"get"} => line \in Lines

\* The events are those of the native file, and the trajectory has all of them but for the line at hand.
Normal == Normalized(native)
EventsAreNative ==
    /\ pc \in (Early \union Loop \union Over) \ {"feed"} =>
          Normal.ok /\ Normal.events = emitter /\ counted = Len(native)
    /\ pc = "feed" =>
          /\ Normal.ok <=> Feed(line, emitter).ok
          /\ Normal.events = Feed(line, emitter).events
          /\ counted + 1 = Len(native)
    /\ counted <= Len(native)
    /\ pc \in (Early \union Loop \union Over) \ {"trajectory"} => trajectory = emitter
    /\ pc = "trajectory" => trajectory \o emitted = emitter
    /\ Prefix(trajectory, Normal.events)
    /\ Len(Normal.events) <= MaxEvents
    /\ pc = "last" => WellFormed(emitter)

\* Who is over when.
EndIsTrue ==
    /\ pc \in {"setup", "start", "popen"} => agent = "none"
    /\ pc \in {"publish"} \union Loop \union Over \union Failing => agent # "none"
    /\ pc \in {"finalize", "last", "lastfailed"} => agent = "ended"
    /\ pc \in Early => ~progress.started
    /\ pc # "returned" => result = -1 /\ exit = -1
    /\ result = 0 => /\ agent = "ended" /\ native = said
                     /\ Normal.ok /\ Normal.events = trajectory /\ WellFormed(trajectory)
    /\ exit = 0 => result = 0 /\ captured

Shaped == IsSeq(emitted) /\ IsSeq(emitter) /\ IsSeq(trajectory) /\ IsSeq(Normal.events)
SupervisorInv ==
    /\ TypeOK /\ Shaped /\ Flow /\ EndIsLast /\ EventsAreNative /\ EndIsTrue
    /\ ProgressIsTrue /\ CapturedAlone

------------------------------------------------------------------------------
(* Sequences that the steps of the supervisor make. *)

LEMMA PartPrefix ==
  ASSUME NEW t, NEW e, IsSeq(t), IsSeq(e), NEW n \in 0 .. Len(e)
  PROVE  /\ IsSeq(t \o SubSeq(e, 1, n)) /\ Len(t \o SubSeq(e, 1, n)) <= Len(t \o e)
         /\ Prefix(t \o SubSeq(e, 1, n), t \o e) /\ Prefix(t, t \o SubSeq(e, 1, n))
<1> DEFINE p == SubSeq(e, 1, n)
<1>1. Len(t) \in Nat /\ Len(e) \in Nat /\ n \in Nat
  BY SeqFacts
<1>2. IsSeq(p) /\ Len(p) = n /\ \A i \in 1 .. n : p[i] = e[i]
  <2>1. /\ IsSeq(p) /\ Len(p) = IF 1 <= n THEN n - 1 + 1 ELSE 0
        /\ \A i \in 1 .. n - 1 + 1 : p[i] = e[1 + i - 1]
    BY Part
  <2> HIDE DEF p
  <2> QED
    BY <1>1, <2>1
<1> HIDE DEF p
<1>3. /\ IsSeq(t \o p) /\ Len(t \o p) = Len(t) + n
      /\ \A i \in 1 .. Len(t) + n : (t \o p)[i] = IF i <= Len(t) THEN t[i] ELSE p[i - Len(t)]
  BY <1>2, Concat
<1>4. /\ IsSeq(t \o e) /\ Len(t \o e) = Len(t) + Len(e)
      /\ \A i \in 1 .. Len(t) + Len(e) : (t \o e)[i] = IF i <= Len(t) THEN t[i] ELSE e[i - Len(t)]
  BY Concat
<1>5. Len(t \o p) <= Len(t \o e) /\ \A i \in 1 .. Len(t \o p) : (t \o p)[i] = (t \o e)[i]
  <2>1. Len(t \o p) <= Len(t \o e)
    BY <1>1, <1>3, <1>4
  <2>2. ASSUME NEW i \in 1 .. Len(t) + n PROVE (t \o p)[i] = (t \o e)[i]
    BY <1>1, <1>2, <1>3, <1>4
  <2> QED
    BY <1>3, <2>1, <2>2
<1>6. Prefix(t \o p, t \o e)
  BY <1>3, <1>4, <1>5, PrefixAt
<1>7. Prefix(t, t \o p)
  BY <1>2, PrefixFacts
<1> QED
  BY <1>3, <1>5, <1>6, <1>7 DEF p

LEMMA Appended ==
  ASSUME NEW S, NEW s \in Seq(S), NEW t \in Seq(S), NEW x \in S
  PROVE  /\ s \o Append(t, x) = Append(s \o t, x)
         /\ s \o (<<x>> \o t) = Append(s, x) \o (<<>> \o t)
         /\ s \o t \in Seq(S) /\ Append(s, x) \in Seq(S) /\ <<x>> \in Seq(S) /\ <<>> \in Seq(S)
<1>1. <<x>> \in Seq(S) /\ s \o t \in Seq(S) /\ Append(s, x) \in Seq(S) /\ <<>> \in Seq(S)
  BY ConcatProperties, AppendProperties, EmptySeq
<1>2. Append(t, x) = t \o <<x>> /\ Append(s, x) = s \o <<x>> /\ Append(s \o t, x) = (s \o t) \o <<x>>
  BY <1>1, AppendIsConcat
<1>3. (s \o t) \o <<x>> = s \o (t \o <<x>>) /\ (s \o <<x>>) \o t = s \o (<<x>> \o t)
  BY <1>1, ConcatAssociative
<1>4. <<>> \o t = t
  BY ConcatEmptySeq
<1> QED
  BY <1>1, <1>2, <1>3, <1>4

LEMMA HeadAndTail ==
  ASSUME NEW S, NEW s \in Seq(S), s # <<>>
  PROVE  /\ <<Head(s)>> \o Tail(s) = s /\ Head(s) \in S /\ Tail(s) \in Seq(S)
         /\ Len(Tail(s)) = Len(s) - 1 /\ Head(s) = s[1] /\ Len(s) \in Nat \ {0}
         /\ \A i \in 1 .. Len(s) - 1 : Tail(s)[i] = s[i + 1]
<1>1. /\ Head(s) \in S /\ Tail(s) \in Seq(S) /\ Len(Tail(s)) = Len(s) - 1
      /\ \A i \in 1 .. Len(Tail(s)) : Tail(s)[i] = s[i + 1]
  BY HeadTailProperties
<1>2. Len(s) \in Nat \ {0}
  BY EmptySeq
<1>3. Head(s) = s[1]
  OBVIOUS
<1>4. <<Head(s)>> \o Tail(s) = s
  <2>1. SubSeq(s, 1, Len(s)) = <<s[1]>> \o SubSeq(s, 2, Len(s))
    <3>1. 1 \in 1 .. Len(s) /\ Len(s) \in 1 .. Len(s) /\ 1 + 1 = 2
      BY <1>2
    <3> QED
      BY <3>1, SubSeqRecursiveFirst
  <2> QED
    BY <1>3, <2>1, SubSeqFull, TailIsSubSeq
<1> QED
  BY <1>1, <1>2, <1>3, <1>4

\* A queue that holds the end of the stream last, if at all.
LEMMA EndlessSeq ==
  ASSUME NEW s \in Seq(Lines \union {End}), \A i \in 1 .. Len(s) : s[i] # End
  PROVE  s \in Seq(Lines)
<1>1. Len(s) \in Nat /\ s \in [1 .. Len(s) -> Lines \union {End}]
  BY LenProperties
<1>2. \A i \in 1 .. Len(s) : s[i] \in Lines
  BY <1>1
<1>3. s \in [1 .. Len(s) -> Lines]
  BY <1>1, <1>2
<1> QED
  BY <1>1, <1>3, SeqDef

LEMMA UnsealedAppend ==
  ASSUME NEW s \in Seq(Lines)
  PROVE  Unsealed(s) = s /\ Unsealed(Append(s, End)) = s
<1>0. Len(s) \in Nat
  BY LenProperties
<1>1. s # <<>> => s[Len(s)] \in Lines
  <2> SUFFICES ASSUME s # <<>> PROVE s[Len(s)] \in Lines
    OBVIOUS
  <2>1. Len(s) \in Nat \ {0}
    BY EmptySeq
  <2>2. Len(s) \in 1 .. Len(s)
    BY <2>1
  <2> QED
    BY <2>2, ElementOfSeq
<1>2. Unsealed(s) = s
  BY <1>1, LinesAssumption DEF Unsealed
<1> DEFINE a == Append(s, End)
<1>3. s \in Seq(Lines \union {End})
  BY SeqMonotonic
<1>4. /\ a \in Seq(Lines \union {End}) /\ a # <<>> /\ Len(a) = Len(s) + 1
      /\ \A i \in 1 .. Len(s) : a[i] = s[i]
      /\ a[Len(s) + 1] = End
  BY <1>3, AppendProperties
<1> HIDE DEF a
<1>5. Unsealed(a) = SubSeq(a, 1, Len(s))
  <2>1. Len(a) - 1 = Len(s)
    BY <1>0, <1>4
  <2> QED
    BY <1>4, <2>1 DEF Unsealed
<1>6. SubSeq(a, 1, Len(s)) = s
  <2>1. IsSeq(a) /\ IsSeq(s)
    BY <1>4 DEF IsSeq
  <2>2. Prefix(s, a)
    BY <1>0, <1>4, <2>1, PrefixAt
  <2> QED
    BY <2>2 DEF Prefix
<1> QED
  BY <1>2, <1>5, <1>6 DEF a

LEMMA QueueCases ==
  ASSUME NEW q \in Seq(Lines \union {End}), \A i \in 1 .. Len(q) : q[i] = End => i = Len(q)
  PROVE  q \in Seq(Lines) \/ \E s \in Seq(Lines) : q = Append(s, End)
<1>1. CASE q = <<>>
  BY <1>1, EmptySeq
<1>2. CASE q # <<>>
  <2>1. PICK s \in Seq(Lines \union {End}), e \in Lines \union {End} : q = Append(s, e)
    BY <1>2, SequenceEmptyOrAppend
  <2>2. /\ Len(s) \in Nat /\ Len(q) = Len(s) + 1 /\ \A i \in 1 .. Len(s) : q[i] = s[i]
    BY <2>1, AppendProperties, LenProperties
  <2>3. \A i \in 1 .. Len(s) : s[i] # End
    BY <2>2
  <2>4. s \in Seq(Lines)
    BY <2>3, EndlessSeq
  <2>5. e # End => q \in Seq(Lines)
    BY <2>1, <2>4, AppendProperties
  <2> QED
    BY <2>1, <2>4, <2>5
<1> QED
  BY <1>1, <1>2

\* Who takes the first of such a queue takes its first line, or its end.
LEMMA QueueTail ==
  ASSUME NEW q \in Seq(Lines \union {End}), \A i \in 1 .. Len(q) : q[i] = End => i = Len(q), q # <<>>
  PROVE  /\ Head(q) = End => Tail(q) = <<>> /\ Unsealed(q) = <<>>
         /\ Head(q) # End => Head(q) \in Lines /\ Unsealed(q) = <<Head(q)>> \o Unsealed(Tail(q))
<1>1. ASSUME NEW s \in Seq(Lines), s # <<>>
      PROVE  /\ Head(s) \in Lines /\ Tail(s) \in Seq(Lines) /\ <<Head(s)>> \o Tail(s) = s
             /\ Unsealed(s) = s /\ Unsealed(Tail(s)) = Tail(s) /\ Unsealed(Append(Tail(s), End)) = Tail(s)
  BY <1>1, HeadAndTail, UnsealedAppend
<1>2. CASE q \in Seq(Lines)
  BY <1>1, <1>2, LinesAssumption
<1>3. ASSUME NEW s \in Seq(Lines), q = Append(s, End)
      PROVE  /\ Head(q) = End => Tail(q) = <<>> /\ Unsealed(q) = <<>>
             /\ Head(q) # End => Head(q) \in Lines /\ Unsealed(q) = <<Head(q)>> \o Unsealed(Tail(q))
  <2>1. /\ Head(q) = IF s = <<>> THEN End ELSE Head(s)
        /\ Tail(q) = IF s = <<>> THEN <<>> ELSE Append(Tail(s), End)
    BY <1>3, HeadTailAppend
  <2>2. Unsealed(q) = s
    BY <1>3, UnsealedAppend
  <2> QED
    BY <1>1, <2>1, <2>2, LinesAssumption
<1> QED
  BY <1>2, <1>3, QueueCases

------------------------------------------------------------------------------
(* Every step of the supervisor keeps its invariant: the stream of lines. *)

LEMMA FlowTypes ==
  ASSUME TypeOK, EndIsLast
  PROVE  /\ Taken \in Seq(Lines) /\ Unsealed(queue) \in Seq(Lines) /\ Hand \in Seq(Lines)
         /\ Hand \o pipe \in Seq(Lines) /\ Coming \in Seq(Lines) /\ Taken \o Coming \in Seq(Lines)
<1>1. Taken \in Seq(Lines)
  BY EmptySeq DEF Taken, EndIsLast, Loop
<1>2. Unsealed(queue) \in Seq(Lines)
  <2>1. queue \in Seq(Lines \union {End}) /\ \A i \in 1 .. Len(queue) : queue[i] = End => i = Len(queue)
    BY DEF TypeOK, EndIsLast
  <2>2. queue \in Seq(Lines) \/ \E s \in Seq(Lines) : queue = Append(s, End)
    BY <2>1, QueueCases
  <2> QED
    BY <2>2, UnsealedAppend
<1>3. Hand \in Seq(Lines)
  BY EmptySeq DEF Hand, EndIsLast
<1>4. pipe \in Seq(Lines)
  BY DEF TypeOK
<1>5. Hand \o pipe \in Seq(Lines)
  BY <1>3, <1>4, ConcatProperties
<1>6. Coming \in Seq(Lines)
  BY <1>2, <1>5, ConcatProperties DEF Coming
<1>7. Taken \o Coming \in Seq(Lines)
  BY <1>1, <1>6, ConcatProperties
<1> QED
  BY <1>1, <1>2, <1>3, <1>5, <1>6, <1>7

LEMMA WriteFlow ==
  ASSUME TypeOK, EndIsLast, Flow, Write
  PROVE  Flow'
<1>1. PICK l \in Lines : said' = Append(said, l) /\ pipe' = Append(pipe, l)
  BY DEF Write
<1>2. Taken' = Taken /\ Unsealed(queue)' = Unsealed(queue) /\ Hand' = Hand /\ native' = native /\ pc' = pc
  BY DEF Write, Taken, Unsealed, Hand, lineVars, fileVars
<1>3. native \in Seq(Lines) /\ said \in Seq(Lines) /\ pipe \in Seq(Lines)
  BY DEF TypeOK
<1>4. Coming' = Append(Coming, l)
  <2>1. Hand \o Append(pipe, l) = Append(Hand \o pipe, l)
    BY <1>3, FlowTypes, Appended
  <2>2. Unsealed(queue) \o Append(Hand \o pipe, l) = Append(Unsealed(queue) \o (Hand \o pipe), l)
    BY FlowTypes, Appended
  <2> QED
    BY <1>1, <1>2, <2>1, <2>2 DEF Coming
<1>5. pc' \in Early \union Loop \union Over => said' = native' \o (Taken \o Coming)'
  <2>1. Taken \o Append(Coming, l) = Append(Taken \o Coming, l)
    BY FlowTypes, Appended
  <2>2. native \o Append(Taken \o Coming, l) = Append(native \o (Taken \o Coming), l)
    <3>1. Taken \o Coming \in Seq(Lines)
      BY FlowTypes
    <3> QED
      BY <1>3, <3>1, Appended
  <2> QED
    BY <1>1, <1>2, <1>4, <2>1, <2>2 DEF Flow
<1>6. Prefix(native, said')
  <2>1. IsSeq(native) /\ IsSeq(said) /\ IsSeq(<<l>>)
    BY <1>3, TupleSeqs DEF IsSeq
  <2>2. said' = said \o <<l>>
    BY <1>1, <1>3, AppendIsConcat
  <2>3. IsSeq(said') /\ Prefix(said, said')
    BY <2>1, <2>2, Concat, PrefixFacts
  <2> QED
    BY <2>1, <2>3, PrefixFacts DEF Flow
<1> QED
  BY <1>2, <1>5, <1>6 DEF Flow

LEMMA ReaderFlow ==
  ASSUME TypeOK, EndIsLast, Flow, Read \/ Put
  PROVE  Flow'
<1>1. Taken' = Taken /\ native' = native /\ said' = said /\ pc' = pc
  BY DEF Read, Put, Taken, lineVars, fileVars, agentVars
<1>2. native \in Seq(Lines) /\ said \in Seq(Lines) /\ pipe \in Seq(Lines)
  BY DEF TypeOK
<1>3. CASE Read
  <2>1. Unsealed(queue)' = Unsealed(queue) /\ Hand = <<>>
    BY <1>3 DEF Read, Unsealed, Hand
  <2>2. Hand' \o pipe' = pipe
    <3>1. CASE pipe # <<>> /\ inHand' = Head(pipe) /\ pipe' = Tail(pipe)
      <4>1. Head(pipe) \in Lines /\ <<Head(pipe)>> \o Tail(pipe) = pipe
        BY <1>2, <3>1, HeadAndTail
      <4>2. Hand' = <<Head(pipe)>>
        BY <1>3, <3>1, <4>1, LinesAssumption DEF Read, Hand
      <4> QED
        BY <3>1, <4>1, <4>2
    <3>2. CASE inHand' = End /\ pipe' = pipe
      <4>1. Hand' = <<>>
        BY <3>2 DEF Hand
      <4> QED
        BY <1>2, <3>2, <4>1, ConcatEmptySeq
    <3> QED
      BY <1>3, <3>1, <3>2 DEF Read
  <2>3. <<>> \o pipe = pipe
    BY <1>2, ConcatEmptySeq
  <2>4. Coming' = Coming
    BY <2>1, <2>2, <2>3 DEF Coming
  <2> QED
    BY <1>1, <2>4 DEF Flow
<1>4. CASE Put
  <2>1. /\ reader = "put" /\ queue' = Append(queue, inHand) /\ Hand' = <<>> /\ pipe' = pipe
        /\ inHand \in Lines \union {End}
    BY <1>4 DEF Put, Hand, EndIsLast
  <2>2. queue \in Seq(Lines)
    <3>1. queue \in Seq(Lines \union {End}) /\ \A i \in 1 .. Len(queue) : queue[i] # End
      BY <2>1 DEF TypeOK, EndIsLast
    <3> QED
      BY <3>1, EndlessSeq
  <2>3. CASE inHand = End
    <3>1. Unsealed(queue') = queue /\ Unsealed(queue) = queue /\ Hand = <<>>
      BY <2>1, <2>2, <2>3, UnsealedAppend DEF Hand
    <3>2. Coming' = Coming
      BY <2>1, <3>1 DEF Coming
    <3> QED
      BY <1>1, <3>2 DEF Flow
  <2>4. CASE inHand # End
    <3>1. inHand \in Lines /\ Hand = <<inHand>>
      BY <2>1, <2>4 DEF Hand
    <3>2. queue' \in Seq(Lines)
      BY <2>1, <2>2, <3>1, AppendProperties
    <3>3. Unsealed(queue') = queue' /\ Unsealed(queue) = queue
      BY <2>2, <3>2, UnsealedAppend
    <3>4. queue \o (<<inHand>> \o pipe) = Append(queue, inHand) \o (<<>> \o pipe)
      BY <1>2, <2>2, <3>1, Appended
    <3>5. Coming' = Coming
      BY <2>1, <3>1, <3>3, <3>4 DEF Coming
    <3> QED
      BY <1>1, <3>5 DEF Flow
  <2> QED
    BY <2>3, <2>4
<1> QED
  BY <1>3, <1>4

LEMMA GetFlow ==
  ASSUME TypeOK, EndIsLast, Flow, Get
  PROVE  Flow'
<1>1. /\ queue # <<>> /\ queue' = Tail(queue) /\ pc = "get" /\ Taken = <<>>
      /\ native' = native /\ said' = said /\ Hand' = Hand /\ pipe' = pipe
  BY DEF Get, Goto, Taken, Hand, fileVars, agentVars
<1>2. queue \in Seq(Lines \union {End}) /\ \A i \in 1 .. Len(queue) : queue[i] = End => i = Len(queue)
  BY DEF TypeOK, EndIsLast
<1> DEFINE r == Hand \o pipe
<1>3. r \in Seq(Lines) /\ Unsealed(queue) \in Seq(Lines) /\ Unsealed(queue) \o r \in Seq(Lines)
  BY FlowTypes DEF Coming
<1>4. Taken' \o Coming' = Taken \o Coming
  <2>1. CASE Head(queue) = End
    <3>1. Taken' = <<>> /\ Unsealed(queue') = <<>> /\ Unsealed(queue) = <<>>
      <4>1. Tail(queue) = <<>> /\ Unsealed(queue) = <<>>
        BY <1>1, <1>2, <2>1, QueueTail
      <4>2. Taken' = <<>>
        BY <2>1 DEF Get, Goto, Taken
      <4> QED
        BY <1>1, <4>1, <4>2 DEF Unsealed
    <3> QED
      BY <1>1, <3>1 DEF Coming
  <2>2. CASE Head(queue) # End
    <3> DEFINE h == Head(queue)
               u == Unsealed(queue')
    <3>1. Taken' = <<h>>
      BY <2>2 DEF Get, Goto, Taken
    <3>2. h \in Lines /\ Unsealed(queue) = <<h>> \o u
      BY <1>1, <1>2, <2>2, QueueTail
    <3>3. u \in Seq(Lines)
      <4>1. queue' \in Seq(Lines \union {End}) /\ Len(queue') = Len(queue) - 1 /\ Len(queue) \in Nat \ {0}
            /\ \A i \in 1 .. Len(queue) - 1 : queue'[i] = queue[i + 1]
        BY <1>1, <1>2, HeadAndTail
      <4>2. \A i \in 1 .. Len(queue') : queue'[i] = End => i = Len(queue')
        BY <1>2, <4>1
      <4> QED
        BY <4>1, <4>2, QueueCases, UnsealedAppend
    <3> HIDE DEF h, u, r
    <3>4. <<h>> \in Seq(Lines)
      BY <3>2
    <3>5. <<h>> \o (u \o r) = (<<h>> \o u) \o r
      BY <1>3, <3>3, <3>4, ConcatAssociative
    <3>6. <<>> \o (Unsealed(queue) \o r) = Unsealed(queue) \o r
      BY <1>3, ConcatEmptySeq
    <3>7. Coming' = u \o r /\ Coming = Unsealed(queue) \o r
      BY <1>1 DEF Coming, u, r
    <3> QED
      BY <1>1, <3>1, <3>2, <3>5, <3>6, <3>7
  <2> QED
    BY <2>1, <2>2
<1> QED
  BY <1>1, <1>4 DEF Flow, Loop

LEMMA NativeFlow ==
  ASSUME TypeOK, EndIsLast, Flow, WriteNative
  PROVE  Flow'
<1>1. native \in Seq(Lines) /\ said \in Seq(Lines) /\ line \in Lines /\ pc = "native"
  BY DEF TypeOK, EndIsLast, Loop, WriteNative, Goto, Fails
<1>2. said' = said /\ Coming' = Coming
  BY DEF WriteNative, agentVars, readerVars, Coming, Unsealed, Hand
<1>3. CASE pc' = "feed" /\ native' = Append(native, line)
  <2>1. Taken = <<line>> /\ Taken' = <<>>
    BY <1>1, <1>3 DEF Taken
  <2>2. said = native \o (<<line>> \o Coming)
    BY <1>1, <2>1 DEF Flow, Loop
  <2>3. said' = native' \o (<<>> \o Coming)
    <3>1. Coming \in Seq(Lines)
      BY FlowTypes
    <3>2. native \o (<<line>> \o Coming) = Append(native, line) \o (<<>> \o Coming)
      BY <1>1, <3>1, Appended
    <3> QED
      BY <1>2, <1>3, <2>2, <3>2
  <2>4. <<>> \o Coming = Coming /\ native' \in Seq(Lines) /\ Coming \in Seq(Lines)
    BY <1>1, <1>3, FlowTypes, ConcatEmptySeq, AppendProperties
  <2>5. Prefix(native', said')
    <3>1. IsSeq(native') /\ IsSeq(Coming)
      BY <2>4 DEF IsSeq
    <3> QED
      BY <2>3, <2>4, <3>1, PrefixFacts
  <2> QED
    BY <1>2, <2>1, <2>3, <2>5 DEF Flow
<1>4. CASE pc' = "failing" /\ native' = native
  BY <1>2, <1>4 DEF Flow, Early, Loop, Over
<1> QED
  BY <1>3, <1>4 DEF WriteNative, Goto, Fails, fileVars

LEMMA FlowStep ==
  ASSUME TypeOK, EndIsLast, Flow, [Next]_vars
  PROVE  Flow'
<1> USE DEF Early, Loop, Over
<1>1. ASSUME UNCHANGED <<said, native, Taken, Coming>>,
             pc' \in Early \union Loop \union Over => pc \in Early \union Loop \union Over
      PROVE  Flow'
  BY <1>1 DEF Flow
<1>2. ASSUME UNCHANGED <<said, native, queue, pipe, inHand, line>>,
             UNCHANGED reader \/ (pc = "publish" /\ reader' = "read"),
             pc # "native", pc' # "native",
             pc' \in Early \union Loop \union Over => pc \in Early \union Loop \union Over
      PROVE  Flow'
  <2>1. Hand' = Hand
    BY <1>2 DEF Hand, EndIsLast
  <2>2. Coming' = Coming
    BY <1>2, <2>1 DEF Coming, Unsealed
  <2> QED
    BY <1>2, <2>2 DEF Flow, Taken
<1>3. CASE Write \/ Read \/ Put \/ Get \/ WriteNative
  BY <1>3, WriteFlow, ReaderFlow, GetFlow, NativeFlow
<1>4. CASE Spawn \/ LetGo \/ AgentEnds \/ Terminate \/ Kill \/ Capture \/ UNCHANGED vars
  BY <1>1, <1>4 DEF Spawn, LetGo, AgentEnds, Terminate, Kill, Capture, Goto, vars, agentVars,
     readerVars, lineVars, fileVars, Taken, Coming, Unsealed, Hand
<1>5. CASE Setup \/ Start \/ Popen \/ Attach
  BY <1>2, <1>5 DEF Setup, Start, Popen, Attach, Goto, Raise, agentVars, readerVars, lineVars, fileVars
<1>6. CASE Heartbeat \/ FeedLine \/ WriteTrajectory \/ WriteUsage \/ PublishLine \/ Wait \/ Finalize \/ LastPublish
  <2>1. UNCHANGED <<said, native, queue, pipe, inHand, reader>>
    BY <1>6 DEF Heartbeat, FeedLine, WriteTrajectory, WriteUsage, PublishLine, Wait, Finalize, LastPublish, Goto,
       Fails, agentVars, readerVars, fileVars
  <2>2. /\ pc # "native" /\ pc' # "native"
        /\ pc' \in Early \union Loop \union Over => pc \in Early \union Loop \union Over
    BY <1>6 DEF Heartbeat, FeedLine, WriteTrajectory, WriteUsage, PublishLine, Wait, Finalize, LastPublish, Goto, Fails
  <2>3. Taken = <<>> /\ Taken' = <<>>
    BY <2>2 DEF Taken
  <2>4. Coming' = Coming
    BY <2>1 DEF Coming, Unsealed, Hand
  <2> QED
    BY <1>1, <2>1, <2>2, <2>3, <2>4
<1> QED
  BY <1>3, <1>4, <1>5, <1>6 DEF Next, Supervise

LEMMA EndIsLastStep ==
  ASSUME TypeOK, EndIsLast, [Next]_vars
  PROVE  EndIsLast'
<1> USE DEF Early, Loop, Over, Failing
<1>1. CASE Write
  <2>1. PICK l \in Lines : pipe' = Append(pipe, l)
    BY <1>1 DEF Write
  <2> QED
    BY <1>1 DEF Write, EndIsLast, lineVars
<1>2. CASE Spawn \/ LetGo \/ AgentEnds \/ Heartbeat \/ Terminate \/ Kill \/ Capture \/ UNCHANGED vars
  BY <1>2 DEF Spawn, LetGo, AgentEnds, Heartbeat, Terminate, Kill, Capture, Goto, Fails, vars, agentVars,
     readerVars, lineVars, EndIsLast
<1>3. CASE Read
  <2>1. pipe # <<>> => Head(pipe) \in Lines
    BY HeadAndTail DEF TypeOK
  <2> QED
    BY <1>3, <2>1, LinesAssumption DEF Read, EndIsLast, lineVars, agentVars
<1>4. CASE Put
  <2>1. /\ reader = "put" /\ queue' = Append(queue, inHand) /\ inHand \in Lines \union {End}
        /\ queue \in Seq(Lines \union {End}) /\ pc' = pc /\ line' = line /\ pipe' = pipe
        /\ holders' = holders /\ reader' = (IF inHand = End THEN "done" ELSE "read")
    BY <1>4 DEF Put, EndIsLast, TypeOK, lineVars, agentVars
  <2>2. /\ Len(queue') = Len(queue) + 1 /\ queue'[Len(queue) + 1] = inHand /\ Len(queue) \in Nat
        /\ \A i \in 1 .. Len(queue) : queue'[i] = queue[i]
    BY <2>1, AppendProperties, LenProperties
  <2>3. \A i \in 1 .. Len(queue) : queue[i] # End
    BY <2>1 DEF EndIsLast
  <2>4. \A i \in 1 .. Len(queue') : queue'[i] = End => i = Len(queue') /\ reader' = "done"
    BY <2>1, <2>2, <2>3
  <2> QED
    BY <2>1, <2>4 DEF EndIsLast
<1>5. CASE Get
  <2>1. /\ queue \in Seq(Lines \union {End}) /\ queue # <<>> /\ queue' = Tail(queue)
        /\ \A i \in 1 .. Len(queue) : queue[i] = End => i = Len(queue) /\ reader = "done"
        /\ UNCHANGED <<reader, inHand, pipe, holders>> /\ pc = "get"
    BY <1>5 DEF Get, TypeOK, EndIsLast, agentVars, Goto
  <2>2. /\ queue' \in Seq(Lines \union {End}) /\ Len(queue') = Len(queue) - 1 /\ Head(queue) = queue[1]
        /\ Len(queue) \in Nat \ {0} /\ \A i \in 1 .. Len(queue) - 1 : queue'[i] = queue[i + 1]
        /\ Head(queue) \in Lines \union {End}
    BY <2>1, HeadAndTail
  <2> DEFINE n == Len(queue)
  <2>n. n \in Nat \ {0} /\ Len(queue') = n - 1 /\ n = Len(queue)
    BY <2>2
  <2> HIDE DEF n
  <2>3. \A i \in 1 .. Len(queue') : queue'[i] = End => i = Len(queue') /\ reader' = "done"
    <3> SUFFICES ASSUME NEW i \in 1 .. n - 1, queue'[i] = End PROVE i = n - 1 /\ reader = "done"
      BY <2>1, <2>n
    <3>1. i + 1 \in 1 .. n /\ i \in 1 .. n - 1
      BY <2>n
    <3>2. queue[i + 1] = End
      BY <2>2, <2>n, <3>1
    <3>3. i + 1 = n /\ reader = "done"
      BY <2>1, <2>n, <3>1, <3>2
    <3> QED
      BY <2>n, <3>3
  <2>4. CASE Head(queue) = End
    <3>1. Len(queue) = 1 /\ reader = "done"
      <4>1. 1 \in 1 .. n
        BY <2>n
      <4> QED
        BY <2>1, <2>2, <2>4, <2>n, <4>1
    <3>2. queue' = <<>>
      BY <2>2, <3>1, EmptySeq
    <3> QED
      BY <1>5, <2>1, <2>3, <2>4, <3>1, <3>2 DEF Get, Goto, EndIsLast
  <2>5. CASE Head(queue) # End
    BY <1>5, <2>1, <2>2, <2>3, <2>5 DEF Get, Goto, EndIsLast
  <2> QED
    BY <2>4, <2>5
<1>6. CASE Setup \/ Start \/ Popen \/ Attach
  BY <1>6 DEF Setup, Start, Popen, Attach, Goto, Raise, agentVars, readerVars, lineVars, EndIsLast
<1>7. CASE WriteNative \/ FeedLine \/ WriteTrajectory \/ WriteUsage \/ PublishLine \/ Wait \/ Finalize
           \/ LastPublish
  <2>1. UNCHANGED <<queue, pipe, inHand, reader, holders>>
    BY <1>7 DEF WriteNative, FeedLine, WriteTrajectory, WriteUsage, PublishLine, Wait, Finalize,
       LastPublish, agentVars, readerVars
  <2>2. /\ pc \in Loop \union Over \union Failing
        /\ pc' \in Loop \union Over \union Failing \union {"returned"}
        /\ pc' \in Over => pc \in Over
        /\ pc' \in Loop \ {"get"} => pc \in Loop \ {"get"} /\ line' = line
    BY <1>7 DEF WriteNative, FeedLine, WriteTrajectory, WriteUsage, PublishLine, Wait, Finalize,
       LastPublish, Goto, Fails, lineVars
  <2> QED
    BY <2>1, <2>2 DEF EndIsLast
<1> QED
  BY <1>1, <1>2, <1>3, <1>4, <1>5, <1>6, <1>7 DEF Next, Supervise

------------------------------------------------------------------------------
(* The normalizer and its files. *)

\* What a file becomes is a boolean and a sequence of events, which stays within the bound.
LEMMA NormalizedRecord ==
  ASSUME NEW S, NEW s \in Seq(S)
  PROVE  /\ Normalized(s) = [ok |-> Normalized(s).ok, events |-> Normalized(s).events]
         /\ Normalized(s).ok \in BOOLEAN
<1>1. CASE s = <<>>
  <2>1. Normalized(s) = [ok |-> TRUE, events |-> <<>>]
    BY <1>1, NormalizedAppend DEF Nothing
  <2> QED
    BY <2>1
<1>2. CASE s # <<>>
  <2>1. PICK t \in Seq(S), l \in S : s = Append(t, l)
    BY <1>2, SequenceEmptyOrAppend
  <2> DEFINE before == Normalized(t)
  <2>2. Normalized(s) = After(before, l)
    BY <2>1, NormalizedAppend
  <2> HIDE DEF before
  <2>3. After(before, l) = [ok |-> Feed(l, before.events).ok /\ before.ok, events |-> Feed(l, before.events).events]
    <3> DEFINE fed == Feed(l, before.events)
    <3>1. fed = [ok |-> fed.ok, events |-> fed.events]
      BY Zenon DEF Feed
    <3> HIDE DEF fed
    <3>2. [fed EXCEPT !.ok = @ /\ before.ok] = [ok |-> fed.ok /\ before.ok, events |-> fed.events]
      BY <3>1
    <3> QED
      BY <3>2 DEF After, fed
  <2> QED
    BY <2>2, <2>3
<1> QED
  BY <1>1, <1>2

LEMMA NormalizedShape ==
  ASSUME NEW S, NEW s \in Seq(S), IsSeq(Normalized(s).events), Len(Normalized(s).events) <= MaxEvents,
         NEW l \in S
  PROVE  LET fed == Feed(l, Normalized(s).events)
         IN  /\ Normalized(Append(s, l)).ok <=> fed.ok /\ Normalized(s).ok
             /\ Normalized(Append(s, l)).events = fed.events
             /\ IsSeq(fed.events) /\ Len(fed.events) <= MaxEvents
             /\ Prefix(Normalized(s).events, fed.events)
<1> DEFINE now == Normalized(s)
           fed == Feed(l, now.events)
<1>1. Normalized(Append(s, l)) = [fed EXCEPT !.ok = @ /\ now.ok]
  BY NormalizedAppend DEF After
<1>2. IsSeq(fed.events) /\ Len(fed.events) <= MaxEvents /\ Prefix(now.events, fed.events)
  BY FeedAdds
<1>3. [fed EXCEPT !.ok = @ /\ now.ok].events = fed.events
      /\ ([fed EXCEPT !.ok = @ /\ now.ok].ok <=> fed.ok /\ now.ok)
  BY DEF Feed
<1> HIDE DEF fed, now
<1> QED
  BY <1>1, <1>2, <1>3 DEF fed, now

LEMMA WriteNativeEvents ==
  ASSUME TypeOK, Shaped, EndIsLast, EventsAreNative, WriteNative
  PROVE  EventsAreNative' /\ Shaped'
<1> USE DEF Early, Loop, Over
<1>1. /\ native \in Seq(Lines) /\ line \in Lines /\ pc = "native" /\ MaxEvents \in Nat /\ Len(native) \in Nat
      /\ UNCHANGED <<line, emitter, counted, trajectory, emitted>>
  BY MaxEventsAssumption, LenProperties
     DEF TypeOK, EndIsLast, WriteNative, Goto, Fails, lineVars, fileVars
<1>2. /\ Normal.ok /\ Normal.events = emitter /\ counted = Len(native) /\ trajectory = emitter
      /\ IsSeq(emitter) /\ Len(emitter) <= MaxEvents /\ IsSeq(emitted)
  BY <1>1 DEF EventsAreNative, Shaped, TypeOK
<1>3. CASE pc' = "feed" /\ native' = Append(native, line)
  <2>1. /\ Normalized(Append(native, line)).ok <=> Feed(line, emitter).ok
        /\ Normalized(Append(native, line)).events = Feed(line, emitter).events
        /\ IsSeq(Feed(line, emitter).events) /\ Len(Feed(line, emitter).events) <= MaxEvents
        /\ Prefix(emitter, Feed(line, emitter).events)
    <3>1. /\ Normalized(native).ok /\ Normalized(native).events = emitter
      BY <1>2 DEF Normal
    <3>2. LET fed == Feed(line, Normalized(native).events)
          IN  /\ Normalized(Append(native, line)).ok <=> fed.ok /\ Normalized(native).ok
              /\ Normalized(Append(native, line)).events = fed.events
              /\ IsSeq(fed.events) /\ Len(fed.events) <= MaxEvents
              /\ Prefix(Normalized(native).events, fed.events)
      BY <1>1, <1>2, <3>1, NormalizedShape
    <3> QED
      BY <3>1, <3>2
  <2>2. Normal' = Normalized(Append(native, line))
    BY <1>3 DEF Normal
  <2>3. Len(native') = counted + 1
    BY <1>1, <1>2, <1>3, AppendProperties
  <2>4. counted <= Len(native')
    BY <1>1, <1>2, <2>3
  <2>5. EventsAreNative'
    BY <1>1, <1>2, <1>3, <2>1, <2>2, <2>3, <2>4 DEF EventsAreNative
  <2>6. Shaped'
    BY <1>1, <1>2, <2>1, <2>2 DEF Shaped
  <2> QED
    BY <2>5, <2>6
<1>4. CASE pc' = "failing" /\ native' = native
  <2>1. Normal' = Normal
    BY <1>4 DEF Normal
  <2> QED
    BY <1>1, <1>4, <2>1 DEF EventsAreNative, Shaped
<1> QED
  BY <1>3, <1>4 DEF WriteNative, Goto, Fails, fileVars

LEMMA FeedLineEvents ==
  ASSUME TypeOK, Shaped, EventsAreNative, FeedLine
  PROVE  EventsAreNative' /\ Shaped' /\ Len(emitted') <= MaxEvents /\ Len(emitter') <= MaxEvents
<1> USE DEF Early, Loop, Over
<1> DEFINE fed == Feed(line, emitter)
           rest == SubSeq(fed.events, Len(emitter) + 1, Len(fed.events))
<1>1. /\ pc = "feed" /\ pc' = (IF fed.ok THEN "trajectory" ELSE "failing")
      /\ emitter' = fed.events /\ counted' = counted + (IF fed.ok THEN 1 ELSE 0) /\ emitted' = rest
      /\ UNCHANGED <<native, trajectory, line>>
  BY DEF FeedLine, Goto
<1>2. /\ IsSeq(emitter) /\ Len(emitter) <= MaxEvents /\ IsSeq(trajectory) /\ IsSeq(Normal.events)
      /\ counted \in Nat /\ Len(native) \in Nat
  BY LenProperties DEF Shaped, TypeOK
<1>3. /\ IsSeq(fed.events) /\ Len(fed.events) <= MaxEvents
      /\ IsSeq(rest) /\ Len(rest) <= MaxEvents /\ emitter \o rest = fed.events
  BY <1>2, FeedAdds
<1>4. Normal' = Normal
  BY <1>1 DEF Normal
<1>5. /\ Normal.ok <=> fed.ok
      /\ Normal.events = fed.events
      /\ counted + 1 = Len(native) /\ trajectory = emitter
      /\ Prefix(trajectory, Normal.events) /\ Len(Normal.events) <= MaxEvents
  BY <1>1 DEF EventsAreNative
<1> HIDE DEF fed, rest
<1>6. EventsAreNative'
  BY <1>1, <1>2, <1>3, <1>4, <1>5 DEF EventsAreNative
<1> QED
  BY <1>1, <1>2, <1>3, <1>4, <1>6 DEF Shaped

LEMMA TrajectoryEvents ==
  ASSUME TypeOK, Shaped, EventsAreNative, WriteTrajectory
  PROVE  EventsAreNative' /\ Shaped' /\ Len(trajectory') <= MaxEvents /\ Len(trajectory) <= Len(trajectory')
<1> USE DEF Early, Loop, Over
<1>1. /\ pc = "trajectory" /\ UNCHANGED <<native, emitter, counted, line, emitted>>
  BY DEF WriteTrajectory, Goto, lineVars
<1>2. Normal' = Normal
  BY <1>1 DEF Normal
<1>3. /\ IsSeq(trajectory) /\ IsSeq(emitted) /\ IsSeq(emitter) /\ Len(emitter) <= MaxEvents
      /\ Normal.ok /\ Normal.events = emitter /\ trajectory \o emitted = emitter /\ IsSeq(Normal.events)
      /\ MaxEvents \in Nat /\ Len(trajectory) \in Nat /\ Len(emitted) \in Nat /\ Len(emitter) \in Nat
  BY <1>1, SeqFacts, MaxEventsAssumption DEF Shaped, TypeOK, EventsAreNative
<1>4. CASE pc' = "usage" /\ trajectory' = trajectory \o emitted
  <2>1. Prefix(emitter, emitter) /\ Len(trajectory) <= Len(emitter)
    <3>1. Prefix(trajectory, emitter)
      BY <1>3, PrefixFacts
    <3> QED
      BY <1>3, <3>1, PrefixFacts DEF Prefix
  <2> QED
    BY <1>1, <1>2, <1>3, <1>4, <2>1 DEF EventsAreNative, Shaped
<1>5. ASSUME pc' = "failing", NEW n \in 0 .. Len(emitted) - 1, trajectory' = trajectory \o SubSeq(emitted, 1, n)
      PROVE  EventsAreNative' /\ Shaped' /\ Len(trajectory') <= MaxEvents /\ Len(trajectory) <= Len(trajectory')
  <2>1. n \in 0 .. Len(emitted)
    BY <1>3
  <2>2. /\ IsSeq(trajectory') /\ Len(trajectory') <= Len(emitter) /\ Prefix(trajectory', emitter)
        /\ Prefix(trajectory, trajectory')
    BY <1>3, <1>5, <2>1, PartPrefix
  <2>3. Len(trajectory') <= MaxEvents /\ Len(trajectory) <= Len(trajectory')
    <3>1. Len(trajectory') \in Nat
      BY <2>2, SeqFacts
    <3> QED
      BY <1>3, <2>2, <3>1 DEF Prefix
  <2> QED
    BY <1>1, <1>2, <1>3, <1>5, <2>2, <2>3 DEF EventsAreNative, Shaped
<1> QED
  BY <1>4, <1>5 DEF WriteTrajectory, Goto

LEMMA EventsStep ==
  ASSUME TypeOK, Shaped, EndIsLast, EventsAreNative, [Next]_vars
  PROVE  EventsAreNative' /\ Shaped'
<1> USE DEF Early, Loop, Over
<1>1. CASE WriteNative \/ FeedLine \/ WriteTrajectory
  BY <1>1, WriteNativeEvents, FeedLineEvents, TrajectoryEvents
<1>2. CASE ~(WriteNative \/ FeedLine \/ WriteTrajectory)
  <2>1. UNCHANGED <<native, emitter, counted, trajectory>>
    BY <1>2 DEF Next, Supervise, Write, Spawn, LetGo, AgentEnds, Read, Put, Setup, Start, Popen, Attach,
       Heartbeat, Get, WriteUsage, PublishLine, Wait, Finalize, Terminate, Kill, LastPublish, Capture,
       Fails, fileVars, vars
  <2>2. Normal' = Normal
    BY <2>1 DEF Normal
  <2>3. emitted' = emitted \/ emitted' = <<>>
    BY <1>2 DEF Next, Supervise, Write, Spawn, LetGo, AgentEnds, Read, Put, Setup, Start, Popen, Attach,
       Heartbeat, Get, WriteUsage, PublishLine, Wait, Finalize, Terminate, Kill, LastPublish, Capture,
       lineVars, vars
  <2>4. Shaped'
    BY <2>1, <2>2, <2>3, TupleSeqs DEF Shaped
  <2>5. /\ pc' \in (Early \union Loop \union Over) => pc \in (Early \union Loop \union Over)
        /\ pc' \in {"feed", "trajectory"} \/ pc \in {"feed", "trajectory"} => pc' = pc /\ emitted' = emitted /\ line' = line
        /\ pc' = "last" => pc = "last" \/ WellFormed(emitter)
    BY <1>2 DEF Next, Supervise, Write, Spawn, LetGo, AgentEnds, Read, Put, Setup, Start, Popen, Attach,
       Heartbeat, Get, WriteUsage, PublishLine, Wait, Finalize, Terminate, Kill, LastPublish, Capture,
       Fails, Goto, Raise, Finalizes, lineVars, vars
  <2>6. EventsAreNative'
    BY <2>1, <2>2, <2>5 DEF EventsAreNative
  <2> QED
    BY <2>4, <2>6
<1> QED
  BY <1>1, <1>2

------------------------------------------------------------------------------
(* The end of the script, its progress and its capture. *)

\* When the loop is over without a failure, every line has been written.
LEMMA NothingIsComing ==
  ASSUME TypeOK, Flow, EndIsLast, pc \in Over
  PROVE  native = said
<1>1. reader = "done" /\ queue = <<>> /\ pipe = <<>> /\ pc # "native"
  BY DEF EndIsLast, Over
<1>2. Taken = <<>> /\ Hand = <<>> /\ Unsealed(queue) = <<>>
  BY <1>1 DEF Taken, Hand, Unsealed
<1>3. native \in Seq(Lines)
  BY DEF TypeOK
<1>4. <<>> \o <<>> = <<>> /\ native \o <<>> = native
  BY <1>3, ConcatEmptySeq, EmptySeq
<1> QED
  BY <1>1, <1>2, <1>4 DEF Flow, Coming

LEMMA EndIsTrueStep ==
  ASSUME TypeOK, Flow, EndIsLast, EventsAreNative, EndIsTrue, [Next]_vars
  PROVE  EndIsTrue'
<1> USE DEF Early, Loop, Over, Failing
<1>0. UNCHANGED native => Normal' = Normal
  BY DEF Normal
<1>1. CASE Write \/ Spawn \/ LetGo \/ AgentEnds
  BY <1>0, <1>1 DEF Write, Spawn, LetGo, AgentEnds, Running, EndIsTrue, lineVars, fileVars, endVars
<1>2. CASE Read \/ Put \/ Heartbeat \/ Get \/ WriteUsage \/ PublishLine \/ UNCHANGED vars
  BY <1>0, <1>2 DEF Read, Put, Heartbeat, Get, WriteUsage, PublishLine, Goto, Fails, Publish, EndIsTrue,
     vars, agentVars, fileVars, endVars
<1>3. CASE Setup \/ Start \/ Popen \/ Attach
  <2>1. /\ pc \in Early /\ result = -1 /\ exit = -1 /\ ~progress.started
        /\ pc \in {"setup", "start", "popen"} => agent = "none"
        /\ pc = "publish" => agent # "none"
    BY <1>3 DEF Setup, Start, Popen, Attach, Goto, EndIsTrue
  <2>2. CASE Setup
    BY <2>1, <2>2 DEF Setup, Goto, EndIsTrue, agentVars
  <2>3. CASE Start
    <3>1. pc = "start" /\ exit' = exit /\ agent' = agent
      BY <2>3 DEF Start, agentVars
    <3>2. CASE pc' = "popen" /\ Publish(FALSE) /\ UNCHANGED result
      <4>1. progress' = [started |-> FALSE, alive |-> FALSE, native |-> counted, canonical |-> Len(emitter)]
        BY <3>1, <3>2 DEF Publish
      <4> QED
        BY <2>1, <3>1, <3>2, <4>1 DEF EndIsTrue
    <3>3. CASE Raise /\ UNCHANGED progress
      BY <2>1, <3>1, <3>3 DEF Raise, EndIsTrue
    <3> QED
      BY <2>3, <3>2, <3>3 DEF Start
  <2>4. CASE Popen
    BY <2>1, <2>4 DEF Popen, Raise, EndIsTrue
  <2>5. CASE Attach
    BY <2>1, <2>5 DEF Attach, Raise, Publish, EndIsTrue, agentVars
  <2> QED
    BY <1>3, <2>2, <2>3, <2>4, <2>5
<1>4. CASE WriteNative \/ FeedLine \/ WriteTrajectory
  BY <1>4 DEF WriteNative, FeedLine, WriteTrajectory, Goto, Fails, EndIsTrue, agentVars, fileVars, endVars
<1>5. CASE Wait \/ Finalize \/ Terminate \/ Kill
  BY <1>0, <1>5 DEF Wait, Finalize, Terminate, Kill, Goto, EndIsTrue, agentVars, fileVars, endVars
<1>6. CASE LastPublish
  <2>1. /\ pc \in {"last", "lastfailed"} /\ pc' = "returned" /\ agent = "ended" /\ exit = -1
        /\ UNCHANGED <<agent, native, said, trajectory, exit, captured>>
    BY <1>6 DEF LastPublish, EndIsTrue, agentVars, fileVars
  <2>2. pc = "last" => native = said
    BY NothingIsComing
  <2>3. pc = "last" => Normal.ok /\ Normal.events = trajectory /\ WellFormed(trajectory)
    BY DEF EventsAreNative
  <2>4. result' = 0 => pc = "last"
    BY <1>6 DEF LastPublish
  <2> QED
    BY <1>0, <2>1, <2>2, <2>3, <2>4 DEF EndIsTrue
<1>7. CASE Capture
  <2>1. /\ pc = "returned" /\ exit' \in {result, 125} /\ (captured' <=> ~Running)
        /\ UNCHANGED <<agent, native, said, trajectory, pc, progress, result>>
    BY <1>7 DEF Capture, agentVars, fileVars
  <2>2. exit' = 0 => result = 0 /\ captured'
    BY <2>1 DEF EndIsTrue, Running
  <2> QED
    BY <1>0, <2>1, <2>2 DEF EndIsTrue
<1> QED
  BY <1>1, <1>2, <1>3, <1>4, <1>5, <1>6, <1>7 DEF Next, Supervise

\* The files only grow.
LEMMA FilesGrow ==
  ASSUME TypeOK, Shaped, EventsAreNative, [Next]_vars
  PROVE  Len(native) <= Len(native)' /\ Len(trajectory) <= Len(trajectory)'
<1>1. Len(native) \in Nat /\ Len(trajectory) \in Nat
  BY SeqFacts, LenProperties DEF TypeOK, Shaped
<1>2. CASE WriteNative
  <2>1. native' = native \/ native' = Append(native, line)
    BY <1>2 DEF WriteNative, Fails, fileVars
  <2>2. trajectory' = trajectory
    BY <1>2 DEF WriteNative, Fails, fileVars
  <2>3. native \in Seq(Lines \union {None}) /\ line \in Lines \union {None}
    BY SeqMonotonic DEF TypeOK
  <2>4. Len(Append(native, line)) = Len(native) + 1
    BY <2>3, AppendProperties
  <2> QED
    BY <1>1, <2>1, <2>2, <2>4
<1>3. CASE WriteTrajectory
  BY <1>1, <1>3, TrajectoryEvents DEF WriteTrajectory
<1>4. CASE ~(WriteNative \/ WriteTrajectory)
  <2>1. UNCHANGED <<native, trajectory>>
    BY <1>4 DEF Next, Supervise, Write, Spawn, LetGo, AgentEnds, Read, Put, Setup, Start, Popen, Attach,
       Heartbeat, Get, FeedLine, WriteUsage, PublishLine, Wait, Finalize, Terminate, Kill, LastPublish,
       Capture, Fails, fileVars, vars
  <2> QED
    BY <1>1, <2>1
<1> QED
  BY <1>2, <1>3, <1>4

LEMMA ProgressStep ==
  ASSUME TypeOK, Shaped, EndIsLast, EventsAreNative, EndIsTrue, ProgressIsTrue, CapturedAlone, [Next]_vars
  PROVE  ProgressIsTrue'
<1> USE DEF Early, Loop, Over, Failing
<1>1. /\ Len(native) \in Nat /\ Len(trajectory) \in Nat /\ Len(native)' \in Nat /\ Len(trajectory)' \in Nat
      /\ progress.native \in Nat /\ progress.canonical \in Nat
      /\ Len(native) <= Len(native)' /\ Len(trajectory) <= Len(trajectory)'
  <2>1. Len(native) \in Nat /\ Len(trajectory) \in Nat /\ progress.native \in Nat /\ progress.canonical \in Nat
    BY SeqFacts, LenProperties, SupervisorBounds, MaxEventsAssumption DEF TypeOK, Shaped, Progress
  <2>2. Len(trajectory)' \in Nat
    <3>1. Shaped'
      BY EventsStep
    <3> QED
      BY <3>1, SeqFacts DEF Shaped
  <2>3. Len(native)' \in Nat
    <3>1. native' = native \/ (native' = Append(native, line) /\ pc = "native")
      BY DEF Next, Supervise, Write, Spawn, LetGo, AgentEnds, Read, Put, Setup, Start, Popen, Attach,
         Heartbeat, Get, WriteNative, FeedLine, WriteTrajectory, WriteUsage, PublishLine, Wait, Finalize,
         Terminate, Kill, LastPublish, Capture, Fails, Goto, fileVars, vars
    <3>2. native \in Seq(Lines) /\ (pc = "native" => line \in Lines)
      BY DEF TypeOK, EndIsLast
    <3> QED
      BY <2>1, <3>1, <3>2, AppendProperties
  <2> QED
    BY <2>1, <2>2, <2>3, FilesGrow
<1>2. ASSUME UNCHANGED progress, Running' => Running \/ pc \in Early
      PROVE  ProgressIsTrue'
  <2>1. progress.started => pc \notin Early
    BY DEF EndIsTrue
  <2> QED
    BY <1>1, <1>2, <2>1 DEF ProgressIsTrue
<1>3. ASSUME Publish(TRUE), pc \in {"publish", "get", "progress"}, UNCHANGED <<native, trajectory>>
      PROVE  ProgressIsTrue'
  <2>1. progress'.native <= Len(native) /\ progress'.canonical <= Len(trajectory) /\ progress'.alive
    BY <1>1, <1>3 DEF Publish, EventsAreNative
  <2> QED
    BY <1>3, <2>1 DEF ProgressIsTrue
<1>4. ASSUME Publish(FALSE), pc = "start" \/ pc \in {"last", "lastfailed"}, UNCHANGED agent
      PROVE  ProgressIsTrue'
  BY <1>4 DEF Publish, ProgressIsTrue, EndIsTrue, Running
<1>5. CASE Write \/ Spawn \/ LetGo \/ AgentEnds \/ Read \/ Put \/ Setup \/ Popen \/ Get \/ Capture \/ UNCHANGED vars
  BY <1>2, <1>5 DEF Write, Spawn, LetGo, AgentEnds, Read, Put, Setup, Popen, Get, Capture, Goto, Running,
     vars, agentVars
<1>6. CASE WriteNative \/ FeedLine \/ WriteTrajectory \/ WriteUsage \/ Wait \/ Finalize \/ Kill
  BY <1>2, <1>6 DEF WriteNative, FeedLine, WriteTrajectory, WriteUsage, Wait, Finalize, Kill, Fails,
     Running, agentVars
<1>7. CASE Terminate
  <2>1. Running' => Running
    BY <1>7 DEF Terminate, Running, EndIsTrue, TypeOK
  <2> QED
    BY <1>2, <1>7, <2>1 DEF Terminate
<1>8. CASE Heartbeat \/ Attach \/ PublishLine
  BY <1>2, <1>3, <1>8 DEF Heartbeat, Attach, PublishLine, Goto, Fails, Running, agentVars, fileVars
<1>9. CASE Start \/ LastPublish
  BY <1>2, <1>4, <1>9 DEF Start, LastPublish, Running, agentVars
<1> QED
  BY <1>5, <1>6, <1>7, <1>8, <1>9 DEF Next, Supervise

LEMMA CapturedStep ==
  ASSUME TypeOK, EndIsLast, EndIsTrue, EndIsTrue', CapturedAlone, [Next]_vars
  PROVE  CapturedAlone'
<1> USE DEF Early, Loop, Over, Failing
<1>1. (exit = 0 => captured)'
  BY DEF EndIsTrue
<1>2. ASSUME pc' = "returned", (reader # "none")' PROVE ~Running'
  <2>1. CASE pc = "returned"
    <3>1. pc' = pc /\ (agent' = agent \/ agent' = "ended") /\ (reader # "none" \/ reader' = reader)
      BY <1>2, <2>1 DEF Next, Supervise, Write, Spawn, LetGo, AgentEnds, Read, Put, Setup, Start, Popen,
         Attach, Heartbeat, Get, WriteNative, FeedLine, WriteTrajectory, WriteUsage, PublishLine, Wait,
         Finalize, Terminate, Kill, LastPublish, Capture, Fails, Goto, Raise, agentVars, readerVars, vars
    <3> QED
      BY <1>2, <2>1, <3>1 DEF CapturedAlone, Running
  <2>2. CASE pc # "returned"
    <3>1. Setup \/ Start \/ Popen \/ Attach \/ LastPublish
      BY <1>2, <2>2 DEF Next, Supervise, Write, Spawn, LetGo, AgentEnds, Read, Put,
         Heartbeat, Get, WriteNative, FeedLine, WriteTrajectory, WriteUsage, PublishLine, Wait,
         Finalize, Terminate, Kill, Capture, Fails, Goto, vars
    <3>2. CASE LastPublish
      BY <3>2 DEF LastPublish, EndIsTrue, Running, agentVars
    <3>3. CASE Setup \/ Start \/ Popen \/ Attach
      <4>1. reader' = reader /\ pc \in Early
        BY <1>2, <3>3 DEF Setup, Start, Popen, Attach, Goto, readerVars
      <4> QED
        BY <1>2, <4>1 DEF EndIsLast
    <3> QED
      BY <3>1, <3>2, <3>3
  <2> QED
    BY <2>1, <2>2
<1> QED
  BY <1>1, <1>2 DEF CapturedAlone

------------------------------------------------------------------------------
(* Types, and the whole invariant. *)

LEMMA ObservationsBound ==
  ASSUME IsSeq(emitter), Len(emitter) <= MaxEvents
  PROVE  Observations \in 0 .. MaxEvents
<1> DEFINE all == 1 .. Len(emitter)
           some == {i \in all : emitter[i].kind = "usage"}
<1>1. Len(emitter) \in Nat /\ MaxEvents \in Nat
  BY SeqFacts, MaxEventsAssumption
<1>2. IsFiniteSet(all) /\ Cardinality(all) = Len(emitter)
  <2>1. 1 \in Int /\ Len(emitter) \in Int
    BY <1>1
  <2>2. IsFiniteSet(all) /\ Cardinality(all) = IF 1 > Len(emitter) THEN 0 ELSE Len(emitter) - 1 + 1
    BY <2>1, FS_Interval
  <2> QED
    BY <1>1, <2>2
<1>3. some \subseteq all
  OBVIOUS
<1>4. IsFiniteSet(some) /\ Cardinality(some) <= Cardinality(all)
  <2> HIDE DEF some, all
  <2> QED
    BY <1>2, <1>3, FS_Subset
<1>5. Cardinality(some) \in Nat
  BY <1>4, FS_CardinalityType
<1>6. Cardinality(some) \in 0 .. MaxEvents
  <2> HIDE DEF some, all
  <2> QED
    BY <1>1, <1>2, <1>4, <1>5
<1> QED
  BY <1>6 DEF Observations

\* The lines that the supervisor has counted are lines of the agent.
LEMMA CountsAreBounded ==
  ASSUME TypeOK, Shaped, Flow, EventsAreNative
  PROVE  /\ counted \in 0 .. MaxLines /\ Len(native) <= MaxLines
         /\ pc = "feed" => counted + 1 \in 0 .. MaxLines
         /\ \A alive \in BOOLEAN :
               [started |-> pc # "start", alive |-> alive, native |-> counted, canonical |-> Len(emitter)] \in Progress
<1>1. /\ counted \in Nat /\ Len(native) \in Nat /\ Len(said) \in Nat /\ Len(said) <= MaxLines /\ MaxLines \in Nat
      /\ Len(emitter) \in Nat /\ Len(emitter) <= MaxEvents /\ MaxEvents \in Nat
  BY SeqFacts, LenProperties, SupervisorBounds, MaxEventsAssumption DEF TypeOK, Shaped
<1>2. Len(native) <= Len(said) /\ counted <= Len(native) /\ (pc = "feed" => counted + 1 = Len(native))
  BY DEF Flow, Prefix, EventsAreNative
<1>3. counted \in 0 .. MaxLines /\ Len(emitter) \in 0 .. MaxEvents
  BY <1>1, <1>2
<1> QED
  BY <1>1, <1>2, <1>3 DEF Progress

\* The parts of the type invariant, and who leaves which alone.
AgentType ==
    agent \in {"none", "running", "stopping", "ended"} /\ code \in {0, 1}
    /\ holders \subseteq {"agent", "child"} /\ said \in Seq(Lines) /\ Len(said) <= MaxLines
ReaderType ==
    /\ pipe \in Seq(Lines) /\ Len(pipe) <= PipeSize
    /\ queue \in Seq(Lines \union {End}) /\ Len(queue) <= QueueSize
    /\ reader \in {"none", "read", "put", "done"} /\ inHand \in Lines \union {End, None}
PlaceType ==
    pc \in {"setup", "start", "popen", "publish", "get", "native", "feed", "trajectory", "usage", "progress",
            "wait", "finalize", "failing", "killing", "last", "lastfailed", "returned"}
LineType == line \in Lines \union {None} /\ Len(emitted) <= MaxEvents
FileType ==
    /\ native \in Seq(Lines) /\ Len(emitter) <= MaxEvents /\ Len(trajectory) <= MaxEvents
    /\ counted \in 0 .. MaxLines /\ usage \in 0 .. MaxEvents
EndType == result \in {-1, 0, 1} /\ captured \in BOOLEAN /\ exit \in {-1, 0, 1, 125}

LEMMA TypeParts ==
  /\ TypeOK <=> /\ AgentType /\ ReaderType /\ PlaceType /\ LineType /\ FileType /\ EndType
                /\ progress \in Progress
  /\ TypeOK' <=> /\ AgentType' /\ ReaderType' /\ PlaceType' /\ LineType' /\ FileType' /\ EndType'
                 /\ progress' \in Progress
  BY DEF TypeOK, AgentType, ReaderType, PlaceType, LineType, FileType, EndType

LEMMA TypesKept ==
  /\ AgentType /\ UNCHANGED agentVars => AgentType'
  /\ ReaderType /\ UNCHANGED readerVars => ReaderType'
  /\ LineType /\ UNCHANGED lineVars => LineType'
  /\ FileType /\ UNCHANGED fileVars => FileType'
  /\ EndType /\ UNCHANGED endVars => EndType'
  BY DEF AgentType, ReaderType, LineType, FileType, EndType, agentVars, readerVars, lineVars, fileVars, endVars

LEMMA TypeStep ==
  ASSUME TypeOK, Shaped, Flow, EndIsLast, EventsAreNative, [Next]_vars
  PROVE  TypeOK'
<1> USE DEF Early, Loop, Over, Failing
<1>t. /\ AgentType /\ ReaderType /\ PlaceType /\ LineType /\ FileType /\ EndType
      /\ progress \in Progress
  BY TypeParts
<1>0. 0 \in 0 .. MaxEvents /\ Len(<<>>) = 0 /\ 0 <= MaxEvents
  BY EmptySeq, MaxEventsAssumption
<1>1. CASE Write
  <2>1. PICK l \in Lines : said' = Append(said, l) /\ pipe' = Append(pipe, l)
    BY <1>1 DEF Write
  <2>2. /\ said' \in Seq(Lines) /\ Len(said') = Len(said) + 1 /\ Len(said) \in Nat
        /\ pipe' \in Seq(Lines) /\ Len(pipe') = Len(pipe) + 1 /\ Len(pipe) \in Nat
    BY <2>1, AppendProperties, LenProperties DEF TypeOK
  <2>3. Len(said') <= MaxLines /\ Len(pipe') <= PipeSize
    BY <1>1, <2>2, SupervisorBounds DEF Write
  <2>4. AgentType' /\ ReaderType'
    BY <1>1, <1>t, <2>2, <2>3 DEF Write, AgentType, ReaderType
  <2> QED
    BY <1>1, <1>t, <2>4, TypeParts, TypesKept DEF Write, PlaceType
<1>2. CASE Spawn \/ LetGo \/ AgentEnds
  <2>1. AgentType'
    BY <1>2, <1>t DEF Spawn, LetGo, AgentEnds, AgentType
  <2> QED
    BY <1>2, <1>t, <2>1, TypeParts, TypesKept DEF Spawn, LetGo, AgentEnds, PlaceType
<1>3. CASE Read
  <2>1. pipe # <<>> => /\ Head(pipe) \in Lines /\ Tail(pipe) \in Seq(Lines) /\ Len(Tail(pipe)) <= PipeSize
    <3>1. pipe \in Seq(Lines) /\ Len(pipe) <= PipeSize /\ PipeSize \in Nat
      BY SupervisorBounds DEF TypeOK
    <3>2. pipe # <<>> => /\ Head(pipe) \in Lines /\ Tail(pipe) \in Seq(Lines)
                         /\ Len(Tail(pipe)) = Len(pipe) - 1 /\ Len(pipe) \in Nat \ {0}
      BY <3>1, HeadAndTail
    <3> QED
      BY <3>1, <3>2
  <2>2. ReaderType'
    BY <1>3, <1>t, <2>1 DEF Read, ReaderType
  <2> QED
    BY <1>3, <1>t, <2>2, TypeParts, TypesKept DEF Read, PlaceType
<1>4. CASE Put
  <2>1. /\ queue \in Seq(Lines \union {End}) /\ inHand \in Lines \union {End} /\ Len(queue) < QueueSize
        /\ queue' = Append(queue, inHand) /\ Len(queue) \in Nat /\ QueueSize \in Nat
    BY <1>4, LenProperties, SupervisorBounds DEF Put, TypeOK, EndIsLast
  <2>2. queue' \in Seq(Lines \union {End}) /\ Len(queue') = Len(queue) + 1
    BY <2>1, AppendProperties
  <2>3. Len(queue') <= QueueSize
    BY <2>1, <2>2
  <2>4. ReaderType'
    BY <1>4, <1>t, <2>2, <2>3 DEF Put, ReaderType
  <2> QED
    BY <1>4, <1>t, <2>4, TypeParts, TypesKept DEF Put, PlaceType
<1>5. CASE Get
  <2>1. queue \in Seq(Lines \union {End}) /\ queue # <<>> /\ Len(queue) <= QueueSize /\ QueueSize \in Nat
    BY <1>5, SupervisorBounds DEF Get, TypeOK
  <2>2. /\ Head(queue) \in Lines \union {End} /\ Tail(queue) \in Seq(Lines \union {End})
        /\ Len(Tail(queue)) = Len(queue) - 1 /\ Len(queue) \in Nat \ {0}
    BY <2>1, HeadAndTail
  <2>3. Len(Tail(queue)) <= QueueSize
    BY <2>1, <2>2
  <2>4. ReaderType' /\ LineType' /\ PlaceType'
    BY <1>5, <1>t, <2>2, <2>3 DEF Get, Goto, ReaderType, LineType, PlaceType
  <2> QED
    BY <1>5, <1>t, <2>4, TypeParts, TypesKept DEF Get
<1>6. ASSUME NEW alive \in BOOLEAN, Publish(alive) PROVE progress' \in Progress
  BY <1>6, CountsAreBounded DEF Publish
<1>7. CASE Setup \/ Popen \/ Terminate \/ Kill \/ Wait \/ Capture \/ UNCHANGED vars
  <2>1. UNCHANGED <<readerVars, lineVars, fileVars, progress>>
    BY <1>7 DEF Setup, Popen, Terminate, Kill, Wait, Capture, vars
  <2>2. AgentType'
    BY <1>7, <1>t DEF Setup, Popen, Terminate, Kill, Wait, Capture, AgentType, vars, agentVars
  <2>3. PlaceType'
    BY <1>7, <1>t DEF Setup, Popen, Terminate, Kill, Wait, Capture, Goto, Raise, PlaceType, vars
  <2>4. EndType'
    BY <1>7, <1>t DEF Setup, Popen, Terminate, Kill, Wait, Capture, Raise, EndType, vars, endVars
  <2> QED
    BY <1>t, <2>1, <2>2, <2>3, <2>4, TypeParts, TypesKept
<1>8. CASE Start \/ Attach \/ Heartbeat
  <2>1. progress' \in Progress
    <3>1. progress' = progress \/ Publish(TRUE) \/ Publish(FALSE)
      BY <1>8 DEF Start, Attach, Heartbeat, Fails
    <3> QED
      BY <1>6, <3>1 DEF TypeOK
  <2>2. UNCHANGED <<agentVars, lineVars, fileVars>>
    BY <1>8 DEF Start, Attach, Heartbeat, Fails
  <2>3. ReaderType'
    BY <1>8, <1>t DEF Start, Attach, Heartbeat, ReaderType, readerVars
  <2>4. PlaceType' /\ EndType'
    <3>1. PlaceType'
      BY <1>8 DEF Start, Attach, Heartbeat, Fails, Goto, Raise, PlaceType
    <3>2. captured' = captured /\ exit' = exit /\ result' \in {result, 1}
      BY <1>8 DEF Start, Attach, Heartbeat, Raise, endVars
    <3> QED
      BY <1>t, <3>1, <3>2 DEF EndType
  <2> QED
    BY <1>t, <2>1, <2>2, <2>3, <2>4, TypeParts, TypesKept
<1>9. CASE WriteNative
  <2>1. native' \in Seq(Lines)
    <3>1. native' = native \/ (native' = Append(native, line) /\ pc = "native")
      BY <1>9 DEF WriteNative, Fails, Goto, fileVars
    <3>2. native \in Seq(Lines) /\ (pc = "native" => line \in Lines)
      BY DEF TypeOK, EndIsLast
    <3> QED
      BY <3>1, <3>2, AppendProperties
  <2>2. FileType' /\ PlaceType'
    BY <1>9, <1>t, <2>1 DEF WriteNative, Goto, Fails, FileType, PlaceType, fileVars
  <2>3. progress' = progress
    BY <1>9 DEF WriteNative, Fails
  <2> QED
    BY <1>9, <1>t, <2>2, <2>3, TypeParts, TypesKept DEF WriteNative
<1>10. CASE FeedLine
  <2>1. Len(emitted') <= MaxEvents /\ Len(emitter') <= MaxEvents
    BY <1>10, FeedLineEvents
  <2>2. counted' \in 0 .. MaxLines
    <3>1. pc = "feed" /\ (counted' = counted + 1 \/ counted' = counted + 0)
      BY <1>10 DEF FeedLine, Goto
    <3>2. counted \in 0 .. MaxLines /\ counted + 1 \in 0 .. MaxLines /\ counted + 0 = counted
      BY <3>1, CountsAreBounded
    <3> QED
      BY <3>1, <3>2
  <2>3. pc' \in {"trajectory", "failing"}
    BY <1>10 DEF FeedLine, Goto
  <2>4. FileType' /\ LineType' /\ PlaceType'
    BY <1>10, <1>t, <2>1, <2>2, <2>3 DEF FeedLine, FileType, LineType, PlaceType
  <2> QED
    BY <1>10, <1>t, <2>4, TypeParts, TypesKept DEF FeedLine
<1>11. CASE WriteTrajectory
  <2>1. Len(trajectory') <= MaxEvents
    BY <1>11, TrajectoryEvents
  <2>2. FileType' /\ PlaceType'
    BY <1>11, <1>t, <2>1 DEF WriteTrajectory, Goto, FileType, PlaceType
  <2> QED
    BY <1>11, <1>t, <2>2, TypeParts, TypesKept DEF WriteTrajectory
<1>12. CASE WriteUsage \/ Finalize
  <2>1. usage' \in 0 .. MaxEvents
    <3>1. usage' = usage \/ usage' = Observations
      BY <1>12 DEF WriteUsage, Finalize, Goto, Fails, fileVars
    <3> QED
      BY <3>1, ObservationsBound DEF TypeOK, Shaped
  <2>2. FileType' /\ PlaceType'
    BY <1>12, <1>t, <2>1 DEF WriteUsage, Finalize, Goto, Fails, FileType, PlaceType, fileVars
  <2>3. UNCHANGED <<agentVars, readerVars, lineVars, progress, endVars>>
    BY <1>12 DEF WriteUsage, Finalize, Fails
  <2> QED
    BY <1>t, <2>2, <2>3, TypeParts, TypesKept
<1>13. CASE PublishLine
  <2>1. progress' \in Progress
    BY <1>6, <1>13 DEF PublishLine, Fails, TypeOK
  <2>2. LineType' /\ PlaceType'
    BY <1>0, <1>13 DEF PublishLine, Goto, Fails, LineType, PlaceType
  <2>3. UNCHANGED <<agentVars, readerVars, fileVars, endVars>>
    BY <1>13 DEF PublishLine, Fails
  <2> QED
    BY <1>t, <2>1, <2>2, <2>3, TypeParts, TypesKept
<1>14. CASE LastPublish
  <2>1. progress' \in Progress
    BY <1>6, <1>14 DEF LastPublish, TypeOK
  <2>2. result' \in {-1, 0, 1}
    BY <1>14 DEF LastPublish, StageExitCode
  <2>3. EndType' /\ PlaceType'
    BY <1>14, <1>t, <2>2 DEF LastPublish, EndType, PlaceType
  <2> QED
    BY <1>14, <1>t, <2>1, <2>3, TypeParts, TypesKept DEF LastPublish
<1> QED
  BY <1>1, <1>2, <1>3, <1>4, <1>5, <1>7, <1>8, <1>9, <1>10, <1>11, <1>12, <1>13, <1>14 DEF Next, Supervise

LEMMA SupervisorInit == Init => SupervisorInv
<1> SUFFICES ASSUME Init PROVE SupervisorInv
  OBVIOUS
<1> USE DEF Early, Loop, Over, Failing
<1>1. /\ \A S : <<>> \in Seq(S) /\ Len(<<>>) = 0
      /\ <<>> \o <<>> = <<>> /\ IsSeq(<<>>) /\ Prefix(<<>>, <<>>)
  BY EmptySeq, ConcatEmptySeq, PrefixFacts DEF IsSeq
<1>2. MaxEvents \in Nat /\ MaxLines \in Nat /\ PipeSize \in Nat /\ QueueSize \in Nat
  BY MaxEventsAssumption, SupervisorBounds
<1>3. Normal = Nothing /\ Normal.ok /\ Normal.events = <<>>
  BY NormalizedAppend DEF Init, Normal, Nothing
<1>4. progress \in Progress
  BY <1>2 DEF Init, Progress
<1>5. TypeOK
  <2>1. AgentType /\ ReaderType /\ PlaceType
    BY <1>1, <1>2 DEF Init, AgentType, ReaderType, PlaceType
  <2>2. LineType /\ FileType /\ EndType
    <3>1. Len(emitted) <= MaxEvents /\ Len(emitter) <= MaxEvents /\ Len(trajectory) <= MaxEvents
      BY <1>1, <1>2 DEF Init
    <3>2. 0 \in 0 .. MaxLines /\ 0 \in 0 .. MaxEvents /\ native \in Seq(Lines)
      BY <1>1, <1>2 DEF Init
    <3> QED
      BY <3>1, <3>2 DEF Init, LineType, FileType, EndType
  <2> QED
    BY <1>4, <2>1, <2>2, TypeParts
<1>6. Flow
  <2>1. Taken = <<>> /\ Hand = <<>> /\ Unsealed(queue) = <<>>
    BY DEF Init, Taken, Hand, Unsealed
  <2> QED
    BY <1>1, <2>1 DEF Init, Flow, Coming
<1>7. EndIsLast
  BY <1>1 DEF Init, EndIsLast
<1>8. EventsAreNative /\ Shaped
  BY <1>1, <1>2, <1>3 DEF Init, EventsAreNative, Shaped
<1>9. EndIsTrue
  BY DEF Init, EndIsTrue
<1>10. ProgressIsTrue
  BY <1>1 DEF Init, ProgressIsTrue
<1>11. CapturedAlone
  BY DEF Init, CapturedAlone
<1> QED
  BY <1>5, <1>6, <1>7, <1>8, <1>9, <1>10, <1>11 DEF SupervisorInv

LEMMA SupervisorStep == SupervisorInv /\ [Next]_vars => SupervisorInv'
<1> SUFFICES ASSUME SupervisorInv, [Next]_vars PROVE SupervisorInv'
  OBVIOUS
<1>1. /\ TypeOK /\ Shaped /\ Flow /\ EndIsLast /\ EventsAreNative /\ EndIsTrue
      /\ ProgressIsTrue /\ CapturedAlone
  BY DEF SupervisorInv
<1>2. EndIsTrue'
  BY <1>1, EndIsTrueStep
<1> QED
  BY <1>1, <1>2, TypeStep, FlowStep, EndIsLastStep, EventsStep, ProgressStep, CapturedStep DEF SupervisorInv

\* What the files hold is a beginning of what was said, and all of it at the end of a success.
LEMMA FilesFollow == SupervisorInv => FilesArePrefixes /\ SealedIsWhole
<1> SUFFICES ASSUME SupervisorInv PROVE FilesArePrefixes /\ SealedIsWhole
  OBVIOUS
<1>1. FilesArePrefixes
  BY DEF SupervisorInv, Flow, EventsAreNative, Normal, FilesArePrefixes
<1>2. ASSUME exit = 0 PROVE native = said /\ Normal.ok /\ Normal.events = trajectory /\ WellFormed(trajectory)
  BY <1>2 DEF SupervisorInv, EndIsTrue
<1>3. exit = 0 => Normalized(said) = [ok |-> TRUE, events |-> trajectory]
  <2> SUFFICES ASSUME exit = 0 PROVE Normalized(said) = [ok |-> TRUE, events |-> trajectory]
    OBVIOUS
  <2>1. native = said /\ Normalized(said).ok /\ Normalized(said).events = trajectory
    BY <1>2 DEF Normal
  <2>2. said \in Seq(Lines)
    BY DEF SupervisorInv, TypeOK
  <2>3. Normalized(said) = [ok |-> Normalized(said).ok, events |-> Normalized(said).events]
        /\ Normalized(said).ok \in BOOLEAN
    BY <2>2, NormalizedRecord
  <2>4. Normalized(said).ok = TRUE
    BY <2>1, <2>3
  <2> QED
    BY <2>1, <2>3, <2>4
<1> QED
  BY <1>1, <1>2, <1>3 DEF SealedIsWhole

------------------------------------------------------------------------------
(* The collectors outside of the Allocation. *)

\* What a collector at a step knows of the stage, of its temporary directory and of the bundles.
Backs(c) ==
    /\ at[c].step \notin {"idle", "done", "dead"} => exit = 0
    /\ at[c].step \in {"validate", "sign"} => temp[c] = {"outputs"}
    /\ at[c].step \in {"look", "replace"} => temp[c] = File
    /\ at[c].kind = "trajectory" => bundle["candidate"] = File
    /\ at[c].step = "commit" => at[c].kind = "trajectory" /\ bundle["trajectory"] = File

BundlesAreWhole == \A k \in Kind : bundle[k] \in {{}, File}
ReadyNames == record = "ready" => exit = 0 /\ \A k \in Kind : bundle[k] = File
CollectTypeOK ==
    /\ bundle \in [Kind -> SUBSET File] /\ temp \in [Collector -> SUBSET File]
    /\ at \in [Collector -> [kind : Kind, step : Step]]
    /\ record \in {"running", "ready", "failed"}

StageInv ==
    /\ SupervisorInv /\ CollectTypeOK /\ BundlesAreWhole /\ ReadyNames
    /\ \A c \in Collector : Backs(c)

LEMMA StageInitial == StageInit => StageInv
<1> SUFFICES ASSUME StageInit PROVE StageInv
  OBVIOUS
<1>1. SupervisorInv
  BY SupervisorInit DEF StageInit
<1>2. CollectTypeOK
  BY DEF StageInit, CollectTypeOK, Kind, Step
<1>3. BundlesAreWhole /\ ReadyNames
  BY DEF StageInit, BundlesAreWhole, ReadyNames
<1>4. \A c \in Collector : Backs(c)
  BY DEF StageInit, Backs
<1> QED
  BY <1>1, <1>2, <1>3, <1>4 DEF StageInv

\* A step inside of the Allocation changes nothing of a stage that has ended.
LEMMA SupervisorLeaves ==
  ASSUME StageInv, [Next]_vars, UNCHANGED collectVars
  PROVE  StageInv'
<1>1. SupervisorInv'
  BY SupervisorStep DEF StageInv
<1>2. exit = 0 => exit' = 0
  <2>1. pc # "returned" => exit = -1
    BY DEF StageInv, SupervisorInv, EndIsTrue
  <2>2. exit' = exit \/ pc = "setup" \/ exit = -1
    BY DEF Next, Supervise, Write, Spawn, LetGo, AgentEnds, Read, Put, Setup,
       Start, Popen, Attach, Heartbeat, Get, WriteNative, FeedLine, WriteTrajectory, WriteUsage, PublishLine,
       Wait, Finalize, Terminate, Kill, LastPublish, Capture, Goto, endVars, vars
  <2> QED
    BY <2>1, <2>2
<1>3. UNCHANGED <<bundle, temp, at, record>>
  BY DEF collectVars
<1>4. CollectTypeOK' /\ BundlesAreWhole' /\ ReadyNames'
  BY <1>2, <1>3 DEF StageInv, CollectTypeOK, BundlesAreWhole, ReadyNames
<1>5. \A c \in Collector : Backs(c)'
  BY <1>2, <1>3 DEF StageInv, Backs
<1> QED
  BY <1>1, <1>4, <1>5 DEF StageInv

\* What one collector does at its place, told with the bundles that are there only.
LEMMA MovesKeep ==
  ASSUME StageInv, NEW c \in Collector, NEW kind \in Kind, NEW step \in Step,
         at' = [at EXCEPT ![c] = [kind |-> kind, step |-> step]],
         \A d \in Collector : d # c => temp'[d] = temp[d],
         temp' \in [Collector -> SUBSET File],
         UNCHANGED vars,
         \/ record' \in {record, "failed"}
         \/ record' = "ready" /\ exit = 0 /\ \A k \in Kind : bundle[k] = File,
         bundle' \in [Kind -> SUBSET File],
         \A k \in Kind : bundle'[k] = bundle[k] \/ (bundle[k] = {} /\ bundle'[k] = File),
         step \notin {"idle", "done", "dead"} => exit = 0,
         step \in {"validate", "sign"} => temp'[c] = {"outputs"},
         step \in {"look", "replace"} => temp'[c] = File,
         kind = "trajectory" => bundle'["candidate"] = File,
         step = "commit" => kind = "trajectory" /\ bundle'["trajectory"] = File
  PROVE  StageInv'
<1>1. UNCHANGED vars /\ exit' = exit
  BY DEF vars, endVars
<1>2. SupervisorInv'
  BY <1>1, SupervisorStep DEF StageInv
<1>3. CollectTypeOK /\ BundlesAreWhole /\ ReadyNames /\ \A d \in Collector : Backs(d)
  BY DEF StageInv
<1>4. at' \in [Collector -> [kind : Kind, step : Step]]
  <2>1. [kind |-> kind, step |-> step] \in [kind : Kind, step : Step]
    OBVIOUS
  <2> QED
    BY <1>3, <2>1 DEF CollectTypeOK
<1>5. CollectTypeOK'
  BY <1>3, <1>4 DEF CollectTypeOK
<1>6. BundlesAreWhole'
  BY <1>3 DEF BundlesAreWhole
<1>7. File # {}
  BY DEF File
<1>8. ReadyNames'
  BY <1>1, <1>3, <1>7 DEF ReadyNames
<1>9. ASSUME NEW d \in Collector PROVE Backs(d)'
  <2>1. CASE d = c
    <3>1. at'[c].kind = kind /\ at'[c].step = step
      BY <1>3 DEF CollectTypeOK
    <3> QED
      BY <1>1, <2>1, <3>1 DEF Backs
  <2>2. CASE d # c
    <3>1. at'[d] = at[d] /\ temp'[d] = temp[d]
      BY <1>3, <2>2 DEF CollectTypeOK
    <3>2. \A k \in Kind : bundle[k] = File => bundle'[k] = File
      BY <1>7
    <3> QED
      BY <1>1, <1>3, <3>1, <3>2 DEF Backs, Kind
  <2> QED
    BY <2>1, <2>2
<1> QED
  BY <1>2, <1>5, <1>6, <1>8, <1>9 DEF StageInv

LEMMA Placed ==
  ASSUME CollectTypeOK, NEW c \in Collector, NEW step, at' = [at EXCEPT ![c].step = step]
  PROVE  at' = [at EXCEPT ![c] = [kind |-> at[c].kind, step |-> step]]
<1>1. at \in [Collector -> [kind : Kind, step : Step]] /\ at[c] = [kind |-> at[c].kind, step |-> at[c].step]
  BY DEF CollectTypeOK
<1> DEFINE r == at[c]
<1>2. [r EXCEPT !.step = step] = [kind |-> r.kind, step |-> step]
  <2> HIDE DEF r
  <2>1. r = [kind |-> r.kind, step |-> r.step]
    BY <1>1 DEF r
  <2> QED
    BY <2>1
<1>3. at' = [at EXCEPT ![c] = [r EXCEPT !.step = step]]
  OBVIOUS
<1> QED
  BY <1>2, <1>3

LEMMA CollectingKeeps ==
  ASSUME StageInv, NEW c \in Collector,
         \/ Collect(c) \/ Refuse(c) \/ Copy(c) \/ Validate(c) \/ Sign(c) \/ Look(c)
         \/ LoadExisting(c) \/ Replace(c) \/ Commit(c) \/ Die(c)
  PROVE  StageInv'
<1> DEFINE kind == at[c].kind
<1>1. /\ bundle \in [Kind -> SUBSET File] /\ temp \in [Collector -> SUBSET File]
      /\ at \in [Collector -> [kind : Kind, step : Step]] /\ kind \in Kind /\ at[c].step \in Step
      /\ Backs(c) /\ BundlesAreWhole /\ ReadyNames /\ SupervisorInv /\ CollectTypeOK
  BY DEF StageInv, CollectTypeOK
<1> HIDE DEF kind
<1>2. /\ at[c].step \notin {"idle", "done", "dead"} => exit = 0
      /\ at[c].step \in {"validate", "sign"} => temp[c] = {"outputs"}
      /\ at[c].step \in {"look", "replace"} => temp[c] = File
      /\ kind = "trajectory" => bundle["candidate"] = File
      /\ at[c].step = "commit" => kind = "trajectory" /\ bundle["trajectory"] = File
  BY <1>1 DEF Backs, kind
<1>3. \A k \in Kind : k = "candidate" \/ k = "trajectory"
  BY DEF Kind
\* A step that stays with its kind and publishes nothing.
<1>4. ASSUME NEW step \in Step, at' = [at EXCEPT ![c].step = step], NEW new \in SUBSET File,
             temp' = [temp EXCEPT ![c] = new],
             UNCHANGED <<vars, bundle>>,
             \/ record' \in {record, "failed"}
             \/ record' = "ready" /\ exit = 0 /\ \A k \in Kind : bundle[k] = File,
             step \notin {"idle", "done", "dead"} => exit = 0,
             step \in {"validate", "sign"} => new = {"outputs"},
             step \in {"look", "replace"} => new = File,
             step # "commit"
      PROVE  StageInv'
  <2>1. at' = [at EXCEPT ![c] = [kind |-> kind, step |-> step]]
    BY <1>1, <1>4, Placed DEF kind
  <2>2. /\ \A d \in Collector : d # c => temp'[d] = temp[d]
        /\ temp' \in [Collector -> SUBSET File] /\ temp'[c] = new
    BY <1>1, <1>4
  <2>3. bundle' = bundle /\ UNCHANGED vars
    BY <1>4
  <2>4. /\ bundle' \in [Kind -> SUBSET File] /\ \A k \in Kind : bundle'[k] = bundle[k]
        /\ kind = "trajectory" => bundle'["candidate"] = File
        /\ step = "commit" => kind = "trajectory" /\ bundle'["trajectory"] = File
    BY <1>1, <1>2, <1>4, <2>3
  <2>5. /\ step \notin {"idle", "done", "dead"} => exit = 0
        /\ step \in {"validate", "sign"} => temp'[c] = {"outputs"}
        /\ step \in {"look", "replace"} => temp'[c] = File
    BY <1>4, <2>2
  <2>6. \/ record' \in {record, "failed"}
        \/ record' = "ready" /\ exit = 0 /\ \A k \in Kind : bundle[k] = File
    BY <1>4
  <2>7. kind \in Kind /\ step \in Step
    BY <1>1, <1>4
  <2> QED
    BY <2>1, <2>2, <2>3, <2>4, <2>5, <2>6, <2>7, MovesKeep
\* A step that goes on when the bundle of its kind is there.
<1>5. ASSUME Forward(c), Drop(c), UNCHANGED <<vars, record>>, at[c].step \in {"load", "replace"},
             bundle' \in [Kind -> SUBSET File], bundle'[kind] = File,
             \A k \in Kind : bundle'[k] = bundle[k] \/ (bundle[k] = {} /\ bundle'[k] = File)
      PROVE  StageInv'
  <2> DEFINE next == IF kind = "candidate" THEN "copy" ELSE "commit"
  <2>1. at' = [at EXCEPT ![c] = [kind |-> "trajectory", step |-> next]]
    BY <1>5 DEF Forward, kind
  <2>2. /\ \A d \in Collector : d # c => temp'[d] = temp[d]
        /\ temp' \in [Collector -> SUBSET File]
    BY <1>1, <1>5 DEF Drop
  <2>3. bundle'["candidate"] = File /\ (next = "commit" => bundle'["trajectory"] = File)
    BY <1>1, <1>2, <1>3, <1>5 DEF Kind, File
  <2>4. "trajectory" \in Kind /\ next \in Step /\ exit = 0 /\ next \notin {"validate", "sign", "look", "replace"}
    BY <1>2, <1>5 DEF Kind, Step
  <2>5. UNCHANGED vars /\ record' = record
    BY <1>5
  <2> HIDE DEF next
  <2> QED
    BY <1>5, <2>1, <2>2, <2>3, <2>4, <2>5, MovesKeep
<1>6. temp = [temp EXCEPT ![c] = temp[c]] /\ temp[c] \in SUBSET File /\ {} \in SUBSET File
      /\ {"outputs"} \in SUBSET File /\ {"outputs"} \union {"manifest"} = File /\ File \in SUBSET File
  BY <1>1 DEF File
<1>7. /\ "copy" \in Step /\ "validate" \in Step /\ "sign" \in Step /\ "look" \in Step /\ "replace" \in Step
      /\ "load" \in Step /\ "done" \in Step /\ "dead" \in Step
  BY DEF Step
<1>8. CASE Collect(c)
  <2>1. CASE exit = 0
    <3>1. at' = [at EXCEPT ![c].step = "copy"] /\ UNCHANGED <<vars, bundle>> /\ temp' = temp /\ record' = record
      BY <1>8, <2>1 DEF Collect, Move
    <3> QED
      BY <1>4, <1>6, <1>7, <2>1, <3>1
  <2>2. CASE exit # 0
    <3>1. at' = [at EXCEPT ![c].step = "done"] /\ UNCHANGED <<vars, bundle>> /\ temp' = temp /\ record' = "failed"
      BY <1>8, <2>2 DEF Collect, Move
    <3> QED
      BY <1>4, <1>6, <1>7, <3>1
  <2> QED
    BY <2>1, <2>2
<1>9. CASE Refuse(c)
  <2>1. /\ at' = [at EXCEPT ![c].step = "done"] /\ UNCHANGED <<vars, bundle>> /\ temp' = [temp EXCEPT ![c] = {}]
        /\ record' \in {record, "failed"}
    BY <1>9 DEF Refuse, Drop
  <2> QED
    BY <1>4, <1>6, <1>7, <2>1
<1>10. CASE Copy(c)
  <2> DEFINE step == AfterCopy(kind)
  <2>1. /\ at' = [at EXCEPT ![c].step = step] /\ UNCHANGED <<vars, bundle>>
        /\ temp' = [temp EXCEPT ![c] = {"outputs"}] /\ record' = record /\ at[c].step = "copy"
    BY <1>10 DEF Copy, Move, kind
  <2>2. step \in {"validate", "sign"} /\ step \in Step
    BY <1>7 DEF AfterCopy
  <2> HIDE DEF step
  <2> QED
    BY <1>2, <1>4, <1>6, <2>1, <2>2
<1>11. CASE Validate(c)
  <2>1. /\ at' = [at EXCEPT ![c].step = "sign"] /\ UNCHANGED <<vars, bundle>> /\ temp' = temp /\ record' = record
        /\ at[c].step = "validate"
    BY <1>11 DEF Validate, Move
  <2> QED
    BY <1>2, <1>4, <1>6, <1>7, <2>1
<1>12. CASE Sign(c)
  <2> DEFINE new == temp[c] \union {"manifest"}
  <2>1. /\ at' = [at EXCEPT ![c].step = "look"] /\ UNCHANGED <<vars, bundle>> /\ record' = record
        /\ at[c].step = "sign" /\ temp' = [temp EXCEPT ![c] = new]
    BY <1>12 DEF Sign, Move
  <2>2. new = File /\ new \in SUBSET File /\ exit = 0
    BY <1>2, <1>6, <2>1
  <2> HIDE DEF new
  <2> QED
    BY <1>4, <1>7, <2>1, <2>2
<1>13. CASE Look(c)
  <2> DEFINE step == IF bundle[kind] # {} THEN "load" ELSE "replace"
  <2>1. /\ at' = [at EXCEPT ![c].step = step] /\ UNCHANGED <<vars, bundle>> /\ temp' = temp /\ record' = record
        /\ at[c].step = "look"
    BY <1>13 DEF Look, Move, kind
  <2>2. step \in {"load", "replace"} /\ step \in Step
    BY <1>7
  <2> HIDE DEF step
  <2>3. exit = 0 /\ temp[c] = File /\ temp' = [temp EXCEPT ![c] = temp[c]]
    BY <1>2, <1>6, <2>1
  <2> QED
    BY <1>4, <1>6, <2>1, <2>2, <2>3
<1>14. CASE LoadExisting(c)
  <2>1. Forward(c) /\ Drop(c) /\ UNCHANGED <<vars, record>> /\ at[c].step = "load" /\ bundle[kind] = File
        /\ bundle' = bundle
    BY <1>14 DEF LoadExisting, Loads, kind
  <2> QED
    BY <1>1, <1>5, <2>1
<1>15. CASE Replace(c)
  <2>1. CASE bundle[kind] = {}
    <3>1. Forward(c) /\ Drop(c) /\ UNCHANGED <<vars, record>> /\ at[c].step = "replace"
          /\ bundle' = [bundle EXCEPT ![kind] = temp[c]]
      BY <1>15, <2>1 DEF Replace, kind
    <3>2. /\ bundle' \in [Kind -> SUBSET File] /\ bundle'[kind] = File
          /\ \A k \in Kind : bundle'[k] = bundle[k] \/ (bundle[k] = {} /\ bundle'[k] = File)
      BY <1>1, <1>2, <1>6, <2>1, <3>1
    <3> QED
      BY <1>5, <3>1, <3>2
  <2>2. CASE bundle[kind] # {}
    <3>1. /\ at' = [at EXCEPT ![c].step = "done"] /\ UNCHANGED <<vars, bundle>> /\ temp' = [temp EXCEPT ![c] = {}]
          /\ record' \in {record, "failed"}
      BY <1>15, <2>2 DEF Replace, Drop, kind
    <3> QED
      BY <1>4, <1>6, <1>7, <3>1
  <2> QED
    BY <2>1, <2>2
<1>16. CASE Commit(c)
  <2>1. /\ at' = [at EXCEPT ![c].step = "done"] /\ UNCHANGED <<vars, bundle>> /\ temp' = temp
        /\ record' \in {record, "ready"} /\ at[c].step = "commit"
    BY <1>16 DEF Commit, Move
  <2>2. exit = 0 /\ \A k \in Kind : bundle[k] = File
    BY <1>2, <1>3, <2>1
  <2> QED
    BY <1>4, <1>6, <1>7, <2>1, <2>2
<1>17. CASE Die(c)
  <2>1. /\ at' = [at EXCEPT ![c].step = "dead"] /\ UNCHANGED <<vars, bundle>> /\ temp' = temp /\ record' = record
    BY <1>17 DEF Die
  <2> QED
    BY <1>4, <1>6, <1>7, <2>1
<1> QED
  BY <1>8, <1>9, <1>10, <1>11, <1>12, <1>13, <1>14, <1>15, <1>16, <1>17

LEMMA StageStep == StageInv /\ [StageNext]_stageVars => StageInv'
<1> SUFFICES ASSUME StageInv, [StageNext]_stageVars PROVE StageInv'
  OBVIOUS
<1>1. CASE (Next /\ UNCHANGED collectVars) \/ UNCHANGED stageVars
  BY <1>1, SupervisorLeaves DEF stageVars
<1>2. CASE Collecting
  BY <1>2, CollectingKeeps DEF Collecting
<1> QED
  BY <1>1, <1>2 DEF StageNext

LEMMA StageMeans == StageInv => StageTypeOK /\ ReadyIsBacked
<1> SUFFICES ASSUME StageInv PROVE StageTypeOK /\ ReadyIsBacked
  OBVIOUS
<1>1. StageTypeOK
  BY DEF StageInv, SupervisorInv, CollectTypeOK, StageTypeOK
<1>2. exit = 0 => captured /\ native = said
  BY DEF StageInv, SupervisorInv, EndIsTrue
<1> QED
  BY <1>1, <1>2 DEF StageInv, BundlesAreWhole, ReadyNames, ReadyIsBacked

------------------------------------------------------------------------------
(* The theorems. *)

\* The invariant of the stage: the flow of the lines, the events of the files, who is over when, and
\* what a collector at a step knows.
THEOREM StageInvariant == Spec => []StageInv
<1>1. StageInit => StageInv
  BY StageInitial
<1>2. StageInv /\ [StageNext]_stageVars => StageInv'
  BY StageStep
<1> QED
  BY <1>1, <1>2, PTL DEF Spec

\* The variables of the script, of its two threads and of the collectors keep their types; the pipe,
\* the queue, the lines and the events stay within their bounds.
THEOREM TypeCorrect == Spec => []StageTypeOK
<1>1. StageInv => StageTypeOK
  BY StageMeans
<1> QED
  BY <1>1, StageInvariant, PTL

\* A script that ends with 0 has written every line of the agent, and sealed the trajectory that
\* those lines are when they are normalized at once (supervise, its reader thread and finalize of
\* the normalizer), for a pipe and a queue of any size.
THEOREM StreamIsSealedWhole == Spec => []SealedIsWhole
<1>1. StageInv => SealedIsWhole
  BY FilesFollow DEF StageInv
<1> QED
  BY <1>1, StageInvariant, PTL

\* Whichever write fails, the native file is a beginning of what the agent said and the trajectory
\* a beginning of its events.
THEOREM FilesArePrefixesAlways == Spec => []FilesArePrefixes
<1>1. StageInv => FilesArePrefixes
  BY FilesFollow DEF StageInv
<1> QED
  BY <1>1, StageInvariant, PTL

\* The progress that publish() has written is not ahead of the files while it calls the agent
\* alive, and calls the agent dead only when it is.
THEOREM ProgressIsTrueAlways == Spec => []ProgressIsTrue
<1>1. StageInv => ProgressIsTrue
  BY DEF StageInv, SupervisorInv
<1> QED
  BY <1>1, StageInvariant, PTL

\* The candidate is captured when the agent is over: no supervisor that had attached to it returns
\* before its end.
THEOREM CandidateIsCapturedAlone == Spec => []CapturedAlone
<1>1. StageInv => CapturedAlone
  BY DEF StageInv, SupervisorInv
<1> QED
  BY <1>1, StageInvariant, PTL

\* A bundle that is published is whole, and a record that is ready names two of a stage that ended
\* with 0, however many processes collect them at once and wherever they die.
THEOREM ReadyIsBackedAlways == Spec => []ReadyIsBacked
<1>1. StageInv => ReadyIsBacked
  BY StageMeans
<1> QED
  BY <1>1, StageInvariant, PTL

=============================================================================

----------------------------- MODULE StageProofs -----------------------------
(* Theorems about the two stages of an episode that are one Run each: the inference stage
   with what is open beside it (InferenceStage, for every bound of the revisions) and the
   verification stage (SingleRunVerifier, for every selection of tests and every log). *)
EXTENDS InferenceStage, SingleRunVerifier, TLAPS

------------------------------------------------------------------------------
(* InferenceStage. *)

USE DEF recordVars, mainVars, tunnelVars, observerVars

LEMMA InitConsistent == Init => TypeOK /\ StageIsConsistent
<1> SUFFICES ASSUME Init PROVE TypeOK /\ StageIsConsistent
  OBVIOUS
<1> USE MaxRevisionAssumption DEF Init, Live, Unborn, Component, Alive, TunnelOpen, Starting, Closing
<1>1. TypeOK
  <2>1. 0 \in 0..(MaxRevision + 1)
    OBVIOUS
  <2> QED
    BY <2>1 DEF TypeOK, Ended, Proxy
<1>2. NothingLeaks /\ TunnelOutlivesObserver /\ CommitsSettledProgress
  BY DEF NothingLeaks, TunnelOutlivesObserver, CommitsSettledProgress
<1>3. PlaceBacked
  BY DEF PlaceBacked
<1>4. OpenBacked
  BY DEF OpenBacked, Unreported
<1>5. FilesAgree /\ ClosedOnce
  BY DEF FilesAgree, ClosedOnce
<1> QED
  BY <1>1, <1>2, <1>3, <1>4, <1>5 DEF StageIsConsistent

(* Whatever fails to close, the tunnel's resources keep their types. *)
LEMMA TunnelType ==
  TypeOK /\ TunnelCloses => session' \in BOOLEAN /\ connector' \in BOOLEAN /\ proxy' \in Proxy
<1> SUFFICES ASSUME TypeOK, TunnelCloses
             PROVE  session' \in BOOLEAN /\ connector' \in BOOLEAN /\ proxy' \in Proxy
  OBVIOUS
<1>1. session' \in BOOLEAN
  BY Zenon DEF TypeOK, TunnelCloses
<1>2. connector' \in BOOLEAN
  BY Zenon DEF TypeOK, TunnelCloses
<1>3. proxy' \in Proxy
  BY DEF TypeOK, TunnelCloses, StopProxy, Proxy
<1> QED
  BY <1>1, <1>2, <1>3

LEMMA StepType == TypeOK /\ StageIsConsistent /\ [Next]_vars => TypeOK'
<1> SUFFICES ASSUME TypeOK, StageIsConsistent, [Next]_vars PROVE TypeOK'
  OBVIOUS
<1> FilesAgree
  BY DEF StageIsConsistent
<1> USE MaxRevisionAssumption DEF TypeOK, Live, Unborn, Ended, Proxy, Component, Goto
<1>1. CASE StartProxy
  BY <1>1 DEF StartProxy
<1>2. CASE OpenSession
  BY <1>2 DEF OpenSession
<1>3. CASE StartConnector
  BY <1>3 DEF StartConnector
<1>4. CASE Preflight
  BY <1>4 DEF Preflight
<1>5. CASE TunnelStartFails
  BY <1>5 DEF TunnelStartFails
<1>6. CASE Observe
  BY <1>6 DEF Observe, FilesAgree, Starting
<1>7. CASE BindProgress
  BY <1>7 DEF BindProgress, NameRevision
<1>8. CASE ObserverStartFails
  BY <1>8 DEF ObserverStartFails, NameRevision
<1>9. CASE Release
  BY <1>9 DEF Release
<1>10. CASE InputsFail
  BY <1>10 DEF InputsFail
<1>11. CASE Follow
  BY <1>11 DEF Follow
<1>12. CASE InnerClose
  BY <1>12, TunnelType DEF InnerClose, TunnelCloses
<1>13. CASE Close
  <2>1. stopping' \in BOOLEAN
    BY <1>13, Zenon DEF Close
  <2> QED
    BY <1>13, <2>1 DEF Close
<1>14. CASE Join
  <2>1. error' \in {"none", "stage", "observer", "cleanup"} /\ closed' \in BOOLEAN
    BY <1>14 DEF Join, Joinable, ObserverError
  <2>2. started' \subseteq Component
    BY <1>14 DEF Join
  <2> QED
    BY <1>14, <2>1, <2>2 DEF Join
<1>15. CASE JoinFails
  BY <1>15 DEF JoinFails, ObserverError, Joinable
<1>16. CASE CloseTunnel
  <2>1. /\ error' \in {"none", "stage", "observer", "cleanup"}
        /\ started' \subseteq Component
    BY <1>16 DEF CloseTunnel
  <2>2. session' \in BOOLEAN /\ connector' \in BOOLEAN /\ proxy' \in Proxy
    BY <1>16, TunnelType DEF CloseTunnel
  <2> QED
    BY <1>16, <2>1, <2>2 DEF CloseTunnel, TunnelCloses
<1>17. CASE Closed
  BY <1>17 DEF Closed
<1>18. CASE Commit
  BY <1>18 DEF Commit
<1>19. CASE Fail
  BY <1>19 DEF Fail
<1>20. CASE Sample
  BY <1>20 DEF Sample, FilesAgree
<1>21. CASE PublishProgress
  BY <1>21 DEF PublishProgress, NameRevision
<1>22. CASE ObserverFails
  BY <1>22 DEF ObserverFails, NameRevision
<1>23. CASE RunEnds
  BY <1>23 DEF RunEnds
<1>24. CASE Elsewhere
  BY <1>24 DEF Elsewhere
<1>25. CASE Crash
  BY ZenonT(60), <1>25 DEF Crash
<1>26. CASE UNCHANGED vars
  BY <1>26 DEF vars
<1> QED
  BY <1>1, <1>2, <1>3, <1>4, <1>5, <1>6, <1>7, <1>8, <1>9, <1>10, <1>11, <1>12, <1>13, <1>14, <1>15, <1>16, <1>17, <1>18, <1>19, <1>20, <1>21, <1>22, <1>23, <1>24, <1>25, <1>26
     DEF Next, Caller, Starts, Closes, Observer

LEMMA StepPlace == TypeOK /\ StageIsConsistent /\ [Next]_vars => PlaceBacked'
<1> SUFFICES ASSUME TypeOK, StageIsConsistent, [Next]_vars PROVE PlaceBacked'
  OBVIOUS
<1> USE MaxRevisionAssumption DEF TypeOK, StageIsConsistent, Alive, Live, Unborn, Component, Goto, PlaceBacked, OpenBacked, Starting, Closing, Unreported, TunnelOpen, ClosedOnce
<1>1. CASE StartProxy
  BY <1>1 DEF StartProxy
<1>2. CASE OpenSession
  BY <1>2 DEF OpenSession
<1>3. CASE StartConnector
  BY <1>3 DEF StartConnector
<1>4. CASE Preflight
  BY <1>4 DEF Preflight
<1>5. CASE TunnelStartFails
  BY <1>5 DEF TunnelStartFails
<1>6. CASE Observe
  BY <1>6 DEF Observe
<1>7. CASE BindProgress
  BY <1>7 DEF BindProgress, NameRevision
<1>8. CASE ObserverStartFails
  BY <1>8 DEF ObserverStartFails, NameRevision
<1>9. CASE Release
  BY <1>9 DEF Release
<1>10. CASE InputsFail
  BY <1>10 DEF InputsFail
<1>11. CASE Follow
  BY <1>11 DEF Follow
<1>12. CASE InnerClose
  BY <1>12 DEF InnerClose, TunnelCloses, StopProxy
<1>13. CASE Close
  BY <1>13 DEF Close
<1>14. CASE Join
  BY <1>14 DEF Join, Joinable, ObserverError
<1>15. CASE JoinFails
  BY <1>15 DEF JoinFails, ObserverError, Joinable
<1>16. CASE CloseTunnel
  BY <1>16 DEF CloseTunnel, TunnelCloses, StopProxy
<1>17. CASE Closed
  BY <1>17 DEF Closed
<1>18. CASE Commit
  BY <1>18 DEF Commit
<1>19. CASE Fail
  BY <1>19 DEF Fail
<1>20. CASE Sample
  BY <1>20 DEF Sample
<1>21. CASE PublishProgress
  BY <1>21 DEF PublishProgress, NameRevision
<1>22. CASE ObserverFails
  BY <1>22 DEF ObserverFails, NameRevision
<1>23. CASE RunEnds
  BY <1>23 DEF RunEnds
<1>24. CASE Elsewhere
  BY <1>24 DEF Elsewhere
<1>25. CASE Crash
  BY <1>25 DEF Crash
<1>26. CASE UNCHANGED vars
  BY <1>26 DEF vars
<1> QED
  BY <1>1, <1>2, <1>3, <1>4, <1>5, <1>6, <1>7, <1>8, <1>9, <1>10, <1>11, <1>12, <1>13, <1>14, <1>15, <1>16, <1>17, <1>18, <1>19, <1>20, <1>21, <1>22, <1>23, <1>24, <1>25, <1>26
     DEF Next, Caller, Starts, Closes, Observer

LEMMA StepOpen ==
  TypeOK /\ StageIsConsistent /\ [Next]_vars =>
    (OpenBacked /\ NothingLeaks /\ TunnelOutlivesObserver)'
<1> SUFFICES ASSUME TypeOK, StageIsConsistent, [Next]_vars
             PROVE  (OpenBacked /\ NothingLeaks /\ TunnelOutlivesObserver)'
  OBVIOUS
<1> USE MaxRevisionAssumption DEF TypeOK, StageIsConsistent, Alive, Live, Unborn, Component, Goto, PlaceBacked, OpenBacked, NothingLeaks, TunnelOutlivesObserver, Starting, Closing, Unreported, TunnelOpen, ClosedOnce
<1>1. CASE StartProxy
  BY <1>1 DEF StartProxy
<1>2. CASE OpenSession
  BY <1>2 DEF OpenSession
<1>3. CASE StartConnector
  BY <1>3 DEF StartConnector
<1>4. CASE Preflight
  BY <1>4 DEF Preflight
<1>5. CASE TunnelStartFails
  BY <1>5 DEF TunnelStartFails
<1>6. CASE Observe
  BY <1>6 DEF Observe
<1>7. CASE BindProgress
  BY <1>7 DEF BindProgress, NameRevision
<1>8. CASE ObserverStartFails
  BY <1>8 DEF ObserverStartFails, NameRevision
<1>9. CASE Release
  BY <1>9 DEF Release
<1>10. CASE InputsFail
  BY <1>10 DEF InputsFail
<1>11. CASE Follow
  BY <1>11 DEF Follow
<1>12. CASE InnerClose
  BY <1>12 DEF InnerClose, TunnelCloses, StopProxy
<1>13. CASE Close
  BY <1>13 DEF Close
<1>14. CASE Join
  BY <1>14 DEF Join, Joinable, ObserverError
<1>15. CASE JoinFails
  BY <1>15 DEF JoinFails, ObserverError, Joinable
<1>16. CASE CloseTunnel
  BY <1>16 DEF CloseTunnel, TunnelCloses, StopProxy
<1>17. CASE Closed
  BY <1>17 DEF Closed
<1>18. CASE Commit
  BY <1>18 DEF Commit
<1>19. CASE Fail
  <2>1. pc = "fail" /\ pc' = "done" /\ UNCHANGED <<why, error, started>>
    BY <1>19, Zenon DEF Fail
  <2>2. UNCHANGED <<tunnelVars, observerVars>>
    BY <1>19, Zenon DEF Fail
  <2> QED
    BY <2>1, <2>2
<1>20. CASE Sample
  BY <1>20 DEF Sample
<1>21. CASE PublishProgress
  BY <1>21 DEF PublishProgress, NameRevision
<1>22. CASE ObserverFails
  BY <1>22 DEF ObserverFails, NameRevision
<1>23. CASE RunEnds
  BY <1>23 DEF RunEnds
<1>24. CASE Elsewhere
  BY <1>24 DEF Elsewhere
<1>25. CASE Crash
  BY <1>25 DEF Crash
<1>26. CASE UNCHANGED vars
  BY <1>26 DEF vars
<1> QED
  BY <1>1, <1>2, <1>3, <1>4, <1>5, <1>6, <1>7, <1>8, <1>9, <1>10, <1>11, <1>12, <1>13, <1>14, <1>15, <1>16, <1>17, <1>18, <1>19, <1>20, <1>21, <1>22, <1>23, <1>24, <1>25, <1>26
     DEF Next, Caller, Starts, Closes, Observer

LEMMA StepFiles == TypeOK /\ StageIsConsistent /\ [Next]_vars => FilesAgree'
<1> SUFFICES ASSUME TypeOK, StageIsConsistent, [Next]_vars PROVE FilesAgree'
  OBVIOUS
<1> USE MaxRevisionAssumption DEF TypeOK, StageIsConsistent, Alive, Live, Unborn, Component, Goto, PlaceBacked, OpenBacked, FilesAgree, Starting, Closing, Unreported
<1>1. CASE StartProxy
  BY <1>1 DEF StartProxy
<1>2. CASE OpenSession
  BY <1>2 DEF OpenSession
<1>3. CASE StartConnector
  BY <1>3 DEF StartConnector
<1>4. CASE Preflight
  BY <1>4 DEF Preflight
<1>5. CASE TunnelStartFails
  BY <1>5 DEF TunnelStartFails
<1>6. CASE Observe
  BY <1>6 DEF Observe
<1>7. CASE BindProgress
  BY <1>7 DEF BindProgress, NameRevision
<1>8. CASE ObserverStartFails
  BY <1>8 DEF ObserverStartFails, NameRevision
<1>9. CASE Release
  BY <1>9 DEF Release
<1>10. CASE InputsFail
  BY <1>10 DEF InputsFail
<1>11. CASE Follow
  BY <1>11 DEF Follow
<1>12. CASE InnerClose
  BY <1>12 DEF InnerClose, TunnelCloses, StopProxy
<1>13. CASE Close
  BY <1>13 DEF Close
<1>14. CASE Join
  BY <1>14 DEF Join, Joinable, ObserverError
<1>15. CASE JoinFails
  BY <1>15 DEF JoinFails, ObserverError, Joinable
<1>16. CASE CloseTunnel
  BY <1>16 DEF CloseTunnel, TunnelCloses, StopProxy
<1>17. CASE Closed
  BY <1>17 DEF Closed
<1>18. CASE Commit
  BY <1>18 DEF Commit
<1>19. CASE Fail
  BY <1>19 DEF Fail
<1>20. CASE Sample
  BY <1>20 DEF Sample
<1>21. CASE PublishProgress
  BY <1>21 DEF PublishProgress, NameRevision
<1>22. CASE ObserverFails
  BY <1>22 DEF ObserverFails, NameRevision
<1>23. CASE RunEnds
  BY <1>23 DEF RunEnds
<1>24. CASE Elsewhere
  BY <1>24 DEF Elsewhere
<1>25. CASE Crash
  BY <1>25 DEF Crash
<1>26. CASE UNCHANGED vars
  BY <1>26 DEF vars
<1> QED
  BY <1>1, <1>2, <1>3, <1>4, <1>5, <1>6, <1>7, <1>8, <1>9, <1>10, <1>11, <1>12, <1>13, <1>14, <1>15, <1>16, <1>17, <1>18, <1>19, <1>20, <1>21, <1>22, <1>23, <1>24, <1>25, <1>26
     DEF Next, Caller, Starts, Closes, Observer

LEMMA StepOnce == TypeOK /\ StageIsConsistent /\ [Next]_vars => ClosedOnce'
<1> SUFFICES ASSUME TypeOK, StageIsConsistent, [Next]_vars PROVE ClosedOnce'
  OBVIOUS
<1> USE MaxRevisionAssumption DEF TypeOK, StageIsConsistent, Alive, Live, Unborn, Component, Goto, PlaceBacked, OpenBacked, ClosedOnce, Starting, Closing, Unreported
<1>1. CASE StartProxy
  BY <1>1 DEF StartProxy
<1>2. CASE OpenSession
  BY <1>2 DEF OpenSession
<1>3. CASE StartConnector
  BY <1>3 DEF StartConnector
<1>4. CASE Preflight
  BY <1>4 DEF Preflight
<1>5. CASE TunnelStartFails
  BY <1>5 DEF TunnelStartFails
<1>6. CASE Observe
  BY <1>6 DEF Observe
<1>7. CASE BindProgress
  BY <1>7 DEF BindProgress, NameRevision
<1>8. CASE ObserverStartFails
  BY <1>8 DEF ObserverStartFails, NameRevision
<1>9. CASE Release
  BY <1>9 DEF Release
<1>10. CASE InputsFail
  BY <1>10 DEF InputsFail
<1>11. CASE Follow
  BY <1>11 DEF Follow
<1>12. CASE InnerClose
  BY <1>12 DEF InnerClose, TunnelCloses, StopProxy
<1>13. CASE Close
  BY <1>13 DEF Close
<1>14. CASE Join
  BY <1>14 DEF Join, Joinable, ObserverError
<1>15. CASE JoinFails
  BY <1>15 DEF JoinFails, ObserverError, Joinable
<1>16. CASE CloseTunnel
  BY <1>16 DEF CloseTunnel, TunnelCloses, StopProxy
<1>17. CASE Closed
  BY <1>17 DEF Closed
<1>18. CASE Commit
  BY <1>18 DEF Commit
<1>19. CASE Fail
  BY <1>19 DEF Fail
<1>20. CASE Sample
  BY <1>20 DEF Sample
<1>21. CASE PublishProgress
  BY <1>21 DEF PublishProgress, NameRevision
<1>22. CASE ObserverFails
  BY <1>22 DEF ObserverFails, NameRevision
<1>23. CASE RunEnds
  BY <1>23 DEF RunEnds
<1>24. CASE Elsewhere
  BY <1>24 DEF Elsewhere
<1>25. CASE Crash
  BY <1>25 DEF Crash
<1>26. CASE UNCHANGED vars
  BY <1>26 DEF vars
<1> QED
  BY <1>1, <1>2, <1>3, <1>4, <1>5, <1>6, <1>7, <1>8, <1>9, <1>10, <1>11, <1>12, <1>13, <1>14, <1>15, <1>16, <1>17, <1>18, <1>19, <1>20, <1>21, <1>22, <1>23, <1>24, <1>25, <1>26
     DEF Next, Caller, Starts, Closes, Observer

(* A settled stage is what is left of the others when the caller commits. *)
LEMMA SettledFromRest ==
  TypeOK /\ PlaceBacked /\ FilesAgree /\ ClosedOnce => CommitsSettledProgress
BY DEF TypeOK, PlaceBacked, FilesAgree, ClosedOnce, CommitsSettledProgress, Alive, Live, Unborn

LEMMA StepConsistent ==
  TypeOK /\ StageIsConsistent /\ [Next]_vars => TypeOK' /\ StageIsConsistent'
<1> SUFFICES ASSUME TypeOK, StageIsConsistent, [Next]_vars PROVE TypeOK' /\ StageIsConsistent'
  OBVIOUS
<1>1. TypeOK' /\ PlaceBacked' /\ FilesAgree' /\ ClosedOnce'
  BY StepType, StepPlace, StepFiles, StepOnce
<1>2. OpenBacked' /\ NothingLeaks' /\ TunnelOutlivesObserver'
  BY StepOpen
<1>3. CommitsSettledProgress'
  BY <1>1, SettledFromRest, PTL
<1> QED
  BY <1>1, <1>2, <1>3 DEF StageIsConsistent

(* The invariant is inductive: at every step of the caller's start and close, *)
(* of the observer's thread, of other callers and of a crash, the resources   *)
(* that are open, the two files and the place in the code fit together.       *)
THEOREM StageSafety == Spec => [](TypeOK /\ StageIsConsistent)
<1>1. Init => TypeOK /\ StageIsConsistent
  BY InitConsistent
<1>2. TypeOK /\ StageIsConsistent /\ [Next]_vars => (TypeOK /\ StageIsConsistent)'
  BY StepConsistent
<1> QED
  BY <1>1, <1>2, PTL DEF Spec

(* Every variable keeps its type, whatever the bound of the revisions is. *)
THEOREM TypeCorrect == Spec => []TypeOK
BY StageSafety, PTL

(* CompositePreStartLifecycle: whatever is open is still registered, and a  *)
(* stage that ends without reporting a failed close leaves nothing open.    *)
THEOREM NeverLeaks == Spec => []NothingLeaks
<1>1. StageIsConsistent => NothingLeaks
  BY DEF StageIsConsistent
<1> QED
  BY <1>1, StageSafety, PTL

(* CompositePreStartLifecycle.close: the observer is stopped before the tunnel. *)
THEOREM ObserverFirst == Spec => []TunnelOutlivesObserver
<1>1. StageIsConsistent => TunnelOutlivesObserver
  BY DEF StageIsConsistent
<1> QED
  BY <1>1, StageSafety, PTL

(* StageProgressObserver.close before the commit: nothing is committed over a *)
(* failed observer, nor with a record that names another revision.            *)
THEOREM CommitSettled == Spec => []CommitsSettledProgress
<1>1. StageIsConsistent => CommitsSettledProgress
  BY DEF StageIsConsistent
<1> QED
  BY <1>1, StageSafety, PTL

------------------------------------------------------------------------------
(* SingleRunVerifier.  The grades: fixture, host, oracle and upstream harness read one log alike. *)

LEMMA LoneMin ==
  ASSUME NEW i \in Int
  PROVE  Min({i}) = i
<1>1. \A x \in {i} : \A y \in {i} : x <= y
  OBVIOUS
<1>2. Min({i}) \in {i}
  BY <1>1 DEF Min
<1> QED
  BY <1>2

\* The marks of a log in which the fixtures find a section.
LEMMA MarksOf ==
  ASSUME NEW S, NEW o \in Seq(S), WellMarked(o)
  PROVE  \E s, e \in 1 .. Len(o) :
           /\ s < e
           /\ Positions(o, "start") = {s} /\ Positions(o, "end") = {e}
           /\ Min(Positions(o, "start")) = s
           /\ BetweenMarks(o) = SubSeq(o, s + 1, e - 1)
<1>1. DOMAIN o = 1 .. Len(o) /\ Len(o) \in Nat
  OBVIOUS
<1>2. PICK s \in DOMAIN o, e \in DOMAIN o :
        s < e /\ Positions(o, "start") = {s} /\ Positions(o, "end") = {e}
  BY DEF WellMarked
<1>3. s \in Int /\ e \in Int
  BY <1>1
<1>4. Min(Positions(o, "start")) = s
  BY <1>2, <1>3, LoneMin
<1>5. (CHOOSE i \in Positions(o, "start") : TRUE) = s
  BY <1>2
<1>6. (CHOOSE i \in Positions(o, "end") : TRUE) = e
  BY <1>2
<1>7. BetweenMarks(o) = SubSeq(o, s + 1, e - 1)
  BY <1>5, <1>6, Zenon DEF BetweenMarks
<1> QED
  BY <1>1, <1>2, <1>4, <1>7

\* Of such a log the upstream harness reads the same section, and the same statuses.
LEMMA SameStatuses ==
  ASSUME NEW S, NEW o \in Seq(S), WellMarked(o), NEW k
  PROVE  /\ OfficialFound(k, o) <=> Parses(k, BetweenMarks(o), o)
         /\ OfficialStatuses(k, o) = status_map(k, o)
<1>1. PICK s \in 1 .. Len(o), e \in 1 .. Len(o) :
        /\ s < e
        /\ Positions(o, "start") = {s} /\ Positions(o, "end") = {e}
        /\ Min(Positions(o, "start")) = s
        /\ BetweenMarks(o) = SubSeq(o, s + 1, e - 1)
  BY MarksOf
<1>2. OfficialFound(k, o) <=> Parses(k, OfficialSection(o), o)
  BY <1>1 DEF WellMarked, OfficialFound
<1> DEFINE stops == {i \in Positions(o, "start") \cup Positions(o, "end") : i > s}
<1>3. stops = {e}
  BY <1>1
<1>4. Min(stops) = e /\ stops # {}
  BY <1>3, LoneMin
<1>5. (IF stops = {} THEN Len(o) + 1 ELSE Min(stops)) = e
  BY <1>4
<1>6. OfficialSection(o) = SubSeq(o, s + 1, e - 1)
  BY <1>1, <1>5, Zenon DEF OfficialSection
<1> QED
  BY <1>1, <1>2, <1>6 DEF status_map, OfficialStatuses

\* And the fixture of SWE-bench Verified those of the same section.
LEMMA VerifiedReads ==
  ASSUME NEW S, NEW o \in Seq(S), WellMarked(o), VerifiedResolved(o)
  PROVE  LET statuses == django_statuses(BetweenMarks(o))
         IN  /\ \A t \in FailToPass : StatusOf(statuses, t) = "PASSED"
             /\ \A t \in PassToPass : StatusOf(statuses, t) \in {"PASSED", "SKIPPED"}
<1>1. PICK s \in 1 .. Len(o), e \in 1 .. Len(o) :
        /\ s < e
        /\ Positions(o, "start") = {s} /\ Positions(o, "end") = {e}
        /\ Min(Positions(o, "start")) = s
        /\ BetweenMarks(o) = SubSeq(o, s + 1, e - 1)
  BY MarksOf
<1> DEFINE m == Min(Positions(o, "start"))
           ends == {i \in Positions(o, "end") : i > m}
           section == SubSeq(o, m + 1, (IF ends = {} THEN Len(o) + 1 ELSE Min(ends)) - 1)
<1>2. ends = {e}
  BY <1>1
<1>3. Min(ends) = e /\ ends # {}
  BY <1>2, LoneMin
<1>4. section = BetweenMarks(o)
  BY <1>1, <1>3
<1>5. /\ \A t \in FailToPass : StatusOf(django_statuses(section), t) = "PASSED"
      /\ \A t \in PassToPass :
           StatusOf(django_statuses(section), t) \in {"PASSED", "SKIPPED"}
  BY Zenon DEF VerifiedResolved
<1> HIDE DEF section
<1> QED
  BY <1>4, <1>5

\* A log the official fixtures score has one grade: theirs is the harness's.
LEMMA GradesAgree ==
  ASSUME NEW S, NEW o \in Seq(S), NEW k \in {"flask", "django"}, MayScore(k, o)
  PROVE  OfficialGrade(k, o) = Grade(k, o)
<1> DEFINE st == status_map(k, o)
<1>1. WellMarked(o) /\ OfficialStatuses(k, o) = st
  BY SameStatuses DEF MayScore
<1>2. /\ \A t \in DOMAIN st : st[t] \in TestStatuses
      /\ \A t \in Expected(k) : StatusOf(st, t) \notin Inconclusive(k)
  BY DEF MayScore
<1>3. OfficialGrade(k, o) =
        Report(k, st, {t \in Expected(k) : StatusOf(st, t) \in {"PASSED", "XFAIL"}},
                      {t \in Expected(k) : StatusOf(st, t) \in {"missing", "FAILED", "ERROR"}})
  BY <1>1, Zenon DEF OfficialGrade
<1> DEFINE ss == {t \in Expected(k) : StatusOf(st, t) \in {"PASSED", "XFAIL"}}
           ff == {t \in Expected(k) : StatusOf(st, t) \in {"missing", "FAILED", "ERROR"}}
<1> HIDE DEF st
<1>4. CASE k = "flask"
  <2>1. \A t \in Expected(k) :
          StatusOf(st, t) \in {"missing", "FAILED", "ERROR", "PASSED", "XFAIL"}
    BY <1>2, <1>4 DEF StatusOf, TestStatuses, Inconclusive
  <2>2. ff = Expected(k) \ ss
    BY <2>1
  <2>3. Grade(k, o) = Report(k, st, ss, Expected(k) \ ss)
    BY <1>4 DEF Grade, score_log, st
  <2> QED
    BY <1>3, <2>2, <2>3
<1>5. CASE k = "django"
  <2>1. \A t \in Expected(k) : t \in DOMAIN st /\ st[t] \in {"FAILED", "ERROR", "PASSED"}
    BY <1>2, <1>5 DEF StatusOf, TestStatuses, Inconclusive
  <2>2. /\ ss = {t \in Expected(k) : st[t] = "PASSED"}
        /\ ff = {t \in Expected(k) : st[t] \in {"FAILED", "ERROR"}}
    BY <2>1 DEF StatusOf
  <2>3. Grade(k, o) = Report(k, st, {t \in Expected(k) : st[t] = "PASSED"},
                                    {t \in Expected(k) : st[t] \in {"FAILED", "ERROR"}})
    BY <1>5 DEF Grade, score_locked_log, st
  <2> QED
    BY <1>3, <2>2, <2>3
<1> QED
  BY <1>4, <1>5

\* The host's checks of a report admit what the fixture writes.
LEMMA FlaskReportHolds ==
  ASSUME NEW o, MayScore("flask", o)
  PROVE  ~Contradictory(score_log(o))
<1> DEFINE st == status_map("flask", o)
           ss == {t \in Expected("flask") : StatusOf(st, t) \in {"PASSED", "XFAIL"}}
           g == score_log(o)
<1>1. /\ \A t \in DOMAIN st : st[t] \in TestStatuses
      /\ \A t \in Expected("flask") : StatusOf(st, t) # "SKIPPED"
  BY DEF MayScore, Inconclusive
<1>2. /\ g.statuses = st /\ g.success = ss /\ g.failure = Expected("flask") \ ss
      /\ g.missing = Expected("flask") \ DOMAIN st /\ g.resolved = (g.failure = {})
  BY DEF score_log, Report
<1> HIDE DEF st, g
<1> QED
  BY <1>1, <1>2 DEF Contradictory, g

LEMMA DjangoReportHolds ==
  ASSUME NEW o, MayScore("django", o), o = log
  PROVE  DjangoDetailsAgree(score_locked_log(o)) <=> Unnamed \notin DOMAIN score_locked_log(o).statuses
<1> DEFINE st == status_map("django", o)
           g == score_locked_log(o)
<1>1. /\ \A t \in DOMAIN st : st[t] \in TestStatuses
      /\ \A t \in FailToPass : StatusOf(st, t) \notin {"missing", "SKIPPED", "XFAIL"}
  BY DEF MayScore, Inconclusive, Expected
<1>2. /\ g.statuses = st
      /\ g.success = {t \in FailToPass : st[t] = "PASSED"}
      /\ g.failure = {t \in FailToPass : st[t] \in {"FAILED", "ERROR"}}
      /\ g.missing = FailToPass \ DOMAIN st
  BY DEF score_locked_log, Report, Expected
<1> HIDE DEF st
<1>3. \A t \in FailToPass : t \in DOMAIN st /\ st[t] \in {"FAILED", "ERROR", "PASSED"}
  BY <1>1 DEF StatusOf, TestStatuses
<1> HIDE DEF g
<1> QED
  BY <1>1, <1>2, <1>3 DEF DjangoDetailsAgree, g

\* A grade the oracle records can be compared, and nothing is missing in it.
LEMMA RecordedIsComparable ==
  ASSUME NEW o, OracleAccepts("flask", o)
  PROVE  Comparable(OfficialGrade("flask", o)) /\ OfficialGrade("flask", o).missing = {}
<1> DEFINE g == OfficialGrade("flask", o)
<1>1. /\ \A t \in DOMAIN g.statuses : g.statuses[t] \in TestStatuses
      /\ Expected("flask") \subseteq DOMAIN g.statuses
      /\ \A t \in Expected("flask") : g.statuses[t] # "SKIPPED"
  BY DEF OracleAccepts, validate_official_grade
<1>2. /\ g.missing = Expected("flask") \ DOMAIN g.statuses
      /\ g.resolved = (g.failure = {})
  BY DEF OfficialGrade, Report
<1> HIDE DEF g
<1>3. \A t \in Expected("flask") : StatusOf(g.statuses, t) \notin {"missing", "SKIPPED"}
  BY <1>1 DEF StatusOf, TestStatuses
<1> QED
  BY <1>1, <1>2, <1>3 DEF Comparable, g
------------------------------------------------------------------------------
(* The inductive invariant of a verification stage. *)

Ungraded == [resolved |-> FALSE]
ResultTypes ==
  [class : {"none", "empty", "unapplied"}, applied : {FALSE}, code : {0}, digest : {<<>>},
   grade : {Ungraded}]

Before == {"plan", "check", "apply", "reject", "fuzzy", "evaluate", "score"}
Measured == {"whole", "mixed"}

VerifierTypes ==
  /\ kind \in Kinds /\ empty \in BOOLEAN /\ at \in Steps
  /\ tree \in {"clean", "whole", "partial", "mixed"}
  /\ log \in Seq(Lines(kind)) /\ late \in BOOLEAN /\ code \in Codes
  /\ exit \in {-1, 0, 2}
  /\ outcome \in {"none", "refused", "infrastructure", "contract", "passed", "failed",
                  "unscored", "parity", "divergent"}

\* A log that a fixture graded, and the grade.
Graded(digest, grade) ==
  IF Official THEN MayScore(kind, digest) /\ grade = Grade(kind, digest)
  ELSE VerifiedMayScore(digest) /\ grade = [resolved |-> VerifiedResolved(digest)]

\* A result is one of a log that was graded, or it carries nothing.
ResultInv ==
  /\ \/ result \in ResultTypes
     \/ /\ result.class = "scored" /\ result.applied = TRUE /\ result.code = code
        /\ exit = 0 /\ at \notin Before
        /\ Graded(result.digest, result.grade)
        /\ Official => tree \in Measured
        /\ ~late => result.digest = log
  /\ result.class \in {"empty", "unapplied"} => Official /\ exit = 0 /\ at \notin Before
  /\ at \in Before => result = NoResult
  /\ Official /\ at \in {"evaluate", "score"} => tree \in Measured
  /\ at \in {"apply", "reject", "fuzzy"} => Official
  /\ exit = 0 => result.class # "none"

\* An empty patch is not evaluated by the official fixtures.
EmptyInv ==
  /\ result.class = "empty" => empty
  /\ Official /\ empty =>
       /\ log = <<>> /\ result.class \in {"none", "empty"}
       /\ at \notin {"apply", "reject", "fuzzy", "evaluate", "score"}

\* The result is that of the sealed log.
Settled ==
  /\ exit = 0 /\ result.class = "scored" /\ result.digest = log /\ result.code \in 0..255

OutcomeInv ==
  /\ at \notin {"compare", "end", "unsealed"} => outcome = "none"
  /\ at = "unsealed" => outcome = "infrastructure"
  /\ at = "compare" =>
       /\ kind = "flask"
       /\ empty => result.class = "empty" /\ ~result.applied /\ outcome = "unscored"
       /\ ~empty => outcome \in {"passed", "failed"}
  /\ outcome \in Accepted =>
       /\ Official /\ empty => kind = "flask" /\ at = "end" /\ outcome = "parity"
       /\ Official /\ ~empty => Settled
       /\ outcome = "passed" => result.class = "scored" /\ result.grade.resolved
       /\ outcome = "failed" => ~result.grade.resolved
  /\ outcome \in {"parity", "divergent"} => at = "end" /\ kind = "flask"
  /\ HostAgrees /\ ParityHolds

VerifierInv == VerifierTypes /\ ResultInv /\ EmptyInv /\ OutcomeInv

\* The parser of the Django fixture passes tests that the other one does not, and nothing else.
LEMMA PatternsOnlyPass ==
  ASSUME NEW o, NEW t, StatusOf(django_statuses(o), t) \in {"PASSED", "SKIPPED"}
  PROVE  StatusOf(parse_log_django(o), t) \in {"PASSED", StatusOf(django_statuses(o), t)}
<1> DEFINE own == django_statuses(o)
           passed == {o[i].test : i \in Resumed(o)} \cup {o[i].mark : i \in Positions(o, "version")}
<1>1. parse_log_django(o) =
        [x \in passed \cup DOMAIN own |-> IF x \in passed THEN "PASSED" ELSE own[x]]
  BY Zenon DEF parse_log_django
<1>2. StatusOf(own, t) \in {"PASSED", "SKIPPED"}
  OBVIOUS
<1> HIDE DEF own, passed
<1>3. t \in DOMAIN own
  BY <1>2 DEF StatusOf
<1>4. StatusOf(parse_log_django(o), t) \in {"PASSED", StatusOf(own, t)}
  BY <1>1, <1>3 DEF StatusOf
<1> QED
  BY <1>4 DEF own

\* A pass of that fixture is one of the harness.
LEMMA VerifiedPasses ==
  ASSUME NEW S, NEW o \in Seq(S), WellMarked(o), VerifiedResolved(o)
  PROVE  OfficialGrade("verified", o).resolved
<1> DEFINE own == django_statuses(BetweenMarks(o))
           st == parse_log_django(BetweenMarks(o))
<1>1. /\ \A t \in FailToPass : StatusOf(own, t) = "PASSED"
      /\ \A t \in PassToPass : StatusOf(own, t) \in {"PASSED", "SKIPPED"}
  BY VerifiedReads
<1>2. \A t \in FailToPass \cup PassToPass : StatusOf(st, t) \in {"PASSED", "SKIPPED"}
  BY <1>1, PatternsOnlyPass
<1>3. parse_log("verified", BetweenMarks(o)) = st
  BY DEF parse_log
<1> HIDE DEF st, own
<1>4. DOMAIN st # {}
  BY <1>2, SelectionAssumption DEF StatusOf
<1>5. status_map("verified", o) = st
  BY <1>3, <1>4 DEF status_map, StatusesOf
<1>6. OfficialStatuses("verified", o) = st
  BY <1>5, SameStatuses
<1>7. OfficialGrade("verified", o).resolved =
        ({t \in Expected("verified") :
            StatusOf(st, t) \in {"missing", "FAILED", "ERROR"}} = {})
  BY <1>6 DEF OfficialGrade, Report
<1>8. Expected("verified") = FailToPass \cup PassToPass
  BY DEF Expected
<1> QED
  BY <1>2, <1>7, <1>8

------------------------------------------------------------------------------
(* The invariant holds at the start, and every step keeps it. *)

LEMMA VerifierStarts == VerifierInit => VerifierInv
<1> SUFFICES ASSUME VerifierInit PROVE VerifierInv
  OBVIOUS
<1> USE DEF VerifierInit
<1>0. log \in Seq(Lines(kind))
  OBVIOUS
<1>1. VerifierTypes
  BY <1>0 DEF VerifierTypes, Kinds, Steps, Codes
<1>2. NoResult \in ResultTypes /\ NoResult.class = "none"
  BY DEF ResultTypes, NoResult, Ungraded
<1>3. ResultInv
  BY <1>2 DEF ResultInv, Before
<1>4. EmptyInv
  BY <1>2 DEF EmptyInv
<1>5. OutcomeInv
  BY DEF OutcomeInv, Accepted, HostAgrees, ParityHolds
<1> QED
  BY <1>1, <1>3, <1>4, <1>5 DEF VerifierInv

LEMMA TypesKept ==
  ASSUME VerifierTypes, VerifierNext
  PROVE  VerifierTypes'
<1> USE DEF VerifierTypes, file, Steps, Leave, Planned
<1>1. CASE PlanFlask \/ PlanDjango \/ PlanVerified
  BY <1>1 DEF PlanFlask, PlanDjango, PlanVerified
<1>2. CASE Check \/ CheckVerified
  BY <1>2 DEF Check, CheckVerified
<1>3. CASE Apply \/ ApplyReject \/ ApplyFuzzy
  BY <1>3 DEF Apply, ApplyReject, ApplyFuzzy
<1>4. CASE Evaluate
  <2>1. log' \in Prints[kind] /\ kind' = kind
    BY <1>4 DEF Evaluate
  <2>2. log' \in Seq(Lines(kind))
    BY <2>1, LogAssumption
  <2> QED
    BY <1>4, <2>1, <2>2 DEF Evaluate
<1>5. CASE LateWrite
  <2>1. PICK l \in LateLines \cap Lines(kind) : log' = Append(log, l)
    BY <1>5 DEF LateWrite
  <2>2. log' \in Seq(Lines(kind))
    BY <2>1
  <2> QED
    BY <1>5, <2>2 DEF LateWrite
<1>6. CASE Score \/ ScoreVerified
  BY <1>6 DEF Score, ScoreVerified
<1>7. CASE GiveUp \/ ToolFails \/ Seal
  BY <1>7 DEF GiveUp, ToolFails, Seal
<1>8. CASE ParseFlask
  BY <1>8 DEF ParseFlask, parse_result, Verdict
<1>9. CASE ParseDjango
  BY <1>9 DEF ParseDjango, Verdict
<1>10. CASE ParseVerified
  BY <1>10 DEF ParseVerified, Verdict
<1>11. CASE Compare
  BY <1>11 DEF Compare
<1> QED
  BY <1>1, <1>2, <1>3, <1>4, <1>5, <1>6, <1>7, <1>8, <1>9, <1>10, <1>11 DEF VerifierNext

LEMMA ResultKept ==
  ASSUME VerifierTypes, ResultInv, EmptyInv, VerifierNext
  PROVE  ResultInv'
<1> USE DEF file, Leave, Before, Measured
<1>0. kind' = kind
  BY DEF VerifierNext, PlanFlask, PlanDjango, PlanVerified, Planned, Check, CheckVerified, Apply,
         ApplyReject, ApplyFuzzy, Evaluate, LateWrite, Score, ScoreVerified, GiveUp, ToolFails,
         Seal, ParseFlask, ParseDjango, ParseVerified, Compare
<1>01. Official' = Official
  BY <1>0 DEF Official
<1>02. NoResult \in ResultTypes /\ NoResult.class = "none"
       /\ \A c \in {"empty", "unapplied"} : Unscored(c) \in ResultTypes /\ Unscored(c).class = c
  BY DEF NoResult, Unscored, ResultTypes, Ungraded
<1>03. result \in ResultTypes => result.class \in {"none", "empty", "unapplied"}
  BY DEF ResultTypes
<1>04. ASSUME UNCHANGED <<result, code>>
       PROVE  Graded(result.digest, result.grade)' <=> Graded(result.digest, result.grade)
  BY <1>0, <1>04 DEF Graded, Official
<1> HIDE DEF Official
<1>1. CASE PlanFlask \/ PlanDjango \/ PlanVerified
  BY <1>01, <1>02, <1>1 DEF PlanFlask, PlanDjango, PlanVerified, Planned, ResultInv
<1>2. CASE Check
  BY <1>01, <1>02, <1>03, <1>2 DEF Check, ResultInv
<1>3. CASE CheckVerified
  BY <1>01, <1>02, <1>03, <1>3 DEF CheckVerified, ResultInv
<1>4. CASE Apply \/ ApplyReject
  BY <1>01, <1>02, <1>4 DEF Apply, ApplyReject, ResultInv
<1>5. CASE ApplyFuzzy
  BY <1>01, <1>02, <1>5 DEF ApplyFuzzy, ResultInv
<1>6. CASE Evaluate
  BY <1>01, <1>02, <1>6 DEF Evaluate, ResultInv
<1>7. CASE LateWrite
  <2>1. UNCHANGED <<at, tree, code, result, exit>> /\ late' = TRUE
    BY <1>7 DEF LateWrite
  <2> QED
    BY <1>01, <1>04, <2>1 DEF ResultInv
<1>8. CASE Score
  <2>1. /\ UNCHANGED <<kind, empty, tree, log, late, code>> /\ at = "score" /\ at' = "seal"
        /\ Official
    BY <1>8 DEF Score
  <2>2. CASE MayScore(kind, log)
    <3>1. result' = Scored(Grade(kind, log)) /\ exit' = 0
      BY <1>8, <2>2 DEF Score
    <3>2. /\ result'.class = "scored" /\ result'.applied = TRUE /\ result'.code = code
          /\ result'.digest = log /\ result'.grade = Grade(kind, log)
      BY <3>1 DEF Scored
    <3>3. Graded(result.digest, result.grade)'
      BY <1>01, <2>1, <2>2, <3>2 DEF Graded
    <3> QED
      BY <1>01, <2>1, <3>1, <3>2, <3>3 DEF ResultInv
  <2>3. CASE ~MayScore(kind, log)
    BY <1>01, <1>02, <1>8, <2>1, <2>3 DEF Score, ResultInv
  <2> QED
    BY <2>2, <2>3
<1>9. CASE ScoreVerified
  <2>1. /\ UNCHANGED <<kind, empty, tree, log, late, code>> /\ at = "score" /\ at' = "seal"
        /\ ~Official
    BY <1>9 DEF ScoreVerified
  <2>2. CASE VerifiedMayScore(log)
    <3>1. result' = Scored([resolved |-> VerifiedResolved(log)]) /\ exit' = 0
      BY <1>9, <2>2 DEF ScoreVerified
    <3>2. /\ result'.class = "scored" /\ result'.applied = TRUE /\ result'.code = code
          /\ result'.digest = log /\ result'.grade = [resolved |-> VerifiedResolved(log)]
      BY <3>1 DEF Scored
    <3>3. Graded(result.digest, result.grade)'
      BY <1>01, <2>1, <2>2, <3>2 DEF Graded
    <3> QED
      BY <1>01, <2>1, <3>1, <3>2, <3>3 DEF ResultInv
  <2>3. CASE ~VerifiedMayScore(log)
    BY <1>01, <1>02, <1>9, <2>1, <2>3 DEF ScoreVerified, ResultInv
  <2> QED
    BY <2>2, <2>3
<1>10. CASE GiveUp \/ ToolFails
  BY <1>01, <1>02, <1>10 DEF GiveUp, ToolFails, ResultInv
<1>11. CASE Seal
  BY <1>01, <1>04, <1>11 DEF Seal, ResultInv
<1>12. CASE ParseFlask \/ ParseDjango \/ ParseVerified \/ Compare
  BY <1>01, <1>04, <1>12 DEF ParseFlask, ParseDjango, ParseVerified, Compare, ResultInv
<1> QED
  BY <1>1, <1>2, <1>3, <1>4, <1>5, <1>6, <1>7, <1>8, <1>9, <1>10, <1>11, <1>12 DEF VerifierNext

LEMMA EmptyKept ==
  ASSUME VerifierTypes, ResultInv, EmptyInv, VerifierNext
  PROVE  EmptyInv'
<1> USE DEF file, Leave
<1>0. kind' = kind /\ empty' = empty
  BY DEF VerifierNext, PlanFlask, PlanDjango, PlanVerified, Planned, Check, CheckVerified, Apply,
         ApplyReject, ApplyFuzzy, Evaluate, LateWrite, Score, ScoreVerified, GiveUp, ToolFails,
         Seal, ParseFlask, ParseDjango, ParseVerified, Compare
<1>1. Official' = Official
  BY <1>0 DEF Official
<1>2. NoResult.class = "none" /\ \A c \in {"empty", "unapplied"} : Unscored(c).class = c
  BY DEF NoResult, Unscored
<1>3. at \in Before => result.class = "none"
  BY <1>2 DEF ResultInv
<1> HIDE DEF Official
<1>4. CASE PlanFlask \/ PlanDjango \/ PlanVerified
  BY <1>0, <1>1, <1>4 DEF PlanFlask, PlanDjango, PlanVerified, Planned, EmptyInv
<1>5. CASE Check
  BY <1>0, <1>1, <1>2, <1>3, <1>5 DEF Check, EmptyInv, Before
<1>6. CASE CheckVerified
  BY <1>0, <1>1, <1>6 DEF CheckVerified, EmptyInv
<1>7. CASE Apply \/ ApplyReject
  BY <1>0, <1>1, <1>7 DEF Apply, ApplyReject, EmptyInv
<1>8. CASE ApplyFuzzy
  BY <1>0, <1>1, <1>2, <1>3, <1>8 DEF ApplyFuzzy, EmptyInv, Before
<1>9. CASE Evaluate
  BY <1>0, <1>1, <1>9 DEF Evaluate, EmptyInv
<1>10. CASE LateWrite
  <2>1. UNCHANGED <<at, result>> /\ (at = "score" \/ result.class = "scored")
    BY <1>10 DEF LateWrite
  <2> QED
    BY <1>0, <1>1, <2>1 DEF EmptyInv
<1>11. CASE Score
  BY <1>0, <1>1, <1>3, <1>11 DEF Score, EmptyInv, Scored
<1>12. CASE ScoreVerified
  BY <1>0, <1>1, <1>3, <1>12 DEF ScoreVerified, EmptyInv, Scored, Before
<1>13. CASE GiveUp \/ ToolFails \/ Seal
  BY <1>0, <1>1, <1>13 DEF GiveUp, ToolFails, Seal, EmptyInv
<1>14. CASE ParseFlask \/ ParseDjango \/ ParseVerified \/ Compare
  BY <1>0, <1>1, <1>14 DEF ParseFlask, ParseDjango, ParseVerified, Compare, EmptyInv
<1> QED
  BY <1>4, <1>5, <1>6, <1>7, <1>8, <1>9, <1>10, <1>11, <1>12, <1>13, <1>14 DEF VerifierNext

LEMMA FlaskParsed ==
  ASSUME VerifierInv, ParseFlask
  PROVE  OutcomeInv'
<1> DEFINE v == parse_result
<1>0. /\ kind = "flask" /\ at = "parse" /\ UNCHANGED <<file, result, exit>> /\ outcome' = v
      /\ at' = IF v \in {"passed", "failed"} \/ result.class = "empty" THEN "compare" ELSE "end"
  BY DEF ParseFlask
<1>1. /\ UNCHANGED <<kind, empty, tree, log, late, code, result, exit>> /\ Official /\ Official'
      /\ code \in Codes
  BY <1>0 DEF file, Official, VerifierInv, VerifierTypes
<1>2. v \in {"infrastructure", "contract", "unscored", "passed", "failed"}
  BY DEF parse_result, Verdict
<1>3. v \in {"passed", "failed"} =>
        /\ Settled /\ (v = "passed" <=> result.grade.resolved)
  BY DEF parse_result, Verdict, Settled
<1>4. Settled => v \in {"passed", "failed"}
  <2> SUFFICES ASSUME Settled PROVE v \in {"passed", "failed"}
    OBVIOUS
  <2>1. result \notin ResultTypes
    BY DEF Settled, ResultTypes
  <2>2. MayScore("flask", log) /\ result.grade = score_log(log)
    BY <1>0, <1>1, <2>1 DEF VerifierInv, ResultInv, Graded, Grade, Settled
  <2>3. ~Contradictory(result.grade) /\ SealedLogAgrees(result.grade)
    BY <2>2, FlaskReportHolds DEF SealedLogAgrees
  <2> QED
    BY <2>3 DEF Settled, parse_result, Verdict
<1>5. empty => result.class \in {"none", "empty"} /\ log = <<>>
  BY <1>1 DEF VerifierInv, EmptyInv
<1>6. result.class = "empty" => empty /\ exit = 0 /\ result.digest = <<>> /\ ~result.applied
  BY DEF VerifierInv, EmptyInv, ResultInv, ResultTypes
<1>7. empty /\ at' = "compare" => result.class = "empty" /\ v = "unscored"
  <2> SUFFICES ASSUME empty, at' = "compare" PROVE result.class = "empty" /\ v = "unscored"
    OBVIOUS
  <2>1. result.class = "empty"
    BY <1>0, <1>3, <1>5 DEF Settled
  <2> QED
    BY <1>5, <1>6, <2>1 DEF parse_result
<1> HIDE DEF v
<1>8. HostAgrees'
  <2> SUFFICES ASSUME at' = "end", exit = 0, result.class = "scored", result.digest = log,
                      result.code >= 0
               PROVE  FALSE
    BY <1>1 DEF HostAgrees
  <2>1. result.code = code
    BY DEF VerifierInv, ResultInv, ResultTypes
  <2>2. Settled
    BY <1>1, <2>1 DEF Settled, Codes
  <2> QED
    BY <1>0, <1>4, <2>2
<1>9. at' = "end" => outcome' \notin Accepted
  BY <1>0, <1>2 DEF Accepted
<1>10. ParityHolds'
  BY <1>9 DEF ParityHolds, Accepted
<1>11. outcome' = "passed" => Settled' /\ result.class = "scored" /\ result.grade.resolved
  BY <1>0, <1>1, <1>3 DEF Settled
<1>12. outcome' = "failed" => Settled' /\ ~result.grade.resolved
  BY <1>0, <1>1, <1>3 DEF Settled
<1>13. empty => outcome' \notin {"passed", "failed"}
  BY <1>0, <1>3, <1>5 DEF Settled
<1>14. at' \in {"compare", "end"} /\ (at' = "compare" /\ ~empty => outcome' \in {"passed", "failed"})
  BY <1>0, <1>6
<1> QED
  BY <1>0, <1>1, <1>2, <1>6, <1>7, <1>8, <1>9, <1>10, <1>11, <1>12, <1>13, <1>14
     DEF OutcomeInv, Accepted

LEMMA DjangoParsed ==
  ASSUME VerifierInv, ParseDjango
  PROVE  OutcomeInv'
<1>0. /\ kind = "django" /\ at' = "end" /\ UNCHANGED <<file, result, exit>>
      /\ outcome' \in {"infrastructure", "contract", "unscored", "passed", "failed"}
      /\ outcome' \in {"passed", "failed"} =>
           Settled /\ (outcome' = "passed" <=> result.grade.resolved)
  BY DEF ParseDjango, Verdict, Settled
<1>1. /\ UNCHANGED <<kind, empty, tree, log, late, code, result, exit>> /\ Official /\ Official'
      /\ code \in Codes
  BY <1>0 DEF file, Official, VerifierInv, VerifierTypes
<1>2. Settled => outcome' = IF PassedUnnamed(result.grade) THEN "contract" ELSE Verdict
  <2> SUFFICES ASSUME Settled
               PROVE  outcome' = IF PassedUnnamed(result.grade) THEN "contract" ELSE Verdict
    OBVIOUS
  <2>1. result \notin ResultTypes
    BY DEF Settled, ResultTypes
  <2>2. MayScore("django", log) /\ result.grade = score_locked_log(log)
    BY <1>0, <1>1, <2>1 DEF VerifierInv, ResultInv, Graded, Grade, Settled
  <2>3. DjangoDetailsAgree(result.grade) <=> ~PassedUnnamed(result.grade)
    BY <1>0, <2>2, DjangoReportHolds DEF PassedUnnamed
  <2> QED
    BY <2>3 DEF Settled, ParseDjango
<1>3. HostAgrees'
  <2>1. result.class = "scored" => result.code = code
    BY DEF VerifierInv, ResultInv, ResultTypes
  <2>2. exit = 0 /\ result.class = "scored" /\ result.digest = log /\ result.code >= 0 => Settled
    BY <1>1, <2>1 DEF Settled, Codes
  <2>3. PassedUnnamed(result.grade)' <=> PassedUnnamed(result.grade)
    BY <1>1 DEF PassedUnnamed
  <2> QED
    BY <1>0, <1>1, <1>2, <2>2, <2>3 DEF HostAgrees, Accepted, Verdict
<1>4. ParityHolds'
  BY <1>0, <1>1 DEF ParityHolds
<1>5. empty => outcome' \notin {"passed", "failed"}
  BY <1>0, <1>1 DEF Settled, VerifierInv, EmptyInv
<1>6. Settled => Settled'
  BY <1>1 DEF Settled
<1> QED
  BY <1>0, <1>1, <1>3, <1>4, <1>5, <1>6 DEF OutcomeInv, Accepted, Settled

LEMMA VerifiedParsed ==
  ASSUME VerifierInv, ParseVerified
  PROVE  OutcomeInv'
<1>0. /\ kind = "verified" /\ at' = "end" /\ UNCHANGED <<file, result, exit>>
      /\ outcome' = IF exit # 0 THEN "infrastructure"
                    ELSE IF result.grade.resolved THEN "passed" ELSE "failed"
  BY DEF ParseVerified, Verdict
<1>1. UNCHANGED <<kind, empty, log, result, exit>> /\ ~Official /\ ~Official'
  BY <1>0 DEF file, Official
<1>2. result.grade.resolved => result.class = "scored"
  <2>1. result \in ResultTypes \/ result.class = "scored"
    BY DEF VerifierInv, ResultInv
  <2>2. result \in ResultTypes => result.grade = [resolved |-> FALSE]
    BY DEF ResultTypes, Ungraded
  <2>3. [resolved |-> FALSE].resolved = FALSE
    OBVIOUS
  <2> QED
    BY <2>1, <2>2, <2>3
<1>3. HostAgrees'
  BY <1>0, <1>1 DEF HostAgrees, Accepted, PassedUnnamed
<1>4. ParityHolds'
  BY <1>0, <1>1 DEF ParityHolds
<1> QED
  BY <1>0, <1>1, <1>2, <1>3, <1>4 DEF OutcomeInv, Accepted

LEMMA Compared ==
  ASSUME VerifierInv, Compare
  PROVE  OutcomeInv'
<1> DEFINE g == OfficialGrade(kind, log)
<1>0. /\ at = "compare" /\ at' = "end" /\ UNCHANGED <<file, result, exit>> /\ kind = "flask"
      /\ outcome' = IF empty THEN IF compare_empty THEN "parity" ELSE "divergent"
                    ELSE IF ~OracleAccepts(kind, log) \/ ~Comparable(g) THEN outcome
                    ELSE IF compare_scored(g) THEN "parity" ELSE "divergent"
  BY DEF Compare, VerifierInv, OutcomeInv
<1>1. UNCHANGED <<kind, empty, tree, log, late, code, result, exit>> /\ Official /\ Official'
  BY <1>0 DEF file, Official
<1>2. CASE empty
  <2>1. result.class = "empty" /\ ~result.applied /\ outcome = "unscored"
    BY <1>0, <1>2 DEF VerifierInv, OutcomeInv
  <2>2. outcome' = "parity"
    BY <1>0, <1>2, <2>1 DEF compare_empty
  <2>3. HostAgrees'
    BY <1>1, <2>1 DEF HostAgrees
  <2>4. ParityHolds'
    BY <1>1, <1>2, <2>2 DEF ParityHolds
  <2> QED
    BY <1>0, <1>1, <1>2, <2>2, <2>3, <2>4 DEF OutcomeInv, Accepted
<1>3. CASE ~empty
  <2>1. outcome \in {"passed", "failed"}
    BY <1>0, <1>3 DEF VerifierInv, OutcomeInv
  <2>2. Settled /\ (outcome = "passed" <=> result.grade.resolved)
    BY <1>1, <1>3, <2>1 DEF VerifierInv, OutcomeInv, Accepted
  <2>3. MayScore("flask", log) /\ result.grade = Grade("flask", log)
    <3>1. result \notin ResultTypes
      BY <2>2 DEF Settled, ResultTypes
    <3> QED
      BY <1>0, <1>1, <2>2, <3>1 DEF VerifierInv, ResultInv, Graded, Settled
  <2>4. log \in Seq(Lines(kind))
    BY DEF VerifierInv, VerifierTypes
  <2>5. result.grade = g
    BY <1>0, <2>3, <2>4, GradesAgree
  <2>6. OracleAccepts(kind, log) => Comparable(g) /\ g.missing = {}
    BY <1>0, RecordedIsComparable
  <2> HIDE DEF g
  <2>7. OracleAccepts(kind, log) => compare_scored(g)
    BY <2>1, <2>2, <2>5, <2>6 DEF compare_scored, Settled
  <2>8. outcome' = IF OracleAccepts(kind, log) THEN "parity" ELSE outcome
    BY <1>0, <1>3, <2>6, <2>7
  <2>9. HostAgrees'
    BY <1>0, <1>1, <2>1, <2>2, <2>8 DEF HostAgrees, Accepted, PassedUnnamed
  <2>10. ParityHolds'
    BY <1>1, <1>3, <2>1, <2>8 DEF ParityHolds
  <2>11. Settled' /\ result'.class = "scored"
    BY <1>1, <2>2 DEF Settled
  <2> QED
    BY <1>0, <1>1, <1>3, <2>1, <2>2, <2>8, <2>9, <2>10, <2>11 DEF OutcomeInv, Accepted
<1> QED
  BY <1>2, <1>3

LEMMA OutcomeKept ==
  ASSUME VerifierInv, VerifierNext
  PROVE  OutcomeInv'
<1> USE DEF file, Leave, Accepted, HostAgrees, ParityHolds
<1>0. at \notin {"compare", "end", "unsealed"} => outcome = "none"
  BY DEF VerifierInv, OutcomeInv
<1>1. CASE PlanFlask \/ PlanDjango \/ PlanVerified
  <2>1. /\ UNCHANGED <<kind, empty, log, result, exit>>
        /\ \/ at' = "check" /\ outcome' = "none"
           \/ at' = "end" /\ outcome' = "refused"
    BY <1>0, <1>1 DEF PlanFlask, PlanDjango, PlanVerified, Planned
  <2>2. exit # 0
    BY <1>1 DEF PlanFlask, PlanDjango, PlanVerified, Planned, VerifierInv, ResultInv, NoResult,
                Before
  <2> QED
    BY <2>1, <2>2 DEF OutcomeInv
<1>2. CASE Check \/ CheckVerified \/ Apply \/ ApplyReject \/ ApplyFuzzy \/ Evaluate
           \/ LateWrite \/ Score \/ ScoreVerified \/ GiveUp \/ ToolFails
  <2>1. at' \notin {"compare", "end", "unsealed"} /\ outcome' = "none"
    BY <1>0, <1>2
       DEF Check, CheckVerified, Apply, ApplyReject, ApplyFuzzy, Evaluate, LateWrite, Score,
           ScoreVerified, GiveUp, ToolFails
  <2> QED
    BY <2>1 DEF OutcomeInv
<1>3. CASE ParseFlask
  BY <1>3, FlaskParsed
<1>4. CASE ParseDjango
  BY <1>4, DjangoParsed
<1>5. CASE ParseVerified
  BY <1>5, VerifiedParsed
<1>6. CASE Compare
  BY <1>6, Compared
<1>7. CASE Seal
  BY <1>0, <1>7 DEF Seal, OutcomeInv
<1> QED
  BY <1>1, <1>2, <1>3, <1>4, <1>5, <1>6, <1>7 DEF VerifierNext

(* Whatever the patch, the log, the late writers, the failures of the tools and the three
   verifiers: what a step of the stage knows of the log and its grade stays true. *)
THEOREM VerifierInvariant == VerifierSpec => []VerifierInv
<1>1. VerifierInv /\ [VerifierNext]_verifierVars => VerifierInv'
  <2> SUFFICES ASSUME VerifierInv, [VerifierNext]_verifierVars PROVE VerifierInv'
    OBVIOUS
  <2>1. CASE VerifierNext
    BY <2>1, TypesKept, ResultKept, EmptyKept, OutcomeKept DEF VerifierInv
  <2>2. CASE UNCHANGED verifierVars
    BY <2>2
       DEF verifierVars, VerifierInv, VerifierTypes, ResultInv, Graded, Official, EmptyInv,
           OutcomeInv, Settled, HostAgrees, PassedUnnamed, ParityHolds
  <2> QED
    BY <2>1, <2>2
<1> QED
  BY <1>1, VerifierStarts, PTL DEF VerifierSpec

(* Type correctness of the verification stage. *)
THEOREM VerifierTypesCorrect == VerifierSpec => []VerifierTypeOK
<1>1. VerifierInv => VerifierTypeOK
  BY DEF VerifierInv, VerifierTypes, VerifierTypeOK, ResultInv, ResultTypes
<1> QED
  BY <1>1, VerifierInvariant, PTL

(* VerdictIsSound: a verdict the host accepts is the one the upstream harness reads from the
   sealed log, for every log, selection of tests and late writer. *)
THEOREM VerdictsAreSound == VerifierSpec => []VerdictIsSound
<1>1. ASSUME VerifierInv PROVE VerdictIsSound
  <2> SUFFICES ASSUME outcome \in Accepted, ~(Official /\ empty)
               PROVE  /\ Official =>
                           /\ OfficialFound(kind, log) /\ tree \in {"whole", "mixed"}
                           /\ result.grade.resolved = OfficialGrade(kind, log).resolved
                      /\ ~Official /\ ~late /\ WellMarked(log) /\ OfficialFound(kind, log)
                         /\ outcome = "passed" => OfficialGrade(kind, log).resolved
    BY DEF VerdictIsSound
  <2>1. log \in Seq(Lines(kind)) /\ kind \in Kinds
    BY <1>1 DEF VerifierInv, VerifierTypes
  <2>2. ASSUME Official
        PROVE  /\ OfficialFound(kind, log) /\ tree \in {"whole", "mixed"}
               /\ result.grade.resolved = OfficialGrade(kind, log).resolved
    <3>1. Settled
      BY <1>1, <2>2 DEF VerifierInv, OutcomeInv
    <3>2. result \notin ResultTypes
      BY <3>1 DEF Settled, ResultTypes
    <3>3. MayScore(kind, log) /\ result.grade = Grade(kind, log) /\ tree \in Measured
      BY <1>1, <2>2, <3>1, <3>2 DEF VerifierInv, ResultInv, Graded, Settled
    <3>4. kind \in {"flask", "django"}
      BY <2>1, <2>2 DEF Kinds, Official
    <3>5. OfficialGrade(kind, log) = Grade(kind, log)
      BY <2>1, <3>3, <3>4, GradesAgree
    <3>6. OfficialFound(kind, log)
      BY <2>1, <3>3, SameStatuses DEF MayScore
    <3> QED
      BY <3>3, <3>5, <3>6 DEF Measured
  <2>3. ASSUME ~Official, ~late, WellMarked(log), outcome = "passed"
        PROVE  OfficialGrade(kind, log).resolved
    <3>1. result.class = "scored" /\ result.grade.resolved
      BY <1>1, <2>3 DEF VerifierInv, OutcomeInv, Accepted
    <3>2. result \notin ResultTypes
      BY <3>1 DEF ResultTypes
    <3>3. VerifiedResolved(log)
      BY <1>1, <2>3, <3>1, <3>2 DEF VerifierInv, ResultInv, Graded
    <3> QED
      BY <2>1, <2>3, <3>3, VerifiedPasses DEF Official
  <2> QED
    BY <2>2, <2>3
<1> QED
  BY <1>1, VerifierInvariant, PTL

(* HostAgrees: of the results a fixture writes of a log nobody touched, the host refuses
   exactly those of Django in which the multiline patterns passed a test without a name; it
   accepts the others, and passes the resolved ones. *)
THEOREM HostRefusesOnlyTheUnnamed == VerifierSpec => []HostAgrees
<1>1. VerifierInv => HostAgrees
  BY DEF VerifierInv, OutcomeInv
<1> QED
  BY <1>1, VerifierInvariant, PTL

(* ParityHolds: fixture, oracle and comparison never tell one log of Flask apart. *)
THEOREM ParityAlways == VerifierSpec => []ParityHolds
<1>1. VerifierInv => ParityHolds
  BY DEF VerifierInv, OutcomeInv
<1> QED
  BY <1>1, VerifierInvariant, PTL
===============================================================================

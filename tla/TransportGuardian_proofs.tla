---------------------- MODULE TransportGuardian_proofs ----------------------
(***************************************************************************)
(* Proofs about the transport layer for any number of routes, any order of *)
(* priority, and operator commands at any time.                            *)
(***************************************************************************)
EXTENDS TransportGuardian, WellFoundedInduction, TLAPS

\* The fields of the selector's file.
JournalFields ==
    {"active", "requested", "failed", "quarantined", "fingerprint", "verified"}

\* The journal keeps its shape.
JournalShape ==
    /\ DOMAIN journal = JournalFields
    /\ DOMAIN journal.failed = Names

\* The verification loop counts up from the first route.
TodoFits == todo \in Nat \ {0}

\* A route under test is the one the loop is at, and a generation is held
\* while it mounts, works and serves.
TestFits ==
    /\ testing # NoName =>
           /\ phase \in {"mount", "off"} /\ pending
           /\ todo <= Len(Order) /\ testing = Order[todo]
    /\ phase \in {"mount", "work", "online"} => held

\* What is mounted in which phase.
ExposureFits ==
    /\ exposed # {} => held \/ tasks
    /\ phase = "mount" => exposed \subseteq (IF testing = NoName THEN {} ELSE {testing})
    /\ phase \in {"work", "online"} => exposed \subseteq {route}
    /\ OneRouteExposed

\* Blame is given when a generation ends, and to the route that failed.
BlameFits ==
    /\ phase \in {"begin", "mount", "work", "online"} => blamed = NoName
    /\ blamed # NoName => blamed = failing

RouteInv == JournalShape /\ TodoFits /\ TestFits /\ ExposureFits /\ BlameFits

\* Positions of Order hold transports.
LEMMA OrderFacts ==
    /\ Len(Order) \in Nat
    /\ \A i \in 1..Len(Order) : Order[i] \in Names /\ Order[i] # NoName
<1>1. Len(Order) \in Nat
  BY SelectorAssumption, SMTT(60)
<1>2. \A i \in 1..Len(Order) : Order[i] \in Names
  BY SMTT(60) DEF Names
<1> QED BY <1>1, <1>2, SelectorAssumption, SMTT(60)

\* Steps of the cycle.
LEMMA RouteProgress ==
    ASSUME RouteInv, TProgress
    PROVE  RouteInv'
<1> USE OrderFacts DEF RouteInv, JournalShape, TodoFits, TestFits, ExposureFits,
      OneRouteExposed, BlameFits
<1>1. CASE RecoveryWait
  BY <1>1, SMTT(60) DEF RecoveryWait, AllExpire, lvars, memVars, verifyVars, history
<1>2. CASE BeginCycle
  BY <1>2, SMTT(60) DEF BeginCycle, Attempt, lvars, memVars, verifyVars, history
<1>3. CASE SelectTransport
  BY <1>3, SMTT(60) DEF SelectTransport, Select, lvars, memVars, verifyVars, history
<1>4. CASE SelectRefuses
  BY <1>4, SMTT(60) DEF SelectRefuses, NoGeneration, lvars, memVars, verifyVars, history
<1>5. CASE CreateOnRoute
  BY <1>5, SMTT(60) DEF CreateOnRoute, Create, lvars, memVars, verifyVars, history
<1>6. CASE \E t \in Names : VerifySkip(t)
  BY <1>6, SMTT(60) DEF VerifySkip, NextRoute, Verifying, lvars, memVars, verifyVars,
      history
<1>7. CASE \E t \in Names : VerifyMount(t)
  BY <1>7, SMTT(60) DEF VerifyMount, NextRoute, Verifying, lvars, memVars, verifyVars,
      history
<1>8. CASE VerifyUnmount
  BY <1>8, SMTT(60) DEF VerifyUnmount, Verifying, lvars, memVars, verifyVars, history
<1>9. CASE VerifyDone
  BY <1>9, SMTT(60) DEF VerifyDone, Verifying, RecordStartupVerification, lvars,
      memVars, verifyVars, history
<1>10. CASE MountRoute
  BY <1>10, SMTT(60) DEF MountRoute, Mounted, lvars, memVars, verifyVars, history
<1>11. CASE RouteStable
  BY <1>11, SMTT(60) DEF RouteStable, RecordSuccess, lvars, memVars, verifyVars, history
<1>12. CASE Serve
  BY <1>12, SMTT(60) DEF Serve, GoOnline, lvars, memVars, verifyVars, history
<1>13. CASE SwitchRequested
  BY <1>13, SMTT(60) DEF SwitchRequested, Fail, lvars, memVars, verifyVars, history
<1>14. CASE StopObserved
  BY <1>14, SMTT(60) DEF StopObserved, Fail, lvars, memVars, verifyVars, history
<1>15. CASE CloseReadiness
  BY <1>15, SMTT(60) DEF CloseReadiness, Withdraw, lvars, memVars, verifyVars, history
<1>16. CASE FenceRoute
  BY <1>16, SMTT(60) DEF FenceRoute, Fence, RecordFailure, lvars, memVars, verifyVars,
      history
<1>17. CASE FinishTermination
  BY <1>17, SMTT(60) DEF FinishTermination, Quarantine, lvars, memVars, verifyVars,
      history
<1>18. CASE TerminateAgain
  BY <1>18, SMTT(60) DEF TerminateAgain, Refence, lvars, memVars, verifyVars, history
<1>19. CASE RetireRoute
  BY <1>19, SMTT(60) DEF RetireRoute, Retire, lvars, memVars, verifyVars, history
<1>20. CASE LeaveCycle
  BY <1>20, SMTT(60) DEF LeaveCycle, Leave, lvars, memVars, verifyVars, history
<1> QED BY <1>1, <1>2, <1>3, <1>4, <1>5, <1>6, <1>7, <1>8, <1>9, <1>10,
    <1>11, <1>12, <1>13, <1>14, <1>15, <1>16, <1>17, <1>18, <1>19, <1>20 DEF TProgress

\* Failures.
LEMMA RouteFailure ==
    ASSUME RouteInv, TFailure
    PROVE  RouteInv'
<1> USE OrderFacts DEF RouteInv, JournalShape, TodoFits, TestFits, ExposureFits,
      OneRouteExposed, BlameFits
<1>1. CASE HaproxyFails
  BY <1>1, SMTT(60) DEF HaproxyFails, Attempt, lvars, memVars, verifyVars, history
<1>2. CASE BeginFails
  BY <1>2, SMTT(60) DEF BeginFails, NoGeneration, lvars, memVars, verifyVars, history
<1>3. CASE VerifyUnmountFails
  BY <1>3, SMTT(60) DEF VerifyUnmountFails, Fail, Verifying, lvars, memVars,
      verifyVars, history
<1>4. CASE RouteFails
  BY <1>4, SMTT(60) DEF RouteFails, Fail, Verifying, lvars, memVars, verifyVars, history
<1>5. CASE OtherFails
  BY <1>5, SMTT(60) DEF OtherFails, Fail, lvars, memVars, verifyVars, history
<1>6. CASE FenceRouteFails
  BY <1>6, SMTT(60) DEF FenceRouteFails, Fence, lvars, memVars, verifyVars, history
<1>7. CASE \E t \in Names : VerifyFails(t)
  BY <1>7, SMTT(60) DEF VerifyFails, Fail, NextRoute, Verifying, lvars, memVars,
      verifyVars, history
<1> QED BY <1>1, <1>2, <1>3, <1>4, <1>5, <1>6, <1>7 DEF TFailure

\* Tasks, clocks, operators and the container.
LEMMA RouteEnvironment ==
    ASSUME RouteInv, TEnvironment
    PROVE  RouteInv'
<1> USE OrderFacts DEF RouteInv, JournalShape, TodoFits, TestFits, ExposureFits,
      OneRouteExposed, BlameFits
<1>1. CASE TaskAppears
  BY <1>1, SMTT(60) DEF TaskAppears, TasksAppear, lvars, memVars, verifyVars, history
<1>2. CASE DetachRoute
  BY <1>2, SMTT(60) DEF DetachRoute, lvars, memVars, verifyVars, history
<1>3. CASE TaskEnds
  BY <1>3, SMTT(60) DEF TaskEnds, TasksEnd, lvars, memVars, verifyVars, history
<1>4. CASE StopRequested
  BY <1>4, SMTT(60) DEF StopRequested, Stop, lvars, memVars, verifyVars, history
<1>5. CASE Dies
  BY <1>5, SMTT(60) DEF Dies, Die, lvars, memVars, verifyVars, history
<1>6. CASE Restarts
  BY <1>6, SMTT(60) DEF Restarts, Revive, lvars, memVars, verifyVars, history
<1>7. CASE \E t \in Names : Cool(t)
  BY <1>7, SMTT(60) DEF Cool, CoolDown, lvars, memVars, verifyVars, history
<1>8. CASE \E t \in Names : OperatorSelects(t)
  BY <1>8, SMTT(60) DEF OperatorSelects, Request, lvars, memVars, verifyVars, history
<1>9. CASE \E t \in Names : OperatorQuarantines(t)
  BY <1>9, SMTT(60) DEF OperatorQuarantines, Quarantine, lvars, memVars, verifyVars,
      history
<1>10. CASE \E t \in Names : OperatorClears(t)
  BY <1>10, SMTT(60) DEF OperatorClears, ClearQuarantine, lvars, memVars, verifyVars,
      history
<1> QED BY <1>1, <1>2, <1>3, <1>4, <1>5, <1>6, <1>7, <1>8, <1>9, <1>10 DEF TEnvironment

\* Any step.
LEMMA RouteStep ==
    ASSUME RouteInv, [TNext]_tvars
    PROVE  RouteInv'
<1>1. CASE UNCHANGED tvars
  BY <1>1, SMTT(60) DEF tvars, lvars, memVars, verifyVars, history, RouteInv,
      JournalShape, TodoFits, TestFits, ExposureFits, OneRouteExposed, BlameFits
<1> QED BY <1>1, RouteProgress, RouteFailure, RouteEnvironment DEF TNext

\* The invariant holds at first.
LEMMA RouteStart == TInit => RouteInv
BY SMTT(60) DEF TInit, LInit, EmptyJournal, RouteInv, JournalShape, JournalFields,
      TodoFits, TestFits,
    ExposureFits, OneRouteExposed, BlameFits

\* Every reachable state satisfies the invariant on which the rest stands.
THEOREM RouteInvariance == TSpec => []RouteInv
BY RouteStart, RouteStep, PTL DEF TSpec

\* At most one data route is mounted in any live namespace, for any number of
\* routes and whatever the operator asks for while they are verified.
THEOREM RoutesAreExclusive == TSpec => []OneRouteExposed
<1>1. RouteInv => OneRouteExposed
  BY DEF RouteInv, ExposureFits
<1> QED BY <1>1, RouteInvariance, PTL

-----------------------------------------------------------------------------
(* Only the route that failed is condemned.                                *)

\* The step that FailureIsAttributed allows.
AttributedStep ==
    \A t \in Names : (/\ journal'.failed[t] = "cooling" /\ phase' = "fenced"
                      /\ journal.failed[t] # "cooling")
                     => t = failing /\ ~switch

\* Steps of the cycle.
LEMMA BlameProgress ==
    ASSUME RouteInv, TProgress
    PROVE  AttributedStep
<1> USE OrderFacts DEF RouteInv, JournalShape, JournalFields, BlameFits, AttributedStep
<1>1. CASE \/ BeginCycle \/ SelectRefuses \/ CreateOnRoute
           \/ (\E t \in Names : VerifySkip(t))
           \/ (\E t \in Names : VerifyMount(t)) \/ VerifyUnmount \/ MountRoute
           \/ Serve \/ SwitchRequested \/ StopObserved \/ CloseReadiness
           \/ TerminateAgain \/ RetireRoute \/ LeaveCycle
  BY <1>1, SMTT(60) DEF BeginCycle, SelectRefuses, CreateOnRoute, VerifySkip,
      VerifyMount, VerifyUnmount, MountRoute, Serve, SwitchRequested, StopObserved,
      CloseReadiness, TerminateAgain, RetireRoute, LeaveCycle, lvars, memVars,
      verifyVars, history
<1>2. CASE RecoveryWait
  BY <1>2, SMTT(60) DEF RecoveryWait, AllExpire, lvars, memVars, verifyVars, history
<1>3. CASE SelectTransport
  BY <1>3, SMTT(60) DEF SelectTransport, Select, lvars, memVars, verifyVars, history
<1>4. CASE VerifyDone
  BY <1>4, SMTT(60) DEF VerifyDone, Verifying, RecordStartupVerification, lvars,
      memVars, verifyVars, history
<1>5. CASE RouteStable
  BY <1>5, SMTT(60) DEF RouteStable, RecordSuccess, lvars, memVars, verifyVars, history
<1>6. CASE FenceRoute
  BY <1>6, SMTT(60) DEF FenceRoute, Fence, RecordFailure, lvars, memVars, verifyVars,
      history
<1>7. CASE FinishTermination
  BY <1>7, SMTT(60) DEF FinishTermination, Quarantine, lvars, memVars, verifyVars, history
<1> QED BY <1>1, <1>2, <1>3, <1>4, <1>5, <1>6, <1>7 DEF TProgress

\* Failures.
LEMMA BlameFailure ==
    ASSUME RouteInv, TFailure
    PROVE  AttributedStep
<1> USE OrderFacts DEF RouteInv, JournalShape, JournalFields, BlameFits, AttributedStep
<1>1. CASE \/ HaproxyFails \/ BeginFails \/ VerifyUnmountFails \/ RouteFails
           \/ OtherFails \/ FenceRouteFails \/ (\E t \in Names : VerifyFails(t))
  BY <1>1, SMTT(60) DEF HaproxyFails, BeginFails, VerifyUnmountFails, RouteFails,
      OtherFails, FenceRouteFails, VerifyFails, lvars, memVars, verifyVars, history
<1> QED BY <1>1 DEF TFailure

\* Tasks, clocks, operators and the container.
LEMMA BlameEnvironment ==
    ASSUME RouteInv, TEnvironment
    PROVE  AttributedStep
<1> USE OrderFacts DEF RouteInv, JournalShape, JournalFields, BlameFits, AttributedStep
<1>1. CASE \/ TaskAppears \/ DetachRoute \/ TaskEnds \/ StopRequested \/ Dies
           \/ Restarts
  BY <1>1, SMTT(60) DEF TaskAppears, DetachRoute, TaskEnds, StopRequested, Dies,
      Restarts, lvars, memVars, verifyVars, history
<1>2. CASE \E t \in Names : Cool(t)
  BY <1>2, SMTT(60) DEF Cool, CoolDown, lvars, memVars, verifyVars, history
<1>3. CASE \E t \in Names : OperatorSelects(t)
  BY <1>3, SMTT(60) DEF OperatorSelects, Request, lvars, memVars, verifyVars, history
<1>4. CASE \E t \in Names : OperatorQuarantines(t)
  BY <1>4, SMTT(60) DEF OperatorQuarantines, Quarantine, lvars, memVars, verifyVars,
      history
<1>5. CASE \E t \in Names : OperatorClears(t)
  BY <1>5, SMTT(60) DEF OperatorClears, ClearQuarantine, lvars, memVars, verifyVars,
      history
<1> QED BY <1>1, <1>2, <1>3, <1>4, <1>5 DEF TEnvironment

\* Any step.
LEMMA BlameNext ==
    ASSUME RouteInv, [TNext]_tvars
    PROVE  AttributedStep
<1>1. CASE UNCHANGED tvars
  BY <1>1, SMTT(60) DEF tvars, lvars, memVars, verifyVars, history, RouteInv,
      JournalShape, JournalFields, BlameFits, AttributedStep
<1> QED BY <1>1, BlameProgress, BlameFailure, BlameEnvironment DEF TNext

\* record_failure condemns only the route whose own operation failed, and never
\* in a controlled switch.
THEOREM BlameIsDeserved == TSpec => FailureIsAttributed
<1>1. RouteInv /\ [TNext]_tvars => [AttributedStep]_tvars
  BY BlameNext
<1>2. [][AttributedStep]_tvars => FailureIsAttributed
  BY PTL DEF AttributedStep, FailureIsAttributed
<1> QED BY <1>1, <1>2, RouteInvariance, PTL DEF TSpec

-----------------------------------------------------------------------------
(* The startup marker, when no quarantine is cleared behind the loop.      *)

\* Every route the loop has passed was verified or is quarantined.
LoopInv ==
    /\ \A i \in 1..(todo - 1) : Order[i] \in verified \cup journal.quarantined
    /\ CertifiedRoutesWereTested

\* Steps of the cycle.
LEMMA LoopProgress ==
    ASSUME "clear" \notin Commands, RouteInv, LoopInv, TProgress
    PROVE  LoopInv'
<1> USE OrderFacts DEF RouteInv, JournalShape, JournalFields, TodoFits, TestFits,
      LoopInv, CertifiedRoutesWereTested
<1>1. CASE \/ BeginCycle \/ SelectRefuses \/ (\E t \in Names : VerifyMount(t))
           \/ MountRoute \/ Serve \/ SwitchRequested \/ StopObserved
           \/ CloseReadiness \/ TerminateAgain \/ RetireRoute \/ LeaveCycle
  BY <1>1, SMTT(60) DEF BeginCycle, SelectRefuses, VerifyMount, MountRoute, Serve,
      SwitchRequested, StopObserved, CloseReadiness, TerminateAgain, RetireRoute,
      LeaveCycle, lvars, memVars, verifyVars, history
<1>2. CASE RecoveryWait
  BY <1>2, SMTT(60) DEF RecoveryWait, AllExpire, lvars, memVars, verifyVars, history
<1>3. CASE SelectTransport
  BY <1>3, SMTT(60) DEF SelectTransport, Select, lvars, memVars, verifyVars, history
<1>4. CASE CreateOnRoute
  BY <1>4, SMTT(60) DEF CreateOnRoute, Create, lvars, memVars, verifyVars, history
<1>5. CASE \E t \in Names : VerifySkip(t)
  BY <1>5, SMTT(60) DEF VerifySkip, NextRoute, Verifying, lvars, memVars, verifyVars,
      history
<1>6. CASE VerifyUnmount
  BY <1>6, SMTT(60) DEF VerifyUnmount, Verifying, lvars, memVars, verifyVars, history
<1>7. CASE VerifyDone
  <2>1. /\ journal' = RecordStartupVerification(journal, verified)
        /\ todo > Len(Order) /\ todo' = todo /\ verified' = verified
    BY <1>7 DEF VerifyDone
  <2>2. journal'.quarantined = journal.quarantined /\ journal'.verified = verified
    BY <2>1, SMTT(60) DEF RecordStartupVerification
  <2>3. \A i \in 1..Len(Order) : Order[i] \in verified \cup journal.quarantined
    BY <2>1, SMTT(60)
  <2>4. Names \ journal.quarantined \subseteq verified
    BY <2>3 DEF Names
  <2> QED BY <2>1, <2>2, <2>4, SMTT(60)
<1>8. CASE RouteStable
  BY <1>8, SMTT(60) DEF RouteStable, RecordSuccess, lvars, memVars, verifyVars, history
<1>9. CASE FenceRoute
  BY <1>9, SMTT(60) DEF FenceRoute, Fence, RecordFailure, lvars, memVars, verifyVars,
      history
<1>10. CASE FinishTermination
  BY <1>10, SMTT(60) DEF FinishTermination, Quarantine, lvars, memVars, verifyVars,
      history
<1> QED BY <1>1, <1>2, <1>3, <1>4, <1>5, <1>6, <1>7, <1>8, <1>9, <1>10 DEF TProgress

\* Failures.
LEMMA LoopFailure ==
    ASSUME "clear" \notin Commands, RouteInv, LoopInv, TFailure
    PROVE  LoopInv'
<1> USE OrderFacts DEF RouteInv, JournalShape, JournalFields, TodoFits, TestFits,
      LoopInv, CertifiedRoutesWereTested
<1>1. CASE \/ HaproxyFails \/ BeginFails \/ VerifyUnmountFails \/ RouteFails
           \/ OtherFails \/ FenceRouteFails \/ (\E t \in Names : VerifyFails(t))
  BY <1>1, SMTT(60) DEF HaproxyFails, BeginFails, VerifyUnmountFails, RouteFails,
      OtherFails, FenceRouteFails, VerifyFails, lvars, memVars, verifyVars, history
<1> QED BY <1>1 DEF TFailure

\* Tasks, clocks, operators and the container.
LEMMA LoopEnvironment ==
    ASSUME "clear" \notin Commands, RouteInv, LoopInv, TEnvironment
    PROVE  LoopInv'
<1> USE OrderFacts DEF RouteInv, JournalShape, JournalFields, TodoFits, TestFits,
      LoopInv, CertifiedRoutesWereTested
<1>1. CASE \/ TaskAppears \/ DetachRoute \/ TaskEnds \/ StopRequested \/ Dies
  BY <1>1, SMTT(60) DEF TaskAppears, DetachRoute, TaskEnds, StopRequested, Dies, lvars,
      memVars, verifyVars, history
<1>2. CASE Restarts
  BY <1>2, SMTT(60) DEF Restarts, Revive, lvars, memVars, verifyVars, history
<1>3. CASE \E t \in Names : Cool(t)
  BY <1>3, SMTT(60) DEF Cool, CoolDown, lvars, memVars, verifyVars, history
<1>4. CASE \E t \in Names : OperatorSelects(t)
  BY <1>4, SMTT(60) DEF OperatorSelects, Request, lvars, memVars, verifyVars, history
<1>5. CASE \E t \in Names : OperatorQuarantines(t)
  BY <1>5, SMTT(60) DEF OperatorQuarantines, Quarantine, lvars, memVars, verifyVars,
      history
<1>6. CASE \E t \in Names : OperatorClears(t)
  BY <1>6, SMTT(60) DEF OperatorClears, ClearQuarantine, lvars, memVars, verifyVars,
      history
<1> QED BY <1>1, <1>2, <1>3, <1>4, <1>5, <1>6 DEF TEnvironment

\* Any step.
LEMMA LoopStep ==
    ASSUME "clear" \notin Commands, RouteInv, LoopInv, [TNext]_tvars
    PROVE  LoopInv'
<1>1. CASE UNCHANGED tvars
  BY <1>1, SMTT(60) DEF tvars, lvars, memVars, verifyVars, history, RouteInv,
      JournalShape, JournalFields, TodoFits, TestFits, LoopInv, CertifiedRoutesWereTested
<1> QED BY <1>1, LoopProgress, LoopFailure, LoopEnvironment DEF TNext

\* The invariant holds at first.
LEMMA LoopStart == TInit => LoopInv
BY SMTT(60) DEF TInit, EmptyJournal, LoopInv, CertifiedRoutesWereTested

\* While the marker is valid every selectable route has passed the recorded
\* verification, provided the operator clears no quarantine.
THEOREM MarkerIsTruthful ==
    ASSUME "clear" \notin Commands PROVE TSpec => []CertifiedRoutesWereTested
<1>1. RouteInv /\ LoopInv /\ [TNext]_tvars => LoopInv'
  BY LoopStep
<1>2. LoopInv => CertifiedRoutesWereTested
  BY DEF LoopInv
<1> QED BY <1>1, <1>2, LoopStart, RouteInvariance, PTL DEF TSpec

-----------------------------------------------------------------------------
(* Sticky fallback, without the verification of every route.               *)

\* The journal's active transport is the route of the process and the last
\* success; without verification only that route is ever blamed.
StickyInv ==
    /\ ~pending
    /\ proven # NoName => journal.active = proven
    /\ route # NoName => journal.active = route
    /\ blamed # NoName => blamed = route

\* The step that NoAutomaticFailback allows.
StickyStep ==
    stage' = "selected" /\ stage # "selected" /\ proven \notin {NoName, route'}
        => \/ journal.requested = route'
           \/ journal.failed[proven] # "no"
           \/ proven \in journal.quarantined

\* Steps of the cycle.
LEMMA StickyProgress ==
    ASSUME ~VerifyAll, RouteInv, StickyInv, TProgress
    PROVE  StickyInv' /\ StickyStep
<1> USE DEF RouteInv, JournalShape, JournalFields, BlameFits, StickyInv,
      StickyStep
<1>1. CASE \/ SelectRefuses \/ (\E t \in Names : VerifySkip(t))
           \/ (\E t \in Names : VerifyMount(t)) \/ VerifyUnmount \/ MountRoute
           \/ Serve \/ SwitchRequested \/ StopObserved \/ CloseReadiness
           \/ TerminateAgain \/ RetireRoute \/ LeaveCycle
  BY <1>1, SMTT(60) DEF SelectRefuses, VerifySkip, VerifyMount, VerifyUnmount,
      MountRoute, Serve, SwitchRequested, StopObserved, CloseReadiness, TerminateAgain,
      RetireRoute, LeaveCycle, lvars, memVars, verifyVars, history
<1>2. CASE RecoveryWait
  BY <1>2, SMTT(60) DEF RecoveryWait, AllExpire, lvars, memVars, verifyVars, history
<1>3. CASE BeginCycle
  BY <1>3, Zenon DEF BeginCycle, verifyVars
<1>4. CASE SelectTransport
  BY <1>4, SMTT(60) DEF SelectTransport, Select, Selected, Sticky, lvars, memVars,
      verifyVars, history
<1>5. CASE CreateOnRoute
  <2>1. ~pending'
    BY <1>5, Zenon DEF CreateOnRoute
  <2>2. /\ UNCHANGED <<journal, route, blamed, proven>>
        /\ stage' = "start"
    BY <1>5 DEF CreateOnRoute, history
  <2> QED BY <2>1, <2>2, SMTT(60)
<1>6. CASE VerifyDone
  BY <1>6, SMTT(60) DEF VerifyDone, Verifying, RecordStartupVerification, lvars,
      memVars, verifyVars, history
<1>7. CASE RouteStable
  BY <1>7, SMTT(60) DEF RouteStable, RecordSuccess, lvars, memVars, verifyVars, history
<1>8. CASE FenceRoute
  BY <1>8, SMTT(60) DEF FenceRoute, Fence, RecordFailure, lvars, memVars, verifyVars,
      history
<1>9. CASE FinishTermination
  BY <1>9, SMTT(60) DEF FinishTermination, Quarantine, lvars, memVars, verifyVars, history
<1> QED BY <1>1, <1>2, <1>3, <1>4, <1>5, <1>6, <1>7, <1>8, <1>9 DEF TProgress

\* Failures.
LEMMA StickyFailure ==
    ASSUME ~VerifyAll, RouteInv, StickyInv, TFailure
    PROVE  StickyInv' /\ StickyStep
<1> USE DEF RouteInv, JournalShape, JournalFields, BlameFits, StickyInv,
      StickyStep
<1>1. CASE \/ HaproxyFails \/ BeginFails \/ VerifyUnmountFails \/ OtherFails
           \/ FenceRouteFails
  BY <1>1, SMTT(60) DEF HaproxyFails, BeginFails, VerifyUnmountFails, OtherFails,
      FenceRouteFails, NextRoute, Verifying, lvars, memVars, verifyVars, history
<1>2. CASE RouteFails
  BY <1>2, SMTT(60) DEF RouteFails, Fail, Verifying, lvars, memVars, verifyVars, history
<1>3. CASE \E t \in Names : VerifyFails(t)
  BY <1>3, SMTT(60) DEF VerifyFails, Fail, NextRoute, Verifying, lvars, memVars,
      verifyVars, history
<1> QED BY <1>1, <1>2, <1>3 DEF TFailure

\* Tasks, clocks, operators and the container.
LEMMA StickyEnvironment ==
    ASSUME ~VerifyAll, RouteInv, StickyInv, TEnvironment
    PROVE  StickyInv' /\ StickyStep
<1> USE DEF RouteInv, JournalShape, JournalFields, BlameFits, StickyInv,
      StickyStep
<1>1. CASE \/ TaskAppears \/ DetachRoute \/ TaskEnds \/ StopRequested \/ Dies
  BY <1>1, SMTT(60) DEF TaskAppears, DetachRoute, TaskEnds, StopRequested, Dies, lvars,
      memVars, verifyVars, history
<1>2. CASE Restarts
  BY <1>2, SMTT(60) DEF Restarts, Revive, lvars, memVars, verifyVars, history
<1>3. CASE \E t \in Names : Cool(t)
  BY <1>3, SMTT(60) DEF Cool, CoolDown, lvars, memVars, verifyVars, history
<1>4. CASE \E t \in Names : OperatorSelects(t)
  BY <1>4, SMTT(60) DEF OperatorSelects, Request, lvars, memVars, verifyVars, history
<1>5. CASE \E t \in Names : OperatorQuarantines(t)
  BY <1>5, SMTT(60) DEF OperatorQuarantines, Quarantine, lvars, memVars, verifyVars,
      history
<1>6. CASE \E t \in Names : OperatorClears(t)
  BY <1>6, SMTT(60) DEF OperatorClears, ClearQuarantine, lvars, memVars, verifyVars,
      history
<1> QED BY <1>1, <1>2, <1>3, <1>4, <1>5, <1>6 DEF TEnvironment

\* Any step.
LEMMA StickyNext ==
    ASSUME ~VerifyAll, RouteInv, StickyInv, [TNext]_tvars
    PROVE  StickyInv' /\ StickyStep
<1>1. CASE UNCHANGED tvars
  BY <1>1, SMTT(60) DEF tvars, lvars, memVars, verifyVars, history, RouteInv,
      JournalShape, JournalFields, BlameFits, StickyInv, StickyStep
<1> QED BY <1>1, StickyProgress, StickyFailure, StickyEnvironment DEF TNext

\* The invariant holds at first.
LEMMA StickyStart == TInit => StickyInv
BY SMTT(60) DEF TInit, StickyInv

\* Without verify_all_transports_on_startup the guardian leaves the last
\* successful route only when it failed, was quarantined, or on request.
THEOREM FallbackIsSticky ==
    ASSUME ~VerifyAll PROVE TSpec => NoAutomaticFailback
<1>1. RouteInv /\ StickyInv /\ [TNext]_tvars => StickyInv' /\ [StickyStep]_tvars
  BY StickyNext
<1>2. [][StickyStep]_tvars => NoAutomaticFailback
  BY PTL DEF StickyStep, NoAutomaticFailback
<1> QED BY <1>1, <1>2, StickyStart, RouteInvariance, PTL DEF TSpec

-----------------------------------------------------------------------------
(* The composition keeps to the cycle.                                     *)

\* A step of the composition is a step of the cycle, or none.
LEMMA CycleStep ==
    ASSUME [TNext]_tvars
    PROVE  [LNext]_lvars
<1>1. TProgress => LNext \/ UNCHANGED lvars
  BY Zenon DEF TProgress, RecoveryWait, BeginCycle, SelectTransport, SelectRefuses,
      CreateOnRoute, VerifySkip, VerifyMount, VerifyUnmount, VerifyDone, MountRoute,
      RouteStable, Serve, SwitchRequested, StopObserved, CloseReadiness, FenceRoute,
      FinishTermination, TerminateAgain, RetireRoute, LeaveCycle, LNext
<1>2. TFailure => LNext \/ UNCHANGED lvars
  BY Zenon DEF TFailure, HaproxyFails, BeginFails, VerifyUnmountFails, RouteFails,
      OtherFails, FenceRouteFails, VerifyFails, LNext
<1>3. TEnvironment => LNext \/ UNCHANGED lvars
  BY Zenon DEF TEnvironment, TaskAppears, DetachRoute, TaskEnds, StopRequested, Dies,
      Restarts, Cool, OperatorSelects, OperatorQuarantines, OperatorClears, LNext
<1> QED BY <1>1, <1>2, <1>3 DEF TNext, tvars

\* With routes, verification and operator commands added, the guardian still
\* goes through the cycle of generations that Lifecycle promises.
THEOREM RoutesKeepTheCycle == TSpec => LSpec
<1>1. TInit => LInit
  BY DEF TInit
<1>2. [TNext]_tvars => [LNext]_lvars
  BY CycleStep
<1> QED BY <1>1, <1>2, PTL DEF TSpec, LSpec

-----------------------------------------------------------------------------
(* Types.                                                                  *)

\* A set of positions has a first one.
LEMMA FirstExists ==
    ASSUME NEW S \in SUBSET Nat, S # {}
    PROVE  First(S) \in S
<1>1. PICK x \in S : \A y \in S : ~(<<y, x>> \in OpToRel(<, Nat))
  BY NatLessThanWellFounded, WFMin, Zenon
<1>2. ASSUME NEW y \in S PROVE ~(y < x)
  <2>1. <<y, x>> \in Nat \X Nat /\ <<y, x>>[1] = y /\ <<y, x>>[2] = x
    OBVIOUS
  <2> QED BY <1>1, <2>1, Zenon DEF OpToRel
<1>3. \A y \in S : x <= y
  BY <1>2
<1> QED BY <1>3, Zenon DEF First

\* select chooses a configured transport.
LEMMA SelectedIsConfigured ==
    ASSUME NEW j, j.active \in Names \cup {NoName}, j.requested \in Names \cup {NoName},
           CanSelect(j)
    PROVE  Selected(j) \in Names
<1>1. CASE j.requested # NoName
  BY <1>1 DEF Selected
<1>2. CASE j.requested = NoName /\ Sticky(j)
  BY <1>2 DEF Selected, Sticky
<1>3. CASE j.requested = NoName /\ ~Sticky(j)
  <2>1. Candidates(j) # {} /\ Candidates(j) \subseteq 1..Len(Order)
    BY <1>3 DEF CanSelect, Candidates
  <2>2. Candidates(j) \in SUBSET Nat
    BY <2>1, OrderFacts, SMTT(30)
  <2>3. First(Candidates(j)) \in 1..Len(Order)
    BY <2>1, <2>2, FirstExists, Zenon
  <2> QED BY <1>3, <2>3, OrderFacts, Zenon DEF Selected
<1> QED BY <1>1, <1>2, <1>3

\* The selector's file; B stands for BOOLEAN.
JournalOver(B) ==
    [active : Names \cup {NoName}, requested : Names \cup {NoName},
     failed : [Names -> {"no", "cooling", "expired"}],
     quarantined : SUBSET Names, fingerprint : B, verified : SUBSET Names]

\* A record with the fields of the file is one.
LEMMA JournalRecord ==
    ASSUME NEW B, NEW v, v = [x \in JournalFields |-> v[x]],
           v.active \in Names \cup {NoName}, v.requested \in Names \cup {NoName},
           v.failed \in [Names -> {"no", "cooling", "expired"}],
           v.quarantined \in SUBSET Names, v.fingerprint \in B, v.verified \in SUBSET Names
    PROVE  v \in JournalOver(B)
BY SMTT(30) DEF JournalOver, JournalFields

\* And the other way round.
LEMMA JournalFacts ==
    ASSUME NEW B, NEW j \in JournalOver(B)
    PROVE  /\ DOMAIN j = JournalFields
           /\ j.active \in Names \cup {NoName} /\ j.requested \in Names \cup {NoName}
           /\ j.failed \in [Names -> {"no", "cooling", "expired"}]
           /\ j.quarantined \in SUBSET Names /\ j.fingerprint \in B
           /\ j.verified \in SUBSET Names
BY SMTT(30) DEF JournalOver, JournalFields

\* Every method of TransportSelector leaves a well-formed file.
LEMMA JournalMethods ==
    ASSUME NEW B, NEW yes \in B, NEW no \in B, NEW j \in JournalOver(B),
           NEW t \in Names, NEW r \in Names \cup {NoName}, NEW S \in SUBSET Names,
           NEW T \in SUBSET Names, NEW f \in [Names -> {"no", "cooling", "expired"}],
           NEW u, \/ u = [j EXCEPT !.active = t, !.requested = r]
                  \/ u = [j EXCEPT !.failed = f]
                  \/ u = [j EXCEPT !.failed = f, !.active = r]
                  \/ u = [j EXCEPT !.quarantined = S, !.fingerprint = no]
                  \/ u = [j EXCEPT !.requested = r]
                  \/ u = [j EXCEPT !.fingerprint = yes, !.verified = T]
    PROVE  u \in JournalOver(B)
<1>0. /\ DOMAIN j = JournalFields
      /\ j.active \in Names \cup {NoName} /\ j.requested \in Names \cup {NoName}
      /\ j.failed \in [Names -> {"no", "cooling", "expired"}]
      /\ j.quarantined \in SUBSET Names /\ j.fingerprint \in B
      /\ j.verified \in SUBSET Names
  BY JournalFacts, Zenon
<1>1. CASE u = [j EXCEPT !.active = t, !.requested = r]
  <2>1. u = [x \in JournalFields |-> u[x]]
    BY <1>0, <1>1, Zenon
  <2>2. /\ u.active = t /\ u.requested = r /\ u.failed = j.failed
        /\ u.quarantined = j.quarantined /\ u.fingerprint = j.fingerprint /\ u.verified = j.verified
    BY <1>0, <1>1, SMTT(30) DEF JournalFields
  <2> QED BY <1>0, <2>1, <2>2, JournalRecord, Zenon
<1>2. CASE u = [j EXCEPT !.failed = f]
  <2>1. u = [x \in JournalFields |-> u[x]]
    BY <1>0, <1>2, Zenon
  <2>2. /\ u.active = j.active /\ u.requested = j.requested /\ u.failed = f
        /\ u.quarantined = j.quarantined /\ u.fingerprint = j.fingerprint /\ u.verified = j.verified
    BY <1>0, <1>2, SMTT(30) DEF JournalFields
  <2> QED BY <1>0, <2>1, <2>2, JournalRecord, Zenon
<1>3. CASE u = [j EXCEPT !.failed = f, !.active = r]
  <2>1. u = [x \in JournalFields |-> u[x]]
    BY <1>0, <1>3, Zenon
  <2>2. /\ u.active = r /\ u.requested = j.requested /\ u.failed = f
        /\ u.quarantined = j.quarantined /\ u.fingerprint = j.fingerprint /\ u.verified = j.verified
    BY <1>0, <1>3, SMTT(30) DEF JournalFields
  <2> QED BY <1>0, <2>1, <2>2, JournalRecord, Zenon
<1>4. CASE u = [j EXCEPT !.quarantined = S, !.fingerprint = no]
  <2>1. u = [x \in JournalFields |-> u[x]]
    BY <1>0, <1>4, Zenon
  <2>2. /\ u.active = j.active /\ u.requested = j.requested /\ u.failed = j.failed
        /\ u.quarantined = S /\ u.fingerprint = no /\ u.verified = j.verified
    BY <1>0, <1>4, SMTT(30) DEF JournalFields
  <2> QED BY <1>0, <2>1, <2>2, JournalRecord, Zenon
<1>5. CASE u = [j EXCEPT !.requested = r]
  <2>1. u = [x \in JournalFields |-> u[x]]
    BY <1>0, <1>5, Zenon
  <2>2. /\ u.active = j.active /\ u.requested = r /\ u.failed = j.failed
        /\ u.quarantined = j.quarantined /\ u.fingerprint = j.fingerprint /\ u.verified = j.verified
    BY <1>0, <1>5, SMTT(30) DEF JournalFields
  <2> QED BY <1>0, <2>1, <2>2, JournalRecord, Zenon
<1>6. CASE u = [j EXCEPT !.fingerprint = yes, !.verified = T]
  <2>1. u = [x \in JournalFields |-> u[x]]
    BY <1>0, <1>6, Zenon
  <2>2. /\ u.active = j.active /\ u.requested = j.requested /\ u.failed = j.failed
        /\ u.quarantined = j.quarantined /\ u.fingerprint = yes /\ u.verified = T
    BY <1>0, <1>6, SMTT(30) DEF JournalFields
  <2> QED BY <1>0, <2>1, <2>2, JournalRecord, Zenon
<1> QED BY <1>1, <1>2, <1>3, <1>4, <1>5, <1>6, Zenon

\* The methods, one by one.
LEMMA MethodTypes ==
    ASSUME NEW j \in Journal, NEW t \in Names, NEW S \in SUBSET Names
    PROVE  /\ CanSelect(j) => Select(j) \in Journal
           /\ RecordFailure(j, t) \in Journal /\ RecordSuccess(j, t) \in Journal
           /\ CoolDown(j, t) \in Journal /\ AllExpire(j) \in Journal
           /\ Quarantine(j, t) \in Journal /\ ClearQuarantine(j, t) \in Journal
           /\ Request(j, t) \in Journal /\ RecordStartupVerification(j, S) \in Journal
<1> DEFINE F == [Names -> {"no", "cooling", "expired"}]
           N == Names \cup {NoName}
<1>0. /\ Journal = JournalOver(BOOLEAN) /\ TRUE \in BOOLEAN /\ FALSE \in BOOLEAN
      /\ j \in JournalOver(BOOLEAN) /\ t \in N /\ NoName \in N
  BY Zenon DEF Journal, JournalOver
<1>1. /\ j.active \in N /\ j.requested \in N
      /\ j.failed \in F /\ j.quarantined \in SUBSET Names
  BY <1>0, JournalFacts, Zenon
<1>2. ASSUME NEW f \in F
      PROVE  /\ [j EXCEPT !.failed = f] \in Journal
             /\ [j EXCEPT !.failed = f, !.active = t] \in Journal
  BY <1>0, JournalMethods, Zenon
<1>3. ASSUME NEW Q \in SUBSET Names
      PROVE  [j EXCEPT !.quarantined = Q, !.fingerprint = FALSE] \in Journal
  BY <1>0, <1>1, JournalMethods, Zenon
<1>4. CanSelect(j) => Select(j) \in Journal
  <2> SUFFICES ASSUME CanSelect(j) PROVE Select(j) \in Journal
    OBVIOUS
  <2>1. Selected(j) \in Names
    BY <1>1, SelectedIsConfigured, Zenon
  <2>2. ASSUME NEW n \in Names PROVE [j EXCEPT !.active = n, !.requested = NoName] \in Journal
    BY <1>0, <1>1, JournalMethods, ZenonT(60)
  <2> QED BY <2>1, <2>2, Zenon DEF Select
<1>5. RecordFailure(j, t) \in Journal
  <2>1. [j.failed EXCEPT ![t] = "cooling"] \in F
    BY <1>1, SMTT(30)
  <2> QED BY <1>2, <2>1, Zenon DEF RecordFailure
<1>6. RecordSuccess(j, t) \in Journal
  <2>1. [j.failed EXCEPT ![t] = "no"] \in F
    BY <1>1, SMTT(30)
  <2> QED BY <1>2, <2>1, Zenon DEF RecordSuccess
<1>7. CoolDown(j, t) \in Journal
  <2>1. [j.failed EXCEPT ![t] = "expired"] \in F
    BY <1>1, SMTT(30)
  <2> QED BY <1>2, <2>1, Zenon DEF CoolDown
<1>8. AllExpire(j) \in Journal
  <2>1. [n \in Names |-> IF j.failed[n] = "cooling" THEN "expired" ELSE j.failed[n]] \in F
    BY <1>1, SMTT(30)
  <2> QED BY <1>2, <2>1, Zenon DEF AllExpire
<1>9. Quarantine(j, t) \in Journal
  <2>1. j.quarantined \cup {t} \in SUBSET Names
    BY <1>1
  <2> QED BY <1>3, <2>1, Zenon DEF Quarantine
<1>10. ClearQuarantine(j, t) \in Journal
  <2>1. j.quarantined \ {t} \in SUBSET Names
    BY <1>1
  <2> QED BY <1>3, <2>1, Zenon DEF ClearQuarantine
<1>11. Request(j, t) \in Journal
  <2>1. (IF j.active = t THEN NoName ELSE t) \in N
    BY <1>0
  <2>2. ASSUME NEW r \in N PROVE [j EXCEPT !.requested = r] \in Journal
    BY <1>0, <1>1, JournalMethods, ZenonT(60)
  <2> QED BY <2>1, <2>2, Zenon DEF Request
<1>12. RecordStartupVerification(j, S) \in Journal
  BY <1>0, <1>1, JournalMethods, Zenon DEF RecordStartupVerification
<1> QED BY <1>4, <1>5, <1>6, <1>7, <1>8, <1>9, <1>10, <1>11, <1>12

CycleTypes == phase \in Phases /\ {held, serving, tasks, stopping} \subseteq BOOLEAN
MemoryFlags == {switch, pending, fenceOk} \subseteq BOOLEAN
JournalTypes == journal \in Journal

\* A route is selected before a generation is created on it.
RouteTypes ==
    /\ {route, blamed, testing, failing, proven} \subseteq Names \cup {NoName}
    /\ verified \subseteq Names /\ exposed \subseteq Names
    /\ todo \in 1..(Len(Order) + 1) /\ delay \in 1..MaxDelay
    /\ stage \in Stages
    /\ route = NoName => stage # "selected" /\ phase \notin {"mount", "work", "online"}

\* The cycle keeps its types.
LEMMA CycleTypesStep ==
    ASSUME CycleTypes, [LNext]_lvars
    PROVE  CycleTypes'
<1>1. phase' \in Phases
  BY ZenonT(60) DEF CycleTypes, Phases, LNext, lvars, Attempt, NoGeneration, Create, Mounted,
      TasksAppear, TasksEnd, GoOnline, Fail, Withdraw, Fence, Refence, Retire, Stop, Leave,
      Die, Revive
<1>2. held' \in BOOLEAN /\ serving' \in BOOLEAN /\ tasks' \in BOOLEAN /\ stopping' \in BOOLEAN
  BY ZenonT(60) DEF CycleTypes, LNext, lvars, Attempt, NoGeneration, Create, Mounted,
      TasksAppear, TasksEnd, GoOnline, Fail, Withdraw, Fence, Refence, Retire, Stop, Leave,
      Die, Revive
<1> QED BY <1>1, <1>2, Zenon DEF CycleTypes

\* The flags of a generation stay flags.
LEMMA MemoryFlagsStep ==
    ASSUME MemoryFlags, [TNext]_tvars
    PROVE  MemoryFlags'
<1>0. switch \in BOOLEAN /\ pending \in BOOLEAN /\ fenceOk \in BOOLEAN
  BY Zenon DEF MemoryFlags
<1>1. CASE TProgress
  <2>1. switch' \in BOOLEAN
    BY <1>0, <1>1, ZenonT(60) DEF TProgress, RecoveryWait, BeginCycle, SelectTransport,
        SelectRefuses, CreateOnRoute, VerifySkip, VerifyMount, VerifyUnmount, VerifyDone,
        MountRoute, RouteStable, Serve, SwitchRequested, StopObserved, CloseReadiness,
        FenceRoute, FinishTermination, TerminateAgain, RetireRoute, LeaveCycle, memVars
  <2>2. pending' \in BOOLEAN
    BY <1>0, <1>1, ZenonT(60) DEF TProgress, RecoveryWait, BeginCycle, SelectTransport,
        SelectRefuses, CreateOnRoute, VerifySkip, VerifyMount, VerifyUnmount, VerifyDone,
        MountRoute, RouteStable, Serve, SwitchRequested, StopObserved, CloseReadiness,
        FenceRoute, FinishTermination, TerminateAgain, RetireRoute, LeaveCycle, memVars,
        verifyVars
  <2>3. fenceOk' \in BOOLEAN
    BY <1>0, <1>1, ZenonT(60) DEF TProgress, RecoveryWait, BeginCycle, SelectTransport,
        SelectRefuses, CreateOnRoute, VerifySkip, VerifyMount, VerifyUnmount, VerifyDone,
        MountRoute, RouteStable, Serve, SwitchRequested, StopObserved, CloseReadiness,
        FenceRoute, FinishTermination, TerminateAgain, RetireRoute, LeaveCycle, memVars
  <2> QED BY <2>1, <2>2, <2>3, Zenon DEF MemoryFlags
<1>2. CASE TFailure
  BY <1>0, <1>2, ZenonT(60) DEF MemoryFlags, TFailure, HaproxyFails, BeginFails,
      VerifyUnmountFails, RouteFails, OtherFails, FenceRouteFails, VerifyFails, memVars,
      verifyVars
<1>3. CASE TEnvironment
  BY <1>0, <1>3, ZenonT(60) DEF MemoryFlags, TEnvironment, TaskAppears, DetachRoute,
      TaskEnds, StopRequested, Dies, Restarts, Cool, OperatorSelects, OperatorQuarantines,
      OperatorClears, memVars, verifyVars
<1>4. CASE UNCHANGED tvars
  BY <1>0, <1>4, Zenon DEF MemoryFlags, tvars, memVars, verifyVars
<1> QED BY <1>1, <1>2, <1>3, <1>4, Zenon DEF TNext

\* The file is only ever changed by a method of TransportSelector.
LEMMA JournalTypesStep ==
    ASSUME RouteTypes, JournalTypes, [TNext]_tvars
    PROVE  JournalTypes'
<1>0. journal \in Journal /\ verified \in SUBSET Names
  BY DEF JournalTypes, RouteTypes
<1>1. Names # {}
  <2>1. Len(Order) >= 1
    BY SelectorAssumption, SMTT(30)
  <2>2. Order[1] \in Names
    BY <2>1, OrderFacts, SMTT(30)
  <2> QED BY <2>2
<1>2. ASSUME NEW n \in Names, NEW j \in Journal
      PROVE  /\ CanSelect(j) => Select(j) \in Journal
             /\ RecordFailure(j, n) \in Journal /\ RecordSuccess(j, n) \in Journal
             /\ CoolDown(j, n) \in Journal /\ AllExpire(j) \in Journal
             /\ Quarantine(j, n) \in Journal /\ ClearQuarantine(j, n) \in Journal
             /\ Request(j, n) \in Journal
             /\ RecordStartupVerification(j, verified) \in Journal
  BY <1>0, MethodTypes, Zenon
<1>3. CASE TProgress
  <2>1. \/ journal' = journal \/ journal' = AllExpire(journal)
        \/ CanSelect(journal) /\ journal' = Select(journal)
        \/ journal' = RecordStartupVerification(journal, verified)
        \/ phase = "work" /\ journal' = RecordSuccess(journal, route)
        \/ blamed # NoName /\ journal' = RecordFailure(journal, blamed)
        \/ Suspect # NoName /\ journal' = Quarantine(journal, Suspect)
    BY <1>3, ZenonT(60) DEF TProgress, RecoveryWait, BeginCycle, SelectTransport,
        SelectRefuses, CreateOnRoute, VerifySkip, VerifyMount, VerifyUnmount, VerifyDone,
        MountRoute, RouteStable, Serve, SwitchRequested, StopObserved, CloseReadiness,
        FenceRoute, FinishTermination, TerminateAgain, RetireRoute, LeaveCycle
  <2>2. phase = "work" => route \in Names
    BY DEF RouteTypes
  <2>3. blamed # NoName => blamed \in Names
    BY DEF RouteTypes
  <2>4. Suspect # NoName => Suspect \in Names
    BY DEF RouteTypes, Suspect
  <2> QED BY <1>0, <1>1, <1>2, <2>1, <2>2, <2>3, <2>4, ZenonT(60) DEF JournalTypes
<1>4. CASE TFailure
  <2>1. journal' = journal
    BY <1>4, Zenon DEF TFailure, HaproxyFails, BeginFails, VerifyUnmountFails, RouteFails,
        OtherFails, FenceRouteFails, VerifyFails
  <2> QED BY <1>0, <2>1 DEF JournalTypes
<1>5. CASE TEnvironment
  <2>1. \/ journal' = journal
        \/ \E t \in Names : \/ journal' = CoolDown(journal, t)
                            \/ journal' = Request(journal, t)
                            \/ journal' = Quarantine(journal, t)
                            \/ journal' = ClearQuarantine(journal, t)
    BY <1>5, Zenon DEF TEnvironment, TaskAppears, DetachRoute, TaskEnds, StopRequested,
        Dies, Restarts, Cool, OperatorSelects, OperatorQuarantines, OperatorClears
  <2> QED BY <1>0, <1>2, <2>1, Zenon DEF JournalTypes
<1>6. CASE UNCHANGED tvars
  BY <1>0, <1>6, Zenon DEF JournalTypes, tvars
<1> QED BY <1>3, <1>4, <1>5, <1>6, Zenon DEF TNext

\* Steps of the cycle keep routes among the configured ones.
LEMMA RouteTypesProgress ==
    ASSUME RouteInv, JournalTypes, RouteTypes, TProgress
    PROVE  RouteTypes'
<1>0. /\ Len(Order) \in Nat /\ MaxDelay \in Nat \ {0} /\ todo \in Nat
      /\ testing # NoName => todo <= Len(Order)
  BY OrderFacts, TransportAssumption DEF RouteInv, TestFits, TodoFits
<1> USE <1>0 DEF RouteTypes, Stages
<1>1. CASE RecoveryWait \/ BeginCycle
  BY <1>1, SMTT(60) DEF RecoveryWait, BeginCycle, Attempt, lvars, verifyVars, history
<1>2. CASE SelectTransport
  <2>1. journal.active \in Names \cup {NoName} /\ journal.requested \in Names \cup {NoName}
    <3>1. journal \in JournalOver(BOOLEAN)
      BY Zenon DEF JournalTypes, Journal, JournalOver
    <3> QED BY <3>1, JournalFacts, Zenon
  <2>2. Selected(journal) \in Names
    BY <1>2, <2>1, SelectedIsConfigured, Zenon DEF SelectTransport
  <2>3. route' \in Names
    BY <1>2, <2>2, Zenon DEF SelectTransport
  <2> QED BY <1>2, <2>3, SelectorAssumption, SMTT(60) DEF SelectTransport, lvars, verifyVars
<1>3. CASE SelectRefuses \/ CreateOnRoute
  BY <1>3, SMTT(60) DEF SelectRefuses, NoGeneration, CreateOnRoute, Create, memVars,
      verifyVars, history
<1>4. CASE \E t \in Names : VerifySkip(t) \/ VerifyMount(t)
  BY <1>4, SMTT(60) DEF VerifySkip, VerifyMount, NextRoute, lvars, history
<1>5. CASE VerifyUnmount
  BY <1>5, SMTT(60) DEF VerifyUnmount, lvars, history
<1>6. CASE VerifyDone \/ MountRoute
  BY <1>6, SMTT(60) DEF VerifyDone, MountRoute, Mounted, lvars, memVars, verifyVars, history
<1>7. CASE RouteStable \/ Serve
  BY <1>7, SMTT(60) DEF RouteStable, Serve, GoOnline, lvars, verifyVars, history
<1>8. CASE SwitchRequested \/ StopObserved \/ CloseReadiness
  <2>1. phase' = "ending" /\ UNCHANGED <<route, blamed, verifyVars, stage, delay, exposed, history>>
    BY <1>8, Zenon DEF SwitchRequested, StopObserved, CloseReadiness, Fail, Withdraw, memVars
  <2> QED BY <2>1, SMTT(60) DEF verifyVars, history
<1>9. CASE FenceRoute \/ FinishTermination
  BY <1>9, SMTT(60) DEF FenceRoute, FinishTermination, Fence, lvars, verifyVars, history
<1>10. CASE TerminateAgain \/ RetireRoute \/ LeaveCycle
  BY <1>10, SMTT(60) DEF TerminateAgain, RetireRoute, LeaveCycle, Refence, Retire, Leave,
      verifyVars, history
<1> QED BY <1>1, <1>2, <1>3, <1>4, <1>5, <1>6, <1>7, <1>8, <1>9, <1>10, Zenon DEF TProgress

\* So do failures and the environment.
LEMMA RouteTypesOther ==
    ASSUME RouteInv, RouteTypes, TFailure \/ TEnvironment \/ UNCHANGED tvars
    PROVE  RouteTypes'
<1>0. Len(Order) \in Nat /\ MaxDelay \in Nat \ {0}
  BY OrderFacts, TransportAssumption
<1> USE <1>0 DEF RouteTypes, Stages
<1>1. CASE HaproxyFails \/ BeginFails \/ FenceRouteFails
  BY <1>1, SMTT(60) DEF HaproxyFails, Attempt, BeginFails, NoGeneration, FenceRouteFails,
      Fence, memVars, verifyVars, history
<1>2. CASE VerifyUnmountFails \/ OtherFails
  <2>1. phase' = "ending"
    BY <1>2, Zenon DEF VerifyUnmountFails, OtherFails, Fail
  <2> QED BY <1>2, <2>1, SMTT(60) DEF VerifyUnmountFails, OtherFails, verifyVars, history
<1>3. CASE RouteFails
  BY <1>3, SMTT(60) DEF RouteFails, Fail, verifyVars, history
<1>4. CASE \E t \in Names : VerifyFails(t)
  BY <1>4, SMTT(60) DEF VerifyFails, Fail, verifyVars, history
<1>5. CASE TaskAppears \/ DetachRoute \/ TaskEnds
  BY <1>5, SMTT(60) DEF TaskAppears, TasksAppear, DetachRoute, TaskEnds, TasksEnd, lvars,
      memVars, verifyVars, history
<1>6. CASE StopRequested \/ Dies \/ Restarts
  BY <1>6, SMTT(60) DEF StopRequested, Stop, Dies, Die, Restarts, Revive, memVars,
      verifyVars, history
<1>7. CASE UNCHANGED <<lvars, memVars, exposed>>
  BY <1>7, SMTT(60) DEF lvars, memVars, verifyVars, history
<1>8. (\E t \in Names : Cool(t) \/ OperatorSelects(t) \/ OperatorQuarantines(t)
                          \/ OperatorClears(t)) => UNCHANGED <<lvars, memVars, exposed>>
  BY Zenon DEF Cool, OperatorSelects, OperatorQuarantines, OperatorClears
<1>9. UNCHANGED tvars => UNCHANGED <<lvars, memVars, exposed>>
  BY Zenon DEF tvars
<1> QED BY <1>1, <1>2, <1>3, <1>4, <1>5, <1>6, <1>7, <1>8, <1>9, Zenon
    DEF TFailure, TEnvironment

\* The composition is typed: in particular the journal always names configured
\* transports only, and the recovery delay keeps to its maximum.
THEOREM TransportTypes == TSpec => []TTypeOK
<1> DEFINE TypeInv == CycleTypes /\ MemoryFlags /\ JournalTypes /\ RouteTypes
<1>1. TInit => TypeInv
  <2> SUFFICES ASSUME TInit PROVE TypeInv
    OBVIOUS
  <2>1. CycleTypes
    BY Zenon DEF TInit, LInit, CycleTypes, Phases
  <2>2. MemoryFlags
    BY Zenon DEF TInit, MemoryFlags
  <2>3. RouteTypes
    BY OrderFacts, TransportAssumption, SMTT(60) DEF TInit, LInit, RouteTypes, Stages
  <2>4. JournalTypes
    <3>1. EmptyJournal = [x \in JournalFields |-> EmptyJournal[x]]
      BY Zenon DEF EmptyJournal, JournalFields
    <3>2. /\ EmptyJournal.active = NoName /\ EmptyJournal.requested = NoName
          /\ EmptyJournal.failed = [t \in Names |-> "no"]
          /\ EmptyJournal.quarantined = {} /\ EmptyJournal.fingerprint = FALSE
          /\ EmptyJournal.verified = {}
      BY DEF EmptyJournal
    <3>3. [t \in Names |-> "no"] \in [Names -> {"no", "cooling", "expired"}]
      OBVIOUS
    <3>4. EmptyJournal \in JournalOver(BOOLEAN)
      BY <3>1, <3>2, <3>3, JournalRecord, ZenonT(60)
    <3> QED BY <3>4, Zenon DEF TInit, JournalTypes, Journal, JournalOver
  <2> QED BY <2>1, <2>2, <2>3, <2>4
<1>2. RouteInv /\ TypeInv /\ [TNext]_tvars => TypeInv'
  <2> SUFFICES ASSUME RouteInv, TypeInv, [TNext]_tvars PROVE TypeInv'
    OBVIOUS
  <2>1. CycleTypes'
    BY CycleStep, CycleTypesStep
  <2>2. MemoryFlags'
    BY MemoryFlagsStep
  <2>3. JournalTypes'
    BY JournalTypesStep
  <2>4. RouteTypes'
    BY RouteTypesProgress, RouteTypesOther DEF TNext
  <2> QED BY <2>1, <2>2, <2>3, <2>4
<1>3. TypeInv => TTypeOK
  BY Zenon DEF CycleTypes, MemoryFlags, JournalTypes, RouteTypes, TTypeOK
<1> QED BY <1>1, <1>2, <1>3, RouteInvariance, PTL DEF TSpec
=============================================================================

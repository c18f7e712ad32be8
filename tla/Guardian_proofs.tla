-------------------------- MODULE Guardian_proofs --------------------------
(***************************************************************************)
(* Proofs about the guardian's main thread, for any number of roles,       *)
(* targets, generations and required successes.                            *)
(*                                                                         *)
(* The inductive invariant has one part per question: who can be running   *)
(* (Ownership), where the veth link leads (LinkInv), what each phase of a  *)
(* start-up has established (PhaseInv), and what the history file says     *)
(* (HistInv).  TrustInv is the extra part that holds without index repair. *)
(***************************************************************************)
EXTENDS Guardian, TLAPS

\* Phases of a generation's start-up and service, before any failure.
Setup == {"mount", "probe", "prepare", "spawn", "stable", "validate", "repair",
          "repair_hung", "rollback", "stabilize", "go_online", "online"}

Ending == {"detach", "fence", "redetach", "finish"}

RepairDrain == pc = "drain" /\ purpose \in {"repair", "rollback"}

\* Processes are tracked, belong to the current generation, and a generation
\* number is allocated only when nothing of an earlier one runs.
Ownership ==
    /\ pc \in {"start", "begin", "create", "blocked", "parked"} => gen = 0
    /\ pc = "loop" /\ ~stopping => gen = 0
    /\ pc \in Setup \cup Ending \cup {"manual"} => gen # 0
    /\ RepairDrain => gen # 0
    /\ gen # 0 => gen = counter
    /\ \A w \in processes : w[1] = gen
    /\ pc \in Ending \cup {"retire"} => processes = {}
    /\ pc = "create" => workers = {} /\ counter # 0
    /\ LiveWorkersKnown
    /\ ExclusiveWorkers

\* The host link belongs to the current generation, if there is one, and is
\* gone once that generation is marked fenced.
LinkInv ==
    /\ gen # 0 => link \in {0, gen}
    /\ gen # 0 /\ fenced => link = 0
    /\ SurvivorsAreCut

\* What a start-up has established by each phase; readiness outlives the
\* online phase only until the handler runs.
PhaseInv ==
    /\ pc \in Setup \/ RepairDrain => link = gen /\ ~fenced /\ hactive = gen
    /\ pc \in Setup => lingering = {}
    /\ RepairDrain /\ clean => lingering = {}
    /\ pc \in Setup \ {"repair_hung"} \/ RepairDrain => helpers = {}
    /\ pc = "repair_hung" => helpers \subseteq {gen}
    /\ pc \in Setup \ {"mount"} \/ RepairDrain => mounted = Targets
    /\ pc = "create" => lingering = {} /\ helpers = {}
    /\ pc \in {"spawn", "stable", "validate", "stabilize", "go_online", "online"} =>
          processes = {gen} \X Role
    /\ pc \in {"stabilize", "go_online", "online"} =>
          certified /\ accepted = gen /\ ~awaiting
    /\ pc \in {"go_online", "online"} => n >= Required
    /\ ready => pc \in {"online", "failed"} \/ (pc = "loop" /\ stopping)
    /\ ReadyIsProven

\* Only numbers allocated so far have an outcome, the open record has none,
\* and trust never spans an unclean outcome.
HistInv ==
    /\ accepted <= counter /\ allocated <= counter /\ hactive <= counter
    /\ hactive # 0 => outcome[hactive] = "none"
    /\ \A g \in Gen : outcome[g] # "none" => g <= counter
    /\ pc = "create" => outcome[counter] = "none"
    /\ certified => \A g \in Gen : outcome[g] = "unclean" => g < accepted
    /\ pc \notin {"start", "exited", "down"} => hactive \in {0, gen}
    /\ pc = "retire" => hactive = 0

\* Without automatic repair no process is left lingering while the outcome of
\* its generation is still open and the drain counts as clean.
TrustInv ==
    /\ ~awaiting
    /\ pc \notin {"validate", "repair", "repair_hung", "rollback"}
    /\ ~RepairDrain
    /\ hactive # 0 /\ pc \in Setup \cup {"failed", "manual", "loop"} =>
          lingering = {}
    /\ hactive # 0 /\ pc \in Ending \cup {"drain"} /\ clean => lingering = {}
    /\ CleanOutcomeMeansNoWriter

Core ==
    /\ DataTypes /\ Ownership /\ LinkInv /\ PhaseInv /\ HistInv
    /\ AutoRepair \/ TrustInv

\* The inductive invariant.
Inv == FlagTypes /\ Core

-----------------------------------------------------------------------------
(* Flags.  Zenon reasons about BOOLEAN-valued variables where SMT does not, *)
(* hence a lemma of their own.                                              *)

\* Every step of the guardian keeps its flags Boolean.
LEMMA FlagStep == FlagTypes /\ [Next]_vars => FlagTypes'
<1> SUFFICES ASSUME FlagTypes, [Next]_vars PROVE FlagTypes'
  OBVIOUS
<1> USE DEF FlagTypes
<1>1. CASE RecoverInterruptedActive \/ EnsureHaproxy \/ LeaveLoop
  BY <1>1, ZenonT(60) DEF RecoverInterruptedActive, CloseActive, loopVars,
     genVars, procVars, idVars, EnsureHaproxy, histVars, LeaveLoop, BeginDrain
<1>2. CASE AllocateGeneration \/ CreateGeneration
  BY <1>2, ZenonT(60) DEF loopVars, genVars, idVars, histVars,
     AllocateGeneration, CreateGeneration, procVars
<1>3. CASE MountTargets \/ ProbeTargets \/ PrepareIndexRepair
  BY <1>3, ZenonT(60) DEF MountTargets, loopVars, procVars, idVars, histVars,
     ProbeTargets, genVars, PrepareIndexRepair, BeginSpawn
<1>4. CASE SpawnWorker \/ Interrupted \/ StatusAccepted
  BY <1>4, ZenonT(60) DEF SpawnWorker, genVars, idVars, histVars, Interrupted,
     loopVars, procVars, StatusAccepted, Certify
<1>5. CASE ValidationRequired \/ RepairInstalls \/ RepairHelperReaped
  BY <1>5, ZenonT(60) DEF ValidationRequired, loopVars, genVars, procVars,
     idVars, histVars, RepairInstalls, BeginSpawn, RepairHelperReaped
<1>6. CASE ValidationPasses \/ Rollback \/ StabilizeSample
  BY <1>6, ZenonT(60) DEF ValidationPasses, Certify, genVars, procVars,
     idVars, Rollback, Raise, RaiseManual, loopVars, histVars, StabilizeSample
<1>7. CASE StabilizeDone \/ GoOnline \/ HandleFailure
  BY <1>7, ZenonT(60) DEF StabilizeDone, loopVars, genVars, procVars, idVars,
     histVars, GoOnline, HandleFailure, BeginDrain
<1>8. CASE StopProcess \/ Drained \/ Detach
  BY <1>8, ZenonT(60) DEF StopProcess, NextToStop, loopVars, genVars, idVars,
     histVars, Drained, procVars, Detach
<1>9. CASE Fence \/ Redetach \/ FinishHistory
  BY <1>9, ZenonT(60) DEF Fence, procVars, idVars, histVars, Redetach,
     HelperMayHang, loopVars, FinishHistory, CloseActive, genVars
<1>10. CASE RetireGeneration \/ WaitForBlockedCleanup \/ LeavePark
  BY <1>10, ZenonT(60) DEF RetireGeneration, AfterRetire, loopVars, procVars,
     idVars, histVars, WaitForBlockedCleanup, Alive, genVars, LeavePark
<1>11. CASE EnsureHaproxyFails \/ SelectFails \/ AllocateFails
  BY <1>11, ZenonT(60) DEF EnsureHaproxyFails, Raise, loopVars, genVars,
     procVars, idVars, histVars, SelectFails, Alive, AllocateFails,
     RecordCreationFailure
<1>12. CASE CreateFails \/ MountFails \/ ProbeFails
  BY <1>12, ZenonT(60) DEF CreateFails, Raise, RecordCreationFailure,
     loopVars, procVars, idVars, histVars, MountFails, HelperMayHang,
     ProbeFails, genVars
<1>13. CASE PrepareFails \/ SpawnFails \/ StatusFails
  BY <1>13, ZenonT(60) DEF PrepareFails, Raise, RaiseManual, loopVars,
     genVars, procVars, idVars, histVars, SpawnFails, StatusFails
<1>14. CASE StatusAcceptedCanaryFails \/ UnexpectedReadonly \/ RepairFails
  BY <1>14, ZenonT(60) DEF StatusAcceptedCanaryFails, Raise, Certify,
     loopVars, genVars, procVars, idVars, UnexpectedReadonly, RaiseManual,
     BeginDrain, histVars, RepairFails
<1>15. CASE RepairHelperBlocks \/ ValidationPassesCanaryFails \/
   ValidationRejects
  BY <1>15, ZenonT(60) DEF RepairHelperBlocks, loopVars, genVars, procVars,
     idVars, histVars, ValidationPassesCanaryFails, Raise, Certify,
     ValidationRejects, BeginDrain
<1>16. CASE OnlineFails \/ OnlineSleepFails \/ StopProcessFails
  BY <1>16, ZenonT(60) DEF OnlineFails, HelperMayHang, Raise, loopVars,
     genVars, procVars, idVars, histVars, OnlineSleepFails, StopProcessFails,
     NextToStop
<1>17. CASE DetachFails \/ FenceFails \/ RetireFails
  BY <1>17, ZenonT(60) DEF DetachFails, HelperMayHang, procVars, idVars,
     histVars, FenceFails, RetireFails, AfterRetire, loopVars
<1>18. CASE Signal \/ Crash \/ Restart
  BY <1>18, ZenonT(60) DEF Signal, Running, loopVars, genVars, procVars,
     idVars, histVars, Crash, Restart
<1>19. CASE \/ \E w \in workers : WorkerExits(w)
            \/ \E g \in helpers : HelperExits(g)
  BY <1>19, ZenonT(60) DEF WorkerExits, loopVars, genVars, idVars, histVars,
     HelperExits, procVars
<1>20. CASE UNCHANGED vars
  BY <1>20 DEF vars, loopVars, genVars, histVars
<1> QED
  BY <1>1, <1>2, <1>3, <1>4, <1>5, <1>6, <1>7, <1>8, <1>9, <1>10, <1>11,
     <1>12, <1>13, <1>14, <1>15, <1>16, <1>17, <1>18, <1>19, <1>20, ZenonT(60)
     DEF Next, Progress, Failure, Environment

-----------------------------------------------------------------------------
(* The inductive invariant.                                                 *)

\* The invariant holds when the guardian process starts.
LEMMA InvInit == Init => Inv
<1> SUFFICES ASSUME Init PROVE Inv
  OBVIOUS
<1>1. FlagTypes
  BY ZenonT(60) DEF Init, FlagTypes
<1>2. Core
  BY ConstantsAssumption DEF Init, Core, DataTypes, Ownership, LinkInv, PhaseInv,
     HistInv, TrustInv, RepairDrain, Setup, Ending, LiveWorkersKnown,
     ExclusiveWorkers, SurvivorsAreCut, ReadyIsProven, CleanOutcomeMeansNoWriter,
     PC, Purpose, Gen, Role, Worker
<1> QED
  BY <1>1, <1>2 DEF Inv

\* Every step of the main thread and of its environment preserves who may run,
\* where the link leads, what a phase has established and what the history says.
LEMMA CoreStep == Inv /\ [Next]_vars => Core'
<1> SUFFICES ASSUME Inv, [Next]_vars PROVE Core'
  OBVIOUS
<1> USE ConstantsAssumption DEF Inv, Core, DataTypes, Ownership, LinkInv,
   PhaseInv, HistInv, TrustInv, RepairDrain, Setup, Ending,
   LiveWorkersKnown, ExclusiveWorkers, SurvivorsAreCut, ReadyIsProven,
   CleanOutcomeMeansNoWriter, Running, PC, Purpose, Gen, Role, Worker
<1>1. CASE RecoverInterruptedActive
  <2>1. certified' => certified /\ hactive = 0
    BY <1>1, ZenonT(60) DEF RecoverInterruptedActive, CloseActive
  <2> QED
    BY <1>1, <2>1, SMTT(60) DEF RecoverInterruptedActive, CloseActive,
       loopVars, genVars, procVars, idVars
<1>2. CASE EnsureHaproxy
  BY <1>2, SMTT(60) DEF EnsureHaproxy, loopVars, genVars, procVars, idVars,
     histVars
<1>3. CASE LeaveLoop
  BY <1>3, SMTT(60) DEF LeaveLoop, BeginDrain, genVars, procVars, idVars,
     histVars
<1>5. CASE AllocateGeneration
  BY <1>5, SMTT(60) DEF AllocateGeneration, Alive, loopVars, genVars, histVars
<1>6. CASE CreateGeneration
  <2>1. certified' => certified
    BY <1>6, ZenonT(60) DEF CreateGeneration
  <2> QED
    BY <1>6, <2>1, SMTT(60) DEF CreateGeneration, loopVars, procVars, idVars
<1>7. CASE MountTargets
  BY <1>7, SMTT(60) DEF MountTargets, loopVars, procVars, idVars, histVars
<1>8. CASE ProbeTargets
  BY <1>8, SMTT(60) DEF ProbeTargets, loopVars, genVars, procVars, idVars,
     histVars
<1>9. CASE PrepareIndexRepair
  BY <1>9, SMTT(60) DEF PrepareIndexRepair, BeginSpawn, genVars, idVars,
     histVars
<1>10. CASE SpawnWorker
  BY <1>10, SMTT(60) DEF SpawnWorker, genVars, idVars, histVars
<1>11. CASE Interrupted
  BY <1>11, SMTT(60) DEF Interrupted, loopVars, genVars, procVars, idVars,
     histVars
<1>12. CASE StatusAccepted
  BY <1>12, SMTT(60) DEF StatusAccepted, Certify, genVars, procVars, idVars
<1>13. CASE ValidationRequired
  BY <1>13, SMTT(60) DEF ValidationRequired, loopVars, genVars, procVars,
     idVars, histVars
<1>14. CASE RepairInstalls
  BY <1>14, SMTT(60) DEF RepairInstalls, BeginSpawn, genVars, idVars, histVars
<1>15. CASE RepairHelperReaped
  BY <1>15, SMTT(60) DEF RepairHelperReaped, loopVars, genVars, procVars,
     idVars, histVars
<1>16. CASE ValidationPasses
  BY <1>16, SMTT(60) DEF ValidationPasses, Certify, genVars, procVars, idVars
<1>17. CASE Rollback
  BY <1>17, ZenonT(60) DEF Rollback, Raise, RaiseManual, loopVars, genVars,
     procVars, idVars, histVars
<1>18. CASE StabilizeSample
  BY <1>18, SMTT(60) DEF StabilizeSample, Certify, genVars, procVars, idVars
<1>19. CASE StabilizeDone
  BY <1>19, SMTT(60) DEF StabilizeDone, loopVars, genVars, procVars, idVars,
     histVars
<1>20. CASE GoOnline
  BY <1>20, SMTT(60) DEF GoOnline, loopVars, genVars, procVars, idVars,
     histVars
<1>21. CASE HandleFailure
  BY <1>21, SMTT(60) DEF HandleFailure, BeginDrain, loopVars, genVars,
     procVars, idVars, histVars
<1>22. CASE StopProcess
  BY <1>22, SMTT(60) DEF StopProcess, NextToStop, loopVars, genVars, idVars,
     histVars
<1>23. CASE Drained
  BY <1>23, SMTT(60) DEF Drained, loopVars, genVars, procVars, idVars,
     histVars
<1>24. CASE Detach
  BY <1>24, SMTT(60) DEF Detach, loopVars, procVars, idVars, histVars
<1>25. CASE Fence
  BY <1>25, SMTT(60) DEF Fence, procVars, idVars, histVars
<1>26. CASE Redetach
  BY <1>26, SMTT(60) DEF Redetach, HelperMayHang, loopVars, procVars, idVars,
     histVars
<1>27. CASE FinishHistory
  <2>1. certified' => certified /\ (hactive = 0 \/ clean)
    BY <1>27, ZenonT(60) DEF FinishHistory, CloseActive
  <2>2. pc' = "loop" => stopping'
    BY <1>27, ZenonT(60) DEF FinishHistory
  <2>3. DataTypes'
    BY <1>27, SMTT(60) DEF FinishHistory, CloseActive, loopVars, genVars,
       procVars, idVars
  <2>4. Ownership'
    BY <1>27, <2>2, SMTT(60) DEF FinishHistory, CloseActive, loopVars,
       genVars, procVars, idVars
  <2>5. LinkInv'
    BY <1>27, SMTT(60) DEF FinishHistory, CloseActive, loopVars, genVars,
       procVars, idVars
  <2>6. PhaseInv'
    BY <1>27, <2>2, SMTT(60) DEF FinishHistory, CloseActive, loopVars,
       genVars, procVars, idVars
  <2>7. HistInv'
    BY <1>27, <2>1, SMTT(60) DEF FinishHistory, CloseActive, loopVars,
       genVars, procVars, idVars
  <2>8. (AutoRepair \/ TrustInv)'
    BY <1>27, SMTT(60) DEF FinishHistory, CloseActive, loopVars, genVars,
       procVars, idVars
  <2> QED
    BY <2>3, <2>4, <2>5, <2>6, <2>7, <2>8, ZenonT(60)
<1>28. CASE RetireGeneration
  BY <1>28, SMTT(60) DEF RetireGeneration, AfterRetire, loopVars, procVars,
     idVars, histVars
<1>29. CASE WaitForBlockedCleanup
  BY <1>29, SMTT(60) DEF WaitForBlockedCleanup, Alive, loopVars, genVars,
     procVars, idVars, histVars
<1>30. CASE LeavePark
  BY <1>30, SMTT(60) DEF LeavePark, loopVars, genVars, procVars, idVars,
     histVars
<1>31. CASE EnsureHaproxyFails
  BY <1>31, SMTT(60) DEF EnsureHaproxyFails, Raise, loopVars, genVars,
     procVars, idVars, histVars
<1>32. CASE SelectFails
  BY <1>32, SMTT(60) DEF SelectFails, Raise, Alive, loopVars, genVars, idVars,
     histVars
<1>33. CASE AllocateFails
  BY <1>33, SMTT(60) DEF AllocateFails, Raise, RecordCreationFailure, Alive,
     loopVars, genVars, idVars, histVars
<1>34. CASE CreateFails
  BY <1>34, SMTT(60) DEF CreateFails, Raise, RecordCreationFailure, loopVars,
     procVars, idVars, histVars
<1>35. CASE MountFails
  BY <1>35, SMTT(60) DEF MountFails, HelperMayHang, Raise, loopVars, procVars,
     idVars, histVars
<1>36. CASE ProbeFails
  BY <1>36, SMTT(60) DEF ProbeFails, HelperMayHang, Raise, loopVars, genVars,
     procVars, idVars, histVars
<1>37. CASE PrepareFails
  BY <1>37, SMTT(60) DEF PrepareFails, Raise, RaiseManual, loopVars, genVars,
     procVars, idVars, histVars
<1>38. CASE SpawnFails
  BY <1>38, SMTT(60) DEF SpawnFails, Raise, loopVars, genVars, idVars,
     histVars
<1>39. CASE StatusFails
  BY <1>39, SMTT(60) DEF StatusFails, Raise, loopVars, genVars, procVars,
     idVars, histVars
<1>40. CASE StatusAcceptedCanaryFails
  BY <1>40, SMTT(60) DEF StatusAcceptedCanaryFails, Raise, Certify, loopVars,
     genVars, procVars, idVars
<1>41. CASE UnexpectedReadonly
  BY <1>41, SMTT(60) DEF UnexpectedReadonly, Raise, RaiseManual, BeginDrain,
     loopVars, genVars, procVars, idVars, histVars
<1>42. CASE RepairFails
  BY <1>42, SMTT(60) DEF RepairFails, Raise, RaiseManual, loopVars, genVars,
     procVars, idVars, histVars
<1>43. CASE RepairHelperBlocks
  BY <1>43, SMTT(60) DEF RepairHelperBlocks, loopVars, genVars, procVars,
     idVars, histVars
<1>44. CASE ValidationPassesCanaryFails
  BY <1>44, SMTT(60) DEF ValidationPassesCanaryFails, Raise, Certify,
     loopVars, genVars, procVars, idVars
<1>45. CASE ValidationRejects
  BY <1>45, SMTT(60) DEF ValidationRejects, BeginDrain, genVars, procVars,
     idVars, histVars
<1>46. CASE OnlineFails
  BY <1>46, SMTT(60) DEF OnlineFails, HelperMayHang, Raise, loopVars, genVars,
     procVars, idVars, histVars
<1>47. CASE OnlineSleepFails
  BY <1>47, SMTT(60) DEF OnlineSleepFails, Raise, loopVars, genVars, procVars,
     idVars, histVars
<1>48. CASE StopProcessFails
  BY <1>48, SMTT(60) DEF StopProcessFails, NextToStop, genVars, idVars,
     histVars
<1>49. CASE DetachFails
  BY <1>49, SMTT(60) DEF DetachFails, HelperMayHang, procVars, idVars,
     histVars
<1>50. CASE FenceFails
  BY <1>50, SMTT(60) DEF FenceFails, procVars, idVars, histVars
<1>51. CASE RetireFails
  BY <1>51, SMTT(60) DEF RetireFails, AfterRetire, loopVars, procVars, idVars,
     histVars
<1>52. CASE Signal
  BY <1>52, SMTT(60) DEF Signal, loopVars, genVars, procVars, idVars, histVars
<1>53. CASE Crash
  BY <1>53, SMTT(60) DEF Crash, loopVars, genVars, procVars, idVars, histVars
<1>54. CASE Restart
  BY <1>54, SMTT(60) DEF Restart, histVars
<1>55. CASE \E w \in workers : WorkerExits(w)
  BY <1>55, SMTT(60) DEF WorkerExits, loopVars, genVars, idVars, histVars
<1>56. CASE \E g \in helpers : HelperExits(g)
  BY <1>56, SMTT(60) DEF HelperExits, loopVars, genVars, procVars, idVars,
     histVars
<1>57. CASE UNCHANGED vars
  BY <1>57, SMTT(60) DEF vars, loopVars, genVars, procVars, idVars, histVars
<1> QED
  BY <1>1, <1>2, <1>3, <1>5, <1>6, <1>7, <1>8, <1>9, <1>10, <1>11, <1>12,
     <1>13, <1>14, <1>15, <1>16, <1>17, <1>18, <1>19, <1>20, <1>21, <1>22,
     <1>23, <1>24, <1>25, <1>26, <1>27, <1>28, <1>29, <1>30, <1>31, <1>32,
     <1>33, <1>34, <1>35, <1>36, <1>37, <1>38, <1>39, <1>40, <1>41, <1>42,
     <1>43, <1>44, <1>45, <1>46, <1>47, <1>48, <1>49, <1>50, <1>51, <1>52,
     <1>53, <1>54, <1>55, <1>56, <1>57, ZenonT(60) DEF Next, Progress,
     Failure, Environment

\* The invariant holds of every reachable state.
THEOREM Invariance == Spec => []Inv
<1>1. Inv /\ [Next]_vars => Inv'
  BY FlagStep, CoreStep DEF Inv
<1> QED
  BY InvInit, <1>1, PTL DEF Spec

-----------------------------------------------------------------------------
(* Safety of the guardian.                                                  *)

\* Every variable of the guardian keeps its type.
THEOREM TypeCorrectness == Spec => []TypeOK
<1>1. Inv => TypeOK
  BY DEF Inv, Core, TypeOK
<1> QED
  BY Invariance, <1>1, PTL

\* No two generations ever have processes running side by side: _begin_generation
\* refuses while a lingering process runs.
THEOREM WorkersExclusive == Spec => []ExclusiveWorkers
<1>1. Inv => ExclusiveWorkers
  BY DEF Inv, Core, Ownership
<1> QED
  BY Invariance, <1>1, PTL

\* Every process that runs is on a list of the guardian, whatever _start_role,
\* _retire_generation and a restart do: nothing is out of reach of the fence.
THEOREM WorkersKnown == Spec => []LiveWorkersKnown
<1>1. Inv => LiveWorkersKnown
  BY DEF Inv, Core, Ownership
<1> QED
  BY Invariance, <1>1, PTL

\* A process that outlives its generation is cut off from remote storage, except
\* on the fatal exit path (fence and retire of WorkerGeneration).
THEOREM SurvivorsCut == Spec => []SurvivorsAreCut
<1>1. Inv => SurvivorsAreCut
  BY DEF Inv, Core, LinkInv
<1> QED
  BY Invariance, <1>1, PTL

\* Readiness is published only of a fully checked and certified generation.
THEOREM ReadinessProven == Spec => []ReadyIsProven
<1>1. Inv => ReadyIsProven
  BY DEF Inv, Core, PhaseInv
<1> QED
  BY Invariance, <1>1, PTL

\* Index trust is newer than every unclean outcome, through crashes at any step.
THEOREM CertificationEarned == Spec => []CertificationIsEarned
<1>1. Inv => CertificationIsEarned
  BY DEF Inv, Core, HistInv, CertificationIsEarned
<1> QED
  BY Invariance, <1>1, PTL

\* Without automatic index repair, a generation recorded as clean has no process
\* left.  (With it a lingering process of a failed repair drain can be recorded
\* as clean: the assumption is needed.)
THEOREM CleanMeansNoWriter ==
  ASSUME ~AutoRepair
  PROVE  Spec => []CleanOutcomeMeansNoWriter
<1>1. Inv => CleanOutcomeMeansNoWriter
  BY DEF Inv, Core, TrustInv
<1> QED
  BY Invariance, <1>1, PTL

\* No step of the guardian touches an unclean outcome: only the open record is
\* closed, and it has none.
LEMMA OutcomeStep ==
  ASSUME Inv, [Next]_vars, NEW g \in Gen, outcome[g] = "unclean"
  PROVE  outcome'[g] = "unclean"
<1>1. CASE RecoverInterruptedActive
  BY <1>1 DEF Inv, Core, HistInv, DataTypes, RecoverInterruptedActive,
     CloseActive
<1>2. CASE AllocateFails
  BY <1>2 DEF Inv, Core, HistInv, DataTypes, AllocateFails,
     RecordCreationFailure, histVars
<1>3. CASE CreateGeneration
  BY <1>3 DEF Inv, Core, HistInv, DataTypes, CreateGeneration
<1>4. CASE CreateFails
  BY <1>4 DEF Inv, Core, HistInv, DataTypes, CreateFails,
     RecordCreationFailure, histVars
<1>5. CASE FinishHistory
  <2>1. \E o \in {"clean", "unclean"} :
           outcome' = [x \in Gen |-> IF x = hactive THEN o ELSE outcome[x]]
    BY <1>5, ZenonT(60) DEF FinishHistory, CloseActive
  <2> QED
    BY <2>1, ConstantsAssumption DEF Inv, Core, HistInv, DataTypes, Gen
<1>6. ASSUME Progress \/ Failure \/ Environment,
            ~RecoverInterruptedActive,
            ~AllocateFails,
            ~CreateGeneration,
            ~CreateFails,
            ~FinishHistory
     PROVE  outcome' = outcome
  <2>1. CASE Progress
    BY <1>6, <2>1, ZenonT(60) DEF Progress, Certify, histVars, EnsureHaproxy,
       LeaveLoop, AllocateGeneration, MountTargets, ProbeTargets,
       PrepareIndexRepair, SpawnWorker, Interrupted, StatusAccepted,
       ValidationRequired, RepairInstalls, RepairHelperReaped,
       ValidationPasses, Rollback, StabilizeSample, StabilizeDone, GoOnline,
       HandleFailure, StopProcess, Drained, Detach, Fence, Redetach,
       RetireGeneration, WaitForBlockedCleanup, LeavePark
  <2>2. CASE Failure
    BY <1>6, <2>2, ZenonT(60) DEF Failure, Certify, histVars,
       EnsureHaproxyFails, SelectFails, MountFails, ProbeFails, PrepareFails,
       SpawnFails, StatusFails, StatusAcceptedCanaryFails, UnexpectedReadonly,
       RepairFails, RepairHelperBlocks, ValidationPassesCanaryFails,
       ValidationRejects, OnlineFails, OnlineSleepFails, StopProcessFails,
       DetachFails, FenceFails, RetireFails
  <2>3. CASE Environment
    BY <2>3 DEF Environment, histVars, Signal, Crash, Restart, WorkerExits,
       HelperExits
  <2> QED
    BY <1>6, <2>1, <2>2, <2>3, ZenonT(60)
<1>7. CASE UNCHANGED vars
  BY <1>7 DEF vars, histVars
<1> QED
  BY <1>1, <1>2, <1>3, <1>4, <1>5, <1>6, <1>7 DEF Next

\* An unclean outcome is final (_finish_active closes only the open record).
THEOREM UncleanStaysUnclean == Spec => UncleanIsFinal
<1>1. Inv /\ [Next]_vars =>
        [\A g \in Gen : outcome[g] = "unclean" => outcome'[g] = "unclean"]_vars
  BY OutcomeStep
<1> QED
  BY Invariance, <1>1, PTL DEF Spec, UncleanIsFinal

-----------------------------------------------------------------------------
(* Storage is detached under a live writer only behind a fence.             *)

\* Nothing is mounted before the mounts, a detach follows a clean drain, a fence
\* that did not hold is fatal, and only then is a finished generation kept.
DetachInv ==
    /\ pc = "mount" => mounted = {}
    /\ pc = "detach" => clean
    /\ pc \in {"redetach", "finish"} => fatal \/ (fenceOk /\ link # gen)
    /\ gen # 0 /\ hactive = 0 /\ pc \notin {"retire", "exited", "down"} => fatal

\* The step that WritersAreFencedBeforeDetach allows.
DetachStep ==
    mounted' # mounted /\ mounted' \subseteq mounted /\ gen # 0 =>
        \/ link # gen \/ link' # gen \/ fatal'
        \/ \A w \in workers : w[1] # gen

\* A step that leaves mounts, fence and record alone, and does not move into or
\* within the phases DetachInv speaks of.
Aloof ==
    /\ UNCHANGED <<gen, hactive, mounted, link, fatal, fenceOk>>
    /\ \/ pc' = pc /\ (clean' = clean \/ pc = "drain")
       \/ /\ pc \notin {"retire", "exited", "down"}
          /\ pc' \notin {"mount", "detach", "redetach", "finish"}

\* Steps that have nothing to do with mounts.
LEMMA AloofSteps ==
  ASSUME Progress \/ Failure \/ Environment,
         ~RecoverInterruptedActive, ~AllocateFails, ~CreateGeneration, ~CreateFails,
         ~MountTargets, ~MountFails, ~Drained, ~Detach, ~DetachFails, ~Fence,
         ~FenceFails, ~Redetach, ~FinishHistory, ~RetireGeneration, ~RetireFails,
         ~Crash, ~Restart
  PROVE  Aloof
<1> USE DEF Aloof, loopVars, genVars, histVars
<1>1. CASE EnsureHaproxy \/ LeaveLoop \/ AllocateGeneration
  BY <1>1, SMTT(60) DEF EnsureHaproxy, LeaveLoop, BeginDrain, AllocateGeneration
<1>2. CASE ProbeTargets \/ PrepareIndexRepair \/ SpawnWorker
  BY <1>2, SMTT(60) DEF ProbeTargets, PrepareIndexRepair, BeginSpawn, SpawnWorker
<1>3. CASE Interrupted \/ StatusAccepted \/ ValidationRequired
  BY <1>3, SMTT(60) DEF Interrupted, StatusAccepted, Certify, ValidationRequired
<1>4. CASE RepairInstalls \/ RepairHelperReaped
  BY <1>4, SMTT(60) DEF RepairInstalls, BeginSpawn, RepairHelperReaped
<1>5. CASE ValidationPasses \/ StabilizeSample \/ StabilizeDone \/ GoOnline
  BY <1>5, SMTT(60) DEF ValidationPasses, Certify, StabilizeSample, StabilizeDone, GoOnline
<1>6. CASE HandleFailure \/ StopProcess \/ WaitForBlockedCleanup \/ LeavePark
  BY <1>6, SMTT(60) DEF HandleFailure, BeginDrain, StopProcess, WaitForBlockedCleanup,
     LeavePark
<1>7. CASE Rollback
  BY <1>7, Zenon DEF Rollback, Raise, RaiseManual
<1>8. CASE EnsureHaproxyFails \/ SelectFails \/ ProbeFails \/ PrepareFails
  BY <1>8, SMTT(60) DEF EnsureHaproxyFails, SelectFails, ProbeFails, PrepareFails, Raise,
     RaiseManual
<1>9. CASE SpawnFails \/ StatusFails \/ StatusAcceptedCanaryFails
  BY <1>9, SMTT(60) DEF SpawnFails, StatusFails, StatusAcceptedCanaryFails, Certify, Raise
<1>10. CASE UnexpectedReadonly \/ RepairFails \/ RepairHelperBlocks
  BY <1>10, SMTT(60) DEF UnexpectedReadonly, BeginDrain, RepairFails, RepairHelperBlocks,
     Raise, RaiseManual
<1>11. CASE ValidationPassesCanaryFails \/ ValidationRejects
  BY <1>11, SMTT(60) DEF ValidationPassesCanaryFails, Certify, ValidationRejects,
     BeginDrain, Raise
<1>12. CASE OnlineFails \/ OnlineSleepFails \/ StopProcessFails
  BY <1>12, SMTT(60) DEF OnlineFails, OnlineSleepFails, StopProcessFails, Raise
<1>13. CASE \/ Signal \/ (\E w \in workers : WorkerExits(w))
            \/ (\E g \in helpers : HelperExits(g))
  BY <1>13, SMTT(60) DEF Signal, WorkerExits, HelperExits
<1> QED
  BY <1>1, <1>2, <1>3, <1>4, <1>5, <1>6, <1>7, <1>8, <1>9, <1>10, <1>11, <1>12, <1>13,
     ZenonT(60) DEF Progress, Failure, Environment

\* Every step keeps DetachInv and detaches nothing under an unfenced writer.
LEMMA DetachNext ==
  ASSUME ~AutoRepair, Inv, DetachInv, [Next]_vars
  PROVE  DetachInv' /\ DetachStep
<1> USE DEF DetachInv, DetachStep
<1>1. ASSUME gen # 0, hactive # 0, processes = {}, clean, Running, pc \in Ending
      PROVE  workers = {}
  BY <1>1 DEF Inv, Core, Ownership, LiveWorkersKnown, TrustInv
<1>2. CASE RecoverInterruptedActive \/ AllocateFails \/ CreateFails
  BY <1>2, SMTT(60) DEF Inv, Core, Ownership, RecoverInterruptedActive, AllocateFails,
     CreateFails, Raise, genVars
<1>3. CASE CreateGeneration
  BY <1>3, SMTT(60) DEF Inv, Core, Ownership, CreateGeneration
<1>4. CASE MountTargets
  BY <1>4, SMTT(60) DEF MountTargets, histVars
<1>5. CASE MountFails
  BY <1>5, SMTT(60) DEF MountFails, Raise, histVars
<1>6. CASE Drained
  BY <1>6, SMTT(60) DEF Inv, Core, DataTypes, Purpose, Drained, loopVars, genVars, histVars
<1>7. CASE Detach
  BY <1>1, <1>7, SMTT(60) DEF Inv, Core, Ownership, Ending, Running, Detach, histVars
<1>8. CASE DetachFails
  BY <1>1, <1>8, SMTT(60) DEF Inv, Core, Ownership, Ending, Running, DetachFails, histVars
<1>9. CASE Fence
  BY <1>9, SMTT(60) DEF Inv, Core, Ownership, LinkInv, Ending, Fence, histVars
<1>10. CASE FenceFails
  BY <1>10, SMTT(60) DEF FenceFails, histVars
<1>11. CASE Redetach
  BY <1>11, SMTT(60) DEF Redetach, loopVars, histVars
<1>12. CASE FinishHistory
  <2>1. /\ UNCHANGED <<mounted, link, gen, fatal, fenceOk>> /\ pc = "finish"
        /\ pc' = "retire" \/ (pc' = "loop" /\ ~fenceOk)
    BY <1>12, Zenon DEF FinishHistory, genVars, loopVars
  <2> QED BY <2>1, SMTT(60)
<1>13. CASE RetireGeneration \/ RetireFails
  BY <1>13, SMTT(60) DEF Inv, Core, LinkInv, RetireGeneration, RetireFails, AfterRetire
<1>14. CASE Crash
  BY <1>14, SMTT(60) DEF Crash, genVars
<1>15. CASE Restart
  BY <1>15, SMTT(60) DEF Restart
<1>16. CASE Aloof
  BY <1>16, SMTT(60) DEF Aloof
<1>17. CASE UNCHANGED vars
  BY <1>17, SMTT(60) DEF vars, loopVars, genVars, histVars
<1> QED
  BY <1>2, <1>3, <1>4, <1>5, <1>6, <1>7, <1>8, <1>9, <1>10, <1>11, <1>12, <1>13,
     <1>14, <1>15, <1>16, <1>17, AloofSteps, ZenonT(60) DEF Next

\* Without automatic index repair, _terminate_generation never unmounts storage
\* under a running process of the generation before its fence, unless the fence
\* has failed.  (A repair drain can leave a process that the next drain ignores.)
THEOREM DetachIsFenced ==
  ASSUME ~AutoRepair
  PROVE  Spec => WritersAreFencedBeforeDetach
<1>1. Init => DetachInv
  BY SMTT(60) DEF Init, DetachInv
<1>2. Inv /\ DetachInv /\ [Next]_vars => DetachInv' /\ [DetachStep]_vars
  BY DetachNext
<1>3. [][DetachStep]_vars => WritersAreFencedBeforeDetach
  BY PTL DEF DetachStep, WritersAreFencedBeforeDetach
<1> QED
  BY <1>1, <1>2, <1>3, Invariance, PTL DEF Spec

-----------------------------------------------------------------------------
(* The refinement: every step of Guardian, in any reachable state and for  *)
(* any constants, is a step of Lifecycle or leaves what Lifecycle sees     *)
(* unchanged.                                                              *)

\* What the cycle relies on besides Inv: the loop turns without a stop request
\* only when no task is left, and only a stop request leads to the shutdown.
CycleInv ==
    /\ pc = "start" \/ (pc = "loop" /\ ~stopping) => workers = {} /\ helpers = {}
    /\ purpose = "shutdown" => stopping

\* What Lifecycle sees is unchanged.
Stutter == UNCHANGED <<Phase, gen # 0, ready, workers # {} \/ helpers # {}, stopping>>

\* What Inv says of the places that have a generation, tasks or readiness.
Places ==
    /\ pc \in {"start", "begin", "create", "blocked", "parked"} => gen = 0
    /\ pc = "loop" /\ ~stopping => gen = 0
    /\ pc \in Setup \cup Ending \cup {"manual"} \/ RepairDrain => gen # 0
    /\ pc = "create" => counter # 0 /\ workers = {} /\ helpers = {}
    /\ ready => pc \in {"online", "failed"} \/ (pc = "loop" /\ stopping)

\* The places are part of the invariant.
LEMMA PlacesKnown == Inv => Places
BY Zenon DEF Inv, Core, Ownership, PhaseInv, Places

\* Processes of a generation that is gone cannot be tracked.
LEMMA NothingTracked == Inv /\ gen = 0 => processes = {}
BY ConstantsAssumption, SMTT(60) DEF Inv, Core, DataTypes, Ownership, Worker, Gen

\* Closing readiness that is closed changes nothing.
LEMMA StaysClosed == Inv /\ ~ready /\ ready' = FALSE => ready' = ready
BY Zenon DEF Inv, FlagTypes

\* What a step has to do to be a failure of the cycle.
LEMMA FailIntro ==
    ASSUME Phase \in {"mount", "work", "online"}, Phase' = "ending",
           ready' = ready \/ ready' = FALSE,
           workers \subseteq workers', helpers \subseteq helpers',
           gen' = gen, stopping' = stopping
    PROVE  Cycle!Fail
<1>1. workers # {} \/ helpers # {} => workers' # {} \/ helpers' # {}
  OBVIOUS
<1>2. (workers # {} \/ helpers # {})' \in {workers # {} \/ helpers # {}, TRUE}
  <2>1. CASE workers # {} \/ helpers # {}
    BY <1>1, <2>1, Zenon
  <2>2. CASE ~(workers # {} \/ helpers # {}) /\ (workers' # {} \/ helpers' # {})
    BY <2>2, Zenon
  <2>3. CASE ~(workers # {} \/ helpers # {}) /\ ~(workers' # {} \/ helpers' # {})
    BY <2>3, Zenon
  <2> QED BY <2>1, <2>2, <2>3
<1> QED BY <1>2, Zenon DEF Cycle!Fail

-----------------------------------------------------------------------------
\* The cycle's own invariant is kept by every step.
LEMMA CycleStep == Inv /\ CycleInv /\ [Next]_vars => CycleInv'
<1> SUFFICES ASSUME Inv, CycleInv, [Next]_vars PROVE CycleInv'
  OBVIOUS
<1> USE NothingTracked DEF CycleInv
<1>1. CASE RecoverInterruptedActive
  BY <1>1, SMTT(60) DEF RecoverInterruptedActive, CloseActive, loopVars,
     genVars, procVars
<1>2. CASE EnsureHaproxy
  BY <1>2, SMTT(60) DEF EnsureHaproxy, loopVars, genVars, procVars
<1>3. CASE LeaveLoop
  BY <1>3, SMTT(60) DEF LeaveLoop, BeginDrain, loopVars, genVars, procVars
<1>4. CASE AllocateGeneration
  BY <1>4, SMTT(60) DEF AllocateGeneration, Alive, loopVars, genVars, procVars
<1>5. CASE AllocateFails
  BY <1>5, SMTT(60) DEF AllocateFails, Raise, Alive, loopVars, genVars, procVars
<1>6. CASE CreateGeneration
  BY <1>6, SMTT(60) DEF CreateGeneration, loopVars, genVars, procVars
<1>7. CASE MountTargets
  BY <1>7, SMTT(60) DEF MountTargets, loopVars, genVars, procVars
<1>8. CASE ProbeTargets
  BY <1>8, SMTT(60) DEF ProbeTargets, loopVars, genVars, procVars
<1>9. CASE PrepareIndexRepair
  BY <1>9, SMTT(60) DEF PrepareIndexRepair, BeginSpawn, loopVars, genVars,
     procVars
<1>10. CASE SpawnWorker
  BY <1>10, SMTT(60) DEF SpawnWorker, loopVars, genVars, procVars
<1>11. CASE Interrupted
  BY <1>11, SMTT(60) DEF Interrupted, loopVars, genVars, procVars
<1>12. CASE StatusAccepted
  BY <1>12, SMTT(60) DEF StatusAccepted, Certify, loopVars, genVars, procVars
<1>13. CASE ValidationRequired
  BY <1>13, SMTT(60) DEF ValidationRequired, loopVars, genVars, procVars
<1>14. CASE RepairInstalls
  BY <1>14, SMTT(60) DEF RepairInstalls, BeginSpawn, loopVars, genVars, procVars
<1>15. CASE RepairHelperReaped
  BY <1>15, SMTT(60) DEF RepairHelperReaped, loopVars, genVars, procVars
<1>16. CASE ValidationPasses
  BY <1>16, SMTT(60) DEF ValidationPasses, Certify, loopVars, genVars, procVars
<1>17. CASE Rollback
  <2>1. UNCHANGED <<purpose, stopping>> /\ pc' \in {"manual", "failed"}
    BY <1>17, Zenon DEF Rollback, Raise, RaiseManual, loopVars
  <2> QED BY <2>1
<1>18. CASE StabilizeSample
  BY <1>18, SMTT(60) DEF StabilizeSample, Certify, loopVars, genVars, procVars
<1>19. CASE StabilizeDone
  BY <1>19, SMTT(60) DEF StabilizeDone, loopVars, genVars, procVars
<1>20. CASE GoOnline
  BY <1>20, SMTT(60) DEF GoOnline, loopVars, genVars, procVars
<1>21. CASE HandleFailure
  BY <1>21, SMTT(60) DEF HandleFailure, BeginDrain, loopVars, genVars, procVars
<1>22. CASE StopProcess
  BY <1>22, SMTT(60) DEF StopProcess, loopVars, genVars, procVars
<1>23. CASE Drained
  BY <1>23, SMTT(60) DEF Drained, loopVars, genVars, procVars
<1>24. CASE Detach
  BY <1>24, SMTT(60) DEF Detach, loopVars, genVars, procVars
<1>25. CASE Fence
  BY <1>25, SMTT(60) DEF Fence, loopVars, genVars, procVars
<1>26. CASE Redetach
  BY <1>26, SMTT(60) DEF Redetach, HelperMayHang, loopVars, genVars, procVars
<1>27. CASE FinishHistory
  <2>1. /\ stopping => stopping'
        /\ pc' = "loop" => ~fenceOk /\ purpose # "shutdown"
        /\ ~fenceOk /\ purpose # "shutdown" => stopping'
        /\ pc' \in {"loop", "retire"} /\ purpose' = purpose
    BY <1>27, Zenon DEF FinishHistory, loopVars
  <2> QED BY <2>1
<1>28. CASE RetireGeneration
  BY <1>28, SMTT(60) DEF RetireGeneration, AfterRetire, loopVars, genVars,
     procVars
<1>29. CASE WaitForBlockedCleanup
  <2>1. gen = 0 /\ processes = {}
    BY <1>29 DEF WaitForBlockedCleanup, Inv, Core, Ownership
  <2>2. workers \subseteq lingering
    BY <1>29, <2>1 DEF WaitForBlockedCleanup, Inv, Core, Ownership, LiveWorkersKnown,
       Running
  <2> QED BY <1>29, <2>2, SMTT(60) DEF WaitForBlockedCleanup, Alive, loopVars, genVars,
     procVars
<1>30. CASE LeavePark
  BY <1>30, SMTT(60) DEF LeavePark, loopVars, genVars, procVars
<1>31. CASE EnsureHaproxyFails
  BY <1>31, SMTT(60) DEF EnsureHaproxyFails, Raise, loopVars, genVars, procVars
<1>32. CASE SelectFails
  BY <1>32, SMTT(60) DEF SelectFails, Raise, loopVars, genVars, procVars
<1>33. CASE CreateFails
  BY <1>33, SMTT(60) DEF CreateFails, Raise, loopVars, genVars, procVars
<1>34. CASE MountFails
  BY <1>34, SMTT(60) DEF MountFails, Raise, HelperMayHang, loopVars, genVars,
     procVars
<1>35. CASE ProbeFails
  BY <1>35, SMTT(60) DEF ProbeFails, Raise, HelperMayHang, loopVars, genVars,
     procVars
<1>36. CASE PrepareFails
  BY <1>36, SMTT(60) DEF PrepareFails, Raise, RaiseManual, loopVars, genVars,
     procVars
<1>37. CASE SpawnFails
  BY <1>37, SMTT(60) DEF SpawnFails, Raise, loopVars, genVars, procVars
<1>38. CASE StatusFails
  BY <1>38, SMTT(60) DEF StatusFails, Raise, loopVars, genVars, procVars
<1>39. CASE StatusAcceptedCanaryFails
  BY <1>39, SMTT(60) DEF StatusAcceptedCanaryFails, Raise, loopVars, genVars,
     procVars
<1>40. CASE UnexpectedReadonly
  BY <1>40, SMTT(60) DEF UnexpectedReadonly, Raise, RaiseManual, BeginDrain,
     loopVars, genVars, procVars
<1>41. CASE RepairFails
  BY <1>41, SMTT(60) DEF RepairFails, Raise, RaiseManual, loopVars, genVars,
     procVars
<1>42. CASE RepairHelperBlocks
  BY <1>42, SMTT(60) DEF RepairHelperBlocks, loopVars, genVars, procVars
<1>43. CASE ValidationPassesCanaryFails
  BY <1>43, SMTT(60) DEF ValidationPassesCanaryFails, Raise, loopVars,
     genVars, procVars
<1>44. CASE ValidationRejects
  BY <1>44, SMTT(60) DEF ValidationRejects, BeginDrain, loopVars, genVars,
     procVars
<1>45. CASE OnlineFails
  BY <1>45, SMTT(60) DEF OnlineFails, Raise, HelperMayHang, loopVars, genVars,
     procVars
<1>46. CASE OnlineSleepFails
  BY <1>46, SMTT(60) DEF OnlineSleepFails, Raise, loopVars, genVars, procVars
<1>47. CASE StopProcessFails
  BY <1>47, SMTT(60) DEF StopProcessFails, loopVars, genVars, procVars
<1>48. CASE DetachFails
  BY <1>48, SMTT(60) DEF DetachFails, HelperMayHang, loopVars, genVars, procVars
<1>49. CASE FenceFails
  BY <1>49, SMTT(60) DEF FenceFails, loopVars, genVars, procVars
<1>50. CASE RetireFails
  BY <1>50, SMTT(60) DEF RetireFails, AfterRetire, loopVars, genVars, procVars
<1>51. CASE Signal
  BY <1>51, SMTT(60) DEF Signal, loopVars, genVars, procVars
<1>52. CASE Crash
  BY <1>52, SMTT(60) DEF Crash, loopVars, genVars, procVars
<1>53. CASE Restart
  BY <1>53, SMTT(60) DEF Restart, loopVars, genVars, procVars
<1>54. CASE \E w \in workers : WorkerExits(w)
  BY <1>54, SMTT(60) DEF WorkerExits, loopVars, genVars, procVars
<1>55. CASE \E g \in helpers : HelperExits(g)
  BY <1>55, SMTT(60) DEF HelperExits, loopVars, genVars, procVars
<1>56. CASE UNCHANGED vars
  BY <1>56, SMTT(60) DEF vars, loopVars, genVars, procVars
<1> QED
  BY <1>1, <1>2, <1>3, <1>4, <1>5, <1>6, <1>7, <1>8, <1>9, <1>10,
     <1>11, <1>12, <1>13, <1>14, <1>15, <1>16, <1>17, <1>18, <1>19, <1>20,
     <1>21, <1>22, <1>23, <1>24, <1>25, <1>26, <1>27, <1>28, <1>29, <1>30,
     <1>31, <1>32, <1>33, <1>34, <1>35, <1>36, <1>37, <1>38, <1>39, <1>40,
     <1>41, <1>42, <1>43, <1>44, <1>45, <1>46, <1>47, <1>48, <1>49, <1>50,
     <1>51, <1>52, <1>53, <1>54, <1>55, <1>56, ZenonT(60)
     DEF Next, Progress, Failure, Environment

-----------------------------------------------------------------------------
(* The simulation, one case per action.                                     *)

\* Every step maps to a step of the cycle or to a stutter.
LEMMA Simulation == Inv /\ CycleInv /\ [Next]_vars => Cycle!LNext \/ Stutter
<1> SUFFICES ASSUME Inv, CycleInv, [Next]_vars PROVE Cycle!LNext \/ Stutter
  OBVIOUS
<1> USE ConstantsAssumption DEF Phase, Running, Setup, Ending, RepairDrain
<1>1. CASE RecoverInterruptedActive
  <2>1. Stutter
    BY <1>1, PlacesKnown, SMTT(60) DEF RecoverInterruptedActive, CloseActive, Places,
       CycleInv, loopVars, genVars, procVars, Stutter
  <2> QED BY <2>1
<1>2. CASE EnsureHaproxy
  <2>1. Cycle!Attempt
    BY <1>2, PlacesKnown, SMTT(60) DEF EnsureHaproxy, Places, CycleInv, loopVars,
       genVars, procVars, Cycle!Attempt
  <2> QED BY <2>1 DEF Cycle!LNext
<1>3. CASE LeaveLoop
  <2>1. /\ pc = "loop" /\ stopping /\ pc' = "drain" /\ purpose' = "shutdown"
        /\ UNCHANGED <<gen, workers, helpers, stopping>>
    BY <1>3 DEF LeaveLoop, BeginDrain, genVars, procVars
  <2>2. ready' = FALSE
    BY <1>3 DEF LeaveLoop, BeginDrain
  <2>3. CASE gen = 0
    <3>1. ready' = ready
      BY <2>3, <2>2, StaysClosed DEF Inv, Core, PhaseInv, ReadyIsProven
    <3>2. Cycle!Leave
      BY <2>1, <2>3, <3>1, SMTT(60) DEF Cycle!Leave
    <3> QED BY <3>2 DEF Cycle!LNext
  <2>4. CASE gen # 0 /\ ready
    <3>1. Cycle!Withdraw
      BY <2>1, <2>4, <2>2, SMTT(60) DEF Cycle!Withdraw
    <3> QED BY <3>1 DEF Cycle!LNext
  <2>5. CASE gen # 0 /\ ~ready
    <3>1. ready' = ready
      BY <2>5, <2>2, StaysClosed
    <3> QED BY <2>1, <2>5, <3>1, SMTT(60) DEF Stutter
  <2> QED BY <2>3, <2>4, <2>5
<1>4. CASE AllocateGeneration
  <2>1. ready' = ready
    BY <1>4, StaysClosed DEF AllocateGeneration, Inv, Core, PhaseInv
  <2>2. /\ pc = "begin" /\ pc' = "create"
        /\ UNCHANGED <<gen, stopping, workers, helpers>>
    BY <1>4 DEF AllocateGeneration, genVars
  <2> QED BY <2>1, <2>2, SMTT(60) DEF Stutter
<1>5. CASE AllocateFails
  <2>1. ready' = ready
    BY <1>5, StaysClosed DEF AllocateFails, Inv, Core, PhaseInv
  <2>2. /\ pc = "begin" /\ pc' = "failed"
        /\ UNCHANGED <<gen, stopping, workers, helpers>>
    BY <1>5 DEF AllocateFails, Raise, genVars
  <2>3. Cycle!NoGeneration
    BY <2>1, <2>2, SMTT(60) DEF Cycle!NoGeneration
  <2> QED BY <2>3 DEF Cycle!LNext
<1>6. CASE CreateGeneration
  <2>1. Cycle!Create
    BY <1>6, PlacesKnown, SMTT(60) DEF CreateGeneration, Places, CycleInv, loopVars,
       genVars, procVars, Cycle!Create
  <2> QED BY <2>1 DEF Cycle!LNext
<1>7. CASE MountTargets
  <2>1. Cycle!Mounted
    BY <1>7, PlacesKnown, SMTT(60) DEF MountTargets, Places, CycleInv, loopVars,
       genVars, procVars, Cycle!Mounted
  <2> QED BY <2>1 DEF Cycle!LNext
<1>8. CASE ProbeTargets
  <2>1. Stutter
    BY <1>8, PlacesKnown, SMTT(60) DEF ProbeTargets, Places, CycleInv, loopVars,
       genVars, procVars, Stutter
  <2> QED BY <2>1
<1>9. CASE PrepareIndexRepair
  <2>1. Stutter
    BY <1>9, PlacesKnown, SMTT(60) DEF PrepareIndexRepair, BeginSpawn, Places, CycleInv,
       loopVars, genVars, procVars, Stutter
  <2> QED BY <2>1
<1>10. CASE SpawnWorker
  <2>1. /\ pc = "spawn" /\ pc' \in {"spawn", "stable"} /\ gen # 0
        /\ UNCHANGED <<gen, ready, stopping>>
    BY <1>10, SMTT(60) DEF SpawnWorker, Inv, Core, Ownership, genVars
  <2>2. workers' # {}
    BY <1>10 DEF SpawnWorker
  <2>3. Cycle!TasksAppear
    BY <2>1, <2>2, SMTT(60) DEF Cycle!TasksAppear
  <2> QED BY <2>3 DEF Cycle!LNext
<1>11. CASE Interrupted
  <2>1. Cycle!Fail
    BY <1>11, FailIntro, PlacesKnown, SMTT(60) DEF Interrupted, Places, CycleInv,
       loopVars, genVars, procVars
  <2> QED BY <2>1 DEF Cycle!LNext
<1>12. CASE StatusAccepted
  <2>1. Cycle!Fail \/ Stutter
    BY <1>12, FailIntro, PlacesKnown, SMTT(60) DEF StatusAccepted, Certify, Places,
       CycleInv, loopVars, genVars, procVars, Stutter
  <2> QED BY <2>1 DEF Cycle!LNext
<1>13. CASE ValidationRequired
  <2>1. Stutter
    BY <1>13, PlacesKnown, SMTT(60) DEF ValidationRequired, Places, CycleInv, loopVars,
       genVars, procVars, Stutter
  <2> QED BY <2>1
<1>14. CASE RepairInstalls
  <2>1. Stutter
    BY <1>14, PlacesKnown, SMTT(60) DEF RepairInstalls, BeginSpawn, Places, CycleInv,
       loopVars, genVars, procVars, Stutter
  <2> QED BY <2>1
<1>15. CASE RepairHelperReaped
  <2>1. Stutter
    BY <1>15, PlacesKnown, SMTT(60) DEF RepairHelperReaped, Places, CycleInv, loopVars,
       genVars, procVars, Stutter
  <2> QED BY <2>1
<1>16. CASE ValidationPasses
  <2>1. Stutter
    BY <1>16, PlacesKnown, SMTT(60) DEF ValidationPasses, Certify, Places, CycleInv,
       loopVars, genVars, procVars, Stutter
  <2> QED BY <2>1
<1>17. CASE Rollback
  <2>1. /\ pc = "rollback" /\ pc' \in {"manual", "failed"}
        /\ UNCHANGED <<gen, ready, stopping, workers, helpers>>
    BY <1>17, Zenon DEF Rollback, Raise, RaiseManual, genVars, procVars
  <2>2. Cycle!Fail
    BY <2>1, FailIntro, SMTT(60)
  <2> QED BY <2>2 DEF Cycle!LNext
<1>18. CASE StabilizeSample
  <2>1. Stutter
    BY <1>18, PlacesKnown, SMTT(60) DEF StabilizeSample, Certify, Places, CycleInv,
       loopVars, genVars, procVars, Stutter
  <2> QED BY <2>1
<1>19. CASE StabilizeDone
  <2>1. Stutter
    BY <1>19, PlacesKnown, SMTT(60) DEF StabilizeDone, Places, CycleInv, loopVars,
       genVars, procVars, Stutter
  <2> QED BY <2>1
<1>20. CASE GoOnline
  <2>1. Cycle!GoOnline
    BY <1>20, PlacesKnown, SMTT(60) DEF GoOnline, Places, CycleInv, loopVars, genVars,
       procVars, Cycle!GoOnline
  <2> QED BY <2>1 DEF Cycle!LNext
<1>21. CASE HandleFailure
  <2>1. UNCHANGED <<gen, workers, helpers, stopping>> /\ pc \in {"failed", "manual"}
    BY <1>21 DEF HandleFailure, genVars, procVars
  <2>2. CASE stopping
    <3>1. pc' = "loop" /\ ready' = ready
      BY <1>21, <2>2 DEF HandleFailure
    <3>2. CASE gen = 0
      <4>1. Cycle!Leave
        BY <2>1, <2>2, <3>1, <3>2, SMTT(60) DEF Cycle!Leave, Inv, Core, Ownership
      <4> QED BY <4>1 DEF Cycle!LNext
    <3>3. CASE gen # 0
      BY <2>1, <2>2, <3>1, <3>3, SMTT(60) DEF Stutter
    <3> QED BY <3>2, <3>3
  <2>3. CASE ~stopping
    <3>1. pc' = "drain" /\ purpose' \in {"park", "recover"}
      BY <1>21, <2>3, SMTT(60) DEF HandleFailure, BeginDrain
    <3>2. ready' = FALSE
      BY <1>21, <2>3 DEF HandleFailure, BeginDrain
    <3>3. CASE ready
      <4>1. Cycle!Withdraw
        BY <2>1, <3>1, <3>3, <3>2, SMTT(60) DEF Cycle!Withdraw
      <4> QED BY <4>1 DEF Cycle!LNext
    <3>4. CASE ~ready
      <4>1. ready' = ready
        BY <3>4, <3>2, StaysClosed
      <4> QED BY <2>1, <3>1, <4>1, SMTT(60) DEF Stutter
    <3> QED BY <3>3, <3>4
  <2> QED BY <2>2, <2>3
<1>22. CASE StopProcess
  <2>1. Cycle!TasksEnd \/ Stutter
    BY <1>22, PlacesKnown, SMTT(60) DEF StopProcess, Places, CycleInv, loopVars,
       genVars, procVars, Cycle!TasksEnd, Stutter
  <2> QED BY <2>1 DEF Cycle!LNext
<1>23. CASE Drained
  <2>1. /\ pc = "drain" /\ ~ready /\ purpose' = purpose /\ purpose \in Purpose
        /\ UNCHANGED <<gen, ready, stopping, workers, helpers>>
    BY <1>23 DEF Drained, Inv, Core, DataTypes, PhaseInv, loopVars, genVars, procVars
  <2>2. CASE purpose \in {"repair", "rollback"}
    <3>1. gen # 0 /\ pc' \in {"repair", "rollback", "failed"}
      BY <1>23, <2>1, <2>2, SMTT(60) DEF Drained, Inv, Core, Ownership
    <3>2. CASE pc' = "failed"
      <4>1. Cycle!Fail
        BY <2>1, <2>2, <3>1, <3>2, FailIntro, SMTT(60)
      <4> QED BY <4>1 DEF Cycle!LNext
    <3>3. CASE pc' # "failed"
      BY <2>1, <2>2, <3>1, <3>3, SMTT(60) DEF Stutter
    <3> QED BY <3>2, <3>3
  <2>3. CASE purpose \in {"recover", "park", "shutdown"}
    <3>1. pc' \in {"retire", "detach", "fence"}
      BY <1>23, <2>1, <2>3, SMTT(60) DEF Drained
    <3>2. CASE pc' = "retire"
      <4>1. Cycle!Fence
        BY <2>1, <2>3, <3>2, SMTT(60) DEF Cycle!Fence
      <4> QED BY <4>1 DEF Cycle!LNext
    <3>3. CASE pc' # "retire"
      BY <2>1, <2>3, <3>1, <3>3, SMTT(60) DEF Stutter
    <3> QED BY <3>2, <3>3
  <2> QED BY <2>1, <2>2, <2>3 DEF Purpose
<1>24. CASE Detach
  <2>1. Stutter
    BY <1>24, PlacesKnown, SMTT(60) DEF Detach, Places, CycleInv, loopVars, genVars,
       procVars, Stutter
  <2> QED BY <2>1
<1>25. CASE Fence
  <2>1. Cycle!Fence
    BY <1>25, PlacesKnown, SMTT(60) DEF Fence, Places, CycleInv, loopVars, genVars,
       procVars, Cycle!Fence
  <2> QED BY <2>1 DEF Cycle!LNext
<1>26. CASE Redetach
  <2>1. Cycle!TasksAppear \/ Stutter
    BY <1>26, PlacesKnown, SMTT(60) DEF Redetach, HelperMayHang, Places, CycleInv,
       loopVars, genVars, procVars, Cycle!TasksAppear, Stutter
  <2> QED BY <2>1 DEF Cycle!LNext
<1>27. CASE FinishHistory
  <2>1. /\ pc = "finish" /\ gen # 0 /\ ~ready
        /\ UNCHANGED <<gen, ready, workers, helpers>>
    BY <1>27 DEF FinishHistory, Inv, Core, Ownership, PhaseInv, genVars, procVars
  <2>2. CASE purpose = "recover" /\ ~fenceOk
    <3>1. pc' = "loop" /\ stopping' = TRUE
      BY <1>27, <2>2, Zenon DEF FinishHistory
    <3>2. Cycle!Refence
      BY <2>1, <3>1, SMTT(60) DEF Cycle!Refence
    <3> QED BY <3>2 DEF Cycle!LNext
  <2>3. CASE ~(purpose = "recover" /\ ~fenceOk)
    <3>1. pc' = "retire"
      BY <1>27, <2>3, Zenon DEF FinishHistory
    <3>2. stopping' = stopping \/ (~stopping /\ stopping' = TRUE)
      BY <1>27, Zenon DEF FinishHistory, Inv, FlagTypes
    <3>3. CASE stopping' = stopping
      BY <2>1, <3>1, <3>3, SMTT(60) DEF Stutter
    <3>4. CASE ~stopping /\ stopping' = TRUE
      <4>1. ready' = FALSE
        BY <2>1, Zenon DEF Inv, FlagTypes
      <4>2. Cycle!Stop
        BY <2>1, <3>1, <3>4, <4>1, SMTT(60) DEF Cycle!Stop
      <4> QED BY <4>2 DEF Cycle!LNext
    <3> QED BY <3>2, <3>3, <3>4
  <2> QED BY <2>2, <2>3
<1>28. CASE RetireGeneration
  <2>1. Cycle!Retire
    BY <1>28, PlacesKnown, SMTT(60) DEF RetireGeneration, AfterRetire, Places, CycleInv,
       loopVars, genVars, procVars, Cycle!Retire
  <2> QED BY <2>1 DEF Cycle!LNext
<1>29. CASE WaitForBlockedCleanup
  <2>1. Stutter
    BY <1>29, PlacesKnown, SMTT(60) DEF WaitForBlockedCleanup, Places, CycleInv,
       loopVars, genVars, procVars, Stutter
  <2> QED BY <2>1
<1>30. CASE LeavePark
  <2>1. Stutter
    BY <1>30, PlacesKnown, SMTT(60) DEF LeavePark, Places, CycleInv, loopVars, genVars,
       procVars, Stutter
  <2> QED BY <2>1
<1>31. CASE EnsureHaproxyFails
  <2>1. Cycle!Attempt
    BY <1>31, PlacesKnown, SMTT(60) DEF EnsureHaproxyFails, Raise, Places, CycleInv,
       loopVars, genVars, procVars, Cycle!Attempt
  <2> QED BY <2>1 DEF Cycle!LNext
<1>32. CASE SelectFails
  <2>1. Cycle!NoGeneration
    BY <1>32, PlacesKnown, SMTT(60) DEF SelectFails, Raise, Places, CycleInv, loopVars,
       genVars, procVars, Cycle!NoGeneration
  <2> QED BY <2>1 DEF Cycle!LNext
<1>33. CASE CreateFails
  <2>1. Cycle!NoGeneration
    BY <1>33, PlacesKnown, SMTT(60) DEF CreateFails, Raise, Places, CycleInv, loopVars,
       genVars, procVars, Cycle!NoGeneration
  <2> QED BY <2>1 DEF Cycle!LNext
<1>34. CASE MountFails
  <2>1. Cycle!Fail
    BY <1>34, FailIntro, PlacesKnown, SMTT(60) DEF MountFails, Raise, HelperMayHang,
       Places, CycleInv, loopVars, genVars, procVars
  <2> QED BY <2>1 DEF Cycle!LNext
<1>35. CASE ProbeFails
  <2>1. Cycle!Fail
    BY <1>35, FailIntro, PlacesKnown, SMTT(60) DEF ProbeFails, Raise, HelperMayHang,
       Places, CycleInv, loopVars, genVars, procVars
  <2> QED BY <2>1 DEF Cycle!LNext
<1>36. CASE PrepareFails
  <2>1. Cycle!Fail
    BY <1>36, FailIntro, PlacesKnown, SMTT(60) DEF PrepareFails, Raise, RaiseManual,
       Places, CycleInv, loopVars, genVars, procVars
  <2> QED BY <2>1 DEF Cycle!LNext
<1>37. CASE SpawnFails
  <2>1. Cycle!Fail
    BY <1>37, FailIntro, PlacesKnown, SMTT(60) DEF SpawnFails, Raise, Places, CycleInv,
       loopVars, genVars, procVars
  <2> QED BY <2>1 DEF Cycle!LNext
<1>38. CASE StatusFails
  <2>1. Cycle!Fail
    BY <1>38, FailIntro, PlacesKnown, SMTT(60) DEF StatusFails, Raise, Places, CycleInv,
       loopVars, genVars, procVars
  <2> QED BY <2>1 DEF Cycle!LNext
<1>39. CASE StatusAcceptedCanaryFails
  <2>1. Cycle!Fail
    BY <1>39, FailIntro, PlacesKnown, SMTT(60) DEF StatusAcceptedCanaryFails, Raise,
       Places, CycleInv, loopVars, genVars, procVars
  <2> QED BY <2>1 DEF Cycle!LNext
<1>40. CASE UnexpectedReadonly
  <2>1. /\ pc = "stable" /\ gen # 0 /\ ~ready
        /\ UNCHANGED <<gen, stopping, workers, helpers>>
    BY <1>40 DEF UnexpectedReadonly, Inv, Core, Ownership, PhaseInv, Setup,
       genVars, procVars
  <2>2. CASE AutoRepair /\ ~secondStart
    <3>1. pc' = "drain" /\ purpose' = "repair"
      BY <1>40, <2>2 DEF UnexpectedReadonly, BeginDrain
    <3>2. ready' = ready
      BY <1>40, <2>1, <2>2, StaysClosed DEF UnexpectedReadonly, BeginDrain
    <3> QED BY <2>1, <3>1, <3>2, SMTT(60) DEF Stutter
  <2>3. CASE ~(AutoRepair /\ ~secondStart)
    <3>1. pc' \in {"manual", "failed"} /\ ready' = ready
      BY <1>40, <2>3 DEF UnexpectedReadonly, Raise, RaiseManual
    <3>2. Cycle!Fail
      BY <2>1, <3>1, FailIntro, SMTT(60)
    <3> QED BY <3>2 DEF Cycle!LNext
  <2> QED BY <2>2, <2>3
<1>41. CASE RepairFails
  <2>1. Cycle!Fail
    BY <1>41, FailIntro, PlacesKnown, SMTT(60) DEF RepairFails, Raise, RaiseManual,
       Places, CycleInv, loopVars, genVars, procVars
  <2> QED BY <2>1 DEF Cycle!LNext
<1>42. CASE RepairHelperBlocks
  <2>1. Cycle!TasksAppear
    BY <1>42, PlacesKnown, SMTT(60) DEF RepairHelperBlocks, Places, CycleInv, loopVars,
       genVars, procVars, Cycle!TasksAppear
  <2> QED BY <2>1 DEF Cycle!LNext
<1>43. CASE ValidationPassesCanaryFails
  <2>1. Cycle!Fail
    BY <1>43, FailIntro, PlacesKnown, SMTT(60) DEF ValidationPassesCanaryFails, Raise,
       Places, CycleInv, loopVars, genVars, procVars
  <2> QED BY <2>1 DEF Cycle!LNext
<1>44. CASE ValidationRejects
  <2>1. ready' = ready
    BY <1>44, StaysClosed DEF ValidationRejects, BeginDrain, Inv, Core, PhaseInv
  <2>2. /\ pc = "validate" /\ pc' = "drain" /\ purpose' = "rollback"
        /\ UNCHANGED <<gen, stopping, workers, helpers>>
    BY <1>44 DEF ValidationRejects, BeginDrain, genVars, procVars
  <2> QED BY <2>1, <2>2, SMTT(60) DEF Stutter
<1>45. CASE OnlineFails
  <2>1. /\ pc = "online" /\ pc' = "failed" /\ ready' = FALSE /\ gen # 0
        /\ UNCHANGED <<gen, stopping, workers>>
    BY <1>45 DEF OnlineFails, Raise, Inv, Core, Ownership, genVars, procVars
  <2>2. helpers \subseteq helpers'
    BY <1>45 DEF OnlineFails, HelperMayHang
  <2>3. Phase = "online" /\ Phase' = "ending"
    BY <2>1, SMTT(60)
  <2>4. Cycle!Fail
    BY <2>1, <2>2, <2>3, FailIntro, Zenon
  <2> QED BY <2>4 DEF Cycle!LNext
<1>46. CASE OnlineSleepFails
  <2>1. Cycle!Fail
    BY <1>46, FailIntro, PlacesKnown, SMTT(60) DEF OnlineSleepFails, Raise, Places,
       CycleInv, loopVars, genVars, procVars
  <2> QED BY <2>1 DEF Cycle!LNext
<1>47. CASE StopProcessFails
  <2>1. Stutter
    BY <1>47, PlacesKnown, SMTT(60) DEF StopProcessFails, Places, CycleInv, loopVars,
       genVars, procVars, Stutter
  <2> QED BY <2>1
<1>48. CASE DetachFails
  <2>1. Cycle!TasksAppear \/ Stutter
    BY <1>48, PlacesKnown, SMTT(60) DEF DetachFails, HelperMayHang, Places, CycleInv,
       loopVars, genVars, procVars, Cycle!TasksAppear, Stutter
  <2> QED BY <2>1 DEF Cycle!LNext
<1>49. CASE FenceFails
  <2>1. Cycle!Fence
    BY <1>49, PlacesKnown, SMTT(60) DEF FenceFails, Places, CycleInv, loopVars, genVars,
       procVars, Cycle!Fence
  <2> QED BY <2>1 DEF Cycle!LNext
<1>50. CASE RetireFails
  <2>1. Cycle!Retire
    BY <1>50, PlacesKnown, SMTT(60) DEF RetireFails, AfterRetire, Places, CycleInv,
       loopVars, genVars, procVars, Cycle!Retire
  <2> QED BY <2>1 DEF Cycle!LNext
<1>51. CASE Signal
  <2>1. Cycle!Stop
    BY <1>51, PlacesKnown, SMTT(60) DEF Signal, Places, CycleInv, loopVars, genVars,
       procVars, Cycle!Stop
  <2> QED BY <2>1 DEF Cycle!LNext
<1>52. CASE Crash
  <2>1. Cycle!Die
    BY <1>52, PlacesKnown, SMTT(60) DEF Crash, Places, CycleInv, loopVars, genVars,
       procVars, Cycle!Die
  <2> QED BY <2>1 DEF Cycle!LNext
<1>53. CASE Restart
  <2>1. Cycle!Revive
    BY <1>53, PlacesKnown, SMTT(60) DEF Restart, Places, CycleInv, loopVars, genVars,
       procVars, Cycle!Revive
  <2> QED BY <2>1 DEF Cycle!LNext
<1>54. CASE \E w \in workers : WorkerExits(w)
  <2>1. Cycle!TasksEnd \/ Stutter
    BY <1>54, PlacesKnown, SMTT(60) DEF WorkerExits, Places, CycleInv, loopVars,
       genVars, procVars, Cycle!TasksEnd, Stutter
  <2> QED BY <2>1 DEF Cycle!LNext
<1>55. CASE \E g \in helpers : HelperExits(g)
  <2>1. Cycle!TasksEnd \/ Stutter
    BY <1>55, PlacesKnown, SMTT(60) DEF HelperExits, Places, CycleInv, loopVars,
       genVars, procVars, Cycle!TasksEnd, Stutter
  <2> QED BY <2>1 DEF Cycle!LNext
<1>56. CASE UNCHANGED vars
  BY <1>56, SMTT(60) DEF vars, loopVars, genVars, procVars, Stutter
<1> QED
  BY <1>1, <1>2, <1>3, <1>4, <1>5, <1>6, <1>7, <1>8, <1>9, <1>10,
     <1>11, <1>12, <1>13, <1>14, <1>15, <1>16, <1>17, <1>18, <1>19, <1>20,
     <1>21, <1>22, <1>23, <1>24, <1>25, <1>26, <1>27, <1>28, <1>29, <1>30,
     <1>31, <1>32, <1>33, <1>34, <1>35, <1>36, <1>37, <1>38, <1>39, <1>40,
     <1>41, <1>42, <1>43, <1>44, <1>45, <1>46, <1>47, <1>48, <1>49, <1>50,
     <1>51, <1>52, <1>53, <1>54, <1>55, <1>56, ZenonT(60)
     DEF Next, Progress, Failure, Environment

\* The guardian's main thread implements the abstract cycle: no generation is
\* created beside a live task of another, readiness opens only at work and is
\* closed before the fence, and only a stop or a crash leaves the cycle.
THEOREM CycleImplemented == Spec => ImplementsCycle
<1>1. Init => Cycle!LInit /\ CycleInv
  BY SMTT(60) DEF Init, Cycle!LInit, Phase, Running, CycleInv
<1>2. Inv /\ CycleInv /\ [Next]_vars => CycleInv' /\ [Cycle!LNext]_(Cycle!lvars)
  BY CycleStep, Simulation DEF Stutter, Cycle!lvars
<1> QED BY <1>1, <1>2, Invariance, PTL DEF Spec, ImplementsCycle, Cycle!LSpec
============================================================================

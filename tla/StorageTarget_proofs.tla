------------------------ MODULE StorageTarget_proofs ------------------------
(***************************************************************************)
(* Proofs about StorageTarget for any number of sshfs processes: what the  *)
(* helpers and the kills leave behind, in any order.                       *)
(***************************************************************************)
EXTENDS StorageTarget, TLAPS

Fresh == {"mount", "prepare", "probe", "online", "v_unmount"}

\* The helper that runs is the one the guardian waits for.
HelperFits ==
    op # "none" =>
        /\ op = Operation
        /\ gpc \in {"mount", "prepare", "probe", "v_unmount", "v_cleanup", "drain", "repair"}

\* An unrecorded child belongs to a mount helper, which has removed the PID
\* file before; a helper that has ended its attempt has killed the child.
ChildFits ==
    /\ child # 0 => op = "mount" /\ hpc \in {"await", "record", "failed"}
    /\ op = "mount" /\ hpc \in {"spawn", "await", "record"} => pidfile = 0
    /\ op = "mount" /\ hpc \in {"await", "record"} => child # 0
    /\ op = "mount" /\ hpc = "mounting" => mnt = "none"
    /\ child # 0 /\ hpc = "failed" => proc[child] # "run"

\* The steps after an unmount run on an empty mountpoint, but for a late mount.
DetachFits ==
    /\ op = "unmount" /\ hpc \in {"stop", "barrier"} => mnt = "none" \/ late
    /\ barred => late

\* Until the first unmount of a generation is over nothing of it is stuck, and
\* what was prepared and probed stays mounted.
ServiceFits ==
    /\ gpc \in Fresh => \A c \in stuck : c[2] = "old"
    /\ gpc \in Fresh =>
           IF todo = {} THEN req = active /\ gpc # "v_unmount"
           ELSE todo = (IF req = "cifs" THEN Routes ELSE {"sshfs"})
    /\ op = "probe" /\ hpc = "ok" => mnt = req /\ disk = "ours"
    /\ gpc = "online" => todo = {} /\ mnt = active /\ disk = "ours"

\* Only what was absent is replaced.
SentinelFits ==
    /\ origin # "temp"
    /\ disk # origin => allow /\ origin = "absent"
    /\ op = "prepare" /\ hpc = "replace" => allow /\ origin = "absent"

StInv ==
    /\ StTypeOK /\ LiveSshfsIsRecorded
    /\ HelperFits /\ ChildFits /\ DetachFits /\ ServiceFits /\ SentinelFits

\* The guardian's steps keep the invariant.
LEMMA GuardianKeeps ==
    ASSUME StInv,
           \/ BeginGeneration \/ StartHelper \/ HelperReturns \/ HelperTimesOut
           \/ FenceStops \/ ProbeAgain \/ SkipDetach
    PROVE  StInv'
<1> USE StorageAssumption
    DEF StInv, StTypeOK, LiveSshfsIsRecorded, HelperFits, ChildFits, DetachFits,
        ServiceFits, SentinelFits, Operation, Fresh, Routes, Pids, Verdicts, Commands,
        Step, outside, guardVars, helpVars, mounts, sshfs, data
<1>1. CASE BeginGeneration
  <2>0. FlagsOK'
    BY <1>1, ZenonT(60) DEF FlagsOK, BeginGeneration
  <2>1. StTypeOK'
    BY <2>0, <1>1, SMTT(60) DEF BeginGeneration
  <2>2. LiveSshfsIsRecorded'
    BY <1>1, SMTT(60) DEF BeginGeneration
  <2>3. HelperFits'
    BY <1>1, SMTT(60) DEF BeginGeneration
  <2>4. ChildFits'
    BY <1>1, SMTT(60) DEF BeginGeneration
  <2>5. DetachFits'
    BY <1>1, SMTT(60) DEF BeginGeneration
  <2>6. ServiceFits'
    BY <1>1, SMTT(60) DEF BeginGeneration
  <2>7. SentinelFits'
    BY <1>1, SMTT(60) DEF BeginGeneration
  <2> QED BY <2>1, <2>2, <2>3, <2>4, <2>5, <2>6, <2>7
<1>2. CASE StartHelper
  BY <1>2, SMTT(60) DEF FlagsOK, StartHelper, Culprit
<1>3. CASE HelperReturns
  <2>0. FlagsOK'
    BY <1>3, ZenonT(60) DEF FlagsOK, HelperReturns, Succeeds, Fails
  <2>1. StTypeOK'
    BY <2>0, <1>3, SMTT(60) DEF HelperReturns, Succeeds, Fails, Verifying
  <2>2. LiveSshfsIsRecorded'
    BY <1>3, SMTT(60) DEF HelperReturns, Succeeds, Fails, Verifying
  <2>3. HelperFits'
    BY <1>3, SMTT(60) DEF HelperReturns, Succeeds, Fails, Verifying
  <2>4. ChildFits'
    BY <1>3, SMTT(60) DEF HelperReturns, Succeeds, Fails, Verifying
  <2>5. DetachFits'
    BY <1>3, SMTT(60) DEF HelperReturns, Succeeds, Fails, Verifying
  <2>6. ServiceFits'
    BY <1>3, SMTT(60) DEF HelperReturns, Succeeds, Fails, Verifying
  <2>7. SentinelFits'
    BY <1>3, SMTT(60) DEF HelperReturns, Succeeds, Fails, Verifying
  <2> QED BY <2>1, <2>2, <2>3, <2>4, <2>5, <2>6, <2>7
<1>4. CASE HelperTimesOut
  <2>0. FlagsOK'
    BY <1>4, ZenonT(60) DEF FlagsOK, HelperTimesOut, KillGroup, Fails
  <2>a. proc' \in [Pids -> {"run", "killed", "gone"}]
    BY <1>4, SMTT(60) DEF HelperTimesOut, KillGroup
  <2>b. stuck' \subseteq Commands
    <3> DEFINE c == <<IF hpc = "mounting" THEN "mount" ELSE "umount", "new">>
    <3>1. c \in Commands
      BY SMTT(60)
    <3>2. stuck' = stuck \/ stuck' = stuck \cup {c}
      BY <1>4, ZenonT(60) DEF HelperTimesOut, KillGroup
    <3> QED BY <3>1, <3>2, SMTT(60)
  <2>1. StTypeOK'
    BY <2>0, <2>a, <2>b, <1>4, SMTT(60) DEF HelperTimesOut, KillGroup, Fails, Verifying
  <2>2. LiveSshfsIsRecorded'
    BY <1>4, SMTT(60) DEF HelperTimesOut, KillGroup, Fails, Verifying
  <2>3. HelperFits'
    BY <1>4, SMTT(60) DEF HelperTimesOut, KillGroup, Fails, Verifying
  <2>4. ChildFits'
    BY <1>4, SMTT(60) DEF HelperTimesOut, KillGroup, Fails, Verifying
  <2>5. DetachFits'
    BY <1>4, SMTT(60) DEF HelperTimesOut, KillGroup, Fails, Verifying
  <2>6. ServiceFits'
    BY <1>4, SMTT(60) DEF HelperTimesOut, KillGroup, Fails, Verifying
  <2>7. SentinelFits'
    BY <1>4, SMTT(60) DEF HelperTimesOut, KillGroup, Fails, Verifying
  <2> QED BY <2>1, <2>2, <2>3, <2>4, <2>5, <2>6, <2>7
<1>5. CASE FenceStops
  BY <1>5, SMTT(60) DEF FlagsOK, FenceStops, StopSshfs, Culprit
<1>6. CASE ProbeAgain
  BY <1>6, SMTT(60) DEF FlagsOK, ProbeAgain
<1>7. CASE SkipDetach
  <2>0. FlagsOK'
    BY <1>7, ZenonT(60) DEF FlagsOK, SkipDetach
  <2>1. StTypeOK'
    BY <2>0, <1>7, SMTT(60) DEF SkipDetach
  <2>2. LiveSshfsIsRecorded'
    BY <1>7, SMTT(60) DEF SkipDetach
  <2>3. HelperFits'
    BY <1>7, SMTT(60) DEF SkipDetach
  <2>4. ChildFits'
    BY <1>7, SMTT(60) DEF SkipDetach
  <2>5. DetachFits'
    BY <1>7, SMTT(60) DEF SkipDetach
  <2>6. ServiceFits'
    BY <1>7, SMTT(60) DEF SkipDetach
  <2>7. SentinelFits'
    BY <1>7, SMTT(60) DEF SkipDetach
  <2> QED BY <2>1, <2>2, <2>3, <2>4, <2>5, <2>6, <2>7
<1> QED BY <1>1, <1>2, <1>3, <1>4, <1>5, <1>6, <1>7

\* The steps of a mount helper do.
LEMMA MountKeeps ==
    ASSUME StInv,
           \/ MountBegin \/ MountCifs \/ MountStop \/ Spawn
           \/ Await \/ RecordPid \/ GiveUpSshfs
    PROVE  StInv'
<1> USE StorageAssumption
    DEF StInv, StTypeOK, LiveSshfsIsRecorded, HelperFits, ChildFits, DetachFits,
        ServiceFits, SentinelFits, Operation, Fresh, Routes, Pids, Verdicts, Commands,
        Step, outside, guardVars, helpVars, mounts, sshfs, data
<1>1. CASE MountBegin
  BY <1>1, SMTT(60) DEF FlagsOK, MountBegin, Mounted
<1>2. CASE MountCifs
  BY <1>2, SMTT(60) DEF FlagsOK, MountCifs
<1>3. CASE MountStop
  BY <1>3, SMTT(60) DEF FlagsOK, MountStop, StopSshfs
<1>4. CASE Spawn
  BY <1>4, SMTT(60) DEF FlagsOK, Spawn
<1>5. CASE Await
  BY <1>5, SMTT(60) DEF FlagsOK, Await, Mounted
<1>6. CASE RecordPid
  BY <1>6, SMTT(60) DEF FlagsOK, RecordPid
<1>7. CASE GiveUpSshfs
  BY <1>7, SMTT(60) DEF FlagsOK, GiveUpSshfs
<1> QED BY <1>1, <1>2, <1>3, <1>4, <1>5, <1>6, <1>7

\* The steps of prepare and probe do.
LEMMA StorageKeeps ==
    ASSUME StInv, Prepare \/ PrepareReplace \/ Probe \/ StorageFails
    PROVE  StInv'
<1> USE StorageAssumption
    DEF StInv, StTypeOK, LiveSshfsIsRecorded, HelperFits, ChildFits, DetachFits,
        ServiceFits, SentinelFits, Operation, Fresh, Routes, Pids, Verdicts, Commands,
        Step, outside, guardVars, helpVars, mounts, sshfs, data
<1>1. CASE Prepare
  BY <1>1, SMTT(60) DEF FlagsOK, Prepare, Validated
<1>2. CASE PrepareReplace
  BY <1>2, SMTT(60) DEF FlagsOK, PrepareReplace
<1>3. CASE Probe
  BY <1>3, SMTT(60) DEF FlagsOK, Probe, RightMount, Validated, DurabilityProbe
<1>4. CASE StorageFails
  BY <1>4, SMTT(60) DEF FlagsOK, StorageFails
<1> QED BY <1>1, <1>2, <1>3, <1>4

\* The steps of an unmount helper do.
LEMMA UnmountKeeps ==
    ASSUME StInv, UnmountBegin \/ UnmountCommand \/ UnmountStop \/ UnmountBarrier
    PROVE  StInv'
<1> USE StorageAssumption
    DEF StInv, StTypeOK, LiveSshfsIsRecorded, HelperFits, ChildFits, DetachFits,
        ServiceFits, SentinelFits, Operation, Fresh, Routes, Pids, Verdicts, Commands,
        Step, outside, guardVars, helpVars, mounts, sshfs, data
<1>1. CASE UnmountBegin
  BY <1>1, SMTT(60) DEF FlagsOK, UnmountBegin, Mounted, Detached
<1>2. CASE UnmountCommand
  BY <1>2, SMTT(60) DEF FlagsOK, UnmountCommand, Mounted, Unmounted, Detached
<1>3. CASE UnmountStop
  BY <1>3, SMTT(60) DEF FlagsOK, UnmountStop, StopSshfs
<1>4. CASE UnmountBarrier
  BY <1>4, SMTT(60) DEF FlagsOK, UnmountBarrier, Mounted
<1> QED BY <1>1, <1>2, <1>3, <1>4

\* And what happens in the kernel.
LEMMA KernelKeeps ==
    ASSUME StInv, SshfsMounts \/ SshfsExits \/ HelperLeavesKernel \/ CommandLeavesKernel
    PROVE  StInv'
<1> USE StorageAssumption
    DEF StInv, StTypeOK, LiveSshfsIsRecorded, HelperFits, ChildFits, DetachFits,
        ServiceFits, SentinelFits, Operation, Fresh, Routes, Pids, Verdicts, Commands,
        Step, outside, guardVars, helpVars, mounts, sshfs, data
<1>1. CASE SshfsMounts
  BY <1>1, SMTT(60) DEF FlagsOK, SshfsMounts
<1>2. CASE SshfsExits
  BY <1>2, SMTT(60) DEF FlagsOK, SshfsExits
<1>3. CASE HelperLeavesKernel
  <2>0. FlagsOK'
    BY <1>3, ZenonT(60) DEF FlagsOK, HelperLeavesKernel
  <2>1. StTypeOK'
    BY <2>0, <1>3, SMTT(60) DEF HelperLeavesKernel
  <2>2. LiveSshfsIsRecorded'
    BY <1>3, SMTT(60) DEF HelperLeavesKernel
  <2>3. HelperFits'
    BY <1>3, SMTT(60) DEF HelperLeavesKernel
  <2>4. ChildFits'
    BY <1>3, SMTT(60) DEF HelperLeavesKernel
  <2>5. DetachFits'
    BY <1>3, SMTT(60) DEF HelperLeavesKernel
  <2>6. ServiceFits'
    BY <1>3, SMTT(60) DEF HelperLeavesKernel
  <2>7. SentinelFits'
    BY <1>3, SMTT(60) DEF HelperLeavesKernel
  <2> QED BY <2>1, <2>2, <2>3, <2>4, <2>5, <2>6, <2>7
<1>4. CASE CommandLeavesKernel
  <2>0. FlagsOK'
    BY <1>4, ZenonT(60) DEF FlagsOK, CommandLeavesKernel
  <2>1. StTypeOK'
    BY <2>0, <1>4, SMTT(60) DEF CommandLeavesKernel
  <2>2. LiveSshfsIsRecorded'
    BY <1>4, SMTT(60) DEF CommandLeavesKernel
  <2>3. HelperFits'
    BY <1>4, SMTT(60) DEF CommandLeavesKernel
  <2>4. ChildFits'
    BY <1>4, SMTT(60) DEF CommandLeavesKernel
  <2>5. DetachFits'
    BY <1>4, SMTT(60) DEF CommandLeavesKernel
  <2>6. ServiceFits'
    BY <1>4, SMTT(60) DEF CommandLeavesKernel
  <2>7. SentinelFits'
    BY <1>4, SMTT(60) DEF CommandLeavesKernel
  <2> QED BY <2>1, <2>2, <2>3, <2>4, <2>5, <2>6, <2>7
<1> QED BY <1>1, <1>2, <1>3, <1>4

\* Every step keeps the invariant, so it holds in every reachable state: the
\* bookkeeping of helper, PID file and mountpoint survives a kill anywhere.
THEOREM StorageInvariance == StSpec => []StInv
<1>1. StInit => StInv
  <2> SUFFICES ASSUME StInit PROVE StInv
    OBVIOUS
  <2>1. FlagsOK
    BY ZenonT(60) DEF StInit, FlagsOK
  <2> QED BY <2>1, StorageAssumption, SMTT(60)
      DEF StInit, StInv, StTypeOK, LiveSshfsIsRecorded, HelperFits, ChildFits, DetachFits,
          ServiceFits, SentinelFits, Fresh, Routes, Pids, Verdicts, Commands
<1>2. StInv /\ [StNext]_stvars => StInv'
  <2> SUFFICES ASSUME StInv, [StNext]_stvars PROVE StInv'
    OBVIOUS
  <2>1. CASE StNext
    BY <2>1, GuardianKeeps, MountKeeps, StorageKeeps, UnmountKeeps, KernelKeeps, ZenonT(60)
    DEF StNext, GuardianStep, HelperStep
  <2>2. CASE UNCHANGED stvars
    BY <2>2, SMTT(60)
    DEF stvars, guardVars, helpVars, mounts, sshfs, data, StInv, StTypeOK, FlagsOK,
        LiveSshfsIsRecorded, HelperFits, ChildFits, DetachFits, ServiceFits, SentinelFits,
        Operation
  <2> QED BY <2>1, <2>2
<1> QED BY <1>1, <1>2, PTL DEF StSpec

\* The state of guardian, helper and kernel keeps its types; in particular the
\* mount is an SSHFS mount exactly when a process of ours serves it.
THEOREM StorageTypes == StSpec => []StTypeOK
<1>1. StInv => StTypeOK
  BY DEF StInv
<1> QED BY <1>1, StorageInvariance, PTL

\* No sshfs process escapes the PID file and the process group, whenever
\* _run_helper kills a helper and whichever route the clean-up uses.
THEOREM SshfsIsRecorded == StSpec => []LiveSshfsIsRecorded
<1>1. StInv => LiveSshfsIsRecorded
  BY DEF StInv
<1> QED BY <1>1, StorageInvariance, PTL

\* prepare_barrier at the end of unmount_target hits mounted storage only if a
\* mount command outlived the helper that was killed.
THEOREM StorageIsSpared == StSpec => []BarrierSparesStorage
<1>1. StInv => BarrierSparesStorage
  BY DEF StInv, DetachFits, BarrierSparesStorage
<1> QED BY <1>1, StorageInvariance, PTL

\* verify_or_initialize_sentinel replaces no sentinel, and only the right route
\* to the right dataset goes online.
THEOREM SentinelsAreKept == StSpec => []SentinelIsKept
<1>1. StInv => SentinelIsKept
  BY DEF StInv, ServiceFits, SentinelFits, SentinelIsKept
<1> QED BY <1>1, StorageInvariance, PTL
=============================================================================

--------------------------- MODULE StorageTarget ---------------------------
(***************************************************************************)
(* The data target and its two exclusive routes (storage.py): a CIFS share *)
(* that the kernel mounts, and SSHFS, whose mount is served by a process.  *)
(* The guardian runs one storage helper at a time in the namespaces of the *)
(* worker generation, and kills the helper's process group when it takes   *)
(* too long.  A killed process may stay in the kernel for a while: the     *)
(* helper itself, the mount or umount command that it was waiting for, or  *)
(* sshfs.  The guardian sees the first of these only.                      *)
(***************************************************************************)
EXTENDS Integers

CONSTANTS
    MaxPid   \* bound on sshfs processes that exist at the same time

ASSUME StorageAssumption == MaxPid \in Nat \ {0}

VARIABLES
    gpc,      \* the guardian: what it runs a helper for, or does itself
    active,   \* active_transport
    todo,     \* routes that startup verification still has to visit
    req,      \* the route helpers are told to use, S3_STORAGE_NODE_TRANSPORT
    blamed,   \* _transport_failure_name
    clean,    \* the drain detached the storage
    op, hpc,  \* the running helper: its operation and its position
    child,    \* the sshfs process it started and has not recorded, or 0
    blocked,  \* a killed helper is still there
    stuck,    \* its mount and umount commands that still are, new or old namespace
    mnt,      \* what is mounted in the generation's namespace
    srv,      \* the sshfs process that serves it, or 0
    proc,     \* sshfs processes: gone, run, or killed and still there
    pidfile,  \* ssh_runtime_pid_file: the process it names, or 0
    allow,    \* allow_initialize
    disk,     \* the sentinel on the store that both routes lead to
    origin,   \* history: what it was at first
    late,     \* history of the generation: a mount outlived its helper
    barred    \* history of the generation: the barrier was put on storage

guardVars == <<gpc, active, todo, req, blamed, clean>>
helpVars == <<op, hpc, child>>
mounts == <<mnt, srv, late>>
sshfs == <<proc, pidfile>>
data == <<allow, disk, origin>>
stvars == <<guardVars, helpVars, blocked, stuck, mounts, sshfs, data, barred>>

Routes == {"cifs", "sshfs"}
Pids == 1..MaxPid
Commands == {"mount", "umount"} \X {"new", "old"}
Verdicts == {"ok", "failed"}

\* Variant: no route when none has failed.
CulpritBlamed == blamed

\* The route that drain, fence and repair are about.
Culprit == IF blamed = "none" THEN active ELSE blamed

Verifying == todo # {}

StInit ==
    /\ gpc = "select" /\ active = "cifs" /\ todo = {} /\ req = "cifs"
    /\ blamed = "none" /\ clean = TRUE
    /\ op = "none" /\ hpc = "begin" /\ child = 0 /\ blocked = FALSE /\ stuck = {}
    /\ mnt = "none" /\ srv = 0 /\ late = FALSE /\ barred = FALSE
    /\ proc = [p \in Pids |-> "gone"] /\ pidfile = 0
    /\ allow \in BOOLEAN
    /\ disk \in {"absent", "ours", "other"} /\ origin = disk
-----------------------------------------------------------------------------
(* The guardian *)

\* _wait_for_blocked_cleanup, selection and _begin_generation: a new mount
\* namespace, with or without the verification of all routes.
BeginGeneration ==
    /\ gpc = "select" /\ ~blocked
    /\ \E r \in Routes, v \in {{}, Routes} :
         /\ active' = r /\ todo' = v
         /\ req' = IF v = {} THEN r ELSE "cifs"
    /\ gpc' = "mount" /\ blamed' = "none" /\ clean' = FALSE
    /\ mnt' = "none" /\ srv' = 0 /\ late' = FALSE /\ barred' = FALSE
    /\ stuck' = {<<c[1], "old">> : c \in stuck}
    /\ UNCHANGED <<helpVars, blocked, sshfs, data>>

\* The operation the guardian runs a helper for.
Operation ==
    IF gpc \in {"v_unmount", "v_cleanup", "drain", "repair"} THEN "unmount" ELSE gpc

\* _run_helper: while a killed helper is still there only unmount may start.
StartHelper ==
    /\ gpc \in {"mount", "prepare", "probe", "v_unmount", "v_cleanup", "drain", "repair"}
    /\ op = "none" /\ (Operation = "unmount" \/ ~blocked)
    /\ op' = Operation /\ hpc' = "begin"
    /\ req' = IF gpc \in {"drain", "repair"} THEN Culprit ELSE req
    /\ UNCHANGED <<gpc, active, todo, blamed, clean, child, blocked, stuck, mounts, sshfs,
                   data, barred>>

\* What the guardian does after a helper that succeeded.
Succeeds ==
    /\ gpc' = CASE gpc = "mount" -> "prepare"
                [] gpc = "prepare" -> "probe"
                [] gpc = "probe" -> IF Verifying THEN "v_unmount" ELSE "online"
                [] gpc = "v_unmount" -> "mount"
                [] gpc = "v_cleanup" -> "drain"
                [] gpc = "drain" -> "fence"
                [] gpc = "repair" -> "select"
    /\ todo' = IF gpc = "v_unmount" THEN todo \ {req} ELSE todo
    /\ req' = IF gpc = "v_unmount" THEN IF req = "cifs" THEN "sshfs" ELSE active ELSE req
    /\ clean' = (gpc = "drain")
    /\ UNCHANGED <<active, blamed>>

\* And after one that failed: a failed mount, prepare or probe blames its route,
\* a failed unmount does not.
Fails ==
    /\ gpc' = CASE gpc \in {"mount", "prepare", "probe"} ->
                     IF Verifying THEN "v_cleanup" ELSE "drain"
                [] gpc \in {"v_unmount", "v_cleanup"} -> "drain"
                [] gpc = "drain" -> "fence"
                [] gpc = "repair" -> "select"
    /\ blamed' = IF Operation = "unmount" THEN blamed ELSE req
    /\ clean' = FALSE
    /\ UNCHANGED <<active, todo, req>>

HelperReturns ==
    /\ op # "none" /\ hpc \in Verdicts
    /\ IF hpc = "ok" THEN Succeeds ELSE Fails
    /\ op' = "none" /\ hpc' = "begin" /\ child' = 0
    /\ UNCHANGED <<blocked, stuck, mounts, sshfs, data, barred>>

\* SIGKILL for the helper's process group after the timeout.  A helper that
\* waits for a command ends at once, whatever becomes of the command.
KillGroup(group) ==
    /\ op # "none" /\ hpc \notin Verdicts
    /\ Fails
    /\ IF hpc \in {"mounting", "clean", "lazy"}
       THEN /\ \/ UNCHANGED stuck
               \/ stuck' = stuck \cup {<<IF hpc = "mounting" THEN "mount" ELSE "umount", "new">>}
            /\ UNCHANGED blocked
       ELSE blocked' \in {blocked, TRUE} /\ UNCHANGED stuck
    /\ \E s \in {"gone", "killed"} :
         proc' = [p \in Pids |-> IF p \in group /\ proc[p] # "gone" THEN s ELSE proc[p]]
    /\ op' = "none" /\ hpc' = "begin" /\ child' = 0
    /\ UNCHANGED <<mounts, pidfile, data, barred>>

\* Variant: SIGKILL for the helper, not for its group.
HelperAloneTimesOut == KillGroup({})
\* Variant: no timeout for unmount.
StorageHelperTimesOut == Operation # "unmount" /\ KillGroup({child})
HelperTimesOut == KillGroup({child})

\* The online loop probes again, or ends for any reason.
ProbeAgain ==
    /\ gpc = "online"
    /\ gpc' \in {"probe", "drain"}
    /\ UNCHANGED <<active, todo, req, blamed, clean, helpVars, blocked, stuck, mounts,
                   sshfs, data, barred>>

\* Writers that outlive the drain: fence first, detach afterwards.
SkipDetach ==
    /\ gpc = "drain" /\ op = "none"
    /\ gpc' = "fence" /\ clean' = FALSE
    /\ UNCHANGED <<active, todo, req, blamed, helpVars, blocked, stuck, mounts, sshfs, data,
                   barred>>

\* _stop_sshfs_process: with result TRUE it returns and the file is gone, with
\* FALSE the process is still there after SIGKILL, the file is kept and it
\* raises.
StopSshfs(route, result) ==
    IF route # "sshfs"
    THEN result /\ UNCHANGED sshfs
    ELSE IF pidfile = 0 \/ proc[pidfile] = "gone"
    THEN result /\ pidfile' = 0 /\ UNCHANGED proc
    ELSE /\ proc' = [proc EXCEPT ![pidfile] = IF result THEN "gone" ELSE "killed"]
         /\ pidfile' = IF result THEN 0 ELSE pidfile

\* _fence_generation: after the verified fence the guardian stops the recorded
\* sshfs process itself; an error there is logged.
FenceStops ==
    /\ gpc = "fence"
    /\ \E result \in BOOLEAN : StopSshfs(Culprit, result)
    /\ gpc' = IF clean THEN "select" ELSE "repair"
    /\ UNCHANGED <<active, todo, req, blamed, clean, helpVars, blocked, stuck, mounts, data,
                   barred>>
-----------------------------------------------------------------------------
(* The helpers *)

\* The part of the state that no helper changes.
outside == <<guardVars, op, blocked, stuck, late>>

Step(operation, at) == op = operation /\ hpc = at

\* find_mount: the mountpoint is in /proc/self/mountinfo.
Mounted == mnt # "none"

\* mount_target: nothing to do when mounted; else prepare_barrier first.
MountBegin ==
    /\ Step("mount", "begin")
    /\ hpc' = IF Mounted THEN "ok" ELSE IF req = "cifs" THEN "mounting" ELSE "stop"
    /\ UNCHANGED <<outside, child, mnt, srv, sshfs, data, barred>>

\* _mount_cifs: the mount command with each profile in turn.  One that fails or
\* times out may have mounted the share.
MountCifs ==
    /\ Step("mount", "mounting")
    /\ \/ mnt' = "cifs" /\ hpc' = "ok"
       \/ hpc' = "failed" /\ mnt' \in {mnt, "cifs"}
    /\ UNCHANGED <<outside, child, srv, sshfs, data, barred>>

\* _mount_sshfs: the old process first.
MountStop ==
    /\ Step("mount", "stop")
    /\ \E result \in BOOLEAN :
         StopSshfs("sshfs", result) /\ hpc' = IF result THEN "spawn" ELSE "failed"
    /\ UNCHANGED <<outside, child, mnt, srv, data, barred>>

\* Credentials and host keys are checked, then sshfs is started.
Spawn ==
    /\ Step("mount", "spawn")
    /\ \/ hpc' = "failed" /\ UNCHANGED <<child, proc>>
       \/ \E p \in Pids :
            /\ proc[p] = "gone" /\ proc' = [proc EXCEPT ![p] = "run"]
            /\ child' = p /\ hpc' = "await"
    /\ UNCHANGED <<outside, mnt, srv, pidfile, data, barred>>

\* The helper sees the mount, or the exit of sshfs.
Await ==
    /\ Step("mount", "await")
    /\ \/ proc[child] = "gone" /\ hpc' = "failed"
       \/ Mounted /\ proc[child] # "gone" /\ hpc' = "record"
    /\ UNCHANGED <<outside, child, mnt, srv, sshfs, data, barred>>

RecordPid ==
    /\ Step("mount", "record")
    /\ pidfile' = child /\ child' = 0 /\ hpc' = "ok"
    /\ UNCHANGED <<outside, mnt, srv, proc, data, barred>>

\* The deadline, or an error in writing the file: sshfs gets SIGTERM and then
\* SIGKILL, which nobody waits for.
GiveUpSshfs ==
    /\ op = "mount" /\ hpc \in {"await", "record"}
    /\ \E s \in {"gone", "killed"} :
         proc' = [proc EXCEPT ![child] = IF @ = "gone" THEN @ ELSE s]
    /\ hpc' = "failed"
    /\ UNCHANGED <<outside, child, mnt, srv, pidfile, data, barred>>

\* The mounted file system answers.
Answers == mnt = "sshfs" => proc[srv] = "run"

\* _verify_mount_identity.
RightMount == mnt = req /\ Answers

\* validate_sentinel_payload: a current or a legacy sentinel with the identity
\* of the target.
Validated == disk = "ours"

\* Variant: a sentinel that is not ours is replaced.
PrepareReenrols ==
    /\ Step("prepare", "begin") /\ RightMount
    /\ hpc' = IF Validated THEN "ok" ELSE IF ~allow THEN "failed" ELSE "replace"
    /\ disk' = IF ~Validated /\ allow THEN "temp" ELSE disk
    /\ UNCHANGED <<outside, child, mnt, srv, sshfs, allow, origin, barred>>

\* verify_or_initialize_sentinel.
Prepare ==
    /\ Step("prepare", "begin") /\ RightMount
    /\ hpc' = IF Validated THEN "ok"
              ELSE IF disk = "other" \/ ~allow THEN "failed" ELSE "replace"
    /\ disk' = IF disk = "absent" /\ allow THEN "temp" ELSE disk
    /\ UNCHANGED <<outside, child, mnt, srv, sshfs, allow, origin, barred>>

\* The synced temporary file becomes the sentinel.
PrepareReplace ==
    /\ Step("prepare", "replace") /\ RightMount
    /\ disk' = "ours"
    /\ hpc' = "ok"
    /\ UNCHANGED <<outside, child, mnt, srv, sshfs, allow, origin, barred>>

\* A synced append and a synced temporary file, each read back.
DurabilityProbe == hpc' \in Verdicts

\* probe_target: identity, sentinel, capacity, durability.
Probe ==
    /\ Step("probe", "begin") /\ RightMount
    /\ IF Validated THEN DurabilityProbe ELSE hpc' = "failed"
    /\ UNCHANGED <<outside, child, mnt, srv, sshfs, data, barred>>

\* Any I/O or check of either may fail, and must on another mount.
StorageFails ==
    /\ op \in {"prepare", "probe"} /\ hpc \notin Verdicts
    /\ hpc' = "failed"
    /\ UNCHANGED <<outside, child, mnt, srv, sshfs, data, barred>>

\* Where unmount_target goes once the mount is gone.
Detached == IF req = "sshfs" THEN "stop" ELSE "barrier"

UnmountBegin ==
    /\ Step("unmount", "begin")
    /\ hpc' = IF Mounted THEN "clean" ELSE Detached
    /\ UNCHANGED <<outside, child, mnt, srv, sshfs, data, barred>>

Unmounted == mnt' = "none" /\ srv' = 0

\* Variant: the exit code decides, without _wait_unmounted.
UnmountTrustingExit ==
    /\ op = "unmount" /\ hpc \in {"clean", "lazy"}
    /\ \/ Mounted /\ Unmounted /\ hpc' = Detached
       \/ /\ hpc' \in {Detached, IF hpc = "clean" THEN "lazy" ELSE "failed"}
          /\ UNCHANGED <<mnt, srv>> \/ Unmounted
    /\ UNCHANGED <<outside, child, sshfs, data, barred>>

\* A command, then _wait_unmounted.  A command that fails or times out is
\* followed by the next one even if the mount is gone, and that one fails.
UnmountCommand ==
    /\ op = "unmount" /\ hpc \in {"clean", "lazy"}
    /\ \/ Mounted /\ Unmounted /\ hpc' = Detached
       \/ /\ hpc' = IF hpc = "clean" THEN "lazy" ELSE "failed"
          /\ UNCHANGED <<mnt, srv>> \/ Unmounted
    /\ UNCHANGED <<outside, child, sshfs, data, barred>>

UnmountStop ==
    /\ Step("unmount", "stop")
    /\ \E result \in BOOLEAN :
         StopSshfs("sshfs", result) /\ hpc' = IF result THEN "barrier" ELSE "failed"
    /\ UNCHANGED <<outside, child, mnt, srv, data, barred>>

\* prepare_barrier takes away all access to whatever the path leads to.
UnmountBarrier ==
    /\ Step("unmount", "barrier")
    /\ barred' = (barred \/ Mounted)
    /\ hpc' = "ok"
    /\ UNCHANGED <<outside, child, mnt, srv, sshfs, data>>
-----------------------------------------------------------------------------
(* The kernel *)

SshfsMounts ==
    /\ child # 0 /\ proc[child] = "run" /\ mnt = "none"
    /\ mnt' = "sshfs" /\ srv' = child
    /\ UNCHANGED <<guardVars, helpVars, blocked, stuck, late, sshfs, data, barred>>

SshfsExits ==
    /\ \E p \in Pids :
         proc[p] # "gone" /\ proc' = [proc EXCEPT ![p] = "gone"]
    /\ UNCHANGED <<guardVars, helpVars, blocked, stuck, mounts, pidfile, data, barred>>

HelperLeavesKernel ==
    /\ blocked /\ blocked' = FALSE
    /\ UNCHANGED <<guardVars, helpVars, stuck, mounts, sshfs, data, barred>>

\* A stuck command ends, with or without its effect on its own namespace.
CommandLeavesKernel ==
    /\ \E c \in stuck :
         /\ stuck' = stuck \ {c}
         /\ \/ UNCHANGED mounts
            \/ c = <<"mount", "new">> /\ mnt = "none"
               /\ mnt' = "cifs" /\ srv' = 0 /\ late' = TRUE
            \/ c = <<"umount", "new">> /\ mnt # "none"
               /\ mnt' = "none" /\ srv' = 0 /\ UNCHANGED late
    /\ UNCHANGED <<guardVars, helpVars, blocked, sshfs, data, barred>>
-----------------------------------------------------------------------------
GuardianStep ==
    \/ BeginGeneration \/ StartHelper \/ HelperReturns \/ HelperTimesOut
    \/ FenceStops

HelperStep ==
    \/ MountBegin \/ MountCifs \/ MountStop \/ Spawn \/ Await \/ RecordPid \/ GiveUpSshfs
    \/ Prepare \/ PrepareReplace \/ Probe \/ StorageFails
    \/ UnmountBegin \/ UnmountCommand \/ UnmountStop \/ UnmountBarrier

StNext ==
    \/ GuardianStep \/ ProbeAgain \/ SkipDetach \/ HelperStep
    \/ SshfsMounts \/ SshfsExits \/ HelperLeavesKernel \/ CommandLeavesKernel

\* The guardian keeps running; a helper need not, but its timeout comes.
StSpec == StInit /\ [][StNext]_stvars /\ WF_stvars(GuardianStep)
-----------------------------------------------------------------------------
(* Properties *)

FlagsOK ==
    /\ clean \in BOOLEAN /\ blocked \in BOOLEAN /\ allow \in BOOLEAN
    /\ late \in BOOLEAN /\ barred \in BOOLEAN

\* Type correctness of the guardian's, the helper's and the kernel's state.
StTypeOK ==
    /\ gpc \in {"select", "mount", "prepare", "probe", "online", "v_unmount", "v_cleanup",
                "drain", "fence", "repair"}
    /\ active \in Routes /\ todo \subseteq Routes /\ req \in Routes
    /\ blamed \in Routes \cup {"none"}
    /\ FlagsOK
    /\ op \in {"none", "mount", "prepare", "probe", "unmount"}
    /\ hpc \in {"begin", "mounting", "stop", "spawn", "await", "record", "replace", "clean",
                "lazy", "barrier"} \cup Verdicts
    /\ child \in 0..MaxPid /\ pidfile \in 0..MaxPid /\ srv \in 0..MaxPid
    /\ (mnt = "sshfs") = (srv # 0)
    /\ mnt \in Routes \cup {"none"} /\ stuck \subseteq Commands
    /\ proc \in [Pids -> {"run", "killed", "gone"}]
    /\ {disk, origin} \subseteq {"absent", "temp", "ours", "other"}

\* Every sshfs process that nobody has killed is either named by the PID file,
\* so that the next mount, unmount or fence finds it, or is the child of the
\* running helper and dies with its process group: whatever is killed at
\* whatever moment, and whichever route the clean-up was told to use.
LiveSshfsIsRecorded ==
    \A p \in Pids : proc[p] = "run" => p \in {pidfile, child}

\* The barrier, which revokes all access to the mountpoint, is put on the empty
\* directory and never on the storage, unless a mount command that outlived its
\* helper completed under it.
BarrierSparesStorage == barred => late

\* A sentinel is only ever written to a store that had none, with the
\* operator's permission; and an online generation serves its own route, from
\* a store with the right sentinel.
SentinelIsKept ==
    /\ disk # origin => allow /\ origin = "absent"
    /\ gpc = "online" => mnt = active /\ disk = "ours"

\* Clean-up ends: whatever its helpers run into, a generation that is being
\* drained makes room for the next one.
DrainEnds == gpc = "drain" ~> gpc = "select"

\* No replacement while a storage helper's task is still in the kernel
\* (operations.md: "no new transport is selected while a previous storage
\* helper remains blocked").
NoReplacementWhileStuck ==
    [][gpc = "select" /\ gpc' # "select" => ~blocked /\ stuck = {}]_stvars
=============================================================================

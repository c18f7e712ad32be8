------------------------------ MODULE Guardian ------------------------------
(***************************************************************************)
(* The guardian's main thread (generation_guardian.Guardian.run, on top of *)
(* guardian.py, generation.py, processes.py and generation_history.py): it *)
(* creates a numbered worker generation, mounts storage inside it, starts  *)
(* the SeaweedFS roles, publishes readiness, and on any failure drains,    *)
(* detaches, fences and retires that generation before it builds another.  *)
(*                                                                         *)
(* The environment may crash the guardian, deliver a stop signal, kill any *)
(* worker, and leave a worker or a storage helper blocked in the kernel    *)
(* for ever.  A guardian that exits or crashes takes the container's PID   *)
(* and network namespaces with it, so Restart waits for every old task.    *)
(* Namespace fencing is on, as in the sample deployment, and so are volume *)
(* health checks.  Definitions commented "Variant:" hold a plausible bug   *)
(* and take no part in the specification; they show what each property of  *)
(* the model would catch.                                                  *)
(***************************************************************************)
EXTENDS Naturals

CONSTANTS
    NRoles,      \* SeaweedFS roles per generation, in start order (4 in the code)
    Targets,     \* storage targets the guardian mounts (CIFS or SSHFS)
    MaxGen,      \* bound on generation numbers
    Required,    \* recovery_successes_required
    AutoRepair,  \* seaweed.auto_index_repair_enabled
    RepairBlocks \* whether a killed index-repair helper can stay blocked

ASSUME ConstantsAssumption ==
    /\ NRoles \in Nat \ {0}
    /\ MaxGen \in Nat
    /\ Required \in Nat \ {0}
    /\ AutoRepair \in BOOLEAN
    /\ RepairBlocks \in BOOLEAN

VARIABLES
    \* the main thread
    pc, purpose, n, secondStart, clean, fenceOk, stopping, fatal,
    \* HealthState.ready, what HAProxy polls
    ready,
    \* the current generation (0 = None), its fence flag, the host veth's owner
    gen, fenced, link, mounted,
    \* Guardian.processes and Guardian.lingering_processes; tasks really alive
    processes, lingering, workers, helpers,
    \* durable: generation counter, history file, index-repair journal
    counter, hactive, certified, outcome, awaiting,
    \* GenerationFactory.last_allocated_generation
    allocated,
    \* history variable: the generation that last accepted a volume status
    accepted

loopVars == <<purpose, n, secondStart, clean, fenceOk>>
genVars  == <<gen, fenced, link, mounted>>
procVars == <<processes, lingering, workers>>
idVars   == <<counter, allocated>>
histVars == <<hactive, certified, outcome, accepted>>
vars == <<pc, loopVars, stopping, fatal, ready, genVars, procVars, helpers,
          idVars, histVars, awaiting>>

Gen  == 1..MaxGen
Role == 1..NRoles
Worker == Gen \X Role

PC == {"start", "loop", "begin", "create", "mount", "probe", "prepare",
       "spawn", "stable", "validate", "repair", "repair_hung", "rollback",
       "stabilize", "go_online", "online", "failed", "manual", "drain",
       "detach", "fence", "redetach", "finish", "retire", "blocked",
       "parked", "exited", "down"}

Purpose == {"recover", "park", "shutdown", "repair", "rollback"}

\* The program's flags.
FlagTypes ==
    /\ secondStart \in BOOLEAN /\ clean \in BOOLEAN /\ fenceOk \in BOOLEAN
    /\ stopping \in BOOLEAN /\ fatal \in BOOLEAN /\ ready \in BOOLEAN
    /\ fenced \in BOOLEAN /\ certified \in BOOLEAN /\ awaiting \in BOOLEAN

\* A live worker is named by its generation and role.
DataTypes ==
    /\ pc \in PC
    /\ purpose \in Purpose
    /\ n \in Nat
    /\ gen \in 0..MaxGen /\ link \in 0..MaxGen
    /\ mounted \subseteq Targets
    /\ processes \subseteq Worker /\ lingering \subseteq Worker
    /\ workers \subseteq Worker
    /\ helpers \subseteq Gen
    /\ counter \in 0..MaxGen /\ allocated \in 0..MaxGen
    /\ hactive \in 0..MaxGen /\ accepted \in 0..MaxGen
    /\ outcome \in [Gen -> {"none", "clean", "unclean"}]

\* Types of every variable.
TypeOK == DataTypes /\ FlagTypes

Init ==
    /\ pc = "start" /\ purpose = "recover" /\ n = 0
    /\ secondStart = FALSE /\ clean = FALSE /\ fenceOk = FALSE
    /\ stopping = FALSE /\ fatal = FALSE /\ ready = FALSE
    /\ gen = 0 /\ fenced = FALSE /\ link = 0 /\ mounted = {}
    /\ processes = {} /\ lingering = {} /\ workers = {} /\ helpers = {}
    /\ counter = 0 /\ allocated = 0
    /\ hactive = 0 /\ certified = TRUE /\ outcome = [g \in Gen |-> "none"]
    /\ accepted = 0 /\ awaiting = FALSE

-----------------------------------------------------------------------------
(* Shared pieces of handlers.                                              *)

\* Variant: the wrong list is searched for processes that still run.
AliveTracked == processes \cap workers

\* Variant: processes that have exited are waited for.
AliveListed == lingering

\* Lingering processes that still run.
Alive == lingering \cap workers

\* _run_helper: a helper that misses its deadline is killed and remembered;
\* it stays alive while the kernel holds it.
HelperMayHang == helpers' \in {helpers, helpers \cup {gen}}

\* The exception reaches run()'s handler.
Raise == pc' = "failed"
RaiseManual == pc' = "manual"

\* Variant: an unclean outcome leaves the certification alone.
CloseKeepsTrust(o) ==
    /\ outcome' = [g \in Gen |-> IF g = hactive THEN o ELSE outcome[g]]
    /\ hactive' = 0
    /\ UNCHANGED <<certified, accepted>>

\* _finish_active for the open history record, if there is one.
CloseActive(o) ==
    /\ outcome' = [g \in Gen |-> IF g = hactive THEN o ELSE outcome[g]]
    /\ certified' = (certified /\ (hactive = 0 \/ o = "clean"))
    /\ hactive' = 0
    /\ UNCHANGED accepted

\* certify_indexes after an accepted volume status.
Certify ==
    /\ certified' = TRUE
    /\ accepted' = gen
    /\ UNCHANGED <<hactive, outcome>>

\* Variant: draining does not close readiness.
BeginDrainReady(p) ==
    /\ pc' = "drain"
    /\ purpose' = p
    /\ clean' = TRUE
    /\ UNCHANGED <<n, secondStart, fenceOk, ready>>

\* Entry to _stop_seaweed, on behalf of p.
BeginDrain(p) ==
    /\ pc' = "drain"
    /\ purpose' = p
    /\ clean' = TRUE
    /\ ready' = FALSE
    /\ UNCHANGED <<n, secondStart, fenceOk>>

\* _build_processes: all roles of the generation, none started yet.
BeginSpawn(second) ==
    /\ pc' = "spawn"
    /\ processes' = {gen} \X Role
    /\ n' = 0
    /\ secondStart' = second
    /\ UNCHANGED <<purpose, clean, fenceOk>>

-----------------------------------------------------------------------------
(* run: start of the process and top of the loop.                          *)

\* The writer lease is held; a record left open by a killed guardian is
\* finished as unclean before anything else happens.
RecoverInterruptedActive ==
    /\ pc = "start"
    /\ pc' = "loop"
    /\ CloseActive("unclean")
    /\ UNCHANGED <<loopVars, stopping, fatal, ready, genVars, procVars,
                   helpers, idVars, awaiting>>

EnsureHaproxy ==
    /\ pc = "loop" /\ ~stopping
    /\ pc' = "begin"
    /\ UNCHANGED <<loopVars, stopping, fatal, ready, genVars, procVars,
                   helpers, idVars, histVars, awaiting>>

EnsureHaproxyFails ==
    /\ pc = "loop" /\ ~stopping
    /\ Raise
    /\ UNCHANGED <<loopVars, stopping, fatal, ready, genVars, procVars,
                   helpers, idVars, histVars, awaiting>>

\* The loop ends: STOPPING, then _terminate_generation(container_shutdown).
LeaveLoop ==
    /\ pc = "loop" /\ stopping
    /\ BeginDrain("shutdown")
    /\ UNCHANGED <<stopping, fatal, genVars, procVars, helpers, idVars,
                   histVars, awaiting>>

-----------------------------------------------------------------------------
(* _begin_generation.                                                      *)

\* A task of an earlier generation still runs (the wait before has seen to
\* that), or TransportSelector.select raises.
SelectFails ==
    /\ pc = "begin"
    /\ Raise
    /\ lingering' = Alive
    /\ UNCHANGED <<loopVars, stopping, fatal, ready, genVars, processes,
                   workers, helpers, idVars, histVars, awaiting>>

\* _next_generation makes the number durable before anything is created.
AllocateGeneration ==
    /\ pc = "begin"
    /\ Alive = {} /\ helpers = {}
    /\ counter < MaxGen
    /\ counter' = counter + 1
    /\ allocated' = counter + 1
    /\ ready' = FALSE
    /\ lingering' = {}
    /\ pc' = "create"
    /\ UNCHANGED <<loopVars, stopping, fatal, genVars, processes, workers,
                   helpers, histVars, awaiting>>

\* The creation failure is written to the history as an unclean outcome of
\* last_allocated_generation, if this process allocated one.
RecordCreationFailure ==
    IF allocated = 0 THEN UNCHANGED histVars
    ELSE /\ outcome' = [g \in Gen |->
                IF g \in {hactive, allocated} THEN "unclean" ELSE outcome[g]]
         /\ certified' = FALSE
         /\ hactive' = 0
         /\ UNCHANGED accepted

\* _next_generation itself raises: the number in the record is a stale one.
AllocateFails ==
    /\ pc = "begin"
    /\ Alive = {} /\ helpers = {}
    /\ RecordCreationFailure
    /\ ready' = FALSE
    /\ lingering' = {}
    /\ Raise
    /\ UNCHANGED <<loopVars, stopping, fatal, genVars, processes, workers,
                   helpers, idVars, awaiting>>

\* Keeper, veth pair and DNS relay are up; the history record opens.
CreateGeneration ==
    /\ pc = "create"
    /\ gen' = counter /\ link' = counter
    /\ fenced' = FALSE /\ mounted' = {}
    /\ outcome' = [g \in Gen |-> IF g = hactive THEN "unclean" ELSE outcome[g]]
    /\ certified' = (certified /\ hactive = 0)
    /\ hactive' = counter
    /\ pc' = "mount"
    /\ UNCHANGED <<loopVars, stopping, fatal, ready, procVars, helpers, idVars,
                   accepted, awaiting>>

\* WorkerGeneration.start raises.  Before the network exists the old link is
\* as it was; the clean-up fence removes it, or fails and leaves a link up,
\* as does a failure to persist "active".  No Generation object is kept.
CreateFails ==
    /\ pc = "create"
    /\ link' \in {link, 0, counter}
    /\ RecordCreationFailure
    /\ Raise
    /\ UNCHANGED <<loopVars, stopping, fatal, ready, gen, fenced, mounted,
                   procVars, helpers, idVars, awaiting>>

-----------------------------------------------------------------------------
(* Storage: _mount_and_enroll_targets and _probe_targets.                  *)

MountTargets ==
    /\ pc = "mount"
    /\ mounted' = Targets
    /\ pc' = "probe"
    /\ UNCHANGED <<loopVars, stopping, fatal, ready, gen, fenced, link,
                   procVars, helpers, idVars, histVars, awaiting>>

\* Some target (or the role layout) fails, after any number of mounts.
MountFails ==
    /\ pc = "mount"
    /\ mounted' \in SUBSET Targets
    /\ HelperMayHang
    /\ Raise
    /\ UNCHANGED <<loopVars, stopping, fatal, ready, gen, fenced, link,
                   procVars, idVars, histVars, awaiting>>

ProbeTargets ==
    /\ pc = "probe"
    /\ pc' = "prepare"
    /\ UNCHANGED <<loopVars, stopping, fatal, ready, genVars, procVars,
                   helpers, idVars, histVars, awaiting>>

ProbeFails ==
    /\ pc \in {"probe", "stabilize"}
    /\ HelperMayHang
    /\ Raise
    /\ UNCHANGED <<loopVars, stopping, fatal, ready, genVars, procVars, idVars,
                   histVars, awaiting>>

\* prepare_offline: an interrupted installation is completed.
PrepareIndexRepair ==
    /\ pc = "prepare"
    /\ BeginSpawn(FALSE)
    /\ UNCHANGED <<stopping, fatal, ready, genVars, lingering, workers,
                   helpers, idVars, histVars, awaiting>>

\* An unreadable journal raises; an installed candidate that cannot be
\* reconciled becomes manual_intervention_required.
PrepareFails ==
    /\ pc = "prepare"
    /\ \/ Raise /\ UNCHANGED awaiting
       \/ awaiting /\ RaiseManual /\ awaiting' \in BOOLEAN
    /\ UNCHANGED <<loopVars, stopping, fatal, ready, genVars, procVars,
                   helpers, idVars, histVars>>

-----------------------------------------------------------------------------
(* _start_seaweed and _start_seaweed_with_index_recovery.                  *)

\* Variant: one role too many.
SpawnTooMany ==
    /\ pc = "spawn"
    /\ workers' = workers \cup {<<gen, n + 1>>}
    /\ n' = n + 1
    /\ pc' = IF n = NRoles THEN "stable" ELSE "spawn"
    /\ UNCHANGED <<purpose, secondStart, clean, fenceOk, stopping, fatal,
                   ready, genVars, processes, lingering, helpers, idVars,
                   histVars, awaiting>>

SpawnWorker ==
    /\ pc = "spawn" /\ n < NRoles
    /\ workers' = workers \cup {<<gen, n + 1>>}
    /\ n' = n + 1
    /\ pc' = IF n + 1 = NRoles THEN "stable" ELSE "spawn"
    /\ UNCHANGED <<purpose, secondStart, clean, fenceOk, stopping, fatal,
                   ready, genVars, processes, lingering, helpers, idVars,
                   histVars, awaiting>>

\* Popen raises, or the role exits or never opens its port.
SpawnFails ==
    /\ pc = "spawn" /\ n < NRoles
    /\ workers' \in {workers, workers \cup {<<gen, n + 1>>}}
    /\ Raise
    /\ UNCHANGED <<loopVars, stopping, fatal, ready, genVars, processes,
                   lingering, helpers, idVars, histVars, awaiting>>

\* Stopping while waiting for a stable status or during stabilization: the
\* KeyboardInterrupt leads back to the loop test.
Interrupted ==
    /\ pc \in {"stable", "stabilize", "online"} /\ stopping
    /\ pc' = "loop"
    /\ UNCHANGED <<loopVars, stopping, fatal, ready, genVars, procVars,
                   helpers, idVars, histVars, awaiting>>

\* No stable status before the deadline, every volume read-only, or a journal
\* write that fails while candidates are judged.
StatusFails ==
    /\ pc \in {"stable", "stabilize", "validate"}
    /\ Raise
    /\ UNCHANGED <<loopVars, stopping, fatal, ready, genVars, procVars,
                   helpers, idVars, histVars, awaiting>>

\* A stable status with no unexpected read-only volume certifies the indexes,
\* and the canary passes.  After a repair this ends in IndexRepairError: the
\* candidate should have been awaiting validation.
StatusAccepted ==
    /\ pc = "stable" /\ ~awaiting
    /\ Certify
    /\ pc' = IF secondStart THEN "failed" ELSE "stabilize"
    /\ n' = 0
    /\ UNCHANGED <<purpose, secondStart, clean, fenceOk, stopping, fatal,
                   ready, genVars, procVars, helpers, idVars, awaiting>>

\* The status is accepted and the canary fails.
StatusAcceptedCanaryFails ==
    /\ pc \in {"stable", "stabilize"} /\ ~awaiting
    /\ Certify
    /\ Raise
    /\ UNCHANGED <<loopVars, stopping, fatal, ready, genVars, procVars,
                   helpers, idVars, awaiting>>

\* A candidate awaits validation: any stable status is judged against it.
ValidationRequired ==
    /\ pc = "stable" /\ awaiting
    /\ pc' = "validate"
    /\ UNCHANGED <<loopVars, stopping, fatal, ready, genVars, procVars,
                   helpers, idVars, histVars, awaiting>>

\* Unexpected read-only volumes and nothing awaiting validation.
UnexpectedReadonly ==
    /\ pc = "stable" /\ ~awaiting
    /\ IF AutoRepair /\ ~secondStart
       THEN BeginDrain("repair")
       ELSE /\ IF secondStart THEN RaiseManual ELSE Raise
            /\ UNCHANGED <<loopVars, ready>>
    /\ UNCHANGED <<stopping, fatal, genVars, procVars, helpers, idVars,
                   histVars, awaiting>>

\* repair_detected with every writer stopped: some candidate is installed.
RepairInstalls ==
    /\ pc = "repair"
    /\ awaiting' = TRUE
    /\ BeginSpawn(TRUE)
    /\ UNCHANGED <<stopping, fatal, ready, genVars, lingering, workers,
                   helpers, idVars, histVars>>

\* Every repair failed or a limit was hit (manual), the metadata was
\* ambiguous, or an I/O error interrupted the work, an installation included.
RepairFails ==
    /\ pc = "repair"
    /\ \/ RaiseManual /\ UNCHANGED awaiting
       \/ Raise /\ awaiting' \in BOOLEAN
    /\ UNCHANGED <<loopVars, stopping, fatal, ready, genVars, procVars,
                   helpers, idVars, histVars>>

\* IndexRepairController._run_helper waits without a deadline for the helper
\* it has killed.
RepairHelperBlocks ==
    /\ pc = "repair" /\ RepairBlocks
    /\ pc' = "repair_hung"
    /\ helpers' = helpers \cup {gen}
    /\ UNCHANGED <<loopVars, stopping, fatal, ready, genVars, procVars,
                   idVars, histVars, awaiting>>

RepairHelperReaped ==
    /\ pc = "repair_hung" /\ gen \notin helpers
    /\ pc' = "repair"
    /\ UNCHANGED <<loopVars, stopping, fatal, ready, genVars, procVars,
                   helpers, idVars, histVars, awaiting>>

\* _finish_index_validation: every candidate verified, canary passed.
ValidationPasses ==
    /\ pc = "validate"
    /\ awaiting' = FALSE
    /\ Certify
    /\ pc' = "stabilize"
    /\ n' = 0
    /\ UNCHANGED <<purpose, secondStart, clean, fenceOk, stopping, fatal,
                   ready, genVars, procVars, helpers, idVars>>

ValidationPassesCanaryFails ==
    /\ pc = "validate"
    /\ awaiting' = FALSE
    /\ Certify
    /\ Raise
    /\ UNCHANGED <<loopVars, stopping, fatal, ready, genVars, procVars,
                   helpers, idVars>>

\* A candidate is rejected (it still awaits), or another volume is read-only.
ValidationRejects ==
    /\ pc = "validate"
    /\ awaiting' \in BOOLEAN
    /\ BeginDrain("rollback")
    /\ UNCHANGED <<stopping, fatal, genVars, procVars, helpers, idVars,
                   histVars>>

\* rollback_rejected, if something was rejected; then manual intervention.
\* The restore may itself raise and leave a candidate installed.
Rollback ==
    /\ pc = "rollback"
    /\ \/ RaiseManual /\ awaiting' \in {FALSE, awaiting}
       \/ awaiting /\ Raise /\ UNCHANGED awaiting
    /\ UNCHANGED <<loopVars, stopping, fatal, ready, genVars, procVars,
                   helpers, idVars, histVars>>

-----------------------------------------------------------------------------
(* _stabilize_recovery, going online, and _online_loop.                    *)

\* One full probe, volume check and canary passed; the count is what the
\* exit test reads, so it is not kept beyond Required.
StabilizeSample ==
    /\ pc = "stabilize" /\ n < Required
    /\ n' = n + 1
    /\ Certify
    /\ UNCHANGED <<pc, purpose, secondStart, clean, fenceOk, stopping, fatal,
                   ready, genVars, procVars, helpers, idVars, awaiting>>

\* Enough successes over a long enough time.
StabilizeDone ==
    /\ pc = "stabilize" /\ n >= Required
    /\ pc' = "go_online"
    /\ UNCHANGED <<loopVars, stopping, fatal, ready, genVars, procVars,
                   helpers, idVars, histVars, awaiting>>

\* health.set("ONLINE", True): stopping is not tested again.
GoOnline ==
    /\ pc = "go_online"
    /\ ready' = TRUE
    /\ pc' = "online"
    /\ UNCHANGED <<loopVars, stopping, fatal, genVars, procVars, helpers,
                   idVars, histVars, awaiting>>

\* A role or HAProxy died, a check failed, or a transport switch was asked
\* for: SUSPECT closes readiness before the exception leaves the loop.
OnlineFails ==
    /\ pc = "online"
    /\ ready' = FALSE
    /\ HelperMayHang
    /\ Raise
    /\ UNCHANGED <<loopVars, stopping, fatal, genVars, procVars, idVars,
                   histVars, awaiting>>

\* pending_request raises between two iterations, outside the SUSPECT handler.
OnlineSleepFails ==
    /\ pc = "online"
    /\ Raise
    /\ UNCHANGED <<loopVars, stopping, fatal, ready, genVars, procVars,
                   helpers, idVars, histVars, awaiting>>

-----------------------------------------------------------------------------
(* run()'s exception handler and _terminate_generation.                    *)

HandleFailure ==
    /\ pc \in {"failed", "manual"}
    /\ IF stopping
       THEN pc' = "loop" /\ UNCHANGED <<loopVars, ready>>
       ELSE BeginDrain(IF pc = "manual" THEN "park" ELSE "recover")
    /\ UNCHANGED <<stopping, fatal, genVars, procVars, helpers, idVars,
                   histVars, awaiting>>

\* The last process of the list in start order: roles stop in reverse.
NextToStop == CHOOSE w \in processes : \A v \in processes : v[2] <= w[2]

\* stop_until: the process is gone by the deadline.
StopProcess ==
    /\ pc = "drain" /\ processes # {}
    /\ workers' = workers \ {NextToStop}
    /\ processes' = processes \ {NextToStop}
    /\ UNCHANGED <<pc, loopVars, stopping, fatal, ready, genVars, lingering,
                   helpers, idVars, histVars, awaiting>>

\* Variant: the survivor is not remembered.
StopProcessForgets ==
    /\ pc = "drain" /\ processes # {}
    /\ clean' = FALSE
    /\ processes' = processes \ {NextToStop}
    /\ UNCHANGED <<pc, purpose, n, secondStart, fenceOk, stopping, fatal, ready,
                   genVars, lingering, workers, helpers, idVars, histVars, awaiting>>

\* It survives SIGKILL past the deadline, or stopping it raised.
StopProcessFails ==
    /\ pc = "drain" /\ processes # {}
    /\ clean' = FALSE
    /\ lingering' = lingering \cup ({NextToStop} \cap workers)
    /\ processes' = processes \ {NextToStop}
    /\ UNCHANGED <<pc, purpose, n, secondStart, fenceOk, stopping, fatal,
                   ready, genVars, workers, helpers, idVars, histVars, awaiting>>

\* Variant: termination detaches storage before it knows that writers stopped.
DrainedThenDetach ==
    /\ pc = "drain" /\ processes = {}
    /\ pc' = CASE purpose \in {"repair", "rollback"} ->
                       IF clean THEN purpose ELSE "failed"
               [] gen = 0 -> "retire"
               [] OTHER -> "detach"
    /\ UNCHANGED <<loopVars, stopping, fatal, ready, genVars, procVars, helpers,
                   idVars, histVars, awaiting>>

\* _stop_seaweed returns to its caller.  A repair or a rollback goes on only
\* if every process stopped; termination detaches only then.  Without a
\* generation there is nothing to detach, fence or record.
Drained ==
    /\ pc = "drain" /\ processes = {}
    /\ pc' = CASE purpose \in {"repair", "rollback"} ->
                       IF clean THEN purpose ELSE "failed"
               [] gen = 0 -> "retire"
               [] OTHER -> IF clean THEN "detach" ELSE "fence"
    /\ UNCHANGED <<loopVars, stopping, fatal, ready, genVars, procVars, helpers,
                   idVars, histVars, awaiting>>

\* _repair_targets unmounts every managed target within what is left of the
\* deadline; a lazy unmount counts as detached.
Detach ==
    /\ pc = "detach"
    /\ mounted' = {}
    /\ pc' = "fence"
    /\ UNCHANGED <<loopVars, stopping, fatal, ready, gen, fenced, link,
                   procVars, helpers, idVars, histVars, awaiting>>

DetachFails ==
    /\ pc = "detach"
    /\ mounted' \in SUBSET mounted
    /\ HelperMayHang
    /\ clean' = FALSE
    /\ pc' = "fence"
    /\ UNCHANGED <<purpose, n, secondStart, fenceOk, stopping, fatal, ready,
                   gen, fenced, link, procVars, idVars, histVars, awaiting>>

\* Variant: the generation is marked fenced and the link is left up.
FenceUnverified ==
    /\ pc = "fence"
    /\ fenced' = TRUE
    /\ fenceOk' = TRUE
    /\ pc' = IF clean THEN "finish" ELSE "redetach"
    /\ UNCHANGED <<purpose, n, secondStart, clean, stopping, fatal, ready, gen,
                   link, mounted, procVars, helpers, idVars, histVars, awaiting>>

\* Variant: the fence waits until every helper has been reaped.
FenceAfterHelpers ==
    /\ pc = "fence" /\ helpers = {}
    /\ link' = IF fenced THEN link ELSE 0
    /\ fenced' = TRUE
    /\ fenceOk' = TRUE
    /\ pc' = IF clean THEN "finish" ELSE "redetach"
    /\ UNCHANGED <<purpose, n, secondStart, clean, stopping, fatal, ready, gen,
                   mounted, procVars, helpers, idVars, histVars, awaiting>>

\* The host end of the veth pair is deleted and seen to be gone.
Fence ==
    /\ pc = "fence"
    /\ link' = IF fenced THEN link ELSE 0
    /\ fenced' = TRUE
    /\ fenceOk' = TRUE
    /\ pc' = IF clean THEN "finish" ELSE "redetach"
    /\ UNCHANGED <<purpose, n, secondStart, clean, stopping, fatal, ready, gen,
                   mounted, procVars, helpers, idVars, histVars, awaiting>>

\* The link is still there, or the fence held but could not be persisted.
FenceFails ==
    /\ pc = "fence" /\ ~fenced
    /\ \/ UNCHANGED <<link, fenced>>
       \/ link' = 0 /\ fenced' = TRUE
    /\ fenceOk' = FALSE
    /\ fatal' = TRUE
    /\ pc' = IF clean THEN "finish" ELSE "redetach"
    /\ UNCHANGED <<purpose, n, secondStart, clean, stopping, ready, gen,
                   mounted, procVars, helpers, idVars, histVars, awaiting>>

\* After a hard fence the unmounts are tried again; their result is ignored.
Redetach ==
    /\ pc = "redetach"
    /\ mounted' \in SUBSET mounted
    /\ HelperMayHang
    /\ pc' = "finish"
    /\ UNCHANGED <<loopVars, stopping, fatal, ready, gen, fenced, link,
                   procVars, idVars, histVars, awaiting>>

\* Variant: every termination counts as clean.
FinishClean ==
    /\ pc = "finish"
    /\ CloseActive("clean")
    /\ stopping' = (stopping \/ (~fenceOk /\ purpose # "shutdown"))
    /\ pc' = IF purpose = "recover" /\ ~fenceOk THEN "loop" ELSE "retire"
    /\ UNCHANGED <<loopVars, fatal, ready, genVars, procVars, helpers, idVars,
                   awaiting>>

\* Variant: the outcome goes to the current generation, open record or not.
FinishCurrent ==
    /\ pc = "finish"
    /\ outcome' = [outcome EXCEPT ![gen] = IF clean THEN "clean" ELSE "unclean"]
    /\ certified' = (certified /\ clean) /\ hactive' = 0
    /\ stopping' = (stopping \/ (~fenceOk /\ purpose # "shutdown"))
    /\ pc' = IF purpose = "recover" /\ ~fenceOk THEN "loop" ELSE "retire"
    /\ UNCHANGED <<loopVars, fatal, ready, genVars, procVars, helpers, idVars,
                   accepted, awaiting>>

\* generation_history.finish; an unverified fence stops the guardian.
FinishHistory ==
    /\ pc = "finish"
    /\ CloseActive(IF clean THEN "clean" ELSE "unclean")
    /\ stopping' = (stopping \/ (~fenceOk /\ purpose # "shutdown"))
    /\ pc' = IF purpose = "recover" /\ ~fenceOk THEN "loop" ELSE "retire"
    /\ UNCHANGED <<loopVars, fatal, ready, genVars, procVars, helpers, idVars,
                   awaiting>>

-----------------------------------------------------------------------------
(* _retire_generation, waiting, parking and leaving.                       *)

AfterRetire ==
    CASE purpose = "park" -> "parked"
      [] purpose = "shutdown" -> "exited"
      [] OTHER -> "blocked"

\* retire() repeats the fence if it did not hold, then drops the keeper.
RetireGeneration ==
    /\ pc = "retire"
    /\ pc' = AfterRetire
    /\ link' = IF gen = 0 \/ fenced THEN link ELSE 0
    /\ gen' = 0
    /\ mounted' = {}
    /\ UNCHANGED <<loopVars, stopping, fatal, ready, fenced, procVars, helpers,
                   idVars, histVars, awaiting>>

\* The fence fails once more, or the retired state cannot be persisted.  The
\* generation is forgotten all the same.
RetireFails ==
    /\ pc = "retire" /\ gen # 0
    /\ pc' = AfterRetire
    /\ link' \in {link, 0}
    /\ fatal' = TRUE
    /\ gen' = 0
    /\ mounted' = {}
    /\ UNCHANGED <<loopVars, stopping, ready, fenced, procVars, helpers, idVars,
                   histVars, awaiting>>

\* Variant: blocked tasks are not waited for.
SkipBlockedCleanup ==
    /\ pc = "blocked"
    /\ pc' = "loop"
    /\ UNCHANGED <<loopVars, stopping, fatal, ready, genVars, procVars, helpers,
                   idVars, histVars, awaiting>>

\* Variant: the wait for blocked tasks ignores a stop request.
WaitIgnoresStop ==
    /\ pc = "blocked"
    /\ Alive = {} /\ helpers = {}
    /\ pc' = "loop"
    /\ UNCHANGED <<loopVars, stopping, fatal, ready, genVars, procVars, helpers,
                   idVars, histVars, awaiting>>

\* _wait_for_blocked_cleanup (HOST_RECOVERY_REQUIRED while tasks remain), then
\* the recovery delay.
WaitForBlockedCleanup ==
    /\ pc = "blocked"
    /\ stopping \/ (Alive = {} /\ helpers = {})
    /\ pc' = "loop"
    /\ UNCHANGED <<loopVars, stopping, fatal, ready, genVars, procVars, helpers,
                   idVars, histVars, awaiting>>

\* _park_manual_intervention stays fail-closed until it is told to stop.
LeavePark ==
    /\ pc = "parked" /\ stopping
    /\ pc' = "loop"
    /\ UNCHANGED <<loopVars, stopping, fatal, ready, genVars, procVars, helpers,
                   idVars, histVars, awaiting>>

-----------------------------------------------------------------------------
(* The environment.                                                        *)

Running == pc \notin {"exited", "down"}

\* SIGTERM or SIGINT: the handler runs between two steps of the main thread.
Signal ==
    /\ Running /\ ~stopping
    /\ stopping' = TRUE
    /\ ready' = FALSE
    /\ UNCHANGED <<pc, loopVars, fatal, genVars, procVars, helpers, idVars,
                   histVars, awaiting>>

WorkerExits(w) ==
    /\ workers' = workers \ {w}
    /\ UNCHANGED <<pc, loopVars, stopping, fatal, ready, genVars, processes,
                   lingering, helpers, idVars, histVars, awaiting>>

HelperExits(g) ==
    /\ helpers' = helpers \ {g}
    /\ UNCHANGED <<pc, loopVars, stopping, fatal, ready, genVars, procVars,
                   idVars, histVars, awaiting>>

\* The guardian dies.  Its health server dies with it; a repair may have
\* reached the installation of a candidate.
Crash ==
    /\ Running
    /\ pc' = "down"
    /\ ready' = FALSE
    /\ awaiting' \in {awaiting, awaiting \/ pc = "repair"}
    /\ UNCHANGED <<loopVars, stopping, fatal, genVars, procVars, helpers,
                   idVars, histVars>>

\* The container starts again once all its old tasks are gone: memory and
\* namespaces are new, files are kept.
Restart ==
    /\ ~Running /\ workers = {} /\ helpers = {}
    /\ pc' = "start" /\ purpose' = "recover" /\ n' = 0
    /\ secondStart' = FALSE /\ clean' = FALSE /\ fenceOk' = FALSE
    /\ stopping' = FALSE /\ fatal' = FALSE
    /\ gen' = 0 /\ fenced' = FALSE /\ link' = 0 /\ mounted' = {}
    /\ processes' = {} /\ lingering' = {} /\ allocated' = 0
    /\ UNCHANGED <<ready, workers, helpers, counter, histVars, awaiting>>

-----------------------------------------------------------------------------

\* What the main thread does by itself when nothing goes wrong.  Only the
\* bound on generation numbers forces an allocation to fail.
Progress ==
    \/ RecoverInterruptedActive \/ EnsureHaproxy \/ LeaveLoop
    \/ AllocateGeneration
    \/ (counter = MaxGen /\ AllocateFails)
    \/ CreateGeneration \/ MountTargets \/ ProbeTargets \/ PrepareIndexRepair
    \/ SpawnWorker \/ Interrupted \/ StatusAccepted \/ ValidationRequired
    \/ RepairInstalls \/ RepairHelperReaped \/ ValidationPasses \/ Rollback
    \/ StabilizeSample \/ StabilizeDone \/ GoOnline
    \/ HandleFailure \/ StopProcess \/ Drained \/ Detach \/ Fence \/ Redetach
    \/ FinishHistory \/ RetireGeneration \/ WaitForBlockedCleanup \/ LeavePark

\* What a failing disk, network, process or operation makes it do instead.
Failure ==
    \/ EnsureHaproxyFails \/ SelectFails \/ AllocateFails \/ CreateFails
    \/ MountFails \/ ProbeFails \/ PrepareFails \/ SpawnFails \/ StatusFails
    \/ StatusAcceptedCanaryFails \/ UnexpectedReadonly \/ RepairFails
    \/ RepairHelperBlocks \/ ValidationPassesCanaryFails \/ ValidationRejects
    \/ OnlineFails \/ OnlineSleepFails \/ StopProcessFails \/ DetachFails
    \/ FenceFails \/ RetireFails

Environment ==
    \/ Signal \/ Crash \/ Restart
    \/ \E w \in workers : WorkerExits(w)
    \/ \E g \in helpers : HelperExits(g)

Next == Progress \/ Failure \/ Environment

\* Every call of the main thread has a deadline (apart from the wait modelled
\* by repair_hung), so it keeps taking steps.  Nothing obliges a worker or a
\* helper to exit, or the container to be started again.
Spec == Init /\ [][Next]_vars /\ WF_vars(Progress)

-----------------------------------------------------------------------------
(* Safety.                                                                 *)

\* At no time do processes of two generations run side by side, and those that
\* run belong to the newest number ever allocated, although a process that
\* survived SIGKILL outlives its generation (begin_generation, lingering list).
ExclusiveWorkers == \A w \in workers : w[1] = counter

\* The guardian never loses sight of a process it started: whatever runs is in
\* processes or lingering_processes until the guardian itself is gone.
LiveWorkersKnown == Running => workers \subseteq processes \cup lingering

\* Readiness is published only for a generation that is linked and unfenced,
\* has all its roles tracked and all targets mounted, has passed Required
\* full checks and certified the indexes itself, with no candidate awaiting
\* validation and no task of the past alive (what HAProxy sees of run()).
ReadyIsProven ==
    ready =>
        /\ gen # 0 /\ link = gen /\ ~fenced /\ hactive = gen
        /\ mounted = Targets
        /\ processes = {gen} \X Role
        /\ lingering = {} /\ helpers = {}
        /\ certified /\ accepted = gen /\ ~awaiting /\ n >= Required

\* A process that outlives its generation has lost the veth link to the remote
\* storage, unless the guardian is on its fatal exit path (fence, retire).
SurvivorsAreCut ==
    \A w \in workers : link = w[1] => gen = w[1] \/ fatal \/ ~Running

\* Trusted indexes were certified by a generation newer than every unclean
\* outcome, and only the current generation is still without one, through
\* crashes at any step (recover_interrupted_active, certify_indexes).
CertificationIsEarned ==
    certified /\ pc \notin {"start", "exited", "down"} =>
        /\ hactive \in {0, gen}
        /\ \A g \in Gen : outcome[g] = "unclean" => g < accepted

\* A generation recorded as a clean shutdown has no process left running
\* (_terminate_generation, clean_shutdown).
CleanOutcomeMeansNoWriter ==
    \A w \in workers : outcome[w[1]] # "clean"

\* Storage is detached under a running process of the generation only after
\* the fence, or when the fence has failed (_terminate_generation's order).
WritersAreFencedBeforeDetach ==
    [][mounted' # mounted /\ mounted' \subseteq mounted /\ gen # 0 =>
          \/ link # gen \/ link' # gen \/ fatal'
          \/ \A w \in workers : w[1] # gen]_vars

\* An unclean outcome is never turned into a clean one, although shutdown runs
\* _terminate_generation again on a generation whose fence failed.
UncleanIsFinal ==
    [][\A g \in Gen : outcome[g] = "unclean" => outcome'[g] = "unclean"]_vars

\* No number is allocated while the link of any earlier generation is up.
FencedBeforeReplacement == [][counter' # counter => link = 0]_vars

(* The abstract cycle this main thread implements.                         *)

Phase ==
    IF ~Running THEN "off"
    ELSE IF gen = 0 /\ pc \in {"start", "loop", "blocked", "parked"} THEN "idle"
    ELSE IF pc \in {"begin", "create"} THEN "begin"
    ELSE IF pc \in {"mount", "online"} THEN pc
    ELSE IF pc \in {"redetach", "finish", "retire"} THEN "fenced"
    ELSE IF \/ pc \in {"loop", "failed", "manual", "detach", "fence"}
            \/ pc = "drain" /\ purpose \in {"recover", "park", "shutdown"}
         THEN "ending"
    ELSE "work"

Cycle == INSTANCE Lifecycle WITH
    phase <- Phase, held <- (gen # 0), serving <- ready,
    tasks <- (workers # {} \/ helpers # {}), stopping <- stopping

\* Seen from outside, the main thread behaves like the abstract cycle: among
\* other things, no generation is created beside a live task of another.
ImplementsCycle == Cycle!LSpec

(* Liveness.                                                               *)

\* A stop request ends the process whatever workers and helpers do.
StopIsHonoured == stopping ~> ~Running

\* A generation with a helper trapped in storage I/O loses its link, unless the
\* helper comes back or the guardian stops.
TrappedHelperIsFenced ==
    \A g \in Gen : (g \in helpers /\ Running)
                      ~> (link # g \/ g \notin helpers \/ ~Running)

Fault ==
    \/ Failure \/ Signal \/ Crash
    \/ \E w \in workers \cap processes : WorkerExits(w)

\* States the guardian may stay in for good.
Settled ==
    \/ ready
    \/ pc \in {"parked", "repair_hung"} \/ ~Running
    \/ pc = "blocked" /\ (lingering \cap workers # {} \/ helpers # {})

\* Once faults cease the endpoint becomes ready and stays so, unless it is
\* parked for an operator, stopped, or waiting for a task the kernel holds.
RecoversWhenFaultsCease == <>[][~Fault]_vars => <>[]Settled
=============================================================================

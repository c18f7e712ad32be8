----------------------------- MODULE Admission -----------------------------
(***************************************************************************)
(* The control of HAProxy's write limit.  The guardian's main thread runs  *)
(* HAProxy and the storage probes and publishes readiness; the thread      *)
(* s3-admission ticks once a second, reads that state, grows or resets a   *)
(* write budget and sends it to HAProxy's runtime socket.  The two share   *)
(* HealthState, under a lock that is not reentrant and that the signal     *)
(* handler takes too, and WriteBudget, under no lock: its update is one    *)
(* step per read or write of an attribute.  The clock counts whatever unit *)
(* the configured windows are multiples of.                                *)
(***************************************************************************)
EXTENDS Integers

CONSTANTS
    Ceiling,      \* max_active_write_requests
    Window,       \* healthy_window_seconds
    Slow,         \* slow_probe_seconds
    StaleAfter,   \* age at which the last probe result counts as stale
    MaxClock,     \* bound: the clock stops here
    MaxExits,     \* bound: exits of HAProxy
    MaxFaults     \* bound: runtime commands that fail while HAProxy is up

ASSUME AdmissionSettings ==
    /\ {Ceiling, Window, Slow, StaleAfter} \subseteq Nat \ {0}
    /\ {MaxClock, MaxExits, MaxFaults} \subseteq Nat

VARIABLES
    clock,
    mpc,        \* the main thread
    stopping,
    lock,       \* HealthState._lock: free, or held for good by the main thread
    health,     \* ready, the running and the last probe, the admission record
    up,         \* HAProxy runs
    maxconn,    \* its write limit
    exits,
    limit,      \* WriteBudget.limit
    since,      \* WriteBudget.healthy_since, Never for None
    tpc,        \* the thread s3-admission
    tick,       \* locals of tick() and update()
    faults,
    streak,     \* history: first and last now of the unbroken healthy ticks
    restarted   \* history: HAProxy was started during this tick

mainVars == <<mpc, stopping>>
proxyVars == <<up, maxconn, exits>>
budget == <<limit, since>>
thread == <<tpc, tick, faults, streak>>
avars == <<clock, mainVars, lock, health, proxyVars, budget, thread, restarted>>

Never == 0
Least(a, b) == IF a <= b THEN a ELSE b

Health == [ready : BOOLEAN, probing : Nat, probedAt : Nat,
           slow : BOOLEAN, write_limit : Nat, applied : BOOLEAN]
Ticks == [now : Nat, healthy : BOOLEAN, limit : Nat, error : BOOLEAN]
NoTick == [now |-> 0, healthy |-> FALSE, limit |-> 1, error |-> FALSE]
NoStreak == [from |-> 0, to |-> 0]

AInit ==
    /\ clock = 1 /\ mpc = "start" /\ stopping = FALSE /\ lock = "free"
    /\ health = [ready |-> FALSE, probing |-> Never, probedAt |-> Never,
                 slow |-> FALSE, write_limit |-> 0, applied |-> FALSE]
    /\ up = TRUE /\ maxconn = 1 /\ exits = 0
    /\ limit = 1 /\ since = Never
    /\ tpc = "sleep" /\ tick = NoTick
    /\ faults = 0 /\ streak = NoStreak /\ restarted = FALSE
-----------------------------------------------------------------------------
(* HealthState *)

\* What a setter leaves behind.
Effect(op, h) ==
    CASE op = "online"  -> [h EXCEPT !.ready = TRUE]
      [] op = "offline" -> [h EXCEPT !.ready = FALSE]
      [] op = "probe"   -> [h EXCEPT !.probing = clock]
      [] op = "probed"  -> [h EXCEPT !.probing = Never, !.probedAt = clock,
                                     !.slow = clock - h.probing >= Slow]

\* A setter of the main thread is one step for the other threads, since it
\* holds the lock.  A signal that arrives inside it runs the handler on top of
\* it, in the same thread: the handler sets stopping and waits in health.set
\* for the lock that its own thread holds.
Call(op, next) ==
    \/ health' = Effect(op, health) /\ mpc' = next /\ UNCHANGED <<lock, stopping>>
    \/ ~stopping /\ stopping' = TRUE /\ lock' = "main" /\ UNCHANGED <<health, mpc>>

\* The main thread is not stuck under its signal handler.
MainRuns == lock = "free"

\* SIGTERM or SIGINT anywhere else.
Signal ==
    /\ MainRuns /\ ~stopping /\ mpc # "stopped"
    /\ stopping' = TRUE
    /\ health' = Effect("offline", health)
    /\ UNCHANGED <<clock, mpc, lock, proxyVars, budget, thread, restarted>>
-----------------------------------------------------------------------------
(* The main thread *)

\* _ensure_haproxy resets the budget of a controller that exists, then starts
\* HAProxy with the rendered limit of 1.
EnsureHaproxy ==
    /\ MainRuns /\ mpc = "ensure" /\ ~stopping
    /\ mpc' = IF up THEN "start" ELSE "reset"
    /\ UNCHANGED <<clock, stopping, lock, health, proxyVars, budget, thread, restarted>>

ResetLimit ==
    /\ MainRuns /\ mpc = "reset"
    /\ limit' = 1 /\ mpc' = "reset_since"
    /\ UNCHANGED <<clock, stopping, lock, health, proxyVars, since, thread, restarted>>

ResetSince ==
    /\ MainRuns /\ mpc = "reset_since"
    /\ since' = Never /\ mpc' = "spawn"
    /\ UNCHANGED <<clock, stopping, lock, health, proxyVars, limit, thread, restarted>>

StartHaproxy ==
    /\ MainRuns /\ mpc = "spawn"
    /\ up' = TRUE /\ maxconn' = 1 /\ mpc' = "start"
    /\ restarted' = (tpc # "sleep")
    /\ UNCHANGED <<clock, stopping, lock, health, exits, budget, thread>>

\* Mounting, starting and stabilizing, abstracted to their probe.  A stop that
\* comes after the last test of stopping does not prevent ONLINE.
GoOnline ==
    /\ MainRuns /\ mpc = "verified"
    /\ Call("online", "online")
    /\ UNCHANGED <<clock, proxyVars, budget, thread, restarted>>

\* _probe_targets: start_probe, the helpers, record_probe.
StartProbe ==
    /\ MainRuns /\ ~stopping
    /\ \/ mpc = "start" /\ Call("probe", "first_probe")
       \/ mpc = "online" /\ up /\ Call("probe", "probing")
    /\ UNCHANGED <<clock, proxyVars, budget, thread, restarted>>

ProbePasses ==
    /\ MainRuns /\ mpc \in {"first_probe", "probing"}
    /\ Call("probed", IF mpc = "probing" THEN "online" ELSE "verified")
    /\ UNCHANGED <<clock, proxyVars, budget, thread, restarted>>

ProbeFails ==
    /\ MainRuns /\ mpc \in {"first_probe", "probing"}
    /\ Call("probed", "suspect")
    /\ UNCHANGED <<clock, proxyVars, budget, thread, restarted>>

\* The online loop finds that HAProxy has exited; SUSPECT and OFFLINE are set,
\* the generation ends and the loop turns.
FindExit ==
    /\ MainRuns /\ mpc = "online" /\ ~stopping /\ ~up
    /\ mpc' = "suspect"
    /\ UNCHANGED <<clock, stopping, lock, health, proxyVars, budget, thread, restarted>>

Suspect ==
    /\ MainRuns /\ mpc = "suspect"
    /\ Call("offline", "ensure")
    /\ UNCHANGED <<clock, proxyVars, budget, thread, restarted>>

\* The loop condition after a stop: STOPPING is set once more, and the process
\* ends with its daemon thread.
Stop ==
    /\ MainRuns /\ stopping /\ mpc \in {"ensure", "start", "verified", "online"}
    /\ Call("offline", "leaving")
    /\ UNCHANGED <<clock, proxyVars, budget, thread, restarted>>

Exit ==
    /\ MainRuns /\ mpc = "leaving"
    /\ mpc' = "stopped" /\ tpc' = "ended" /\ tick' = NoTick
    /\ UNCHANGED <<clock, stopping, lock, health, proxyVars, budget, faults, streak, restarted>>
-----------------------------------------------------------------------------
(* The thread s3-admission *)

quiet == <<clock, mainVars, lock, health, proxyVars, restarted>>

\* Variant: readiness is not part of the verdict.
SnapshotIgnoringReady ==
    /\ tpc = "sleep" /\ ~stopping /\ lock = "free"
    /\ tick' = [tick EXCEPT !.now = clock, !.error = FALSE,
                  !.healthy = /\ health.probedAt # Never
                              /\ clock - health.probedAt < StaleAfter
                              /\ ~health.slow
                              /\ health.probing # Never => clock - health.probing < Slow]
    /\ tpc' = "stat"
    /\ restarted' = FALSE
    /\ UNCHANGED <<clock, mainVars, lock, health, proxyVars, budget, faults, streak>>

\* tick() up to the first runtime command; the snapshot takes the lock.
Snapshot ==
    /\ tpc = "sleep" /\ ~stopping /\ lock = "free"
    /\ tick' = [tick EXCEPT !.now = clock, !.error = FALSE,
                  !.healthy = /\ health.ready /\ health.probedAt # Never
                              /\ clock - health.probedAt < StaleAfter
                              /\ ~health.slow
                              /\ health.probing # Never => clock - health.probing < Slow]
    /\ tpc' = "stat"
    /\ restarted' = FALSE
    /\ UNCHANGED <<clock, mainVars, lock, health, proxyVars, budget, faults, streak>>

\* "show stat": queued writes, or none.  A healthy verdict extends the streak.
ReadStats ==
    /\ tpc = "stat" /\ up
    /\ \E queued \in BOOLEAN :
         IF tick.healthy /\ ~queued
         THEN /\ tpc' = "update"
              /\ streak' = IF streak = NoStreak THEN [from |-> tick.now, to |-> tick.now]
                           ELSE [streak EXCEPT !.to = tick.now]
         ELSE tpc' = "back_off" /\ UNCHANGED streak
    /\ UNCHANGED <<quiet, budget, tick, faults>>

\* update(now, True): the test for None, the first value, or the next read.
UpdateHealthy ==
    /\ tpc = "update"
    /\ IF since = Never
       THEN since' = tick.now /\ tpc' = "result"
       ELSE tpc' = "window" /\ UNCHANGED since
    /\ UNCHANGED <<quiet, limit, tick, faults, streak>>

\* now - self.healthy_since: a None written since the test is a TypeError,
\* which tick() does not catch, and the thread is gone.
UpdateWindow ==
    /\ tpc = "window"
    /\ tpc' = IF since = Never THEN "dead"
              ELSE IF tick.now - since >= Window THEN "grow" ELSE "result"
    /\ UNCHANGED <<quiet, budget, tick, faults, streak>>

\* Variant: no ceiling.
UpdateReadLimitUncapped ==
    /\ tpc = "grow"
    /\ tick' = [tick EXCEPT !.limit = limit + 1]
    /\ tpc' = "store"
    /\ UNCHANGED <<quiet, budget, faults, streak>>

UpdateReadLimit ==
    /\ tpc = "grow"
    /\ tick' = [tick EXCEPT !.limit = Least(Ceiling, limit + 1)]
    /\ tpc' = "store"
    /\ UNCHANGED <<quiet, budget, faults, streak>>

UpdateStoreLimit ==
    /\ tpc = "store"
    /\ limit' = tick.limit /\ tpc' = "restamp"
    /\ UNCHANGED <<quiet, since, tick, faults, streak>>

UpdateRestamp ==
    /\ tpc = "restamp"
    /\ since' = tick.now /\ tpc' = "result"
    /\ UNCHANGED <<quiet, limit, tick, faults, streak>>

\* update(now, False); after an error its result is not used.
BackOff ==
    /\ tpc = "back_off"
    /\ limit' = 1 /\ tpc' = "back_off_since"
    /\ streak' = NoStreak
    /\ UNCHANGED <<quiet, since, tick, faults>>

\* Variant: the stamp survives a back-off.
BackOffKeepsSince ==
    /\ tpc = "back_off_since"
    /\ tpc' = IF tick.error THEN "fallback" ELSE "result"
    /\ UNCHANGED <<quiet, budget, tick, faults, streak>>

BackOffSince ==
    /\ tpc = "back_off_since"
    /\ since' = Never
    /\ tpc' = IF tick.error THEN "fallback" ELSE "result"
    /\ UNCHANGED <<quiet, limit, tick, faults, streak>>

\* return self.limit
UpdateResult ==
    /\ tpc = "result"
    /\ tick' = [tick EXCEPT !.limit = limit]
    /\ tpc' = "apply"
    /\ UNCHANGED <<quiet, budget, faults, streak>>

\* "set maxconn" with the result.
Apply ==
    /\ tpc = "apply" /\ up
    /\ maxconn' = tick.limit /\ tpc' = "publish"
    /\ UNCHANGED <<clock, mainVars, lock, health, up, exits, restarted, budget, tick, faults, streak>>

\* Either command fails, with HAProxy down or the reply refused or lost; a lost
\* reply may be to a command that was carried out.
CommandFails ==
    /\ tpc \in {"stat", "apply"}
    /\ up => faults < MaxFaults
    /\ faults' = IF up THEN faults + 1 ELSE faults
    /\ maxconn' \in {maxconn} \cup (IF up /\ tpc = "apply" THEN {tick.limit} ELSE {})
    /\ tick' = [tick EXCEPT !.error = TRUE]
    /\ tpc' = "back_off"
    /\ UNCHANGED <<clock, mainVars, lock, health, up, exits, restarted, budget, streak>>

\* The attempt to reduce the limit to 1 after an error; its failure is ignored.
Fallback ==
    /\ tpc = "fallback"
    /\ \/ up /\ maxconn' = 1 /\ UNCHANGED faults
       \/ ~up /\ UNCHANGED <<maxconn, faults>>
       \/ up /\ faults < MaxFaults /\ faults' = faults + 1 /\ maxconn' \in {1, maxconn}
    /\ tpc' = "publish"
    /\ UNCHANGED <<clock, mainVars, lock, health, up, exits, restarted, budget, tick, streak>>

\* Variant: reports success after an error too.
PublishApplied ==
    /\ tpc = "publish" /\ lock = "free"
    /\ health' = [health EXCEPT !.write_limit = limit, !.applied = TRUE]
    /\ tpc' = "sleep" /\ tick' = NoTick
    /\ UNCHANGED <<clock, mainVars, lock, proxyVars, restarted, budget, faults, streak>>

\* set_admission, and back to sleep.
Publish ==
    /\ tpc = "publish" /\ lock = "free"
    /\ health' = [health EXCEPT !.write_limit = limit, !.applied = ~tick.error]
    /\ tpc' = "sleep" /\ tick' = NoTick
    /\ UNCHANGED <<clock, mainVars, lock, proxyVars, restarted, budget, faults, streak>>

-----------------------------------------------------------------------------
(* The environment *)

Pass ==
    /\ clock < MaxClock
    /\ clock' = clock + 1
    /\ UNCHANGED <<mainVars, lock, health, proxyVars, budget, thread, restarted>>

HaproxyExits ==
    /\ up /\ exits < MaxExits
    /\ up' = FALSE /\ exits' = exits + 1
    /\ UNCHANGED <<clock, mainVars, lock, health, maxconn, budget, thread, restarted>>
-----------------------------------------------------------------------------
MainStep ==
    \/ EnsureHaproxy \/ ResetLimit \/ ResetSince
    \/ StartHaproxy \/ GoOnline \/ StartProbe \/ ProbePasses \/ ProbeFails
    \/ FindExit \/ Suspect \/ Stop \/ Exit

Tick ==
    \/ Snapshot \/ ReadStats \/ UpdateHealthy \/ UpdateWindow \/ UpdateReadLimit
    \/ UpdateStoreLimit \/ UpdateRestamp \/ BackOff \/ BackOffSince
    \/ UpdateResult \/ Apply \/ CommandFails \/ Fallback \/ Publish

ANext == MainStep \/ Tick \/ Pass \/ Signal \/ HaproxyExits

\* Both threads keep running.
ASpec == AInit /\ [][ANext]_avars /\ WF_avars(MainStep) /\ WF_avars(Tick)
-----------------------------------------------------------------------------
(* Properties *)

\* Type correctness of both threads' state.
ATypeOK ==
    /\ clock \in Nat /\ exits \in Nat /\ faults \in Nat
    /\ mpc \in {"ensure", "reset", "reset_since", "spawn", "start", "first_probe",
                "verified", "online", "probing", "suspect", "leaving", "stopped"}
    /\ stopping \in BOOLEAN /\ lock \in {"free", "main"}
    /\ health \in Health /\ up \in BOOLEAN /\ restarted \in BOOLEAN
    /\ limit \in 1..Ceiling /\ maxconn \in 1..Ceiling
    /\ since \in Nat
    /\ tpc \in {"sleep", "stat", "update", "window", "grow", "store", "restamp",
                "back_off", "back_off_since", "result", "apply", "fallback",
                "publish", "dead", "ended"}
    /\ tick \in Ticks /\ streak \in [from : Nat, to : Nat]

\* The healthy time that k steps of the budget take.
Cost(k) == k * Window

\* Every step of the budget above 1 has been earned by a full window of an
\* unbroken row of healthy, queue-free ticks, whatever the main thread's reset
\* does between the reads and writes of update().
AllowanceIsEarned == Cost(limit - 1) <= streak.to - streak.from

\* A tick during which HAProxy was not restarted reports what HAProxy has: if
\* the report says applied, the limit in force is the one it names, and never
\* a larger one until the next tick.
ReportIsTrue ==
    tpc = "sleep" /\ up /\ health.applied /\ ~restarted =>
        maxconn <= health.write_limit

\* Back-off reaches HAProxy: once readiness is withdrawn, the limit in force
\* becomes 1, unless readiness returns first, the process stops, or the control
\* thread has died (UpdateWindow).
BackOffReachesProxy ==
    ~health.ready ~> \/ maxconn = 1 \/ health.ready
                     \/ stopping \/ tpc = "dead"
=============================================================================

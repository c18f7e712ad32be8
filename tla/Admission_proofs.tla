-------------------------- MODULE Admission_proofs --------------------------
(***************************************************************************)
(* The write budget is earned for every ceiling and every window, although *)
(* two threads update it without a lock.                                   *)
(***************************************************************************)
EXTENDS Admission, TLAPS

NumbersOK ==
    /\ clock \in Nat \ {0} /\ since \in Nat /\ limit \in Nat \ {0}
    /\ tick \in Ticks /\ streak \in [from : Nat, to : Nat]

\* Positions of the thread with a healthy verdict, inside and after update().
Updating == {"update", "window", "grow", "store", "restamp"}

\* The clock, the tick and the streak are in order.
TimesFit ==
    /\ streak.from <= streak.to /\ streak.to <= clock
    /\ tick.now <= clock
    /\ tpc = "stat" => streak.to <= tick.now /\ tick.now # Never
    /\ tpc \in Updating => streak.to = tick.now /\ streak # NoStreak
    /\ streak = NoStreak \/ streak.from # Never

\* What has been paid for when healthy_since was stamped, and what the locals
\* of update() will pay for.  Between the writes of limit and of healthy_since
\* the stamp is out of date.
StampFits ==
    since # Never /\ tpc \notin {"restamp", "back_off_since", "ended"} =>
        /\ streak # NoStreak /\ streak.from <= since /\ since <= streak.to
        /\ Cost(limit - 1) <= since - streak.from

GrowthFits ==
    /\ tpc = "grow" => Cost(limit) <= tick.now - streak.from
    /\ tpc = "store" => /\ tick.limit \in Nat \ {0}
                        /\ Cost(tick.limit - 1) <= tick.now - streak.from

AInv == NumbersOK /\ TimesFit /\ StampFits /\ GrowthFits /\ AllowanceIsEarned

LEMMA CostFacts ==
    /\ Cost(0) = 0
    /\ \A a \in Nat : Cost(a) \in Nat /\ Cost(a + 1) = Cost(a) + Window
    /\ \A a, b \in Nat : a <= b => Cost(a) <= Cost(b)
<1>1. Window \in Nat \ {0}
  BY AdmissionSettings
<1>2. Cost(0) = 0
  BY <1>1, SMTT(60) DEF Cost
<1>3. \A a \in Nat : Cost(a) \in Nat /\ Cost(a + 1) = Cost(a) + Window
  BY <1>1, SMTT(60) DEF Cost
<1>4. \A a, b \in Nat : a <= b => Cost(a) <= Cost(b)
  BY <1>1, SMTT(60) DEF Cost
<1> QED BY <1>2, <1>3, <1>4

\* What the main thread and the environment do to the budget: at most a reset.
LEMMA OthersKeep ==
    ASSUME AInv,
           MainStep \/ Pass \/ Signal \/ HaproxyExits \/ UNCHANGED avars
    PROVE  AInv'
<1> USE CostFacts DEF AInv, NumbersOK, TimesFit, StampFits, GrowthFits, AllowanceIsEarned,
        Updating, Ticks, Never, NoStreak
<1>1. CASE ResetLimit
  BY <1>1, SMTT(60) DEF ResetLimit, thread
<1>2. CASE ResetSince
  BY <1>2, SMTT(60) DEF ResetSince, thread
<1>3. CASE Exit
  BY <1>3, SMTT(60) DEF Exit, budget, NoTick
<1>4. CASE Pass
  BY <1>4, SMTT(60) DEF Pass, thread, budget
<1>5. CASE UNCHANGED <<clock, budget, thread>>
  BY <1>5, SMTT(60) DEF thread, budget
<1> QED BY <1>1, <1>2, <1>3, <1>4, <1>5, ZenonT(60)
    DEF MainStep, EnsureHaproxy, StartHaproxy, GoOnline, StartProbe, ProbePasses, ProbeFails,
        FindExit, Suspect, Stop, Signal, HaproxyExits, avars

\* What an assignment to a local of tick() leaves as it was; B stands for
\* BOOLEAN.
LEMMA TickAssigned ==
    ASSUME NEW B, NEW t \in [now : Nat, healthy : B, limit : Nat, error : B],
           NEW n \in Nat, NEW b \in B, NEW c \in B,
           NEW u, \/ u = [t EXCEPT !.now = n, !.error = c, !.healthy = b]
                  \/ u = [t EXCEPT !.limit = n]
                  \/ u = [t EXCEPT !.error = c]
    PROVE  u \in [now : Nat, healthy : B, limit : Nat, error : B]
<1>1. CASE u = [t EXCEPT !.now = n, !.error = c, !.healthy = b]
  <2>1. /\ DOMAIN u = {"now", "healthy", "limit", "error"}
        /\ u = [x \in {"now", "healthy", "limit", "error"} |-> u[x]]
    <3>1. DOMAIN t = {"now", "healthy", "limit", "error"}
      BY SMTT(60)
    <3>2. u = [x \in DOMAIN t |-> u[x]]
      BY <1>1, ZenonT(60)
    <3> QED BY <3>1, <3>2, ZenonT(60)
  <2>2. u.now = n /\ u.healthy = b /\ u.error = c /\ u.limit = t.limit
    BY <1>1, SMTT(60)
  <2> QED BY <2>1, <2>2, SMTT(60)
<1>2. CASE u = [t EXCEPT !.limit = n]
  BY <1>2, SMTT(60)
<1>3. CASE u = [t EXCEPT !.error = c]
  BY <1>3, SMTT(60)
<1> QED BY <1>1, <1>2, <1>3

\* A budget that grows by one, up to its ceiling.
LEMMA LeastFacts ==
    ASSUME NEW a \in Nat \ {0}, NEW b \in Nat \ {0}
    PROVE  /\ Least(a, b + 1) \in Nat \ {0} /\ Least(a, b + 1) - 1 \in Nat
           /\ Least(a, b + 1) - 1 <= b
  BY SMTT(60) DEF Least

\* The steps of a tick, one read or write of the budget each.
LEMMA TickKeeps ==
    ASSUME AInv, Tick
    PROVE  AInv'
<1> USE CostFacts, AdmissionSettings
    DEF AInv, NumbersOK, TimesFit, StampFits, GrowthFits, AllowanceIsEarned, Updating,
        Ticks, Never, NoStreak, quiet, budget
<1>1. CASE Snapshot
  <2>1. tick' \in Ticks /\ tick'.now = clock /\ tick'.limit = tick.limit
    <3>1. PICK b \in BOOLEAN :
            tick' = [tick EXCEPT !.now = clock, !.error = FALSE, !.healthy = b]
      BY <1>1, ZenonT(60) DEF Snapshot
    <3>2. tick' \in Ticks
      BY <3>1, TickAssigned, ZenonT(60)
    <3> QED BY <3>1, <3>2, SMTT(60)
  <2> QED BY <1>1, <2>1, SMTT(60) DEF Snapshot
<1>2. CASE ReadStats
  BY <1>2, SMTT(60) DEF ReadStats
<1>3. CASE UpdateHealthy
  <2>1. CASE since = Never
    <3>1. since' = streak.to /\ UNCHANGED <<clock, limit, tick, streak>> /\ tpc' = "result"
      BY <1>3, <2>1, SMTT(60) DEF UpdateHealthy
    <3>2. streak # NoStreak
      BY <1>3, SMTT(60) DEF UpdateHealthy
    <3> QED BY <3>1, <3>2, SMTT(60)
  <2>2. CASE since # Never
    BY <1>3, <2>2, SMTT(60) DEF UpdateHealthy
  <2> QED BY <2>1, <2>2
<1>4. CASE UpdateWindow
  BY <1>4, SMTT(60) DEF UpdateWindow
<1>5. CASE UpdateReadLimit
  <2> DEFINE next == Least(Ceiling, limit + 1)
  <2>1. next \in Nat \ {0} /\ next - 1 \in Nat /\ next - 1 <= limit
    <3>1. Ceiling \in Nat \ {0}
      BY AdmissionSettings
    <3> QED BY <3>1, LeastFacts
  <2>2. Cost(next - 1) <= Cost(limit)
    BY <2>1, SMTT(60)
  <2>3. tick' = [tick EXCEPT !.limit = next] /\ tpc = "grow" /\ tpc' = "store"
        /\ UNCHANGED <<clock, limit, since, streak>>
    BY <1>5, SMTT(60) DEF UpdateReadLimit
  <2> HIDE DEF next
  <2>4. tick' \in Ticks
    <3>1. next \in Nat /\ TRUE \in BOOLEAN
      BY <2>1
    <3> QED BY <2>3, <3>1, TickAssigned, ZenonT(60)
  <2>5. tick'.limit = next /\ tick'.now = tick.now
    BY <2>1, <2>3, <2>4, SMTT(60)
  <2> QED BY <2>1, <2>2, <2>3, <2>4, <2>5, SMTT(60)
<1>6. CASE UpdateStoreLimit
  BY <1>6, SMTT(60) DEF UpdateStoreLimit
<1>7. CASE UpdateRestamp
  BY <1>7, SMTT(60) DEF UpdateRestamp
<1>8. CASE BackOff
  BY <1>8, SMTT(60) DEF BackOff
<1>9. CASE BackOffSince
  BY <1>9, SMTT(60) DEF BackOffSince
<1>10. CASE UpdateResult
  BY <1>10, SMTT(60) DEF UpdateResult
<1>11. CASE Apply
  BY <1>11, SMTT(60) DEF Apply
<1>12. CASE CommandFails
  <2>1. tick' \in Ticks /\ tick'.now = tick.now /\ tick'.limit = tick.limit
    <3>1. tick' = [tick EXCEPT !.error = TRUE]
      BY <1>12 DEF CommandFails
    <3>2. tick' \in Ticks
      BY <3>1, TickAssigned, ZenonT(60)
    <3> QED BY <3>1, <3>2, SMTT(60)
  <2> QED BY <1>12, <2>1, SMTT(60) DEF CommandFails
<1>13. CASE Fallback
  BY <1>13, SMTT(60) DEF Fallback
<1>14. CASE Publish
  BY <1>14, SMTT(60) DEF Publish, NoTick
<1> QED BY <1>1, <1>2, <1>3, <1>4, <1>5, <1>6, <1>7, <1>8, <1>9, <1>10, <1>11, <1>12, <1>13, <1>14, ZenonT(60) DEF Tick

\* The inductive invariant of the budget.
THEOREM BudgetInvariance == ASpec => []AInv
<1>1. AInit => AInv
  BY CostFacts, SMTT(60)
  DEF AInit, AInv, NumbersOK, TimesFit, StampFits, GrowthFits, AllowanceIsEarned, Updating,
      Ticks, Never, NoStreak, NoTick
<1>2. AInv /\ [ANext]_avars => AInv'
  BY OthersKeep, TickKeeps, ZenonT(60) DEF ANext
<1> QED BY <1>1, <1>2, PTL DEF ASpec

\* However tick() and _ensure_haproxy interleave their accesses to WriteBudget,
\* the limit is never larger than the healthy time pays for.
THEOREM BudgetIsEarned == ASpec => []AllowanceIsEarned
<1>1. AInv => AllowanceIsEarned
  BY DEF AInv
<1> QED BY <1>1, BudgetInvariance, PTL

-----------------------------------------------------------------------------
(* Types.                                                                  *)

\* A record with the fields of HealthState; B stands for BOOLEAN.
LEMMA HealthRecord ==
    ASSUME NEW B, NEW v,
           v = [x \in {"ready", "probing", "probedAt", "slow", "write_limit", "applied"} |-> v[x]],
           v.ready \in B, v.probing \in Nat, v.probedAt \in Nat, v.slow \in B,
           v.write_limit \in Nat, v.applied \in B
    PROVE  v \in [ready : B, probing : Nat, probedAt : Nat, slow : B,
                  write_limit : Nat, applied : B]
BY SMTT(30)

\* What a setter of HealthState leaves as it was.
LEMMA HealthAssigned ==
    ASSUME NEW B,
           NEW h \in [ready : B, probing : Nat, probedAt : Nat, slow : B,
                      write_limit : Nat, applied : B],
           NEW m \in Nat, NEW c \in Nat, NEW b \in B,
           NEW u, \/ u = [h EXCEPT !.ready = b]
                  \/ u = [h EXCEPT !.probing = c]
                  \/ u = [h EXCEPT !.probing = m, !.probedAt = c, !.slow = b]
    PROVE  /\ u \in [ready : B, probing : Nat, probedAt : Nat, slow : B,
                     write_limit : Nat, applied : B]
           /\ u.applied = h.applied /\ u.write_limit = h.write_limit
<1> DEFINE F == {"ready", "probing", "probedAt", "slow", "write_limit", "applied"}
<1>0. /\ DOMAIN h = F
      /\ h.ready \in B /\ h.probing \in Nat /\ h.probedAt \in Nat /\ h.slow \in B
      /\ h.write_limit \in Nat /\ h.applied \in B
  BY SMTT(30)
<1>2. CASE u = [h EXCEPT !.ready = b]
  <2>1. u = [x \in F |-> u[x]]
    BY <1>0, <1>2, Zenon
  <2>2. /\ u.ready = b /\ u.probing = h.probing /\ u.probedAt = h.probedAt /\ u.slow = h.slow
        /\ u.write_limit = h.write_limit /\ u.applied = h.applied
    BY <1>0, <1>2, SMTT(30)
  <2> QED BY <1>0, <2>1, <2>2, HealthRecord, Zenon
<1>3. CASE u = [h EXCEPT !.probing = c]
  <2>1. u = [x \in F |-> u[x]]
    BY <1>0, <1>3, Zenon
  <2>2. /\ u.ready = h.ready /\ u.probing = c /\ u.probedAt = h.probedAt /\ u.slow = h.slow
        /\ u.write_limit = h.write_limit /\ u.applied = h.applied
    BY <1>0, <1>3, SMTT(30)
  <2> QED BY <1>0, <2>1, <2>2, HealthRecord, Zenon
<1>4. CASE u = [h EXCEPT !.probing = m, !.probedAt = c, !.slow = b]
  <2>1. u = [x \in F |-> u[x]]
    BY <1>0, <1>4, Zenon
  <2>2. /\ u.ready = h.ready /\ u.probing = m /\ u.probedAt = c /\ u.slow = b
        /\ u.write_limit = h.write_limit /\ u.applied = h.applied
    BY <1>0, <1>4, SMTT(30)
  <2> QED BY <1>0, <2>1, <2>2, HealthRecord, Zenon
<1> QED BY <1>2, <1>3, <1>4, Zenon

\* What set_admission writes.
LEMMA ReportAssigned ==
    ASSUME NEW B,
           NEW h \in [ready : B, probing : Nat, probedAt : Nat, slow : B,
                      write_limit : Nat, applied : B],
           NEW c \in Nat, NEW b \in B, NEW u, u = [h EXCEPT !.write_limit = c, !.applied = b]
    PROVE  /\ u \in [ready : B, probing : Nat, probedAt : Nat, slow : B,
                     write_limit : Nat, applied : B]
           /\ u.applied = b /\ u.write_limit = c
<1> DEFINE F == {"ready", "probing", "probedAt", "slow", "write_limit", "applied"}
<1>0. /\ DOMAIN h = F
      /\ h.ready \in B /\ h.probing \in Nat /\ h.probedAt \in Nat /\ h.slow \in B
      /\ h.write_limit \in Nat /\ h.applied \in B
  BY SMTT(30)
<1>1. u = [x \in F |-> u[x]]
  BY <1>0, Zenon
<1>2. /\ u.ready = h.ready /\ u.probing = h.probing /\ u.probedAt = h.probedAt /\ u.slow = h.slow
      /\ u.write_limit = c /\ u.applied = b
  BY <1>0, SMTT(30)
<1> QED BY <1>0, <1>1, <1>2, HealthRecord, Zenon

\* The record that set_admission writes is the thread's own.
SameReport == health'.applied = health.applied /\ health'.write_limit = health.write_limit

\* Every setter of the main thread and of the signal handler.
LEMMA EffectFacts ==
    ASSUME health \in Health, clock \in Nat,
           \/ health' = health
           \/ \E op \in {"online", "offline", "probe", "probed"} : health' = Effect(op, health)
    PROVE  health' \in Health /\ SameReport
<1>1. CASE health' = health
  BY <1>1 DEF SameReport
<1>2. CASE \E op \in {"online", "offline", "probe", "probed"} : health' = Effect(op, health)
  <2>1. PICK b \in BOOLEAN, m \in Nat :
          \/ health' = [health EXCEPT !.ready = b]
          \/ health' = [health EXCEPT !.probing = clock]
          \/ health' = [health EXCEPT !.probing = m, !.probedAt = clock, !.slow = b]
    <3>1. \E op \in {"online", "offline", "probe", "probed"} :
            /\ op = "online" => health' = [health EXCEPT !.ready = TRUE]
            /\ op = "offline" => health' = [health EXCEPT !.ready = FALSE]
            /\ op = "probe" => health' = [health EXCEPT !.probing = clock]
            /\ op = "probed" => health' = [health EXCEPT !.probing = Never, !.probedAt = clock,
                                             !.slow = clock - health.probing >= Slow]
      BY <1>2, SMTT(30) DEF Effect
    <3>2. Never \in Nat
      BY DEF Never
    <3>3. \/ health' = [health EXCEPT !.ready = TRUE]
          \/ health' = [health EXCEPT !.ready = FALSE]
          \/ health' = [health EXCEPT !.probing = clock]
          \/ health' = [health EXCEPT !.probing = Never, !.probedAt = clock,
                                      !.slow = clock - health.probing >= Slow]
      BY <3>1, Zenon
    <3>4. (clock - health.probing >= Slow) \in BOOLEAN
      BY AdmissionSettings DEF Health
    <3> QED BY <3>2, <3>3, <3>4, Zenon
  <2>3. health' \in Health /\ health'.applied = health.applied
        /\ health'.write_limit = health.write_limit
    BY <2>1, HealthAssigned, ZenonT(30) DEF Health
  <2> QED BY <2>3 DEF SameReport
<1> QED BY <1>1, <1>2

\* The types of the flags, and of the threads' places.
FlagsOK == stopping \in BOOLEAN /\ up \in BOOLEAN /\ restarted \in BOOLEAN
PlacesOK ==
    /\ lock \in {"free", "main"}
    /\ mpc \in {"ensure", "reset", "reset_since", "spawn", "start", "first_probe",
                "verified", "online", "probing", "suspect", "leaving", "stopped"}
    /\ tpc \in {"sleep", "stat", "update", "window", "grow", "store", "restamp",
                "back_off", "back_off_since", "result", "apply", "fallback",
                "publish", "dead", "ended"}

\* The limits a controller can have computed, and the counters of the model.
LimitsOK ==
    /\ limit \in 1..Ceiling /\ tick.limit \in 1..Ceiling /\ maxconn \in 1..Ceiling
    /\ exits \in Nat /\ faults \in Nat

\* Steps of the main thread and of the environment.
LEMMA MainTypes ==
    ASSUME AInv, FlagsOK, PlacesOK, MainStep \/ Pass \/ Signal \/ HaproxyExits
    PROVE  FlagsOK' /\ PlacesOK'
<1>1. CASE \/ EnsureHaproxy \/ ResetLimit \/ ResetSince \/ StartHaproxy \/ FindExit \/ Exit
           \/ Pass \/ Signal \/ HaproxyExits
  BY <1>1, ZenonT(60) DEF EnsureHaproxy, ResetLimit, ResetSince, StartHaproxy, FindExit, Exit,
     Pass, Signal, HaproxyExits, mainVars, proxyVars, thread, FlagsOK, PlacesOK
<1>2. CASE GoOnline \/ StartProbe \/ ProbePasses \/ ProbeFails \/ Suspect \/ Stop
  BY <1>2, ZenonT(60) DEF GoOnline, StartProbe, ProbePasses, ProbeFails, Suspect, Stop, Call,
     proxyVars, thread, FlagsOK, PlacesOK
<1> QED BY <1>1, <1>2, Zenon DEF MainStep

\* Steps of a tick.
LEMMA TickTypes ==
    ASSUME AInv, FlagsOK, PlacesOK, Tick
    PROVE  FlagsOK' /\ PlacesOK'
<1>1. CASE Snapshot \/ ReadStats \/ UpdateHealthy \/ UpdateWindow \/ UpdateReadLimit
  BY <1>1, ZenonT(60) DEF Snapshot, ReadStats, UpdateHealthy, UpdateWindow, UpdateReadLimit,
     quiet, mainVars, proxyVars, FlagsOK, PlacesOK
<1>2. CASE UpdateStoreLimit \/ UpdateRestamp \/ BackOff \/ BackOffSince \/ UpdateResult
  BY <1>2, ZenonT(60) DEF UpdateStoreLimit, UpdateRestamp, BackOff, BackOffSince, UpdateResult,
     quiet, mainVars, proxyVars, FlagsOK, PlacesOK
<1>3. CASE Apply \/ CommandFails \/ Fallback \/ Publish
  BY <1>3, ZenonT(60) DEF Apply, CommandFails, Fallback, Publish, mainVars, proxyVars,
     FlagsOK, PlacesOK
<1> QED BY <1>1, <1>2, <1>3, Zenon DEF Tick

-----------------------------------------------------------------------------
(* The report of a tick.                                                   *)

\* HAProxy is down from the reset of the budget until it is started, so a limit
\* on its way to HAProxy is no larger than the budget unless HAProxy exits or
\* has been restarted, and an error is remembered until the report.
ReportFits ==
    /\ mpc \in {"reset", "reset_since", "spawn"} => ~up
    /\ tpc = "apply" /\ up /\ ~restarted => tick.limit <= limit
    /\ tpc = "fallback" => tick.error
    /\ tpc = "publish" /\ up /\ ~restarted /\ ~tick.error => maxconn <= limit
    /\ health.applied => 1 <= health.write_limit

ReportInv == LimitsOK /\ health \in Health /\ ReportFits /\ ReportIsTrue

\* A step that touches neither the budget, nor HAProxy, nor the report.
Apart ==
    /\ UNCHANGED <<up, maxconn, exits, limit, tpc, tick, faults, restarted>>
    /\ health' \in Health /\ SameReport
    /\ mpc' \in {"reset", "reset_since", "spawn"} => ~up

\* Most steps of the main thread and of the environment are of that kind.
LEMMA MainApart ==
    ASSUME AInv, ReportInv,
           MainStep \/ Pass \/ Signal,
           ~ResetLimit, ~StartHaproxy, ~Exit
    PROVE  Apart
<1>1. health \in Health /\ clock \in Nat
  BY DEF AInv, NumbersOK, ReportInv
<1>2. CASE GoOnline \/ StartProbe \/ ProbePasses \/ ProbeFails \/ Suspect \/ Stop \/ Signal
  <2>1. /\ health' = health \/ \E op \in {"online", "offline", "probe", "probed"} :
                                  health' = Effect(op, health)
        /\ UNCHANGED <<up, maxconn, exits, limit, tpc, tick, faults, restarted>>
    BY <1>2, ZenonT(30) DEF GoOnline, StartProbe, ProbePasses, ProbeFails, Suspect, Stop, Signal,
       Call, proxyVars, budget, thread
  <2>2. mpc' \in {"reset", "reset_since", "spawn"} => mpc' = mpc
    BY <1>2, ZenonT(30) DEF GoOnline, StartProbe, ProbePasses, ProbeFails, Suspect, Stop, Signal, Call
  <2>3. mpc' \in {"reset", "reset_since", "spawn"} => ~up
    BY <2>2, Zenon DEF ReportInv, ReportFits
  <2> QED BY <1>1, <2>1, <2>3, EffectFacts, Zenon DEF Apart
<1>3. CASE EnsureHaproxy \/ ResetSince \/ FindExit \/ Pass
  <2>1. /\ health' = health
        /\ UNCHANGED <<up, maxconn, exits, limit, tpc, tick, faults, restarted>>
    BY <1>3, ZenonT(30) DEF EnsureHaproxy, ResetSince, FindExit, Pass, proxyVars, budget, thread
  <2>2. mpc' \in {"reset", "reset_since", "spawn"} => ~up
    BY <1>3, ZenonT(30) DEF EnsureHaproxy, ResetSince, FindExit, Pass, mainVars, ReportInv, ReportFits
  <2> QED BY <1>1, <2>1, <2>2, Zenon DEF Apart, SameReport
<1> QED BY <1>2, <1>3, Zenon DEF MainStep

\* What a tick does on its way to HAProxy.
LEMMA TickReport ==
    ASSUME AInv, AInv', ReportInv, Tick
    PROVE  ReportInv'
<1>0. /\ Ceiling \in Nat \ {0} /\ 1 \in 1..Ceiling /\ limit \in 1..Ceiling
      /\ tick \in Ticks /\ limit \in Nat /\ 1 <= limit
  BY AdmissionSettings, SMTT(30) DEF AInv, NumbersOK, ReportInv, LimitsOK
<1> DEFINE Inside == {"stat", "update", "window", "grow", "store", "restamp", "back_off",
                      "back_off_since", "result", "dead"}
<1>1. ASSUME tpc' \in Inside, limit' \in 1..Ceiling, tick'.limit \in 1..Ceiling,
             UNCHANGED <<mpc, up, maxconn, exits, health, faults>>
      PROVE  ReportInv'
  <2>1. LimitsOK' /\ health' \in Health
    BY <1>1, SMTT(30) DEF ReportInv, LimitsOK
  <2>2. ReportFits' /\ ReportIsTrue'
    BY <1>1, ZenonT(30) DEF ReportInv, ReportFits, ReportIsTrue
  <2> QED BY <2>1, <2>2 DEF ReportInv
<1>2. CASE ReadStats \/ UpdateHealthy \/ UpdateWindow \/ UpdateStoreLimit \/ UpdateRestamp \/ BackOff
  <2>1. /\ tpc' \in Inside /\ tick' = tick /\ limit' \in {limit, tick.limit, 1}
        /\ UNCHANGED <<mpc, up, maxconn, exits, health, faults>>
    BY <1>2, ZenonT(30) DEF ReadStats, UpdateHealthy, UpdateWindow, UpdateStoreLimit, UpdateRestamp,
       BackOff, quiet, mainVars, proxyVars, budget
  <2>2. limit' \in 1..Ceiling /\ tick'.limit \in 1..Ceiling
    BY <1>0, <2>1, Zenon DEF ReportInv, LimitsOK
  <2> QED BY <1>1, <2>1, <2>2
<1>3. CASE Snapshot \/ UpdateReadLimit
  <2>1. /\ tpc' \in Inside /\ limit' = limit
        /\ UNCHANGED <<mpc, up, maxconn, exits, health, faults>>
    BY <1>3, ZenonT(30) DEF Snapshot, UpdateReadLimit, quiet, mainVars, proxyVars, budget
  <2>2. tick'.limit = tick.limit \/ tick'.limit = Least(Ceiling, limit + 1)
    <3>1. CASE Snapshot
      <4>1. PICK b : tick' = [tick EXCEPT !.now = clock, !.error = FALSE, !.healthy = b]
        BY <3>1, Zenon DEF Snapshot
      <4> QED BY <1>0, <4>1, SMTT(30) DEF Ticks
    <3>2. CASE UpdateReadLimit
      BY <1>0, <3>2, SMTT(30) DEF UpdateReadLimit, Ticks
    <3> QED BY <1>3, <3>1, <3>2
  <2>3. Least(Ceiling, limit + 1) \in 1..Ceiling
    BY <1>0, SMTT(30) DEF Least
  <2> QED BY <1>0, <1>1, <2>1, <2>2, <2>3 DEF ReportInv, LimitsOK
<1>4. CASE CommandFails
  <2>1. /\ tpc' = "back_off" /\ maxconn' \in {maxconn, tick.limit}
        /\ faults' = faults \/ faults' = faults + 1
        /\ UNCHANGED <<mpc, up, exits, health, limit>>
    BY <1>4, ZenonT(30) DEF CommandFails, mainVars, budget
  <2>2. tick'.limit = tick.limit
    BY <1>0, <1>4, SMTT(30) DEF CommandFails, Ticks
  <2>3. LimitsOK' /\ health' \in Health
    BY <1>0, <2>1, <2>2, SMTT(30) DEF ReportInv, LimitsOK
  <2>4. ReportFits' /\ ReportIsTrue'
    BY <2>1, ZenonT(30) DEF ReportInv, ReportFits, ReportIsTrue
  <2> QED BY <2>3, <2>4 DEF ReportInv
<1>5. CASE BackOffSince
  <2>1. /\ tpc' = "result" \/ (tpc' = "fallback" /\ tick.error)
        /\ tick' = tick /\ UNCHANGED <<mpc, up, maxconn, exits, health, faults, limit>>
    BY <1>5, ZenonT(30) DEF BackOffSince, quiet, mainVars, proxyVars
  <2>2. LimitsOK' /\ health' \in Health
    BY <2>1, SMTT(30) DEF ReportInv, LimitsOK
  <2>3. ReportFits' /\ ReportIsTrue'
    BY <2>1, ZenonT(30) DEF ReportInv, ReportFits, ReportIsTrue
  <2> QED BY <2>2, <2>3 DEF ReportInv
<1>6. CASE UpdateResult
  <2>1. /\ tpc' = "apply" /\ UNCHANGED <<mpc, up, maxconn, exits, health, faults, limit, restarted>>
    BY <1>6, ZenonT(30) DEF UpdateResult, quiet, mainVars, proxyVars, budget
  <2>2. tick'.limit = limit /\ tick'.limit <= limit'
    BY <1>0, <1>6, <2>1, SMTT(30) DEF UpdateResult, Ticks
  <2>3. LimitsOK' /\ health' \in Health
    BY <1>0, <2>1, <2>2, SMTT(30) DEF ReportInv, LimitsOK
  <2>4. ReportFits' /\ ReportIsTrue'
    BY <2>1, <2>2, ZenonT(30) DEF ReportInv, ReportFits, ReportIsTrue
  <2> QED BY <2>3, <2>4 DEF ReportInv
<1>7. CASE Apply
  <2>1. /\ tpc = "apply" /\ tpc' = "publish" /\ maxconn' = tick.limit /\ up
        /\ UNCHANGED <<mpc, up, exits, health, faults, limit, restarted, tick>>
    BY <1>7, ZenonT(30) DEF Apply, mainVars, budget
  <2>2. LimitsOK' /\ health' \in Health
    BY <2>1, SMTT(30) DEF ReportInv, LimitsOK
  <2>3. ReportFits' /\ ReportIsTrue'
    BY <2>1, ZenonT(30) DEF ReportInv, ReportFits, ReportIsTrue
  <2> QED BY <2>2, <2>3 DEF ReportInv
<1>8. CASE Fallback
  <2>1. /\ tpc = "fallback" /\ tpc' = "publish" /\ maxconn' \in {1, maxconn}
        /\ faults' = faults \/ faults' = faults + 1
        /\ UNCHANGED <<mpc, up, exits, health, limit, restarted, tick>>
    BY <1>8, ZenonT(30) DEF Fallback, mainVars, budget
  <2>2. LimitsOK' /\ health' \in Health
    BY <1>0, <2>1, SMTT(30) DEF ReportInv, LimitsOK
  <2>3. ReportFits' /\ ReportIsTrue'
    BY <2>1, ZenonT(30) DEF ReportInv, ReportFits, ReportIsTrue
  <2> QED BY <2>2, <2>3 DEF ReportInv
<1>9. CASE Publish
  <2>1. /\ tpc = "publish" /\ tpc' = "sleep" /\ tick' = NoTick
        /\ health' = [health EXCEPT !.write_limit = limit, !.applied = ~tick.error]
        /\ UNCHANGED <<mpc, up, maxconn, exits, faults, limit, restarted>>
    BY <1>9, ZenonT(30) DEF Publish, mainVars, proxyVars, budget
  <2>2. (~tick.error) \in BOOLEAN
    BY Zenon
  <2>3. /\ health' \in Health /\ (health'.applied <=> ~tick.error)
        /\ health'.write_limit = limit
    BY <1>0, <2>1, <2>2, ReportAssigned, ZenonT(30) DEF ReportInv, Health
  <2>4. LimitsOK'
    BY <1>0, <2>1, SMTT(30) DEF ReportInv, LimitsOK, NoTick
  <2>5. ReportFits' /\ ReportIsTrue'
    BY <1>0, <2>1, <2>3, ZenonT(30) DEF ReportInv, ReportFits, ReportIsTrue
  <2> QED BY <2>3, <2>4, <2>5 DEF ReportInv
<1> QED BY <1>2, <1>3, <1>4, <1>5, <1>6, <1>7, <1>8, <1>9, Zenon DEF Tick

\* Every step keeps the limits in range and the report true.
LEMMA ReportStep ==
    ASSUME AInv, AInv', ReportInv, [ANext]_avars
    PROVE  ReportInv'
<1>0. Ceiling \in Nat \ {0} /\ 1 \in 1..Ceiling /\ limit \in Nat
  BY AdmissionSettings DEF ReportInv, LimitsOK
<1>1. CASE Apart
  <2>1. LimitsOK' /\ health' \in Health
    BY <1>1, SMTT(30) DEF Apart, ReportInv, LimitsOK
  <2>2. ReportFits' /\ ReportIsTrue'
    BY <1>1, ZenonT(30) DEF Apart, SameReport, ReportInv, ReportFits, ReportIsTrue
  <2> QED BY <2>1, <2>2 DEF ReportInv
<1>2. CASE ResetLimit
  <2>1. /\ limit' = 1 /\ mpc = "reset" /\ mpc' = "reset_since" /\ ~up
        /\ UNCHANGED <<up, maxconn, exits, health, tpc, tick, faults, restarted>>
    BY <1>2, Zenon DEF ResetLimit, proxyVars, thread, ReportInv, ReportFits
  <2>2. LimitsOK' /\ health' \in Health
    BY <1>0, <2>1, SMTT(30) DEF ReportInv, LimitsOK
  <2>3. ReportFits' /\ ReportIsTrue'
    BY <2>1, ZenonT(30) DEF ReportInv, ReportFits, ReportIsTrue
  <2> QED BY <2>2, <2>3 DEF ReportInv
<1>3. CASE StartHaproxy
  <2>1. /\ maxconn' = 1 /\ mpc' = "start" /\ (restarted' <=> tpc # "sleep")
        /\ UNCHANGED <<exits, health, limit, tpc, tick, faults>>
    BY <1>3, Zenon DEF StartHaproxy, budget, thread
  <2>2. LimitsOK' /\ health' \in Health
    BY <1>0, <2>1, SMTT(30) DEF ReportInv, LimitsOK
  <2>3. ReportFits' /\ ReportIsTrue'
    BY <2>1, ZenonT(30) DEF ReportInv, ReportFits, ReportIsTrue
  <2> QED BY <2>2, <2>3 DEF ReportInv
<1>4. CASE Exit
  <2>1. /\ mpc' = "stopped" /\ tpc' = "ended" /\ tick' = NoTick
        /\ UNCHANGED <<up, maxconn, exits, health, limit, faults>>
    BY <1>4, Zenon DEF Exit, proxyVars, budget
  <2>2. LimitsOK' /\ health' \in Health
    BY <1>0, <2>1, SMTT(30) DEF ReportInv, LimitsOK, NoTick
  <2>3. ReportFits' /\ ReportIsTrue'
    BY <2>1, ZenonT(30) DEF ReportInv, ReportFits, ReportIsTrue
  <2> QED BY <2>2, <2>3 DEF ReportInv
<1>5. CASE HaproxyExits
  <2>1. /\ ~up' /\ exits' = exits + 1
        /\ UNCHANGED <<mpc, maxconn, health, limit, tpc, tick, faults, restarted>>
    BY <1>5, Zenon DEF HaproxyExits, mainVars, budget, thread
  <2>2. LimitsOK' /\ health' \in Health
    BY <1>0, <2>1, SMTT(30) DEF ReportInv, LimitsOK
  <2>3. ReportFits' /\ ReportIsTrue'
    BY <2>1, ZenonT(30) DEF ReportInv, ReportFits, ReportIsTrue
  <2> QED BY <2>2, <2>3 DEF ReportInv
<1>6. CASE Tick
  BY <1>6, TickReport
<1>7. CASE UNCHANGED avars
  <2>1. mpc' = mpc /\ Apart
    BY <1>7, Zenon DEF avars, mainVars, proxyVars, budget, thread, Apart, SameReport, ReportInv,
       ReportFits
  <2> QED BY <1>1, <2>1
<1> QED BY <1>1, <1>2, <1>3, <1>4, <1>5, <1>6, <1>7, MainApart, Zenon DEF ANext

\* The flags and the threads' places keep their types.
LEMMA FlagsStep == AInv /\ FlagsOK /\ PlacesOK /\ [ANext]_avars => FlagsOK' /\ PlacesOK'
<1>1. FlagsOK /\ PlacesOK /\ UNCHANGED avars => FlagsOK' /\ PlacesOK'
  BY Zenon DEF avars, mainVars, proxyVars, thread, FlagsOK, PlacesOK
<1> QED BY <1>1, MainTypes, TickTypes, Zenon DEF ANext

\* The limits, the report and the threads' places, in every reachable state.
THEOREM ReportInvariance == ASpec => [](FlagsOK /\ PlacesOK /\ ReportInv)
<1>1. AInit => FlagsOK /\ PlacesOK
  BY Zenon DEF AInit, FlagsOK, PlacesOK
<1>2. AInit => ReportInv
  <2> SUFFICES ASSUME AInit PROVE ReportInv
    OBVIOUS
  <2>1. LimitsOK
    BY AdmissionSettings, SMTT(30) DEF AInit, LimitsOK, NoTick
  <2>2. /\ health = [x \in {"ready", "probing", "probedAt", "slow", "write_limit", "applied"} |->
                       health[x]]
        /\ health.ready = FALSE /\ health.probing = 0 /\ health.probedAt = 0
        /\ health.slow = FALSE /\ health.write_limit = 0 /\ health.applied = FALSE
    BY SMTT(30) DEF AInit, Never
  <2>3. FALSE \in BOOLEAN /\ 0 \in Nat
    OBVIOUS
  <2>4. health \in Health
    BY <2>2, <2>3, HealthRecord, Zenon DEF Health
  <2>5. ReportFits /\ ReportIsTrue
    BY <2>2, Zenon DEF AInit, ReportFits, ReportIsTrue
  <2> QED BY <2>1, <2>4, <2>5 DEF ReportInv
<1>3. AInv /\ AInv' /\ FlagsOK /\ PlacesOK /\ ReportInv /\ [ANext]_avars
        => FlagsOK' /\ PlacesOK' /\ ReportInv'
  BY FlagsStep, ReportStep
<1> QED BY <1>1, <1>2, <1>3, BudgetInvariance, PTL DEF ASpec

\* Type correctness for every ceiling: no interleaving of the two threads takes
\* the write limit out of 1..Ceiling (WriteBudget.update, set_maxconn).
THEOREM AdmissionTypes == ASpec => []ATypeOK
<1>1. AInv /\ FlagsOK /\ PlacesOK /\ ReportInv => ATypeOK
  BY Zenon DEF AInv, NumbersOK, FlagsOK, PlacesOK, ReportInv, LimitsOK, ATypeOK
<1> QED BY <1>1, BudgetInvariance, ReportInvariance, PTL

\* A report that says applied is true of HAProxy until the next tick, although
\* the main thread resets the budget and restarts HAProxy without a lock.
THEOREM ReportsAreTrue == ASpec => []ReportIsTrue
<1>1. ReportInv => ReportIsTrue
  BY DEF ReportInv
<1> QED BY <1>1, ReportInvariance, PTL
=============================================================================

-------------------------- MODULE VolumeStability --------------------------
(***************************************************************************)
(* How a volume status becomes a verdict.  After SeaweedFS starts, the     *)
(* guardian samples /status until the same status was seen often enough    *)
(* and for long enough (_wait_for_stable_seaweed_volumes); an accepted     *)
(* start then has to pass a second period in which every sample passes     *)
(* (_stabilize_recovery).  Time is counted in seconds from the start of    *)
(* the wait; an inspection takes 0..MaxProbe seconds.                      *)
(***************************************************************************)
EXTENDS Integers

CONSTANTS
    Ids,              \* volumes
    Expected,         \* expected_readonly_volume_ids
    Stability,        \* recovery_stability_seconds
    AllReadonlyWait,  \* all_readonly_wait_seconds
    Interval,         \* recovery_probe_interval_seconds
    Required,         \* recovery_successes_required
    StartupTimeout,   \* startup_timeout_seconds
    MaxProbe          \* bound: the longest inspection

ASSUME Settings ==
    /\ {Stability, AllReadonlyWait, Interval, Required, StartupTimeout}
           \subseteq Nat \ {0}
    /\ MaxProbe \in Nat
    /\ Ids # {}

VARIABLES
    pc,         \* where the main thread is, or how the wait ended
    now,        \* time.monotonic()
    signature,  \* at most one: that of the last sample
    since,      \* stable_since
    successes,
    stopping,
    last,       \* history: the last payload
    steady,     \* history: the samples since the payload last changed
    clean       \* history: the samples since one failed or was unexpected

history == <<last, steady, clean>>
svars == <<pc, now, signature, since, successes, stopping, history>>

Ended == {"unexpected", "refused", "timeout", "interrupted", "failed", "serving"}
-----------------------------------------------------------------------------
(* The status page and what is read from it *)

\* What the volume server says of each volume; "bad" is an entry without an
\* integer Id or a Boolean ReadOnly.
Payloads == [Ids -> {"absent", "writable", "readonly", "bad"}]

NoPayload == [i \in Ids |-> "unknown"]

Listed(p) == {i \in Ids : p[i] # "absent"}
ReadOnly(p) == {i \in Ids : p[i] = "readonly"}

\* Any malformed entry fails the whole inspection.
WellFormed(p) == \A i \in Ids : p[i] # "bad"

Unexpected(p) == ReadOnly(p) \ Expected

\* The counts of parse_volume_status as sets: total > 0, readonly = total,
\* writable = 0 and unexpected_readonly > 0.
AllVolumesReadonly(p) ==
    /\ Listed(p) # {}
    /\ ReadOnly(p) = Listed(p)
    /\ Unexpected(p) # {}

Signature(p) ==
    {[id |-> i, readonly |-> i \in ReadOnly(p),
      expected |-> i \in ReadOnly(p) \cap Expected] : i \in Listed(p)}

-----------------------------------------------------------------------------
(* _wait_for_stable_seaweed_volumes *)

Larger(a, b) == IF a >= b THEN a ELSE b
Smaller(a, b) == IF a <= b THEN a ELSE b

\* Variant: the start-up timeout alone, however long the periods are.
DeadlineOfStartup == StartupTimeout

\* deadline, with the clock at 0 when the wait begins.
Deadline == Larger(StartupTimeout, AllReadonlyWait + Stability + Interval * Required)

RequiredStability(p) == IF AllVolumesReadonly(p) THEN AllReadonlyWait ELSE Stability

\* History: a run of samples, when it began and how many it has.
NoRun == [from |-> 0, samples |-> 0]
Extend(run, t) ==
    IF run.samples = 0 THEN [from |-> t, samples |-> 1]
    ELSE [run EXCEPT !.samples = @ + 1]
Covers(run, n, seconds) == run.samples >= n /\ now - run.from >= seconds

Observe(p, t) ==
    /\ last' = p
    /\ steady' = Extend(IF p = last THEN steady ELSE NoRun, t)
    /\ clean' = IF Unexpected(p) # {} THEN NoRun ELSE Extend(clean, t)

ObserveFailure == last' = NoPayload /\ steady' = NoRun /\ clean' = NoRun

SInit ==
    /\ pc = "sample" /\ now = 0 /\ stopping = FALSE
    /\ signature = {} /\ since = 0 /\ successes = 0
    /\ last = NoPayload /\ steady = NoRun /\ clean = NoRun

\* Variant: a failed inspection does not start the count again.
InspectFailsKeeping ==
    /\ pc = "sample" /\ ~stopping
    /\ \E d \in 0..MaxProbe : now' = now + d
    /\ ObserveFailure
    /\ pc' = "remaining"
    /\ UNCHANGED <<stopping, signature, since, successes>>

\* No answer, not HTTP 200, not JSON, or a malformed entry.
InspectFails ==
    /\ pc = "sample" /\ ~stopping
    /\ \E d \in 0..MaxProbe : now' = now + d
    /\ signature' = {} /\ since' = 0 /\ successes' = 0
    /\ ObserveFailure
    /\ pc' = "remaining"
    /\ UNCHANGED stopping

\* The verdict on p after n equal samples over e seconds.
VerdictOn(p, n, e) ==
    IF n < Required \/ e < RequiredStability(p) THEN "remaining"
    ELSE IF AllVolumesReadonly(p) THEN "refused"
    ELSE IF Unexpected(p) # {} THEN "unexpected" ELSE "accepted"

Inspect(p) ==
    /\ pc = "sample" /\ ~stopping /\ WellFormed(p)
    /\ \E d \in 0..MaxProbe : now' = now + d
    /\ IF signature # {Signature(p)}
       THEN signature' = {Signature(p)} /\ since' = now' /\ successes' = 1
       ELSE successes' = successes + 1 /\ UNCHANGED <<signature, since>>
    /\ pc' = VerdictOn(p, successes', now' - since')
    /\ Observe(p, now')
    /\ UNCHANGED stopping

\* Variant: no time left is not yet the end.
GiveUpLate ==
    /\ pc = "remaining" /\ now > Deadline
    /\ pc' = "timeout"
    /\ UNCHANGED <<now, signature, since, successes, stopping, history>>

GiveUp ==
    /\ pc = "remaining" /\ now >= Deadline
    /\ pc' = "timeout"
    /\ UNCHANGED <<now, signature, since, successes, stopping, history>>

\* Variant: sleeps past the deadline.
SleepWholeInterval ==
    /\ pc = "remaining" /\ now < Deadline
    /\ now' = IF stopping THEN now ELSE now + Interval
    /\ pc' = "sample"
    /\ UNCHANGED <<signature, since, successes, stopping, history>>

\* _interruptible_sleep(min(probe_interval, remaining)).
SleepUntilNext ==
    /\ pc = "remaining" /\ now < Deadline
    /\ now' = IF stopping THEN now ELSE now + Smaller(Interval, Deadline - now)
    /\ pc' = "sample"
    /\ UNCHANGED <<signature, since, successes, stopping, history>>

-----------------------------------------------------------------------------
(* _stabilize_recovery *)

StabilizeBegin ==
    /\ pc = "accepted"
    /\ since' = now /\ successes' = 0
    /\ pc' = "recover"
    /\ UNCHANGED <<now, signature, stopping, history>>

\* A storage probe, an inspection or the canary fails, here or between the
\* accepted status and the stabilization.
RecoveryFails ==
    /\ pc \in {"accepted", "recover"} /\ (pc = "recover" => ~stopping)
    /\ \E d \in 0..MaxProbe : now' = now + d
    /\ pc' = "failed"
    /\ ObserveFailure
    /\ UNCHANGED <<signature, since, successes, stopping>>

\* Variant: the status of a recovery sample is not examined.
RecoverySampleAnyStatus(p) ==
    /\ pc = "recover" /\ ~stopping /\ WellFormed(p)
    /\ \E d \in 0..MaxProbe : now' = now + d
    /\ successes' = successes + 1
    /\ pc' = IF successes' >= Required /\ now' - since >= Stability
             THEN "serving" ELSE "pause"
    /\ Observe(p, now')
    /\ UNCHANGED <<signature, since, stopping>>

\* Probes, status and canary pass: an unexpected read-only volume raises, any
\* other change of the status counts as a success.
RecoverySample(p) ==
    /\ pc = "recover" /\ ~stopping /\ WellFormed(p)
    /\ \E d \in 0..MaxProbe : now' = now + d
    /\ IF Unexpected(p) # {}
       THEN pc' = "failed" /\ UNCHANGED successes
       ELSE /\ successes' = successes + 1
            /\ pc' = IF successes' >= Required /\ now' - since >= Stability
                     THEN "serving" ELSE "pause"
    /\ Observe(p, now')
    /\ UNCHANGED <<signature, since, stopping>>

RecoveryPause ==
    /\ pc = "pause"
    /\ now' = IF stopping THEN now ELSE now + Interval
    /\ pc' = "recover"
    /\ UNCHANGED <<signature, since, successes, stopping, history>>

\* The loop condition of either wait.
Interrupted ==
    /\ pc \in {"sample", "recover"} /\ stopping
    /\ pc' = "interrupted"
    /\ UNCHANGED <<now, signature, since, successes, stopping, history>>

RequestStop ==
    /\ pc \notin Ended /\ ~stopping
    /\ stopping' = TRUE
    /\ UNCHANGED <<pc, now, signature, since, successes, history>>
-----------------------------------------------------------------------------
Step ==
    \/ InspectFails
    \/ \E p \in Payloads : Inspect(p)
    \/ GiveUp \/ SleepUntilNext
    \/ StabilizeBegin \/ RecoveryFails
    \/ \E p \in Payloads : RecoverySample(p)
    \/ RecoveryPause \/ Interrupted

SNext == Step \/ RequestStop

SSpec == SInit /\ [][SNext]_svars /\ WF_svars(Step)
-----------------------------------------------------------------------------
(* Properties *)

\* Type correctness of the wait's state; until there is a verdict the clock
\* passes the deadline by at most one inspection.
STypeOK ==
    /\ pc \in {"sample", "remaining", "accepted", "recover", "pause"} \cup Ended
    /\ now \in Nat /\ since \in Nat /\ successes \in Nat
    /\ signature \subseteq {Signature(p) : p \in Payloads}
    /\ pc \in {"sample", "remaining", "timeout"} => now <= Deadline + MaxProbe
    /\ stopping \in BOOLEAN
    /\ last \in {NoPayload} \cup Payloads
    /\ steady \in [from : Nat, samples : Nat]
    /\ clean \in [from : Nat, samples : Nat]

\* A verdict on the volumes (accept, treat as index damage, or refuse because
\* all of them are read-only) rests on Required consecutive inspections that
\* all returned the very status it is about, over the whole observation
\* period of that kind of status: no error, no volume that came, went or
\* changed in between.  A status with every volume read-only is neither
\* accepted nor taken for index damage.
VerdictIsSteady ==
    pc \in {"accepted", "unexpected", "refused"} =>
        /\ Covers(steady, Required, RequiredStability(last))
        /\ (pc = "refused") = AllVolumesReadonly(last)
        /\ (pc = "accepted") = (Unexpected(last) = {})

\* The endpoint is released for service only after two full periods, the
\* wait for a stable status and the stabilization, in which no inspection
\* failed and none showed an unexpected read-only volume.
ServingIsSustained ==
    pc = "serving" => Covers(clean, 2 * Required, 2 * Stability)

\* The wait gives up only on a status that did not settle: when it times out,
\* the last inspection failed, or the status changed so late that the period
\* it needs, or Required inspections at their slowest, did not fit before the
\* deadline.  A status that settles earlier always gets its verdict.
TimeoutMeansUnsettled ==
    pc = "timeout" =>
        /\ now >= AllReadonlyWait + Stability + Interval * Required
        /\ \/ last = NoPayload
           \/ now - steady.from < RequiredStability(last)
           \/ now - steady.from <= (Required - 1) * (Interval + MaxProbe)

\* The wait and the stabilization end, with a verdict, a timeout or the stop
\* that was requested, whatever the volume server answers.
WaitEnds == <>(pc \in Ended)
=============================================================================

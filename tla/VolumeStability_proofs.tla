----------------------- MODULE VolumeStability_proofs -----------------------
(***************************************************************************)
(* The verdicts of VolumeStability hold for every set of volumes and every *)
(* positive setting of the periods, not only for the checked instance.     *)
(***************************************************************************)
EXTENDS VolumeStability, TLAPS

\* While the status is awaited, the counters of the code are the history.
Waiting == {"sample", "remaining", "accepted", "unexpected", "refused", "timeout"}

\* The slowest cycle of one inspection and one sleep.
Cycle == Interval + MaxProbe

\* The counters describe the run of equal payloads that ends with last, and
\* that run is at most as old as its samples at their slowest.
CountersAreHistory ==
    pc \in Waiting =>
        IF last = NoPayload
        THEN signature = {} /\ steady = NoRun
        ELSE /\ last \in Payloads /\ WellFormed(last)
             /\ signature = {Signature(last)}
             /\ since = steady.from /\ successes = steady.samples
             /\ successes >= 1 /\ since <= now
             /\ pc = "sample" => now - since <= (successes - 1) * Cycle + Interval
             /\ pc # "sample" => now - since <= (successes - 1) * Cycle
             /\ pc = "remaining" =>
                    ~(successes >= Required /\ now - since >= RequiredStability(last))

\* The clean run contains the run of an acceptable payload, and from the
\* acceptance on also every sample of the stabilization.
CleanIsOlder ==
    /\ pc \in Waiting /\ last # NoPayload /\ Unexpected(last) = {} =>
           clean.samples >= steady.samples /\ clean.from <= steady.from
    /\ clean.samples > 0 => clean.from <= now
    /\ pc \in {"recover", "pause", "serving"} =>
           /\ clean.samples >= Required + successes
           /\ since - clean.from >= Stability

SInv ==
    /\ pc = "sample" => now <= Deadline
    /\ STypeOK /\ CountersAreHistory /\ CleanIsOlder
    /\ VerdictIsSteady /\ ServingIsSustained /\ TimeoutMeansUnsettled

\* Equal signatures of well-formed payloads mean equal payloads: what the
\* loop of _wait_for_stable_seaweed_volumes compares loses nothing.
LEMMA SignatureIdentifies ==
    ASSUME NEW p \in Payloads, NEW q \in Payloads, WellFormed(p), WellFormed(q),
           Signature(p) = Signature(q)
    PROVE  p = q
<1> DEFINE R(x, i) == [id |-> i, readonly |-> i \in ReadOnly(x),
                       expected |-> i \in ReadOnly(x) \cap Expected]
<1>1. \A i \in Ids : p[i] # "absent" => q[i] # "absent" /\ (p[i] = "readonly" <=> q[i] = "readonly")
  <2> SUFFICES ASSUME NEW i \in Ids, p[i] # "absent"
               PROVE  q[i] # "absent" /\ (p[i] = "readonly" <=> q[i] = "readonly")
    OBVIOUS
  <2>1. R(p, i) \in Signature(q)
    BY DEF Signature, Listed
  <2>2. PICK j \in Listed(q) : R(p, i) = R(q, j)
    BY <2>1 DEF Signature
  <2>3. i = j /\ (i \in ReadOnly(p) <=> j \in ReadOnly(q))
    BY <2>2
  <2> QED BY <2>3 DEF Listed, ReadOnly
<1>2. \A i \in Ids : q[i] # "absent" => p[i] # "absent"
  <2> SUFFICES ASSUME NEW i \in Ids, q[i] # "absent" PROVE p[i] # "absent"
    OBVIOUS
  <2>1. R(q, i) \in Signature(p)
    BY DEF Signature, Listed
  <2>2. PICK j \in Listed(p) : R(q, i) = R(p, j)
    BY <2>1 DEF Signature
  <2> QED BY <2>2 DEF Listed
<1>3. \A i \in Ids : p[i] = q[i]
  BY <1>1, <1>2 DEF Payloads, WellFormed
<1> QED BY <1>3 DEF Payloads

LEMMA Initially == SInit => SInv
<1> SUFFICES ASSUME SInit PROVE SInv
  OBVIOUS
<1>1. Deadline \in Nat /\ MaxProbe \in Nat
  BY Settings DEF Deadline, Larger
<1>2. STypeOK
  <2>1. stopping \in BOOLEAN
    BY Zenon DEF SInit
  <2> QED BY <1>1, <2>1 DEF SInit, STypeOK, NoRun
<1>3. CountersAreHistory /\ CleanIsOlder
  BY DEF SInit, CountersAreHistory, CleanIsOlder, NoRun
<1>4. VerdictIsSteady /\ ServingIsSustained /\ TimeoutMeansUnsettled
  BY DEF SInit, VerdictIsSteady, ServingIsSustained, TimeoutMeansUnsettled
<1> QED BY <1>1, <1>2, <1>3, <1>4 DEF SInv, SInit

\* NoPayload, which the loop starts from and an error returns to, is no answer
\* of the volume server.
LEMMA NoPayloadIsNone == NoPayload \notin Payloads
BY Settings DEF NoPayload, Payloads

\* One more sample of at most MaxProbe seconds keeps a run within its bound.
LEMMA OneMoreCycle ==
    ASSUME NEW k \in Nat, NEW e \in Int, NEW d \in 0..MaxProbe, k >= 1,
           e <= (k - 1) * Cycle + Interval
    PROVE  e + d <= ((k + 1) - 1) * Cycle
<1>1. Cycle \in Nat /\ Cycle = Interval + MaxProbe /\ MaxProbe \in Nat /\ Interval \in Nat
  BY Settings DEF Cycle
<1>2. ((k + 1) - 1) * Cycle = (k - 1) * Cycle + Cycle
  BY <1>1
<1> QED BY <1>1, <1>2

LEMMA InspectKeeps ==
    ASSUME SInv, NEW p \in Payloads, Inspect(p)
    PROVE  SInv'
<1> USE DEF SInv, Waiting
<1>0. /\ now \in Nat /\ since \in Nat /\ successes \in Nat /\ pc = "sample"
      /\ Stability \in Nat /\ AllReadonlyWait \in Nat /\ Interval \in Nat \ {0}
      /\ Required \in Nat \ {0} /\ MaxProbe \in Nat /\ Deadline \in Nat
  BY Settings DEF STypeOK, Inspect, Deadline, Larger
<1>1. PICK d \in 0..MaxProbe : now' = now + d
  BY DEF Inspect
<1>2. /\ last' = p /\ p # NoPayload /\ WellFormed(p) /\ signature' = {Signature(p)}
      /\ now' \in Nat /\ stopping' = stopping
  BY <1>0, <1>1, NoPayloadIsNone DEF Inspect, Observe
<1>3. /\ steady \in [from : Nat, samples : Nat]
      /\ clean \in [from : Nat, samples : Nat]
  BY DEF STypeOK
<1>4. /\ since' = steady'.from /\ successes' = steady'.samples /\ successes' \in Nat
      /\ successes' >= 1 /\ since' \in Nat /\ since' <= now'
      /\ now' - since' <= (successes' - 1) * Cycle
      /\ steady' \in [from : Nat, samples : Nat]
  <2>1. CASE signature = {Signature(p)}
    <3>1. last # NoPayload /\ last = p
      BY <2>1, <1>0, <1>2, SignatureIdentifies DEF CountersAreHistory
    <3>2. since' = since /\ successes' = successes + 1
      BY <2>1 DEF Inspect
    <3>3. /\ since = steady.from /\ successes = steady.samples /\ successes >= 1
          /\ since <= now /\ now - since <= (successes - 1) * Cycle + Interval
      BY <3>1, <1>0 DEF CountersAreHistory
    <3>4. steady' = [steady EXCEPT !.samples = @ + 1]
      BY <3>1, <3>3, <1>0 DEF Inspect, Observe, Extend
    <3>5. (now - since) + d <= ((successes + 1) - 1) * Cycle
      <4>1. now - since \in Int
        BY <1>0
      <4> QED BY <4>1, <3>3, <1>0, OneMoreCycle, ZenonT(60)
    <3>6. now' - since' = (now - since) + d
      BY <3>2, <1>0, <1>1
    <3>7. steady'.from = steady.from /\ steady'.samples = steady.samples + 1
          /\ steady' \in [from : Nat, samples : Nat]
      BY <3>4, <1>3
    <3> QED BY <3>2, <3>3, <3>5, <3>6, <3>7, <1>0, <1>1, <1>2
  <2>2. CASE signature # {Signature(p)}
    <3>1. last # p
      BY <2>2, <1>0, <1>2 DEF CountersAreHistory
    <3>2. steady' = [from |-> now', samples |-> 1]
      BY <3>1 DEF Inspect, Observe, Extend, NoRun
    <3>3. since' = now' /\ successes' = 1
      BY <2>2 DEF Inspect
    <3>4. (1 - 1) * Cycle = 0
      BY <1>0 DEF Cycle
    <3> QED BY <3>2, <3>3, <3>4, <1>2
  <2> QED BY <2>1, <2>2
<1>5. /\ clean' \in [from : Nat, samples : Nat]
      /\ Unexpected(p) = {} => clean'.samples >= steady'.samples /\ clean'.from <= steady'.from
      /\ clean'.samples > 0 => clean'.from <= now'
  <2>1. CASE Unexpected(p) # {}
    <3>1. clean' = NoRun
      BY <2>1 DEF Inspect, Observe
    <3> QED BY <2>1, <3>1 DEF NoRun
  <2>2. CASE Unexpected(p) = {}
    <3>1. clean' = Extend(clean, now') /\ steady' = Extend(IF p = last THEN steady ELSE NoRun, now')
      BY <2>2 DEF Inspect, Observe
    <3>2. CASE p = last
      <4>1. /\ clean.samples >= steady.samples /\ clean.from <= steady.from
            /\ steady.samples >= 1 /\ clean.from <= now
        BY <3>2, <2>2, <1>0, <1>2, <1>3 DEF CleanIsOlder, CountersAreHistory
      <4>2. /\ clean' = [clean EXCEPT !.samples = @ + 1]
            /\ steady' = [steady EXCEPT !.samples = @ + 1]
        BY <3>1, <3>2, <4>1, <1>3 DEF Extend
      <4> QED BY <4>1, <4>2, <1>0, <1>1, <1>3
    <3>3. CASE p # last
      <4>1. steady' = [from |-> now', samples |-> 1]
        BY <3>1, <3>3 DEF Extend, NoRun
      <4>2. CASE clean.samples = 0
        <5>1. clean' = [from |-> now', samples |-> 1]
          BY <3>1, <4>2 DEF Extend
        <5> QED BY <4>1, <5>1, <1>2
      <4>3. CASE clean.samples # 0
        <5>1. clean' = [clean EXCEPT !.samples = @ + 1] /\ clean.samples > 0
          BY <3>1, <4>3, <1>3 DEF Extend
        <5>2. clean.from <= now
          BY <5>1 DEF CleanIsOlder
        <5> QED BY <4>1, <5>1, <5>2, <1>0, <1>1, <1>3
      <4> QED BY <4>2, <4>3
    <3> QED BY <3>2, <3>3
  <2> QED BY <2>1, <2>2
<1>6. pc' = VerdictOn(p, successes', now' - since')
  BY DEF Inspect
<1>7. pc' \in {"remaining", "refused", "unexpected", "accepted"}
  BY <1>6 DEF VerdictOn
<1>8. RequiredStability(p) \in Nat
  BY <1>0 DEF RequiredStability
<1>9. /\ pc' # "remaining" => successes' >= Required /\ now' - since' >= RequiredStability(p)
      /\ pc' = "remaining" => ~(successes' >= Required /\ now' - since' >= RequiredStability(p))
      /\ pc' = "refused" => AllVolumesReadonly(p)
      /\ pc' # "remaining" /\ AllVolumesReadonly(p) => pc' = "refused"
      /\ pc' = "accepted" => Unexpected(p) = {}
      /\ pc' # "remaining" /\ Unexpected(p) = {} /\ ~AllVolumesReadonly(p) => pc' = "accepted"
  BY <1>6, <1>8, <1>4, <1>2, <1>0 DEF VerdictOn
<1>10. AllVolumesReadonly(p) => Unexpected(p) # {}
  BY DEF AllVolumesReadonly
<1>11. VerdictIsSteady'
  <2>1. pc' # "remaining" => steady'.samples >= Required /\ now' - steady'.from >= RequiredStability(p)
    BY <1>9, <1>4
  <2> QED BY <2>1, <1>2, <1>7, <1>9, <1>10 DEF VerdictIsSteady, Covers, RequiredStability, AllVolumesReadonly, Unexpected, ReadOnly, Listed
<1>12. now' <= Deadline + MaxProbe
  BY <1>0, <1>1 DEF STypeOK
<1>13. STypeOK'
  BY <1>2, <1>4, <1>5, <1>7, <1>12 DEF STypeOK, Ended
<1>14. CountersAreHistory'
  BY <1>2, <1>4, <1>7, <1>9, <1>0 DEF CountersAreHistory, RequiredStability, AllVolumesReadonly, Listed, ReadOnly, Unexpected, WellFormed, Signature
<1>15. CleanIsOlder'
  BY <1>2, <1>5, <1>7 DEF CleanIsOlder, Unexpected, ReadOnly
<1> QED BY <1>7, <1>11, <1>13, <1>14, <1>15 DEF ServingIsSustained, TimeoutMeansUnsettled

\* The other steps of the wait.
LEMMA WaitStepsKeep ==
    ASSUME SInv, InspectFails \/ GiveUp \/ SleepUntilNext
    PROVE  SInv'
<1> USE DEF SInv, Waiting
<1>0. /\ now \in Nat /\ since \in Nat /\ successes \in Nat
      /\ Stability \in Nat /\ AllReadonlyWait \in Nat /\ Interval \in Nat \ {0}
      /\ Required \in Nat \ {0} /\ MaxProbe \in Nat /\ Deadline \in Nat
      /\ Deadline >= AllReadonlyWait + Stability + Interval * Required
  BY Settings DEF STypeOK, Deadline, Larger
<1>1. CASE InspectFails
  <2>1. PICK d \in 0..MaxProbe : now' = now + d
    BY <1>1 DEF InspectFails
  <2>2. STypeOK'
    BY <1>0, <1>1, <2>1 DEF InspectFails, ObserveFailure, STypeOK, NoRun
  <2> QED
    BY <1>1, <2>2 DEF InspectFails, ObserveFailure, CountersAreHistory, CleanIsOlder,
       VerdictIsSteady, ServingIsSustained, TimeoutMeansUnsettled, NoRun
<1>2. CASE GiveUp
  <2>1. STypeOK'
    BY <1>0, <1>2 DEF GiveUp, STypeOK, Ended, history
  <2>2. CountersAreHistory'
    BY <1>2 DEF GiveUp, CountersAreHistory, history, RequiredStability,
       AllVolumesReadonly, Listed, ReadOnly, Unexpected, WellFormed, Signature
  <2>3. CleanIsOlder'
    BY <1>2 DEF GiveUp, CleanIsOlder, history, ReadOnly, Unexpected
  <2>4. last = NoPayload \/ now - steady.from < RequiredStability(last)
          \/ now - steady.from <= (Required - 1) * Cycle
    <3>1. SUFFICES ASSUME last # NoPayload, now - steady.from >= RequiredStability(last)
                   PROVE  now - steady.from <= (Required - 1) * Cycle
      BY <1>0 DEF STypeOK, RequiredStability
    <3>2. /\ since = steady.from /\ successes < Required
          /\ now - since <= (successes - 1) * Cycle
      BY <1>0, <1>2, <3>1 DEF GiveUp, CountersAreHistory
    <3>3. (successes - 1) * Cycle <= (Required - 1) * Cycle
      <4>1. Cycle \in Nat /\ (Required - 1) - (successes - 1) \in Nat
        BY <1>0, <3>2 DEF Cycle
      <4>2. ((Required - 1) - (successes - 1)) * Cycle >= 0
        BY <4>1
      <4>3. ((Required - 1) - (successes - 1)) * Cycle
               = (Required - 1) * Cycle - (successes - 1) * Cycle
        BY <4>1, <1>0
      <4>4. (Required - 1) * Cycle \in Int /\ (successes - 1) * Cycle \in Int
        BY <4>1, <1>0
      <4> QED BY <4>2, <4>3, <4>4
    <3>4. (Required - 1) * Cycle \in Int /\ (successes - 1) * Cycle \in Int
      BY <1>0 DEF Cycle
    <3> QED BY <3>2, <3>3, <3>4, <1>0
  <2>5. TimeoutMeansUnsettled'
    BY <1>0, <1>2, <2>4 DEF GiveUp, TimeoutMeansUnsettled, history, Cycle,
       RequiredStability, AllVolumesReadonly, Listed, ReadOnly, Unexpected
  <2> QED
    BY <1>2, <2>1, <2>2, <2>3, <2>5 DEF GiveUp, VerdictIsSteady, ServingIsSustained
<1>3. CASE SleepUntilNext
  <2>1. now' \in now..(now + Interval) /\ now' <= Deadline /\ now' \in Nat
    BY <1>0, <1>3 DEF SleepUntilNext, Smaller
  <2>2. STypeOK'
    BY <1>0, <1>3, <2>1 DEF SleepUntilNext, STypeOK, history
  <2>3. CountersAreHistory'
    <3>1. CASE last = NoPayload
      BY <1>3, <3>1 DEF SleepUntilNext, CountersAreHistory, history
    <3>2. CASE last # NoPayload
      <4>1. /\ now - since <= (successes - 1) * Cycle /\ since <= now
        BY <1>0, <1>3, <3>2 DEF SleepUntilNext, CountersAreHistory
      <4>2. (successes - 1) * Cycle \in Int
        BY <1>0 DEF Cycle
      <4>3. now' - since <= (successes - 1) * Cycle + Interval /\ since <= now'
        BY <4>1, <4>2, <2>1, <1>0
      <4> QED
        BY <1>3, <3>2, <4>3 DEF SleepUntilNext, CountersAreHistory, history, WellFormed, Signature, Listed, ReadOnly
    <3> QED BY <3>1, <3>2
  <2>4. CleanIsOlder'
    BY <1>0, <1>3, <2>1 DEF SleepUntilNext, CleanIsOlder, history, ReadOnly, Unexpected, STypeOK
  <2> QED
    BY <1>3, <2>1, <2>2, <2>3, <2>4 DEF SleepUntilNext, VerdictIsSteady, ServingIsSustained, TimeoutMeansUnsettled
<1> QED BY <1>1, <1>2, <1>3

\* The stabilization: its counters and the clean run grow together.
LEMMA RecoveryStepsKeep ==
    ASSUME SInv,
           \/ StabilizeBegin \/ RecoveryFails \/ RecoveryPause
           \/ \E p \in Payloads : RecoverySample(p)
    PROVE  SInv'
<1> USE DEF SInv, Waiting
<1>0. /\ now \in Nat /\ since \in Nat /\ successes \in Nat
      /\ Stability \in Nat /\ Interval \in Nat \ {0} /\ Required \in Nat \ {0}
      /\ MaxProbe \in Nat
      /\ steady \in [from : Nat, samples : Nat]
      /\ clean \in [from : Nat, samples : Nat]
  BY Settings DEF STypeOK
<1>1. CASE StabilizeBegin
  <2>1. last # NoPayload /\ Unexpected(last) = {} /\ ~AllVolumesReadonly(last)
        /\ Covers(steady, Required, Stability)
    <3>1. last # NoPayload
      BY <1>0, <1>1 DEF StabilizeBegin, VerdictIsSteady, Covers, CountersAreHistory, NoRun
    <3> QED
      BY <1>1, <3>1 DEF StabilizeBegin, VerdictIsSteady, RequiredStability, AllVolumesReadonly
  <2>2. clean.samples >= Required /\ now - clean.from >= Stability
    BY <1>0, <1>1, <2>1 DEF StabilizeBegin, CleanIsOlder, Covers
  <2>3. CleanIsOlder'
    BY <1>0, <1>1, <2>2 DEF StabilizeBegin, CleanIsOlder, history
  <2>4. STypeOK'
    BY <1>0, <1>1 DEF StabilizeBegin, STypeOK, history
  <2> QED
    BY <1>1, <2>3, <2>4 DEF StabilizeBegin, CountersAreHistory, VerdictIsSteady,
       ServingIsSustained, TimeoutMeansUnsettled
<1>2. CASE RecoveryFails
  <2>1. PICK d \in 0..MaxProbe : now' = now + d
    BY <1>2 DEF RecoveryFails
  <2>2. STypeOK'
    BY <1>0, <1>2, <2>1 DEF RecoveryFails, ObserveFailure, STypeOK, NoRun, Ended
  <2> QED
    BY <1>2, <2>2 DEF RecoveryFails, ObserveFailure, CountersAreHistory, CleanIsOlder,
       VerdictIsSteady, ServingIsSustained, TimeoutMeansUnsettled, NoRun
<1>3. CASE RecoveryPause
  <2>1. now' \in Nat /\ now' >= now
    BY <1>0, <1>3 DEF RecoveryPause
  <2>2. STypeOK' /\ CleanIsOlder'
    BY <1>0, <1>3, <2>1 DEF RecoveryPause, STypeOK, CleanIsOlder, history
  <2> QED
    BY <1>3, <2>2 DEF RecoveryPause, CountersAreHistory, VerdictIsSteady,
       ServingIsSustained, TimeoutMeansUnsettled
<1>4. ASSUME NEW p \in Payloads, RecoverySample(p)
      PROVE  SInv'
  <2>1. PICK d \in 0..MaxProbe : now' = now + d
    BY <1>4 DEF RecoverySample
  <2>2. /\ steady' \in [from : Nat, samples : Nat]
        /\ now' \in Nat /\ now' >= now /\ last' \in Payloads
    BY <1>0, <1>4, <2>1 DEF RecoverySample, Observe, Extend, NoRun
  <2>3. CASE Unexpected(p) # {}
    <3>1. clean' = NoRun /\ pc' = "failed" /\ successes' = successes
      BY <1>4, <2>3 DEF RecoverySample, Observe
    <3>2. STypeOK'
      BY <1>0, <1>4, <2>2, <3>1 DEF RecoverySample, STypeOK, NoRun, Ended
    <3> QED
      BY <3>1, <3>2 DEF CountersAreHistory, CleanIsOlder, VerdictIsSteady,
         ServingIsSustained, TimeoutMeansUnsettled, NoRun
  <2>4. CASE Unexpected(p) = {}
    <3>1. /\ clean.samples >= Required + successes /\ since - clean.from >= Stability
          /\ clean.from <= now
      BY <1>0, <1>4 DEF RecoverySample, CleanIsOlder
    <3>2. clean' = [clean EXCEPT !.samples = @ + 1] /\ successes' = successes + 1 /\ since' = since
      BY <1>0, <1>4, <2>4, <3>1 DEF RecoverySample, Observe, Extend
    <3>3. /\ clean' \in [from : Nat, samples : Nat]
          /\ clean'.samples >= Required + successes' /\ clean'.from = clean.from
      BY <1>0, <3>1, <3>2
    <3>4. pc' \in {"serving", "pause"}
          /\ (pc' = "serving" => successes' >= Required /\ now' - since >= Stability)
      BY <1>4, <2>4 DEF RecoverySample
    <3>5. STypeOK' /\ CleanIsOlder'
      BY <1>0, <1>4, <2>2, <3>1, <3>2, <3>3, <3>4 DEF RecoverySample, STypeOK, CleanIsOlder, Ended
    <3>6. ServingIsSustained'
      BY <1>0, <2>2, <3>1, <3>2, <3>3, <3>4 DEF ServingIsSustained, Covers
    <3> QED
      BY <3>4, <3>5, <3>6 DEF CountersAreHistory, VerdictIsSteady, TimeoutMeansUnsettled
  <2> QED BY <2>3, <2>4
<1> QED BY <1>1, <1>2, <1>3, <1>4

\* A stop request and the stop it leads to touch nothing the verdicts rest on.
LEMMA StopKeeps ==
    ASSUME SInv, Interrupted \/ RequestStop \/ UNCHANGED svars
    PROVE  SInv'
<1> USE DEF SInv, Waiting, history
<1>1. CASE Interrupted
  <2>1. STypeOK' /\ CleanIsOlder'
    BY <1>1 DEF Interrupted, STypeOK, CleanIsOlder, Ended
  <2> QED
    BY <1>1, <2>1 DEF Interrupted, CountersAreHistory, VerdictIsSteady,
       ServingIsSustained, TimeoutMeansUnsettled
<1>2. CASE UNCHANGED <<pc, now, signature, since, successes, last, steady, clean>> /\ stopping' \in BOOLEAN
  <2>1. STypeOK'
    BY <1>2 DEF STypeOK
  <2>2. CountersAreHistory'
    BY <1>2 DEF CountersAreHistory, RequiredStability, AllVolumesReadonly,
       Listed, ReadOnly, Unexpected, WellFormed, Signature
  <2>3. CleanIsOlder' /\ ServingIsSustained'
    BY <1>2 DEF CleanIsOlder, ServingIsSustained, Covers, ReadOnly, Unexpected
  <2>4. VerdictIsSteady'
    BY <1>2 DEF VerdictIsSteady, Covers, RequiredStability, AllVolumesReadonly,
       Listed, ReadOnly, Unexpected
  <2>5. TimeoutMeansUnsettled'
    BY <1>2 DEF TimeoutMeansUnsettled, RequiredStability, AllVolumesReadonly,
       Listed, ReadOnly, Unexpected
  <2> QED BY <1>2, <2>1, <2>2, <2>3, <2>4, <2>5
<1>3. stopping \in BOOLEAN
  BY DEF STypeOK
<1>4. CASE RequestStop
  <2>1. stopping' \in BOOLEAN
    BY <1>4, Zenon DEF RequestStop
  <2> QED BY <1>2, <1>4, <2>1 DEF RequestStop
<1>5. CASE UNCHANGED svars
  BY <1>2, <1>3, <1>5 DEF svars
<1> QED BY <1>1, <1>4, <1>5

\* The inductive invariant of the wait and the stabilization.
THEOREM StabilityInvariance == SSpec => []SInv
<1>1. SInv /\ [SNext]_svars => SInv'
  BY InspectKeeps, WaitStepsKeep, RecoveryStepsKeep, StopKeeps DEF SNext, Step
<1> QED BY <1>1, Initially, PTL DEF SSpec

\* The state of the wait keeps its types, and its loop overruns the deadline of
\* _wait_for_stable_seaweed_volumes by at most the inspection under way.
THEOREM WaitTypes == SSpec => []STypeOK
BY StabilityInvariance, PTL DEF SInv

\* A verdict of _wait_for_stable_seaweed_volumes rests on Required equal
\* inspections over the whole observation period, for every setting.
THEOREM VerdictsAreSteady == SSpec => []VerdictIsSteady
BY StabilityInvariance, PTL DEF SInv

\* _stabilize_recovery releases the endpoint only after two full clean periods.
THEOREM ServiceIsSustained == SSpec => []ServingIsSustained
BY StabilityInvariance, PTL DEF SInv

\* The deadline of the wait never cuts off a status that settled in time.
THEOREM TimeoutsAreUnsettled == SSpec => []TimeoutMeansUnsettled
BY StabilityInvariance, PTL DEF SInv
=============================================================================

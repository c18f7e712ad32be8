---------------------------- MODULE IndexRepair ----------------------------
(***************************************************************************)
(* The journaled repair of one volume's index (index_repair.py, driven by  *)
(* generation_guardian.py): the live .idx and .sdx, the authoritative      *)
(* .dat, the repair transactions with their candidate and backups, and the *)
(* operator's retry requests.  Every journal save and every rename is a    *)
(* step, and the guardian may be interrupted between any two of them.      *)
(*                                                                         *)
(* A file is its content: <<d, "own">> is an index SeaweedFS wrote for     *)
(* version d of the .dat, <<d, "fix">> the one weed fix rebuilds from it.  *)
(* Other volumes appear only as others: whether one awaits validation.     *)
(***************************************************************************)
EXTENDS Naturals, Sequences, FiniteSets

CONSTANTS
    MaxDat,        \* bound on versions of the .dat
    MaxTx,         \* bound on transactions
    Vias,          \* data transports, part of a source fingerprint
    RetryLimit,    \* PREINSTALL_RETRY_LIMIT
    TailRecovery   \* seaweed.auto_tail_recovery_enabled

ASSUME RepairAssumption ==
    /\ {MaxDat, MaxTx, RetryLimit} \subseteq Nat \ {0}
    /\ Vias # {}
    /\ TailRecovery \in BOOLEAN

VARIABLES
    pc,        \* where the guardian is
    cur,       \* the transaction in hand
    from,      \* who asked for the installation: "prepare" or "repair"
    auth,      \* retry_authorized / unfingerprinted_retry
    allow,     \* allow_identical_after_tail_recovery
    others,    \* another volume awaits validation
    via,       \* active_transport
    dat,       \* durable: version of the .dat
    live, sdx, \* durable: live .idx and .sdx
    txs,       \* durable: the journal, in order of creation
    rejected   \* history: sources whose candidate was rejected upstream

thread == <<pc, cur, from, auth, allow, others, via>>
files == <<dat, live, sdx>>
rvars == <<thread, files, txs, rejected>>

None == <<0, "none">>
Junk == <<0, "junk">>
Content == (1..MaxDat) \X {"own", "fix"}
Ids == 1..Len(txs)

\* "detected" to "candidate_building" are resumed alike: here "building".
Preinstall == {"building", "candidate_built", "backup_created", "failed_preinstall"}
Pending == {"candidate_installed", "awaiting"}
Terminal == {"verified", "manual", "resolved", "tail_recovered"}
Phases == Preinstall \cup Pending \cup Terminal \cup {"installing", "rolled_back"}

In(P) == {t \in Ids : txs[t].phase \in P}

\* A source fingerprint; version 0 stands for one that could not be read.
Source == <<dat, via>>
NoSource == <<0, via>>
Of(s) == {t \in Ids : txs[t].src = s}

Newest(S) == CHOOSE t \in S : \A u \in S : u <= t
\* By updated_at, which nothing but becoming manual sets on a manual record.
LatestManual(S) == CHOOSE t \in S : \A u \in S : txs[u].at <= txs[t].at
NextAt == Cardinality(In({"manual"})) + 1

Attempts(S) ==
    IF S = {} THEN 0
    ELSE CHOOSE a \in {txs[t].attempt : t \in S} : \A t \in S : txs[t].attempt <= a

\* transition(transaction, phase)
Move(t, p) == [txs EXCEPT ![t].phase = p]

\* The same to a terminal phase: nothing reads the artifacts of the record again.
Closed(tx, p) ==
    [tx EXCEPT !.phase = p, !.oldIdx = None, !.oldSdx = None, !.cand = None,
               !.temp = None, !.backup = None, !.bsdx = None, !.linked = FALSE]

\* _manual
AsManual(tx, at) == [Closed(tx, "manual") EXCEPT !.at = at]
Manual(t) == [txs EXCEPT ![t] = AsManual(txs[t], NextAt)]

\* journal.create
NewTx(s, p, a) ==
    [phase |-> p, src |-> s, attempt |-> a, oldIdx |-> live, oldSdx |-> sdx,
     cand |-> None, temp |-> None, backup |-> None, bsdx |-> None, linked |-> FALSE,
     retry |-> "no", at |-> 0, auth |-> auth]

RInit ==
    /\ pc = "off" /\ cur = 0 /\ from = "prepare" /\ auth = FALSE /\ allow = FALSE
    /\ others = FALSE /\ via \in Vias
    /\ dat = 1 /\ live = <<1, "own">> /\ sdx = None
    /\ txs = <<>> /\ rejected = {}

PCs == {"off", "prepare", "running", "accepting", "serving", "authorize", "preflight",
        "decide", "enroll", "build", "escalate", "truncated", "backup", "backup_sdx",
        "copy", "journal", "replace", "clean", "installed", "await", "restore",
        "restore_sdx", "restored", "rolled_back", "parked"}

Tx == [phase : Phases, src : (0..MaxDat) \X Vias, attempt : 1..(MaxTx + 1),
       oldIdx : Content \cup {None}, oldSdx : Content \cup {None}, cand : Content \cup {None},
       temp : Content \cup {None, Junk}, backup : Content \cup {None},
       bsdx : Content \cup {None}, linked : BOOLEAN, retry : {"no", "asked", "used"},
       at : 0..MaxTx, auth : BOOLEAN]

\* Types of every variable.
RTypeOK ==
    /\ pc \in PCs /\ cur \in 0..Len(txs) /\ from \in {"prepare", "repair"}
    /\ {auth, allow, others} \subseteq BOOLEAN /\ via \in Vias
    /\ dat \in 1..MaxDat /\ live \in Content /\ sdx \in Content \cup {None}
    /\ Len(txs) <= MaxTx /\ \A t \in Ids : txs[t] \in Tx

-----------------------------------------------------------------------------
(* prepare_offline, before SeaweedFS starts.                               *)

StartGeneration ==
    /\ pc = "off"
    /\ pc' = "prepare"
    /\ others' \in BOOLEAN /\ via' \in Vias
    /\ UNCHANGED <<cur, from, auth, allow, files, txs, rejected>>

Sound(t) == live = txs[t].cand /\ sdx = None

ValidateInstalledArtifacts(t) ==
    /\ pc = "prepare" /\ txs[t].phase \in Pending
    /\ \/ Sound(t) /\ txs[t].phase # "awaiting" /\ txs' = Move(t, "awaiting") /\ pc' = pc
       \/ ~Sound(t) /\ txs' = Manual(t) /\ pc' = "parked"
    /\ UNCHANGED <<cur, from, auth, allow, others, via, files, rejected>>

\* Variant: the temporary copy is renamed without a look at its content.
RecoverBlindly(t) ==
    /\ pc = "prepare" /\ txs[t].phase = "installing"
    /\ cur' = t
    /\ pc' = IF live = txs[t].cand THEN "clean" ELSE "replace"
    /\ UNCHANGED <<txs, from, auth, allow, others, via, files, rejected>>

\* Continue with the rename, with the copy, or after the rename.
RecoverInterruptedInstall(t) ==
    /\ pc = "prepare" /\ txs[t].phase = "installing"
    /\ IF live = txs[t].cand
       THEN pc' = "clean" /\ txs' = txs /\ cur' = t
       ELSE IF live = txs[t].oldIdx
       THEN /\ cur' = t
            /\ IF txs[t].temp = txs[t].cand
               THEN pc' = "replace" /\ txs' = txs
               ELSE pc' = "copy" /\ txs' = [txs EXCEPT ![t].temp = None]
       ELSE txs' = Manual(t) /\ pc' = "parked" /\ cur' = 0
    /\ UNCHANGED <<from, auth, allow, others, via, files, rejected>>

CloseRolledBack(t) ==
    /\ pc = "prepare" /\ txs[t].phase = "rolled_back"
    /\ txs' = Manual(t)
    /\ UNCHANGED <<thread, files, rejected>>

\* Variant: an interrupted installation is left for later.
PrepareSkipsInstalling ==
    /\ pc = "prepare"
    /\ pc' = "running"
    /\ UNCHANGED <<cur, from, auth, allow, others, via, files, txs, rejected>>

PrepareDone ==
    /\ pc = "prepare"
    /\ In({"installing", "candidate_installed", "rolled_back"}) = {}
    /\ \A t \in In({"awaiting"}) : Sound(t)
    /\ pc' = "running"
    /\ UNCHANGED <<cur, from, auth, allow, others, via, files, txs, rejected>>

-----------------------------------------------------------------------------
(* A stable upstream status (SeaweedFS runs and nothing writes yet).       *)

\* The volume is present and not unexpectedly read-only.
StatusWritable ==
    /\ pc = "running"
    /\ pc' = "accepting"
    /\ UNCHANGED <<cur, from, auth, allow, others, via, files, txs, rejected>>

\* reconcile_resolved_preinstall; the staging directory goes, backups stay.
ReconcileResolvedPreinstall(t) ==
    /\ pc = "accepting" /\ txs[t].phase \in Preinstall
    /\ txs' = [txs EXCEPT ![t] = Closed(txs[t], "resolved")]
    /\ UNCHANGED <<thread, files, rejected>>

\* Variant: a candidate that was accepted stays pending.
AcceptKeepsPending ==
    /\ pc = "accepting" /\ In(Preinstall) = {}
    /\ pc' = "serving"
    /\ UNCHANGED <<cur, from, auth, allow, others, via, files, txs, rejected>>

\* validate_upstream accepts; a rejection of another volume parks.
Accept ==
    /\ pc = "accepting" /\ In(Preinstall) = {}
    /\ txs' = [t \in Ids |-> IF txs[t].phase \in Pending
                             THEN Closed(txs[t], "verified") ELSE txs[t]]
    /\ pc' = "serving" \/ (others /\ pc' = "parked")
    /\ others' = FALSE
    /\ UNCHANGED <<cur, from, auth, allow, via, files, rejected>>

\* Read-only or absent while a candidate is pending: writers stop, rollback.
Reject(t) ==
    /\ pc = "running" /\ txs[t].phase \in Pending
    /\ rejected' = rejected \cup {txs[t].src}
    /\ cur' = t /\ pc' = "restore"
    /\ UNCHANGED <<from, auth, allow, others, via, files, txs>>

\* Absent and nothing pending: the status says nothing against the volume.
StatusAbsent ==
    /\ pc = "running" /\ In(Pending) = {}
    /\ pc' = "serving" \/ (others /\ pc' = "parked")
    /\ others' = FALSE
    /\ UNCHANGED <<cur, from, auth, allow, via, files, txs, rejected>>

\* Read-only and nothing pending here: unresolved beside a pending volume or
\* after a repair, refused when repair is off or too many volumes need it, and
\* otherwise a repair, once the writers have stopped.
StatusReadonly ==
    /\ pc = "running" /\ In(Pending) = {}
    /\ pc' = "parked" \/ (~others /\ from # "repair" /\ pc' = "authorize")
    /\ from' = "repair"
    /\ UNCHANGED <<cur, auth, allow, others, via, files, txs, rejected>>

-----------------------------------------------------------------------------
(* _repair_one up to the candidate.                                        *)

\* An IndexRepairError of this volume: manual intervention, unless another
\* volume got a candidate installed, which SeaweedFS is started to judge.
Fails ==
    /\ \/ pc' = "parked" /\ UNCHANGED others
       \/ pc' = "running" /\ others' = TRUE
    /\ cur' = 0 /\ auth' = FALSE /\ allow' = FALSE
Goes(to) == pc' = to /\ UNCHANGED <<cur, auth, allow, others>>

\* _authorize_unfingerprinted_retry
Blocked(s) == {t \in Of(s) : txs[t].phase = "manual"}
Authorized(S) == S # {} /\ txs[LatestManual(S)].retry = "asked"
Consume(S) == [txs EXCEPT ![LatestManual(S)].retry = "used"]

AuthorizeUnfingerprinted ==
    /\ pc = "authorize"
    /\ LET B == Blocked(NoSource) IN
         \/ B = {} /\ auth' = FALSE /\ txs' = txs
         \/ Authorized(B) /\ auth' = TRUE /\ txs' = Consume(B)
    /\ pc' = "preflight"
    /\ UNCHANGED <<cur, from, allow, others, via, files, rejected>>

RefuseUnfingerprinted ==
    /\ pc = "authorize"
    /\ Blocked(NoSource) # {} /\ ~Authorized(Blocked(NoSource))
    /\ Fails
    /\ UNCHANGED <<from, via, files, txs, rejected>>

\* _record_unfingerprinted_failure
PreflightFails ==
    /\ pc = "preflight"
    /\ LET a == Attempts(Of(NoSource)) IN
         IF a >= RetryLimit /\ ~auth
         THEN Fails /\ UNCHANGED txs
         ELSE /\ Len(txs) < MaxTx
              /\ txs' = Append(txs, NewTx(NoSource, "failed_preinstall", a + 1))
              /\ IF a + 1 < RetryLimit THEN Fails
                 ELSE /\ pc' = "escalate" /\ cur' = Len(txs) + 1
                      /\ UNCHANGED <<auth, allow, others>>
    /\ UNCHANGED <<from, via, files, rejected>>

PreflightPasses ==
    /\ pc = "preflight"
    /\ pc' = "decide"
    /\ UNCHANGED <<cur, from, auth, allow, others, via, files, txs, rejected>>

\* Variant: one attempt too many.
ExhaustedLate == Attempts({t \in Of(Source) : txs[t].phase # "resolved"}) > RetryLimit

Exhausted == Attempts({t \in Of(Source) : txs[t].phase # "resolved"}) >= RetryLimit

\* The source was verified, is blocked, or has used up its attempts.
RefuseSource ==
    /\ pc = "decide"
    /\ \/ /\ \/ \E t \in Of(Source) : txs[t].phase = "verified"
             \/ Blocked(Source) # {} /\ ~Authorized(Blocked(Source))
          /\ txs' = txs
       \/ /\ \A t \in Of(Source) : txs[t].phase \notin {"verified", "manual"}
          /\ Exhausted
          /\ LET F == {t \in Of(Source) : txs[t].phase = "failed_preinstall"} IN
               txs' = IF F = {} THEN txs ELSE Manual(Newest(F))
    /\ Fails
    /\ UNCHANGED <<from, via, files, rejected>>

\* Variant: manual transactions of the source do not block it.
AdmitBlocked ==
    /\ pc = "decide"
    /\ ~Exhausted
    /\ auth' = FALSE /\ pc' = "enroll"
    /\ UNCHANGED <<cur, from, allow, others, via, files, txs, rejected>>

\* The operator's retry is consumed before anything is done with it.
AdmitSource ==
    /\ pc = "decide"
    /\ \A t \in Of(Source) : txs[t].phase # "verified"
    /\ LET B == Blocked(Source) IN
         \/ B = {} /\ ~Exhausted /\ auth' = FALSE /\ txs' = txs
         \/ Authorized(B) /\ auth' = TRUE /\ txs' = Consume(B)
    /\ pc' = "enroll"
    /\ UNCHANGED <<cur, from, allow, others, via, files, rejected>>

\* Unfinished transactions of another fingerprint become manual.
Stale == {t \in Ids : /\ txs[t].src # Source
                      /\ txs[t].phase \notin Terminal \cup Pending}
Swept == [t \in Ids |-> IF t \in Stale
                        THEN AsManual(txs[t], NextAt) ELSE txs[t]]
AfterSweep == NextAt + Cardinality(Stale)
Resumable == {t \in Of(Source) : txs[t].phase \in Preinstall \ {"failed_preinstall"}}
NextAttempt == Attempts({t \in Of(Source) : txs[t].phase # "resolved"}) + 1

\* The live index is missing or a symbolic link.
StructuralFailure ==
    /\ pc = "enroll" /\ Len(txs) < MaxTx
    /\ txs' = Append(Swept, AsManual(NewTx(Source, "building", NextAttempt), AfterSweep))
    /\ Fails
    /\ UNCHANGED <<from, via, files, rejected>>

\* The derived state changed while the transaction was pending.
ResumeRefused ==
    /\ pc = "enroll" /\ Resumable # {}
    /\ LET t == Newest(Resumable) IN
         /\ txs[t].oldIdx # live \/ txs[t].oldSdx # sdx
         /\ txs' = [Swept EXCEPT ![t] = AsManual(txs[t], AfterSweep)]
    /\ Fails
    /\ UNCHANGED <<from, via, files, rejected>>

\* Variant: the live index is not compared with the one the journal recorded.
ResumeUnchecked ==
    /\ pc = "enroll" /\ Resumable # {}
    /\ LET t == Newest(Resumable) IN
         /\ cur' = t
         /\ pc' = CASE txs[t].phase = "backup_created" -> "copy"
                    [] txs[t].phase = "candidate_built" -> "backup"
                    [] OTHER -> "build"
    /\ txs' = Swept
    /\ UNCHANGED <<from, auth, allow, others, via, files, rejected>>

Resume ==
    /\ pc = "enroll" /\ Resumable # {}
    /\ LET t == Newest(Resumable) IN
         /\ txs[t].oldIdx = live /\ txs[t].oldSdx = sdx
         /\ cur' = t
         /\ pc' = CASE txs[t].phase = "backup_created" -> "copy"
                    [] txs[t].phase = "candidate_built" -> "backup"
                    [] OTHER -> "build"
    /\ txs' = Swept
    /\ UNCHANGED <<from, auth, allow, others, via, files, rejected>>

Enroll ==
    /\ pc = "enroll" /\ Resumable = {} /\ Len(txs) < MaxTx
    /\ txs' = Append(Swept, NewTx(Source, "building", NextAttempt))
    /\ cur' = Len(txs) + 1 /\ pc' = "build"
    /\ UNCHANGED <<from, auth, allow, others, via, files, rejected>>

\* weed fix on the read-only view; its result may be what is already live.
Rebuilt == {<<dat, "fix">>} \cup ({live} \cap {<<dat, "own">>})

BuildCandidate ==
    /\ pc = "build"
    /\ \E c \in Rebuilt :
         IF c = live /\ ~allow
         THEN txs' = Manual(cur) /\ Fails
         ELSE /\ txs' = [txs EXCEPT ![cur] = [@ EXCEPT !.phase = "candidate_built",
                                                       !.cand = c]]
              /\ Goes("backup")
    /\ UNCHANGED <<from, via, files, rejected>>

\* _record_preinstall_failure
BuildFails ==
    /\ pc = "build"
    /\ txs' = Move(cur, "failed_preinstall")
    /\ IF txs[cur].attempt >= RetryLimit THEN Goes("escalate") ELSE Fails
    /\ UNCHANGED <<from, via, files, rejected>>

Escalate ==
    /\ pc = "escalate"
    /\ txs' = Manual(cur)
    /\ Fails
    /\ UNCHANGED <<from, via, files, rejected>>

\* The candidate reaches past the end of the .dat and no tail can be proven.
UnsafeCandidate ==
    /\ pc = "build"
    /\ txs' = Manual(cur)
    /\ Fails
    /\ UNCHANGED <<from, via, files, rejected>>

\* recover_incomplete_tail keeps the tail and truncates the .dat.
TruncateTail ==
    /\ pc = "build" /\ TailRecovery /\ dat < MaxDat
    /\ dat' = dat + 1
    /\ pc' = "truncated"
    /\ UNCHANGED <<cur, from, auth, allow, others, via, live, sdx, txs, rejected>>

\* The tail helper fails: the transaction stays as it is.
TailFails ==
    /\ \/ pc = "build" /\ TailRecovery
       \/ pc = "truncated"
    /\ Fails
    /\ UNCHANGED <<from, via, files, txs, rejected>>

\* The repair starts over from the new fingerprint.
TailRecovered ==
    /\ pc = "truncated"
    /\ txs' = [txs EXCEPT ![cur] = Closed(txs[cur], "tail_recovered")]
    /\ allow' = TRUE /\ pc' = "authorize"
    /\ UNCHANGED <<cur, from, auth, others, via, files, rejected>>

-----------------------------------------------------------------------------
(* _create_backups and _install_candidate.                                 *)

\* A hard link if possible, a copy otherwise; an existing backup is verified.
BackupIdx ==
    /\ pc = "backup"
    /\ IF txs[cur].backup = None
       THEN /\ \E l \in BOOLEAN :
                 txs' = [txs EXCEPT ![cur] = [@ EXCEPT !.backup = live, !.linked = l]]
            /\ Goes("backup_sdx")
       ELSE /\ txs' = txs
            /\ IF txs[cur].backup = txs[cur].oldIdx THEN Goes("backup_sdx") ELSE Fails
    /\ UNCHANGED <<from, via, files, rejected>>

BackupSdx ==
    /\ pc = "backup_sdx"
    /\ txs' = [txs EXCEPT ![cur] = [@ EXCEPT !.phase = "backup_created", !.bsdx = sdx]]
    /\ pc' = "copy"
    /\ UNCHANGED <<cur, from, auth, allow, others, via, files, rejected>>

\* The candidate file is gone or changed.
CandidateLost ==
    /\ pc = "copy"
    /\ txs' = Manual(cur)
    /\ IF from = "prepare" THEN Goes("parked") ELSE Fails
    /\ UNCHANGED <<from, via, files, rejected>>

CopyCandidate ==
    /\ pc = "copy"
    /\ txs' = [txs EXCEPT ![cur].temp = txs[cur].cand]
    /\ pc' = "journal"
    /\ UNCHANGED <<cur, from, auth, allow, others, via, files, rejected>>

JournalInstall ==
    /\ pc = "journal"
    /\ txs' = Move(cur, "installing")
    /\ pc' = "replace"
    /\ UNCHANGED <<cur, from, auth, allow, others, via, files, rejected>>

\* Hard-linked backups keep the old file from here on.
Unlinked == [t \in Ids |-> [txs[t] EXCEPT !.linked = FALSE]]

ReplaceLive ==
    /\ pc = "replace"
    /\ live' = txs[cur].temp
    /\ txs' = [Unlinked EXCEPT ![cur].temp = None]
    /\ pc' = "clean"
    /\ UNCHANGED <<cur, from, auth, allow, others, via, dat, sdx, rejected>>

RemoveStaleSdx ==
    /\ pc = "clean"
    /\ sdx' = None
    /\ pc' = "installed"
    /\ UNCHANGED <<cur, from, auth, allow, others, via, dat, live, txs, rejected>>

CandidateInstalled ==
    /\ pc = "installed"
    /\ txs' = Move(cur, "candidate_installed")
    /\ pc' = "await"
    /\ UNCHANGED <<cur, from, auth, allow, others, via, files, rejected>>

\* prepare_offline goes on, or repair_detected returns and SeaweedFS starts.
AwaitValidation ==
    /\ pc = "await"
    /\ txs' = Move(cur, "awaiting")
    /\ pc' = IF from = "prepare" THEN "prepare" ELSE "running"
    /\ cur' = 0 /\ auth' = FALSE /\ allow' = FALSE
    /\ UNCHANGED <<from, others, via, files, rejected>>

-----------------------------------------------------------------------------
(* _rollback, with every writer stopped.                                   *)

RestoreIdx ==
    /\ pc = "restore"
    /\ IF txs[cur].backup = txs[cur].oldIdx
       THEN live' = txs[cur].backup /\ txs' = Unlinked /\ pc' = "restore_sdx"
       ELSE pc' = "parked" /\ UNCHANGED <<live, txs>>
    /\ UNCHANGED <<cur, from, auth, allow, others, via, dat, sdx, rejected>>

RestoreSdx ==
    /\ pc = "restore_sdx"
    /\ IF txs[cur].bsdx = txs[cur].oldSdx
       THEN sdx' = txs[cur].oldSdx /\ pc' = "restored"
       ELSE pc' = "parked" /\ UNCHANGED sdx
    /\ UNCHANGED <<cur, from, auth, allow, others, via, dat, live, txs, rejected>>

RolledBack ==
    /\ pc = "restored"
    /\ txs' = Move(cur, "rolled_back")
    /\ pc' = "rolled_back"
    /\ UNCHANGED <<cur, from, auth, allow, others, via, files, rejected>>

RollbackManual ==
    /\ pc = "rolled_back"
    /\ txs' = Manual(cur)
    /\ pc' = "parked" /\ cur' = 0
    /\ UNCHANGED <<from, auth, allow, others, via, files, rejected>>

-----------------------------------------------------------------------------
(* SeaweedFS, the operator and interruptions.                              *)

\* A write reaches the .dat and, in place, the .idx; a fence can cut it short.
Write ==
    /\ pc = "serving" /\ dat < MaxDat
    /\ dat' = dat + 1
    /\ \/ /\ live' = <<dat + 1, "own">>
          /\ txs' = [t \in Ids |-> IF txs[t].linked
                                   THEN [txs[t] EXCEPT !.backup = live'] ELSE txs[t]]
       \/ UNCHANGED <<live, txs>>
    /\ UNCHANGED <<thread, sdx, rejected>>

\* A read-only volume is loaded through a sorted index.
SortIndex ==
    /\ pc \in {"running", "serving"} /\ sdx # live
    /\ sdx' = live
    /\ UNCHANGED <<thread, dat, live, txs, rejected>>

\* request_retry marks the manual transaction that was updated last.
RequestRetry ==
    /\ In({"manual"}) # {}
    /\ LET t == LatestManual(In({"manual"})) IN
         /\ txs[t].retry # "asked"
         /\ txs' = [txs EXCEPT ![t].retry = "asked"]
    /\ UNCHANGED <<thread, files, rejected>>

\* The generation ends: a failed drain or check, an I/O error, a stop, a crash.
\* A copy may be cut short, and a new name or a rename that was not synced to
\* its directory may be undone.
Interrupt ==
    /\ pc # "off"
    /\ pc' = "off"
    /\ \/ UNCHANGED <<live, txs>>
       \/ /\ pc = "copy" /\ txs[cur].temp # txs[cur].cand
          /\ txs' = [txs EXCEPT ![cur].temp = Junk] /\ UNCHANGED live
       \/ /\ pc \in {"journal", "replace"}
          /\ txs' = [txs EXCEPT ![cur].temp = None] /\ UNCHANGED live
       \/ /\ pc = "clean" /\ txs[cur].temp = None
          /\ live' = txs[cur].oldIdx
          /\ \E l \in BOOLEAN :
               txs' = [txs EXCEPT ![cur] = [@ EXCEPT !.temp = txs[cur].cand, !.linked = l]]
    /\ cur' = 0 /\ from' = "prepare" /\ auth' = FALSE /\ allow' = FALSE /\ others' = FALSE
    /\ UNCHANGED <<via, dat, sdx, rejected>>

RStep ==
    \/ StartGeneration \/ PrepareDone
    \/ (\E t \in Ids : \/ ValidateInstalledArtifacts(t) \/ RecoverInterruptedInstall(t)
                       \/ CloseRolledBack(t) \/ ReconcileResolvedPreinstall(t)
                       \/ Reject(t))
    \/ StatusWritable \/ StatusAbsent \/ StatusReadonly \/ Accept
    \/ AuthorizeUnfingerprinted \/ RefuseUnfingerprinted
    \/ PreflightFails \/ PreflightPasses \/ RefuseSource \/ AdmitSource
    \/ StructuralFailure \/ ResumeRefused \/ Resume \/ Enroll
    \/ BuildCandidate \/ BuildFails \/ Escalate \/ UnsafeCandidate
    \/ TruncateTail \/ TailFails \/ TailRecovered
    \/ BackupIdx \/ BackupSdx \/ CandidateLost \/ CopyCandidate \/ JournalInstall
    \/ ReplaceLive \/ RemoveStaleSdx \/ CandidateInstalled \/ AwaitValidation
    \/ RestoreIdx \/ RestoreSdx \/ RolledBack \/ RollbackManual

RNext == RStep \/ Write \/ SortIndex \/ RequestRetry \/ Interrupt

\* Every helper has a deadline, and a stable status comes or the start fails.
RSpec == RInit /\ [][RNext]_rvars /\ WF_rvars(RStep)

-----------------------------------------------------------------------------
(* Properties.                                                             *)

\* The index that was live before a repair can be put back as long as its
\* candidate is installed and not yet judged: the backups hold exactly what
\* the journal recorded, although a backup may be a hard link to a file that
\* SeaweedFS writes in place (_backup_one, _rollback).
RollbackPossible ==
    \A t \in In(Pending \cup {"installing"}) :
        txs[t].backup = txs[t].oldIdx /\ txs[t].bsdx = txs[t].oldSdx

\* SeaweedFS is never started on a half-installed index: whatever was cut
\* short, no installation is open, and a candidate that is to be judged is the
\* live index, without a sorted index of its predecessor.
StartsOnSettledIndex ==
    [][pc' = "running" /\ pc # "running" =>
         /\ \A t \in Ids : txs'[t].phase \notin {"installing", "rolled_back"}
         /\ \A t \in Ids : txs'[t].phase \in Pending => live' = txs'[t].cand /\ sdx' = None
      ]_rvars

\* A rejected source is not repaired again unless the operator asked for it,
\* even if the rollback was cut short (README: "rejected candidates are rolled
\* back and blocked from automatic loops").
RejectedIsBlocked ==
    [][\A t \in Ids' \ Ids : txs'[t].src \in rejected => txs'[t].auth]_rvars

\* Without the operator at most RetryLimit transactions are spent on a source,
\* those that turned out to be unnecessary apart (PREINSTALL_RETRY_LIMIT).
AttemptsAreBounded ==
    \A s \in {txs[t].src : t \in Ids} :
        Cardinality({t \in Of(s) : ~txs[t].auth /\ txs[t].phase # "resolved"}) <= RetryLimit

\* A retry that the operator asked for after a source was blocked admits the
\* next attempt on that source (docs/operations.md: "Authorize one new guarded
\* attempt after investigating a blocked fingerprint"): a repair that is refused
\* for want of a retry finds no later request (request_retry, _repair_one).
RetryIsEffective ==
    [][LET B == IF pc = "authorize" THEN Blocked(NoSource) ELSE Blocked(Source) IN
       /\ RefuseUnfingerprinted \/ (RefuseSource /\ \A t \in Of(Source) : txs[t].phase # "verified")
       /\ B # {}
       => \A t \in In({"manual"}) :
            txs[t].retry = "asked" => txs[t].at <= txs[LatestManual(B)].at
      ]_rvars

\* Once interruptions cease, no candidate stays installed without a verdict:
\* every installation is completed and then verified, or rolled back to manual
\* intervention (prepare_offline, validate_upstream, rollback_rejected).
CandidateIsJudged ==
    <>[][~Interrupt]_rvars => <>[](In(Pending \cup {"installing", "rolled_back"}) = {})
=============================================================================

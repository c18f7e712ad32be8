-------------------- MODULE IndexRepairAttempts_proofs ----------------------
(***************************************************************************)
(* How the attempts on a source are numbered, for every number of          *)
(* transactions and every retry limit: no source is tried more often than  *)
(* the limit without authorization.                                        *)
(***************************************************************************)
EXTENDS IndexRepair_proofs, FiniteSetTheorems

\* A bounded set of numbers has a greatest one.
LEMMA GreatestExists ==
    ASSUME NEW n \in Nat, NEW S, S \subseteq 1..n, S # {}
    PROVE  \E x \in S : \A y \in S : y <= x
<1> DEFINE D == {n - x : x \in S}
<1>0. PICK z : z \in S
  OBVIOUS
<1>1. D \subseteq Nat /\ D # {}
  <2>1. n - z \in D
    BY <1>0
  <2>2. ASSUME NEW x \in S
        PROVE  n - x \in Nat
    OBVIOUS
  <2> QED BY <2>1, <2>2
<1>2. PICK m \in D : \A y \in D : ~(<<y, m>> \in OpToRel(<, Nat))
  BY <1>1, NatLessThanWellFounded, WFMin, Zenon
<1>3. ASSUME NEW y \in D
      PROVE  ~(y < m)
  <2>1. <<y, m>> \in Nat \X Nat /\ <<y, m>>[1] = y /\ <<y, m>>[2] = m
    BY <1>1
  <2> QED BY <1>2, <2>1, Zenon DEF OpToRel
<1>4. PICK x \in S : m = n - x
  OBVIOUS
<1>5. ASSUME NEW y \in S
      PROVE  y <= x
  <2>1. n - y \in D
    OBVIOUS
  <2>2. ~(n - y < m)
    BY <1>3, <2>1
  <2> QED BY <1>4, <2>2
<1> QED BY <1>5

\* Newest picks one of the records, and the newest of them.
LEMMA NewestFacts ==
    ASSUME Shape, NEW S, S \subseteq Ids, S # {}
    PROVE  Newest(S) \in S
<1>1. Len(txs) \in Nat
  BY SeqFacts DEF Shape
<1>2. S \subseteq 1..Len(txs)
  BY DEF Ids
<1>3. \E x \in S : \A y \in S : y <= x
  BY <1>1, <1>2, GreatestExists, Zenon
<1> QED BY <1>3, Zenon DEF Newest

\* Attempts are counted from one.
Counted == \A t \in Ids : txs[t].attempt \in 1..t

\* Attempts(S) is the highest attempt of S, and 0 if there is none.
LEMMA AttemptsFacts ==
    ASSUME Shape, Counted, NEW S, S \subseteq Ids
    PROVE  /\ Attempts(S) \in 0..Len(txs)
           /\ \A t \in S : txs[t].attempt <= Attempts(S)
           /\ Attempts(S) = 0 \/ \E t \in S : Attempts(S) = txs[t].attempt
<1>1. Len(txs) \in Nat
  BY SeqFacts DEF Shape
<1>2. CASE S = {}
  BY <1>1, <1>2 DEF Attempts
<1>3. CASE S # {}
  <2> DEFINE A == {txs[t].attempt : t \in S}
  <2>0. ASSUME NEW t \in S
        PROVE  txs[t].attempt \in 1..Len(txs)
    <3>1. t \in 1..Len(txs) /\ txs[t].attempt \in 1..t
      BY DEF Counted, Ids
    <3> QED BY <1>1, <3>1
  <2>1. A \subseteq 1..Len(txs) /\ A # {}
    BY <1>3, <2>0, Zenon
  <2>2. PICK a \in A : \A b \in A : b <= a
    BY <1>1, <2>1, GreatestExists, Zenon
  <2>3. \A t \in S : txs[t].attempt <= a
    BY <2>2
  <2>4. Attempts(S) = CHOOSE b \in A : \A t \in S : txs[t].attempt <= b
    BY <1>3, Zenon DEF Attempts
  <2>5. Attempts(S) \in A /\ \A t \in S : txs[t].attempt <= Attempts(S)
    BY <2>3, <2>4, Zenon
  <2> QED BY <1>1, <2>1, <2>5
<1> QED BY <1>2, <1>3

\* Record q is record r with the same source, attempt and authorization.
Kin(r, q) == q.src = r.src /\ q.attempt = r.attempt /\ q.auth = r.auth

\* Closing a record keeps its place in the count.
LEMMA ClosedKin ==
    ASSUME NEW r, DOMAIN r = TxFields
    PROVE  /\ \A p : Kin(r, Closed(r, p)) /\ Closed(r, p).phase = p
           /\ \A a : Kin(r, AsManual(r, a))
<1>1. \A p : DOMAIN Closed(r, p) = TxFields /\ Kin(r, Closed(r, p)) /\ Closed(r, p).phase = p
  BY SMTT(30) DEF Kin, Closed, TxFields
<1>2. \A a : Kin(r, AsManual(r, a))
  BY SMTT(30) DEF Kin, Closed, AsManual, TxFields
<1> QED BY <1>1, <1>2

\* So does an update of an artifact, of the phase or of the retry request.
LEMMA UpdateKin ==
    ASSUME NEW r, DOMAIN r = TxFields
    PROVE  /\ \A v : /\ Kin(r, [r EXCEPT !.phase = v]) /\ Kin(r, [r EXCEPT !.temp = v])
                     /\ Kin(r, [r EXCEPT !.retry = v]) /\ Kin(r, [r EXCEPT !.backup = v])
           /\ \A v, w : /\ Kin(r, [r EXCEPT !.phase = v, !.cand = w])
                        /\ Kin(r, [r EXCEPT !.phase = v, !.bsdx = w])
                        /\ Kin(r, [r EXCEPT !.backup = v, !.linked = w])
                        /\ Kin(r, [r EXCEPT !.temp = v, !.linked = w])
<1>1. \A v : /\ Kin(r, [r EXCEPT !.phase = v]) /\ Kin(r, [r EXCEPT !.temp = v])
             /\ Kin(r, [r EXCEPT !.retry = v]) /\ Kin(r, [r EXCEPT !.backup = v])
  BY SMTT(30) DEF Kin, TxFields
<1>2. \A v, w : /\ Kin(r, [r EXCEPT !.phase = v, !.cand = w])
                /\ Kin(r, [r EXCEPT !.phase = v, !.bsdx = w])
  BY SMTT(30) DEF Kin, TxFields
<1>3. \A v, w : /\ Kin(r, [r EXCEPT !.backup = v, !.linked = w])
                /\ Kin(r, [r EXCEPT !.temp = v, !.linked = w])
  BY SMTT(30) DEF Kin, TxFields
<1> QED BY <1>1, <1>2, <1>3, Zenon

\* A transaction keeps its place in the count, and stays resolved.
Steady(u) ==
    /\ Kin(txs[u], txs'[u])
    /\ txs[u].phase = "resolved" => txs'[u].phase = "resolved"

\* An update of one record that was not resolved.
LEMMA SteadyOne ==
    ASSUME Shape, NEW t, NEW r, txs' = [txs EXCEPT ![t] = r],
           t \in Ids => Kin(txs[t], r) /\ (txs[t].phase # "resolved" \/ r.phase = txs[t].phase)
    PROVE  \A u \in Ids : Steady(u)
<1>1. DOMAIN txs = Ids
  BY IdFacts
<1>2. ASSUME NEW u \in Ids
      PROVE  Steady(u)
  <2>1. CASE u = t
    <3>1. txs'[u] = r
      BY <1>1, <2>1, Zenon
    <3> QED BY <2>1, <3>1, Zenon DEF Steady
  <2>2. CASE u # t
    <3>1. txs'[u] = txs[u]
      BY <1>1, <2>2, Zenon
    <3> QED BY <3>1, Zenon DEF Steady, Kin
  <2> QED BY <2>1, <2>2
<1> QED BY <1>2

\* A record closed or left alone.
LEMMA SteadySweep ==
    ASSUME Shape, NEW s,
           \A u \in Ids : /\ txs'[u] = s[u]
                          /\ \/ s[u] = txs[u]
                             \/ txs[u].phase # "resolved" /\ Kin(txs[u], s[u])
    PROVE  \A u \in Ids : Steady(u)
BY Zenon DEF Steady, Kin

\* Phases of the transaction in hand.
LEMMA HandUnresolved ==
    ASSUME RepairInv,
           pc \in {"build", "truncated", "escalate", "backup", "backup_sdx", "copy", "journal",
                   "replace", "clean", "installed", "await", "restore", "restored",
                   "rolled_back"}
    PROVE  cur \in Ids /\ txs[cur].phase # "resolved" /\ DOMAIN txs[cur] = TxFields
BY SMTT(30) DEF RepairInv, Shape, HandFits, InHand, Pending

\* Steps that move or close one transaction.
LEMMA SteadyMoves ==
    ASSUME RepairInv, NEW t \in Ids, txs[t].phase # "resolved",
           \/ \E p : txs' = Move(t, p) \/ txs' = [txs EXCEPT ![t] = Closed(txs[t], p)]
           \/ txs' = Manual(t)
           \/ \E v : txs' = [txs EXCEPT ![t].temp = v]
    PROVE  \A u \in Ids : Steady(u)
<1> USE Zenon
<1>0. Shape /\ DOMAIN txs[t] = TxFields
  BY DEF RepairInv, Shape
<1>1. ASSUME NEW p, txs' = Move(t, p)
      PROVE  \A u \in Ids : Steady(u)
  <2> DEFINE r == [txs[t] EXCEPT !.phase = p]
  <2>2. txs' = [txs EXCEPT ![t] = r]
    BY <1>1 DEF Move
  <2>3. Kin(txs[t], r)
    BY <1>0, UpdateKin
  <2> HIDE DEF r
  <2> QED BY <1>0, <2>2, <2>3, SteadyOne
<1>2. ASSUME NEW v, txs' = [txs EXCEPT ![t].temp = v]
      PROVE  \A u \in Ids : Steady(u)
  <2> DEFINE r == [txs[t] EXCEPT !.temp = v]
  <2>2. txs' = [txs EXCEPT ![t] = r]
    BY <1>2
  <2>3. Kin(txs[t], r)
    BY <1>0, UpdateKin
  <2> HIDE DEF r
  <2> QED BY <1>0, <2>2, <2>3, SteadyOne
<1>3. ASSUME NEW p, txs' = [txs EXCEPT ![t] = Closed(txs[t], p)]
      PROVE  \A u \in Ids : Steady(u)
  BY <1>0, <1>3, ClosedKin, SteadyOne
<1>4. CASE txs' = Manual(t)
  BY <1>0, <1>4, ClosedKin, SteadyOne DEF Manual
<1> QED BY <1>1, <1>2, <1>3, <1>4

\* Steps that record an artifact of one transaction.
LEMMA SteadyArtifacts ==
    ASSUME RepairInv, NEW t \in Ids, txs[t].phase # "resolved", NEW v, NEW w,
           \/ txs' = [txs EXCEPT ![t] = [@ EXCEPT !.phase = v, !.cand = w]]
           \/ txs' = [txs EXCEPT ![t] = [@ EXCEPT !.phase = v, !.bsdx = w]]
           \/ txs' = [txs EXCEPT ![t] = [@ EXCEPT !.backup = v, !.linked = w]]
           \/ txs' = [txs EXCEPT ![t] = [@ EXCEPT !.temp = v, !.linked = w]]
    PROVE  \A u \in Ids : Steady(u)
<1>0. Shape /\ DOMAIN txs[t] = TxFields /\ DOMAIN txs = Ids
  BY IdFacts DEF RepairInv, Shape
<1>1. PICK r : /\ txs' = [txs EXCEPT ![t] = r]
               /\ \/ r = [txs[t] EXCEPT !.phase = v, !.cand = w]
                  \/ r = [txs[t] EXCEPT !.phase = v, !.bsdx = w]
                  \/ r = [txs[t] EXCEPT !.backup = v, !.linked = w]
                  \/ r = [txs[t] EXCEPT !.temp = v, !.linked = w]
  BY <1>0, SMTT(30)
<1>2. /\ Kin(txs[t], [txs[t] EXCEPT !.phase = v, !.cand = w])
      /\ Kin(txs[t], [txs[t] EXCEPT !.phase = v, !.bsdx = w])
      /\ Kin(txs[t], [txs[t] EXCEPT !.backup = v, !.linked = w])
      /\ Kin(txs[t], [txs[t] EXCEPT !.temp = v, !.linked = w])
  BY <1>0, UpdateKin, Zenon
<1>3. Kin(txs[t], r)
  BY <1>1, <1>2, Zenon
<1> QED BY <1>0, <1>1, <1>3, SteadyOne, Zenon

\* A request for a retry is made or used up.
LEMMA SteadyRetry ==
    ASSUME RepairInv, NEW t, NEW v, txs' = [txs EXCEPT ![t].retry = v]
    PROVE  \A u \in Ids : Steady(u)
<1>0. Shape /\ \A u \in Ids : DOMAIN txs[u] = TxFields
  BY DEF RepairInv, Shape
<1> DEFINE r == [txs[t] EXCEPT !.retry = v]
<1>2. txs' = [txs EXCEPT ![t] = r]
  OBVIOUS
<1>3. t \in Ids => Kin(txs[t], r)
  BY <1>0, UpdateKin, Zenon
<1>4. t \in Ids => r.phase = txs[t].phase
  BY <1>0, Zenon DEF TxFields
<1> HIDE DEF r
<1> QED BY <1>0, <1>2, <1>3, <1>4, SteadyOne, Zenon

\* The sweep keeps the count, and no resolved record is stale.
LEMMA SweptKin ==
    ASSUME RepairInv
    PROVE  \A u \in Ids : \/ Swept[u] = txs[u]
                          \/ txs[u].phase # "resolved" /\ Kin(txs[u], Swept[u])
<1>1. ASSUME NEW u \in Ids, u \in Stale
      PROVE  txs[u].phase # "resolved" /\ Kin(txs[u], Swept[u])
  <2>1. Swept[u] = AsManual(txs[u], NextAt)
    BY <1>1, Zenon DEF Swept
  <2>2. DOMAIN txs[u] = TxFields
    BY DEF RepairInv, Shape
  <2>3. Kin(txs[u], AsManual(txs[u], NextAt))
    BY <2>2, ClosedKin, Zenon
  <2> QED BY <1>1, <2>1, <2>3, Zenon DEF Stale, Terminal
<1>2. ASSUME NEW u \in Ids, u \notin Stale
      PROVE  Swept[u] = txs[u]
  BY <1>2, Zenon DEF Swept
<1> QED BY <1>1, <1>2

\* A rename keeps the count.
LEMMA UnlinkedKin ==
    ASSUME RepairInv
    PROVE  \A u \in Ids : Kin(txs[u], Unlinked[u]) /\ Unlinked[u].phase = txs[u].phase
<1>1. \A u \in Ids : \A f \in TxFields \ {"linked"} : Unlinked[u][f] = txs[u][f]
  BY UnlinkedFacts DEF RepairInv
<1> QED BY <1>1, Zenon DEF Kin, TxFields

\* Every step keeps the count of the records that are there.
LEMMA SteadyStep ==
    ASSUME RepairInv, RNext
    PROVE  \A u \in Ids : Steady(u)
<1> USE Zenon
<1>0. Shape /\ DOMAIN txs = Ids
  BY IdFacts DEF RepairInv
<1> USE <1>0
<1>1. CASE txs' = txs
  BY <1>1 DEF Steady, Kin
<1> USE <1>1
<1>2. CASE \E t \in Ids : \/ ValidateInstalledArtifacts(t) \/ RecoverInterruptedInstall(t)
                          \/ CloseRolledBack(t) \/ ReconcileResolvedPreinstall(t) \/ Reject(t)
  <2>1. PICK t \in Ids : \/ ValidateInstalledArtifacts(t) \/ RecoverInterruptedInstall(t)
                         \/ CloseRolledBack(t) \/ ReconcileResolvedPreinstall(t) \/ Reject(t)
    BY <1>2
  <2>2. txs[t].phase # "resolved"
    BY <2>1 DEF ValidateInstalledArtifacts, RecoverInterruptedInstall, CloseRolledBack,
       ReconcileResolvedPreinstall, Reject, Pending, Preinstall
  <2>3. \/ txs' = txs \/ txs' = Move(t, "awaiting") \/ txs' = Manual(t)
        \/ txs' = [txs EXCEPT ![t] = Closed(txs[t], "resolved")]
        \/ txs' = [txs EXCEPT ![t].temp = None]
    BY <2>1 DEF ValidateInstalledArtifacts, RecoverInterruptedInstall, CloseRolledBack,
       ReconcileResolvedPreinstall, Reject
  <2> QED BY <2>2, <2>3, SteadyMoves
<1>3. CASE StartGeneration \/ PrepareDone \/ StatusWritable \/ StatusAbsent \/ StatusReadonly
           \/ RefuseUnfingerprinted \/ PreflightPasses \/ TruncateTail \/ TailFails
           \/ RemoveStaleSdx \/ RestoreSdx \/ SortIndex
  BY <1>3 DEF StartGeneration, PrepareDone, StatusWritable, StatusAbsent,
     StatusReadonly, RefuseUnfingerprinted, PreflightPasses, TruncateTail, TailFails,
     RemoveStaleSdx, RestoreSdx, SortIndex
<1>4. CASE AuthorizeUnfingerprinted \/ AdmitSource \/ RequestRetry
  <2>1. txs' = txs \/ \E t, v : txs' = [txs EXCEPT ![t].retry = v]
    BY <1>4 DEF AuthorizeUnfingerprinted, AdmitSource, RequestRetry, Consume
  <2> QED BY <2>1, SteadyRetry
<1>5. CASE RefuseSource
  <2> DEFINE F == {t \in Of(Source) : txs[t].phase = "failed_preinstall"}
  <2>1. txs' = txs \/ (F # {} /\ txs' = Manual(Newest(F)))
    BY <1>5 DEF RefuseSource
  <2>2. CASE F # {} /\ txs' = Manual(Newest(F))
    <3>1. F \subseteq Ids
      BY DEF Of
    <3>2. Newest(F) \in F
      BY <2>2, <3>1, NewestFacts
    <3>3. Newest(F) \in Ids /\ txs[Newest(F)].phase # "resolved"
      BY <3>1, <3>2
    <3> QED BY <2>2, <3>3, SteadyMoves
  <2> QED BY <2>1, <2>2
<1>6. CASE Resume
  <2>1. txs' = Swept
    BY <1>6 DEF Resume
  <2> QED BY <2>1, SweptKin, SteadySweep
<1>7. CASE ResumeRefused
  <2>1. PICK t : t = Newest(Resumable)
    OBVIOUS
  <2>2. txs' = [Swept EXCEPT ![t] = AsManual(txs[t], AfterSweep)] /\ Resumable # {}
    BY <1>7, <2>1 DEF ResumeRefused
  <2>3. t \in Ids /\ txs[t].phase # "resolved" /\ DOMAIN txs[t] = TxFields
    BY <2>1, <2>2, TheResumable DEF Shape
  <2>4. Kin(txs[t], AsManual(txs[t], AfterSweep))
    BY <2>3, ClosedKin
  <2>5. DOMAIN Swept = Ids
    BY DEF Swept
  <2>6. \A u \in Ids : \/ txs'[u] = txs[u]
                       \/ txs[u].phase # "resolved" /\ Kin(txs[u], txs'[u])
    BY <2>2, <2>3, <2>4, <2>5, SweptKin
  <2> QED BY <2>6, SteadySweep
<1>8. CASE PreflightFails
  <2>1. txs' = txs \/ \E a : txs' = Append(txs, NewTx(NoSource, "failed_preinstall", a))
    BY <1>8 DEF PreflightFails
  <2>2. txs' = txs \/ \A u \in Ids : txs'[u] = txs[u]
    BY <2>1, FailureRecorded
  <2> QED BY <2>2 DEF Steady, Kin
<1>9. CASE StructuralFailure \/ Enroll
  <2>1. \A u \in Ids : txs'[u] = Swept[u]
    BY <1>9, StructuralRecorded, EnrollRecorded DEF StructuralFailure, Enroll
  <2> QED BY <2>1, SweptKin, SteadySweep
<1>10. CASE BuildFails \/ JournalInstall \/ CandidateInstalled \/ AwaitValidation \/ RolledBack
  <2>1. pc \in {"build", "journal", "installed", "await", "restored"} /\ \E p : txs' = Move(cur, p)
    BY <1>10 DEF BuildFails, JournalInstall, CandidateInstalled, AwaitValidation,
       RolledBack
  <2>2. cur \in Ids /\ txs[cur].phase # "resolved"
    BY <2>1, HandUnresolved
  <2> QED BY <2>1, <2>2, SteadyMoves
<1>11. CASE Escalate \/ UnsafeCandidate \/ CandidateLost \/ RollbackManual \/ TailRecovered
            \/ CopyCandidate
  <2>1. /\ pc \in {"escalate", "build", "copy", "rolled_back", "truncated"}
        /\ \/ txs' = Manual(cur) \/ txs' = [txs EXCEPT ![cur] = Closed(txs[cur], "tail_recovered")]
           \/ txs' = [txs EXCEPT ![cur].temp = txs[cur].cand]
    BY <1>11 DEF Escalate, UnsafeCandidate, CandidateLost, RollbackManual, TailRecovered,
       CopyCandidate
  <2>2. cur \in Ids /\ txs[cur].phase # "resolved"
    BY <2>1, HandUnresolved
  <2> QED BY <2>1, <2>2, SteadyMoves
<1>12. CASE BuildCandidate \/ BackupIdx \/ BackupSdx
  <2>1. /\ pc \in {"build", "backup", "backup_sdx"}
        /\ \/ txs' = txs \/ txs' = Manual(cur)
           \/ \E v, w : \/ txs' = [txs EXCEPT ![cur] = [@ EXCEPT !.phase = v, !.cand = w]]
                        \/ txs' = [txs EXCEPT ![cur] = [@ EXCEPT !.phase = v, !.bsdx = w]]
                        \/ txs' = [txs EXCEPT ![cur] = [@ EXCEPT !.backup = v, !.linked = w]]
    BY <1>12 DEF BuildCandidate, BackupIdx, BackupSdx
  <2>2. cur \in Ids /\ txs[cur].phase # "resolved"
    BY <2>1, HandUnresolved
  <2>3. ASSUME NEW v, NEW w,
               \/ txs' = [txs EXCEPT ![cur] = [@ EXCEPT !.phase = v, !.cand = w]]
               \/ txs' = [txs EXCEPT ![cur] = [@ EXCEPT !.phase = v, !.bsdx = w]]
               \/ txs' = [txs EXCEPT ![cur] = [@ EXCEPT !.backup = v, !.linked = w]]
        PROVE  \A u \in Ids : Steady(u)
    <3>1. CASE txs' = [txs EXCEPT ![cur] = [@ EXCEPT !.phase = v, !.cand = w]]
      BY <2>2, <3>1, SteadyArtifacts
    <3>2. CASE txs' = [txs EXCEPT ![cur] = [@ EXCEPT !.phase = v, !.bsdx = w]]
      BY <2>2, <3>2, SteadyArtifacts
    <3>3. CASE txs' = [txs EXCEPT ![cur] = [@ EXCEPT !.backup = v, !.linked = w]]
      BY <2>2, <3>3, SteadyArtifacts
    <3> QED BY <2>3, <3>1, <3>2, <3>3
  <2>4. CASE txs' = Manual(cur)
    BY <2>2, <2>4, SteadyMoves
  <2> QED BY <2>1, <2>3, <2>4
<1>13. CASE ReplaceLive
  <2>1. pc = "replace" /\ txs' = [Unlinked EXCEPT ![cur].temp = None]
    BY <1>13 DEF ReplaceLive
  <2>2. cur \in Ids /\ DOMAIN Unlinked = Ids /\ DOMAIN Unlinked[cur] = TxFields
    BY <2>1, HandUnresolved, UnlinkedFacts DEF Unlinked
  <2> DEFINE r == [Unlinked[cur] EXCEPT !.temp = None]
  <2>3. Kin(Unlinked[cur], r) /\ r.phase = Unlinked[cur].phase
    BY <2>2, UpdateKin DEF TxFields
  <2>4. txs'[cur] = r /\ \A u \in Ids : u # cur => txs'[u] = Unlinked[u]
    BY <2>1, <2>2
  <2> HIDE DEF r
  <2>5. \A u \in Ids : Kin(Unlinked[u], txs'[u]) /\ txs'[u].phase = Unlinked[u].phase
    BY <2>3, <2>4 DEF Kin
  <2> QED BY <2>5, UnlinkedKin DEF Steady, Kin
<1>14. CASE RestoreIdx
  <2>1. txs' = txs \/ txs' = Unlinked
    BY <1>14 DEF RestoreIdx
  <2> QED BY <2>1, UnlinkedKin DEF Steady
<1>15. CASE Accept
  <2>1. \A u \in Ids : \/ txs'[u] = txs[u]
                       \/ txs[u].phase \in Pending /\ txs'[u] = Closed(txs[u], "verified")
    BY <1>15 DEF Accept
  <2>2. \A u \in Ids : Kin(txs[u], Closed(txs[u], "verified"))
    BY ClosedKin DEF Shape
  <2> QED BY <2>1, <2>2 DEF Steady, Kin, Pending
<1>16. CASE Write
  <2>1. txs' = txs \/ \A u \in Ids : \/ txs'[u] = txs[u]
                                     \/ txs'[u] = [txs[u] EXCEPT !.backup = live']
    BY <1>16 DEF Write
  <2>2. \A u \in Ids : /\ Kin(txs[u], [txs[u] EXCEPT !.backup = live'])
                       /\ [txs[u] EXCEPT !.backup = live'].phase = txs[u].phase
    BY UpdateKin DEF Shape, TxFields
  <2> QED BY <2>1, <2>2 DEF Steady, Kin
<1>17. CASE Interrupt
  <2>1. \/ txs' = txs
        \/ /\ pc \in {"copy", "journal", "replace", "clean"}
           /\ \/ \E v : txs' = [txs EXCEPT ![cur].temp = v]
              \/ \E v, w : txs' = [txs EXCEPT ![cur] = [@ EXCEPT !.temp = v, !.linked = w]]
    BY <1>17 DEF Interrupt
  <2>2. CASE pc \in {"copy", "journal", "replace", "clean"}
    <3>1. cur \in Ids /\ txs[cur].phase # "resolved"
      BY <2>2, HandUnresolved
    <3>2. ASSUME NEW v, NEW w, txs' = [txs EXCEPT ![cur] = [@ EXCEPT !.temp = v, !.linked = w]]
          PROVE  \A u \in Ids : Steady(u)
      BY <3>1, <3>2, SteadyArtifacts
    <3>3. ASSUME NEW v, txs' = [txs EXCEPT ![cur].temp = v]
          PROVE  \A u \in Ids : Steady(u)
      BY <3>1, <3>3, SteadyMoves
    <3> QED BY <2>1, <3>2, <3>3
  <2> QED BY <2>1, <2>2
<1> QED BY <1>2, <1>3, <1>4, <1>5, <1>6, <1>7, <1>8, <1>9, <1>10, <1>11, <1>12, <1>13, <1>14,
   <1>15, <1>16, <1>17 DEF RNext, RStep

\* The attempts on a source: counted from one, rising as long as they are not
\* resolved, and beyond the limit only with the operator's authorization.
AttemptInv ==
    /\ Counted
    /\ \A t \in Ids : txs[t].auth \/ txs[t].attempt <= RetryLimit
    /\ \A t, u \in Ids : t < u /\ txs[t].src = txs[u].src /\ txs[t].phase # "resolved"
                           => txs[t].attempt < txs[u].attempt
    /\ pc = "enroll" =>
           auth \/ \A t \in Of(Source) : txs[t].phase # "resolved" => txs[t].attempt < RetryLimit

\* A step that adds no transaction.
LEMMA NoAttempt ==
    ASSUME RepairInv, AttemptInv, Ids' = Ids, \A u \in Ids : Steady(u),
           pc' = "enroll" =>
               auth' \/ \A t \in Ids : txs[t].src = Source' /\ txs[t].phase # "resolved"
                                         => txs[t].attempt < RetryLimit
    PROVE  AttemptInv'
<1> USE Zenon
<1>1. \A u \in Ids : /\ txs'[u].src = txs[u].src /\ txs'[u].attempt = txs[u].attempt
                     /\ txs'[u].phase # "resolved" => txs[u].phase # "resolved"
  BY DEF Steady, Kin
<1>2. \A u \in Ids : txs[u].auth => txs'[u].auth
  BY DEF Steady, Kin
<1>3. Counted'
  BY <1>1 DEF AttemptInv, Counted
<1>4. \A t \in Ids' : txs'[t].auth \/ txs'[t].attempt <= RetryLimit
  BY <1>1, <1>2 DEF AttemptInv
<1>5. ASSUME NEW t \in Ids', NEW u \in Ids', t < u, txs'[t].src = txs'[u].src,
             txs'[t].phase # "resolved"
      PROVE  txs'[t].attempt < txs'[u].attempt
  <2>1. txs[t].src = txs[u].src /\ txs[t].phase # "resolved"
    BY <1>1, <1>5
  <2>2. txs[t].attempt < txs[u].attempt
    BY <1>5, <2>1 DEF AttemptInv
  <2> QED BY <1>1, <2>2
<1>6. pc' = "enroll" =>
        auth' \/ \A t \in Of(Source)' : txs'[t].phase # "resolved" => txs'[t].attempt < RetryLimit
  BY <1>1 DEF Of
<1> QED BY <1>3, <1>4, <1>5, <1>6 DEF AttemptInv

\* A step that adds transaction NewId as attempt a + 1 on source s.
LEMMA OneAttempt ==
    ASSUME RepairInv, AttemptInv, \A u \in Ids : Steady(u), Ids' = Ids \cup {NewId},
           NEW s, NEW a \in 0..Len(txs),
           \A t \in Ids : txs[t].src = s /\ txs[t].phase # "resolved" => txs[t].attempt <= a,
           txs'[NewId].src = s, txs'[NewId].attempt = a + 1, txs'[NewId].auth = auth,
           auth \/ a + 1 <= RetryLimit, pc' # "enroll"
    PROVE  AttemptInv'
<1> USE Zenon
<1>0. Len(txs) \in Nat /\ Ids = 1..Len(txs)
  BY SeqFacts DEF RepairInv, Shape, Ids
<1>1. \A u \in Ids : /\ txs'[u].src = txs[u].src /\ txs'[u].attempt = txs[u].attempt
                     /\ txs'[u].phase # "resolved" => txs[u].phase # "resolved"
  BY DEF Steady, Kin
<1>2. \A u \in Ids : txs[u].auth => txs'[u].auth
  BY DEF Steady, Kin
<1>3. /\ NewId \in Nat /\ \A t \in Ids : t \in Nat /\ t < NewId
      /\ \A t \in Ids : txs[t].attempt \in Nat
  BY <1>0, SMT DEF NewId, AttemptInv, Counted
<1>4. Counted'
  <2>1. \A t \in Ids : txs'[t].attempt \in 1..t
    BY <1>1 DEF AttemptInv, Counted
  <2>2. txs'[NewId].attempt \in 1..NewId
    BY <1>0, SMT DEF NewId
  <2> QED BY <2>1, <2>2 DEF Counted
<1>5. \A t \in Ids' : txs'[t].auth \/ txs'[t].attempt <= RetryLimit
  BY <1>1, <1>2 DEF AttemptInv
<1>6. ASSUME NEW t \in Ids, NEW u \in Ids, t < u, txs'[t].src = txs'[u].src,
             txs'[t].phase # "resolved"
      PROVE  txs'[t].attempt < txs'[u].attempt
  <2>1. txs[t].src = txs[u].src /\ txs[t].phase # "resolved"
    BY <1>1, <1>6
  <2>2. txs[t].attempt < txs[u].attempt
    BY <1>6, <2>1 DEF AttemptInv
  <2> QED BY <1>1, <2>2
<1>7. \A t \in Ids : txs'[t].src = s /\ txs'[t].phase # "resolved"
                       => txs'[t].attempt < txs'[NewId].attempt
  BY <1>1, <1>3, SMT
<1>8. \A t, u \in Ids' : t < u /\ txs'[t].src = txs'[u].src /\ txs'[t].phase # "resolved"
                           => txs'[t].attempt < txs'[u].attempt
  <2> SUFFICES ASSUME NEW t \in Ids', NEW u \in Ids', t < u, txs'[t].src = txs'[u].src,
                      txs'[t].phase # "resolved"
               PROVE  txs'[t].attempt < txs'[u].attempt
    OBVIOUS
  <2>1. t \in Ids
    BY <1>3, SMT
  <2> QED BY <1>6, <1>7, <2>1
<1> QED BY <1>4, <1>5, <1>8 DEF AttemptInv

\* Only the admission of the source leads to the enrolment.
LEMMA Admitted ==
    ASSUME RNext, pc' = "enroll"
    PROVE  AdmitSource \/ (RequestRetry /\ pc = "enroll")
<1>1. /\ ~Write /\ ~SortIndex /\ ~Interrupt /\ (RequestRetry => pc = "enroll")
  BY DEF Write, SortIndex, RequestRetry, Interrupt, thread
<1>2. ASSUME NEW t \in Ids
      PROVE  /\ ~ValidateInstalledArtifacts(t) /\ ~RecoverInterruptedInstall(t)
             /\ ~CloseRolledBack(t) /\ ~ReconcileResolvedPreinstall(t) /\ ~Reject(t)
  BY DEF ValidateInstalledArtifacts, RecoverInterruptedInstall, CloseRolledBack,
     ReconcileResolvedPreinstall, Reject, thread
<1>3. /\ ~StartGeneration /\ ~PrepareDone /\ ~StatusWritable /\ ~StatusAbsent /\ ~StatusReadonly
      /\ ~Accept /\ ~AuthorizeUnfingerprinted /\ ~RefuseUnfingerprinted /\ ~PreflightFails
      /\ ~PreflightPasses /\ ~RefuseSource /\ ~StructuralFailure /\ ~ResumeRefused /\ ~Enroll
  BY Zenon DEF StartGeneration, PrepareDone, StatusWritable, StatusAbsent, StatusReadonly, Accept,
     AuthorizeUnfingerprinted, RefuseUnfingerprinted, PreflightFails, PreflightPasses,
     RefuseSource, StructuralFailure, ResumeRefused, Enroll, Fails
<1>4. /\ ~TruncateTail /\ ~TailRecovered /\ ~BackupSdx /\ ~CopyCandidate /\ ~JournalInstall
      /\ ~ReplaceLive /\ ~RemoveStaleSdx /\ ~CandidateInstalled /\ ~RestoreIdx /\ ~RestoreSdx
      /\ ~RolledBack /\ ~RollbackManual /\ ~AwaitValidation
  BY Zenon DEF TruncateTail, TailRecovered, BackupSdx, CopyCandidate, JournalInstall, ReplaceLive,
     RemoveStaleSdx, CandidateInstalled, RestoreIdx, RestoreSdx, RolledBack, RollbackManual,
     AwaitValidation
<1>5. /\ ~BuildCandidate /\ ~BuildFails /\ ~Escalate /\ ~UnsafeCandidate /\ ~TailFails
      /\ ~BackupIdx /\ ~CandidateLost
  BY Zenon DEF BuildCandidate, BuildFails, Escalate, UnsafeCandidate, TailFails, BackupIdx,
     CandidateLost, Fails, Goes
<1>6. ~Resume
  BY DEF Resume
<1> QED BY <1>1, <1>2, <1>3, <1>4, <1>5, <1>6, Zenon DEF RNext, RStep

\* The attempt of a new record.
LEMMA NewAttempt ==
    ASSUME NEW s, NEW p, NEW a
    PROVE  NewTx(s, p, a).attempt = a
BY SMTT(30) DEF NewTx

\* Every step keeps the count of attempts.
LEMMA AttemptStep == RepairInv /\ RepairInv' /\ AttemptInv /\ [RNext]_rvars => AttemptInv'
<1> USE Zenon
<1> SUFFICES ASSUME RepairInv, RepairInv', AttemptInv, [RNext]_rvars
             PROVE  AttemptInv'
  OBVIOUS
<1>0. Shape /\ Counted
  BY DEF RepairInv, AttemptInv
<1>1. CASE UNCHANGED rvars
  BY <1>1 DEF rvars, thread, files, AttemptInv, Counted, Ids, Of, Source
<1>2. ASSUME RNext
      PROVE  \A u \in Ids : Steady(u)
  BY <1>2, SteadyStep
<1> DEFINE S == {t \in Of(Source) : txs[t].phase # "resolved"}
<1>3. /\ S \subseteq Ids /\ Of(NoSource) \subseteq Ids
      /\ \A t \in Ids : txs[t].src = Source /\ txs[t].phase # "resolved" => t \in S
      /\ \A t \in Ids : txs[t].src = NoSource => t \in Of(NoSource)
      /\ S \subseteq Of(Source) /\ \A t \in S : txs[t].phase # "resolved"
  BY DEF Of
<1>4. /\ Attempts(S) \in 0..Len(txs)
      /\ \A t \in S : txs[t].attempt <= Attempts(S)
      /\ Attempts(S) = 0 \/ \E t \in S : Attempts(S) = txs[t].attempt
  BY <1>0, <1>3, AttemptsFacts
<1>5. Len(txs) \in Nat /\ RetryLimit \in Nat \ {0} /\ Attempts(S) \in Nat
  BY <1>0, <1>4, SeqFacts, RepairAssumption, SMT DEF Shape
<1>6. \A t \in Ids : txs[t].attempt \in Nat
  BY <1>0, <1>5, SMT DEF Counted, Ids
<1>7. CASE RNext /\ ~PreflightFails /\ ~StructuralFailure /\ ~Enroll
  <2>1. Ids' = Ids
    BY <1>7, SameIds
  <2>2. ASSUME pc' = "enroll"
        PROVE  auth' \/ \A t \in Ids : txs[t].src = Source' /\ txs[t].phase # "resolved"
                                         => txs[t].attempt < RetryLimit
    <3>1. CASE AdmitSource
      <4>1. Source' = Source /\ (auth' = TRUE \/ ~Exhausted)
        BY <3>1 DEF AdmitSource, Source, files
      <4>2. CASE ~Exhausted
        <5>1. ~(Attempts(S) >= RetryLimit)
          BY <4>2 DEF Exhausted
        <5>2. \A t \in S : txs[t].attempt < RetryLimit
          BY <1>3, <1>4, <1>5, <1>6, <5>1, SMT
        <5> QED BY <1>3, <4>1, <5>2
      <4> QED BY <4>1, <4>2
    <3>2. CASE RequestRetry /\ pc = "enroll"
      <4>1. Source' = Source /\ auth' = auth
        BY <3>2 DEF RequestRetry, Source, thread, files
      <4> QED BY <3>2, <4>1 DEF AttemptInv, Of
    <3> QED BY <1>7, <2>2, <3>1, <3>2, Admitted
  <2> QED BY <1>2, <1>7, <2>1, <2>2, NoAttempt
<1>8. CASE PreflightFails
  <2>0. pc' # "enroll" /\ RNext
    BY <1>8 DEF PreflightFails, Fails, RNext, RStep
  <2>1. CASE txs' = txs
    <3>1. Ids' = Ids
      BY <2>1 DEF Ids
    <3> QED BY <1>2, <2>0, <3>1, NoAttempt
  <2>2. CASE txs' # txs
    <3>1. PICK a : a = Attempts(Of(NoSource))
      OBVIOUS
    <3>2. /\ txs' = Append(txs, NewTx(NoSource, "failed_preinstall", a + 1))
          /\ auth \/ ~(a >= RetryLimit)
      BY <1>8, <2>2, <3>1 DEF PreflightFails
    <3>3. a \in 0..Len(txs) /\ \A t \in Of(NoSource) : txs[t].attempt <= a
      BY <1>0, <1>3, <3>1, AttemptsFacts
    <3>4. auth \/ a + 1 <= RetryLimit
      <4>1. a \in Nat
        BY <1>5, <3>3, SMT
      <4> QED BY <1>5, <3>2, <4>1, SMT
    <3> DEFINE r == NewTx(NoSource, "failed_preinstall", a + 1)
    <3>5. DOMAIN r = TxFields /\ r.src = NoSource /\ r.auth = auth /\ r.attempt = a + 1
      BY NewFields, NewAttempt, SMT
    <3>6. txs' = Append(txs, r)
      BY <3>2
    <3> HIDE DEF r
    <3>7. txs'[NewId] = r /\ Ids' = Ids \cup {NewId}
      BY <1>0, <3>5, <3>6, CreateEffect
    <3>8. \A t \in Ids : txs[t].src = NoSource /\ txs[t].phase # "resolved" => txs[t].attempt <= a
      BY <1>3, <3>3
    <3> QED BY <1>2, <2>0, <3>3, <3>4, <3>5, <3>7, <3>8, OneAttempt
  <2> QED BY <2>1, <2>2
<1>9. CASE StructuralFailure \/ Enroll
  <2>0. pc = "enroll" /\ pc' # "enroll" /\ RNext
    BY <1>9 DEF StructuralFailure, Enroll, Fails, RNext, RStep
  <2>1. PICK a : a = Attempts(S)
    OBVIOUS
  <2>2. a + 1 = NextAttempt
    BY <2>1 DEF NextAttempt
  <2>3. PICK r : /\ txs' = Append(Swept, r)
                 /\ \/ r = NewTx(Source, "building", NextAttempt)
                    \/ r = AsManual(NewTx(Source, "building", NextAttempt), AfterSweep)
    BY <1>9 DEF StructuralFailure, Enroll
  <2>4. DOMAIN r = TxFields /\ r.src = Source /\ r.auth = auth /\ r.attempt = a + 1
    <3> DEFINE n == NewTx(Source, "building", NextAttempt)
    <3>1. DOMAIN n = TxFields /\ n.src = Source /\ n.auth = auth /\ n.attempt = a + 1
      BY <2>2, NewFields, NewAttempt, SMT
    <3>2. r = n \/ r = AsManual(n, AfterSweep)
      BY <2>3
    <3> HIDE DEF n
    <3>3. DOMAIN AsManual(n, AfterSweep) = TxFields /\ Kin(n, AsManual(n, AfterSweep))
      BY <3>1, ManualFields, ClosedKin
    <3> QED BY <3>1, <3>2, <3>3 DEF Kin
  <2>5. txs'[NewId] = r /\ Ids' = Ids \cup {NewId}
    BY <1>0, <2>3, <2>4, SweepEffect
  <2>6. auth \/ a + 1 <= RetryLimit
    <3>1. auth \/ \A t \in S : txs[t].attempt < RetryLimit
      BY <1>3, <2>0 DEF AttemptInv
    <3>2. CASE \A t \in S : txs[t].attempt < RetryLimit
      <4>1. a = 0 \/ a < RetryLimit
        BY <1>4, <2>1, <3>2
      <4> QED BY <1>5, <2>1, <4>1, SMT
    <3> QED BY <3>1, <3>2
  <2>7. \A t \in Ids : txs[t].src = Source /\ txs[t].phase # "resolved" => txs[t].attempt <= a
    BY <1>3, <1>4, <2>1
  <2>8. a \in 0..Len(txs)
    BY <1>4, <2>1
  <2> QED BY <1>2, <2>0, <2>4, <2>5, <2>6, <2>7, <2>8, OneAttempt
<1> QED BY <1>1, <1>7, <1>8, <1>9

\* How attempts are numbered, in every reachable state: what _next_attempt and
\* the retry limit of _repair_one keep up through crashes, sweeps and rollbacks.
THEOREM AttemptInvariance == RSpec => []AttemptInv
<1>1. RInit => AttemptInv
  <2> SUFFICES ASSUME RInit PROVE AttemptInv
    OBVIOUS
  <2>1. Ids = {} /\ pc = "off"
    BY EmptyJournal DEF RInit
  <2> QED BY <2>1, Zenon DEF AttemptInv, Counted
<1> QED BY <1>1, AttemptStep, RepairInvariance, PTL DEF RSpec

\* At most RetryLimit records of a source have different attempts up to the limit.
LEMMA AttemptsCount == RepairInv /\ AttemptInv => AttemptsAreBounded
<1> USE Zenon
<1> SUFFICES ASSUME RepairInv, AttemptInv, NEW s
             PROVE  Cardinality({t \in Of(s) : ~txs[t].auth /\ txs[t].phase # "resolved"})
                      <= RetryLimit
  BY DEF AttemptsAreBounded
<1> DEFINE C == {t \in Of(s) : ~txs[t].auth /\ txs[t].phase # "resolved"}
           f == [t \in C |-> txs[t].attempt]
<1>0. Ids \subseteq Nat /\ RetryLimit \in Nat \ {0}
  BY IdFacts, RepairAssumption DEF RepairInv
<1>1. \A t \in C : t \in Ids /\ txs[t].src = s /\ ~txs[t].auth /\ txs[t].phase # "resolved"
  BY DEF Of
<1>2. \A t \in C : txs[t].attempt <= RetryLimit /\ txs[t].attempt \in 1..t /\ t \in Nat
  BY <1>0, <1>1 DEF AttemptInv, Counted
<1>3. \A t \in C : txs[t].attempt \in 1..RetryLimit
  BY <1>0, <1>2, SMT
<1>4. f \in [C -> 1..RetryLimit]
  BY <1>3
<1>5. \A t, u \in C : t < u => txs[t].attempt < txs[u].attempt
  BY <1>1 DEF AttemptInv
<1>6. \A t, u \in C : txs[t].attempt = txs[u].attempt => t = u
  BY <1>2, <1>3, <1>5, SMT
<1>7. f \in Injection(C, 1..RetryLimit)
  BY <1>4, <1>6 DEF Injection, IsInjective
<1>8. IsFiniteSet(1..RetryLimit) /\ Cardinality(1..RetryLimit) = RetryLimit
  BY <1>0, FS_Interval, SMT
<1> HIDE DEF f
<1>9. Cardinality(C) <= Cardinality(1..RetryLimit)
  <2> HIDE DEF C
  <2> QED BY <1>7, <1>8, FS_Injection
<1> QED BY <1>8, <1>9

\* AttemptsAreBounded for every retry limit and every number of transactions:
\* without the operator no source gets more than PREINSTALL_RETRY_LIMIT
\* attempts, those resolved apart (_repair_one, _next_attempt).
THEOREM AttemptsStayBounded == RSpec => []AttemptsAreBounded
BY AttemptsCount, AttemptInvariance, RepairInvariance, PTL
=============================================================================

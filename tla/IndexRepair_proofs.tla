------------------------- MODULE IndexRepair_proofs -------------------------
(***************************************************************************)
(* What holds of the index repair for every number of transactions, every  *)
(* number of versions of the .dat and every retry limit.  The journal is a *)
(* sequence of records: the first lemmas say what an update of one record, *)
(* of all of them, or an addition leaves as it was, so that the rest needs *)
(* to know nothing of sequences.  Then come the invariant RepairInv, the   *)
(* kinds of steps that preserve it, each action as one of these kinds, and *)
(* the properties that follow.                                             *)
(***************************************************************************)
EXTENDS IndexRepair, TLAPS

\* The fields of a journal record.
TxFields == {"phase", "src", "attempt", "oldIdx", "oldSdx", "cand", "temp", "backup",
             "bsdx", "linked", "retry", "at", "auth"}

\* Some sequence.
IsSeq(s) == \E S : s \in Seq(S)

\* The journal is a sequence of records.
Shape ==
    /\ IsSeq(txs)
    /\ \A t \in Ids : DOMAIN txs[t] = TxFields

\* A sequence is a function on 1..Len.
LEMMA SeqFacts ==
    ASSUME NEW s, IsSeq(s)
    PROVE  Len(s) \in Nat /\ DOMAIN s = 1..Len(s) /\ s = [i \in 1..Len(s) |-> s[i]]
BY SMTT(30) DEF IsSeq

\* A function on 1..n is a sequence of length n.
LEMMA FunIsSeq ==
    ASSUME NEW n \in Nat, NEW f, f = [i \in 1..n |-> f[i]]
    PROVE  IsSeq(f) /\ Len(f) = n
<1> DEFINE S == {f[i] : i \in 1..n}
<1>1. f \in [1..n -> S]
  BY Zenon
<1>2. f \in Seq(S)
  BY <1>1, SMTT(30)
<1>3. DOMAIN f = 1..n /\ DOMAIN f = 1..Len(f) /\ Len(f) \in Nat
  BY <1>1, <1>2, SMTT(30)
<1> QED BY <1>2, <1>3, SMTT(30) DEF IsSeq

\* Append keeps what is there and adds one at the end.
LEMMA Added ==
    ASSUME NEW s, IsSeq(s), NEW r
    PROVE  /\ IsSeq(Append(s, r)) /\ Len(Append(s, r)) = Len(s) + 1
           /\ Append(s, r)[Len(s) + 1] = r
           /\ \A i \in 1..Len(s) : Append(s, r)[i] = s[i]
<1>1. PICK S : s \in Seq(S)
  BY DEF IsSeq
<1>2. s \in Seq(S \cup {r})
  BY <1>1, SMTT(30)
<1>3. Append(s, r) \in Seq(S \cup {r})
  BY <1>2, SMTT(30)
<1> QED BY <1>2, <1>3, SMTT(30) DEF IsSeq

\* An update of linked keeps the other fields (a rename ends the hard links).
LEMMA FieldFacts ==
    ASSUME NEW r, DOMAIN r = TxFields, NEW v
    PROVE  /\ DOMAIN [r EXCEPT !.linked = v] = TxFields
           /\ \A f \in TxFields \ {"linked"} : [r EXCEPT !.linked = v][f] = r[f]
BY Zenon

\* transition to a terminal phase keeps the source.
LEMMA ClosedFields ==
    ASSUME NEW r, DOMAIN r = TxFields, NEW p
    PROVE  /\ DOMAIN Closed(r, p) = TxFields /\ Closed(r, p).phase = p
           /\ Closed(r, p).src = r.src
BY SMTT(30) DEF Closed, TxFields

\* _manual keeps the source.
LEMMA ManualFields ==
    ASSUME NEW r, DOMAIN r = TxFields, NEW a
    PROVE  /\ DOMAIN AsManual(r, a) = TxFields /\ AsManual(r, a).phase = "manual"
           /\ AsManual(r, a).src = r.src
<1>1. /\ DOMAIN Closed(r, "manual") = TxFields /\ Closed(r, "manual").phase = "manual"
      /\ Closed(r, "manual").src = r.src
  BY ClosedFields
<1> QED BY <1>1, SMTT(30) DEF AsManual, TxFields

\* journal.create records the source and the live files.
LEMMA NewFields ==
    ASSUME NEW s, NEW p, NEW a
    PROVE  /\ DOMAIN NewTx(s, p, a) = TxFields /\ NewTx(s, p, a).phase = p
           /\ NewTx(s, p, a).src = s /\ NewTx(s, p, a).auth = auth
           /\ NewTx(s, p, a).oldIdx = live /\ NewTx(s, p, a).oldSdx = sdx
BY SMTT(30) DEF NewTx, TxFields

-----------------------------------------------------------------------------
(* What the operations on the journal change.                              *)

\* Only transaction t may have changed.
Only(t) ==
    /\ Shape' /\ Ids' = Ids
    /\ \A u \in Ids : u # t => txs'[u] = txs[u]

\* Transaction t keeps its source and its artifacts.
Same(t) ==
    /\ txs'[t].src = txs[t].src /\ txs'[t].cand = txs[t].cand /\ txs'[t].temp = txs[t].temp
    /\ txs'[t].oldIdx = txs[t].oldIdx /\ txs'[t].oldSdx = txs[t].oldSdx
    /\ txs'[t].backup = txs[t].backup /\ txs'[t].bsdx = txs[t].bsdx
    /\ txs'[t].linked = txs[t].linked

\* An update of one record of the journal.
LEMMA SetOne ==
    ASSUME Shape, NEW t \in Ids, NEW r, DOMAIN r = TxFields, txs' = [txs EXCEPT ![t] = r]
    PROVE  Only(t) /\ txs'[t] = r
<1>1. DOMAIN txs = 1..Len(txs) /\ Len(txs) \in Nat
  BY SeqFacts DEF Shape
<1>2. txs' = [i \in 1..Len(txs) |-> txs'[i]]
  BY <1>1, Zenon
<1>3. txs'[t] = r /\ \A i \in 1..Len(txs) : i # t => txs'[i] = txs[i]
  BY <1>1, Zenon DEF Ids
<1>4. IsSeq(txs') /\ Len(txs') = Len(txs)
  BY <1>1, <1>2, FunIsSeq
<1> QED BY <1>3, <1>4, SMTT(30) DEF Shape, Ids, Only

\* transition changes the phase of one record and nothing else of it.
LEMMA MoveEffect ==
    ASSUME Shape, NEW t \in Ids, NEW p, txs' = Move(t, p)
    PROVE  Only(t) /\ txs'[t].phase = p /\ Same(t)
<1> DEFINE r == [txs[t] EXCEPT !.phase = p]
<1>1. txs' = [txs EXCEPT ![t] = r]
  BY DEF Move
<1>2. /\ DOMAIN r = TxFields /\ r.phase = p /\ r.src = txs[t].src /\ r.cand = txs[t].cand
      /\ r.temp = txs[t].temp /\ r.oldIdx = txs[t].oldIdx /\ r.oldSdx = txs[t].oldSdx
      /\ r.backup = txs[t].backup /\ r.bsdx = txs[t].bsdx /\ r.linked = txs[t].linked
  BY SMTT(30) DEF Shape, TxFields
<1> HIDE DEF r
<1> QED BY <1>1, <1>2, SetOne, Zenon DEF Same

\* transition to a terminal phase closes one record.
LEMMA CloseEffect ==
    ASSUME Shape, NEW t \in Ids, NEW p, txs' = [txs EXCEPT ![t] = Closed(txs[t], p)]
    PROVE  Only(t) /\ txs'[t].phase = p /\ txs'[t].src = txs[t].src
<1>1. /\ DOMAIN Closed(txs[t], p) = TxFields /\ Closed(txs[t], p).phase = p
      /\ Closed(txs[t], p).src = txs[t].src
  BY ClosedFields DEF Shape
<1>2. Only(t) /\ txs'[t] = Closed(txs[t], p)
  BY <1>1, SetOne, Zenon
<1> QED BY <1>1, <1>2

\* _manual closes one record.
LEMMA ManualEffect ==
    ASSUME Shape, NEW t \in Ids, txs' = Manual(t)
    PROVE  Only(t) /\ txs'[t].phase = "manual" /\ txs'[t].src = txs[t].src
<1> DEFINE r == AsManual(txs[t], NextAt)
<1>1. DOMAIN r = TxFields /\ r.phase = "manual" /\ r.src = txs[t].src
  BY ManualFields, Zenon DEF Shape
<1>2. Only(t) /\ txs'[t] = r
  BY <1>1, SetOne, Zenon DEF Manual
<1> QED BY <1>1, <1>2

\* A candidate is recorded.
LEMMA CandEffect ==
    ASSUME Shape, NEW t \in Ids, NEW p, NEW c,
           txs' = [txs EXCEPT ![t] = [@ EXCEPT !.phase = p, !.cand = c]]
    PROVE  /\ Only(t) /\ txs'[t].phase = p /\ txs'[t].src = txs[t].src
           /\ txs'[t].cand = c /\ txs'[t].temp = txs[t].temp
           /\ txs'[t].oldIdx = txs[t].oldIdx
           /\ txs'[t].oldSdx = txs[t].oldSdx
           /\ txs'[t].backup = txs[t].backup /\ txs'[t].bsdx = txs[t].bsdx
           /\ txs'[t].linked = txs[t].linked
<1> DEFINE r == [txs[t] EXCEPT !.phase = p, !.cand = c]
<1>0. DOMAIN txs = Ids /\ DOMAIN txs[t] = TxFields
  BY SeqFacts DEF Shape, Ids
<1>1. txs' = [txs EXCEPT ![t] = r]
  BY <1>0, SMTT(30)
<1>2. /\ DOMAIN r = TxFields /\ r.phase = p /\ r.src = txs[t].src
      /\ r.cand = c /\ r.temp = txs[t].temp /\ r.oldIdx = txs[t].oldIdx
      /\ r.oldSdx = txs[t].oldSdx /\ r.backup = txs[t].backup
      /\ r.bsdx = txs[t].bsdx /\ r.linked = txs[t].linked
  BY <1>0, SMTT(30) DEF TxFields
<1> HIDE DEF r
<1>3. Only(t) /\ txs'[t] = r
  BY <1>1, <1>2, SetOne, Zenon
<1> QED BY <1>2, <1>3, Zenon

\* A backup is made.
LEMMA BackupEffect ==
    ASSUME Shape, NEW t \in Ids, NEW b, NEW l,
           txs' = [txs EXCEPT ![t] = [@ EXCEPT !.backup = b, !.linked = l]]
    PROVE  /\ Only(t) /\ txs'[t].phase = txs[t].phase
           /\ txs'[t].src = txs[t].src /\ txs'[t].cand = txs[t].cand
           /\ txs'[t].temp = txs[t].temp /\ txs'[t].oldIdx = txs[t].oldIdx
           /\ txs'[t].oldSdx = txs[t].oldSdx /\ txs'[t].backup = b
           /\ txs'[t].bsdx = txs[t].bsdx /\ txs'[t].linked = l
<1> DEFINE r == [txs[t] EXCEPT !.backup = b, !.linked = l]
<1>0. DOMAIN txs = Ids /\ DOMAIN txs[t] = TxFields
  BY SeqFacts DEF Shape, Ids
<1>1. txs' = [txs EXCEPT ![t] = r]
  BY <1>0, SMTT(30)
<1>2. /\ DOMAIN r = TxFields /\ r.phase = txs[t].phase /\ r.src = txs[t].src
      /\ r.cand = txs[t].cand /\ r.temp = txs[t].temp
      /\ r.oldIdx = txs[t].oldIdx /\ r.oldSdx = txs[t].oldSdx /\ r.backup = b
      /\ r.bsdx = txs[t].bsdx /\ r.linked = l
  BY <1>0, SMTT(30) DEF TxFields
<1> HIDE DEF r
<1>3. Only(t) /\ txs'[t] = r
  BY <1>1, <1>2, SetOne, Zenon
<1> QED BY <1>2, <1>3, Zenon

\* The temporary copy changes.
LEMMA TempEffect ==
    ASSUME Shape, NEW t \in Ids, NEW v,
           txs' = [txs EXCEPT ![t].temp = v]
    PROVE  /\ Only(t) /\ txs'[t].phase = txs[t].phase
           /\ txs'[t].src = txs[t].src /\ txs'[t].cand = txs[t].cand
           /\ txs'[t].temp = v /\ txs'[t].oldIdx = txs[t].oldIdx
           /\ txs'[t].oldSdx = txs[t].oldSdx
           /\ txs'[t].backup = txs[t].backup /\ txs'[t].bsdx = txs[t].bsdx
           /\ txs'[t].linked = txs[t].linked
<1> DEFINE r == [txs[t] EXCEPT !.temp = v]
<1>0. DOMAIN txs = Ids /\ DOMAIN txs[t] = TxFields
  BY SeqFacts DEF Shape, Ids
<1>1. txs' = [txs EXCEPT ![t] = r]
  BY <1>0, SMTT(30)
<1>2. /\ DOMAIN r = TxFields /\ r.phase = txs[t].phase /\ r.src = txs[t].src
      /\ r.cand = txs[t].cand /\ r.temp = v /\ r.oldIdx = txs[t].oldIdx
      /\ r.oldSdx = txs[t].oldSdx /\ r.backup = txs[t].backup
      /\ r.bsdx = txs[t].bsdx /\ r.linked = txs[t].linked
  BY <1>0, SMTT(30) DEF TxFields
<1> HIDE DEF r
<1>3. Only(t) /\ txs'[t] = r
  BY <1>1, <1>2, SetOne, Zenon
<1> QED BY <1>2, <1>3, Zenon

\* A rename is undone.
LEMMA UndoneEffect ==
    ASSUME Shape, NEW t \in Ids, NEW v, NEW l,
           txs' = [txs EXCEPT ![t] = [@ EXCEPT !.temp = v, !.linked = l]]
    PROVE  /\ Only(t) /\ txs'[t].phase = txs[t].phase
           /\ txs'[t].src = txs[t].src /\ txs'[t].cand = txs[t].cand
           /\ txs'[t].temp = v /\ txs'[t].oldIdx = txs[t].oldIdx
           /\ txs'[t].oldSdx = txs[t].oldSdx
           /\ txs'[t].backup = txs[t].backup /\ txs'[t].bsdx = txs[t].bsdx
           /\ txs'[t].linked = l
<1> DEFINE r == [txs[t] EXCEPT !.temp = v, !.linked = l]
<1>0. DOMAIN txs = Ids /\ DOMAIN txs[t] = TxFields
  BY SeqFacts DEF Shape, Ids
<1>1. txs' = [txs EXCEPT ![t] = r]
  BY <1>0, SMTT(30)
<1>2. /\ DOMAIN r = TxFields /\ r.phase = txs[t].phase /\ r.src = txs[t].src
      /\ r.cand = txs[t].cand /\ r.temp = v /\ r.oldIdx = txs[t].oldIdx
      /\ r.oldSdx = txs[t].oldSdx /\ r.backup = txs[t].backup
      /\ r.bsdx = txs[t].bsdx /\ r.linked = l
  BY <1>0, SMTT(30) DEF TxFields
<1> HIDE DEF r
<1>3. Only(t) /\ txs'[t] = r
  BY <1>1, <1>2, SetOne, Zenon
<1> QED BY <1>2, <1>3, Zenon

\* An update of every record keeps their number.
LEMMA MapEffect ==
    ASSUME Shape, txs' = [t \in Ids |-> txs'[t]], \A t \in Ids : DOMAIN txs'[t] = TxFields
    PROVE  Shape' /\ Ids' = Ids
<1>1. IsSeq(txs') /\ Len(txs') = Len(txs)
  BY SeqFacts, FunIsSeq DEF Shape, Ids
<1> QED BY <1>1, SMTT(30) DEF Shape, Ids

\* The place of the next record.
NewId == Len(txs) + 1

\* A record added to s, which has as many as the journal.
LEMMA AppendEffect ==
    ASSUME NEW s, IsSeq(s), Len(s) = Len(txs), \A t \in Ids : DOMAIN s[t] = TxFields,
           NEW r, DOMAIN r = TxFields, txs' = Append(s, r)
    PROVE  /\ Shape' /\ txs'[NewId] = r /\ Ids' = Ids \cup {NewId} /\ NewId \notin Ids
           /\ \A t \in Ids : txs'[t] = s[t]
<1>1. /\ IsSeq(txs') /\ Len(txs') = Len(s) + 1 /\ txs'[Len(s) + 1] = r
      /\ \A i \in 1..Len(s) : txs'[i] = s[i]
  BY Added
<1>2. Len(s) \in Nat
  BY SeqFacts
<1> QED BY <1>1, <1>2, SMTT(30) DEF Shape, Ids, NewId

\* The sweep closes the stale records and leaves the others.
LEMMA SweptFacts ==
    ASSUME Shape
    PROVE  /\ IsSeq(Swept) /\ Len(Swept) = Len(txs)
           /\ \A t \in Ids : /\ DOMAIN Swept[t] = TxFields
                             /\ Swept[t].src = txs[t].src
                             /\ t \in Stale => Swept[t].phase = "manual"
                             /\ t \notin Stale => Swept[t] = txs[t]
<1>1. \A t \in Ids : Swept[t] = IF t \in Stale THEN AsManual(txs[t], NextAt) ELSE txs[t]
  BY Zenon DEF Swept
<1>2. Swept = [i \in 1..Len(txs) |-> Swept[i]] /\ Len(txs) \in Nat
  BY SeqFacts, Zenon DEF Swept, Ids, Shape
<1>3. IsSeq(Swept) /\ Len(Swept) = Len(txs)
  BY <1>2, FunIsSeq
<1>4. ASSUME NEW t \in Ids
      PROVE  /\ DOMAIN Swept[t] = TxFields
             /\ Swept[t].src = txs[t].src
             /\ t \in Stale => Swept[t].phase = "manual"
             /\ t \notin Stale => Swept[t] = txs[t]
  <2>1. CASE t \in Stale
    <3>1. Swept[t] = AsManual(txs[t], NextAt)
      BY <1>1, <2>1
    <3>2. DOMAIN txs[t] = TxFields
      BY DEF Shape
    <3>3. /\ DOMAIN AsManual(txs[t], NextAt) = TxFields
          /\ AsManual(txs[t], NextAt).phase = "manual"
          /\ AsManual(txs[t], NextAt).src = txs[t].src
      BY <3>2, ManualFields, Zenon
    <3> QED BY <2>1, <3>1, <3>3, Zenon
  <2>2. CASE t \notin Stale
    BY <1>1, <2>2, Zenon DEF Shape
  <2> QED BY <2>1, <2>2
<1> QED BY <1>3, <1>4

\* The places of the journal.
LEMMA IdFacts ==
    ASSUME Shape
    PROVE  Ids \subseteq Nat /\ DOMAIN txs = Ids /\ txs = [t \in Ids |-> txs[t]]
BY SeqFacts DEF Shape, Ids

\* The same after a step.
LEMMA IdFactsNext ==
    ASSUME Shape'
    PROVE  DOMAIN txs' = Ids'
BY SeqFacts DEF Shape, Ids

\* No record has been made yet.
LEMMA EmptyJournal == txs = <<>> => Shape /\ Ids = {}
BY DEF Shape, IsSeq, Ids

\* journal.create adds one record and keeps the others.
LEMMA CreateEffect ==
    ASSUME Shape, NEW r, DOMAIN r = TxFields, txs' = Append(txs, r)
    PROVE  /\ Shape' /\ txs'[NewId] = r /\ Ids' = Ids \cup {NewId} /\ NewId \notin Ids
           /\ \A t \in Ids : txs'[t] = txs[t]
BY AppendEffect DEF Shape

\* A failed look at the volume is recorded.
LEMMA FailureRecorded ==
    ASSUME Shape, NEW s, NEW p, NEW a, txs' = Append(txs, NewTx(s, p, a))
    PROVE  /\ Shape' /\ Ids' = Ids \cup {NewId} /\ NewId \notin Ids
           /\ txs'[NewId].phase = p /\ txs'[NewId].src = s
           /\ \A t \in Ids : txs'[t] = txs[t]
<1>1. PICK r : r = NewTx(s, p, a)
  OBVIOUS
<1>2. DOMAIN r = TxFields /\ r.phase = p /\ r.src = s
  BY <1>1, NewFields
<1>3. txs' = Append(txs, r)
  BY <1>1
<1> QED BY <1>2, <1>3, CreateEffect, Zenon

\* The same after the sweep.
LEMMA SweepEffect ==
    ASSUME Shape, NEW r, DOMAIN r = TxFields, txs' = Append(Swept, r)
    PROVE  /\ Shape' /\ txs'[NewId] = r /\ Ids' = Ids \cup {NewId} /\ NewId \notin Ids
           /\ \A t \in Ids : txs'[t] = Swept[t]
BY AppendEffect, SweptFacts

\* A rename of the live index changes nothing but linked.
LEMMA UnlinkedFacts ==
    ASSUME Shape
    PROVE  /\ IsSeq(Unlinked) /\ Len(Unlinked) = Len(txs)
           /\ \A t \in Ids : /\ DOMAIN Unlinked[t] = TxFields
                             /\ \A f \in TxFields \ {"linked"} : Unlinked[t][f] = txs[t][f]
<1>1. \A t \in Ids : Unlinked[t] = [txs[t] EXCEPT !.linked = FALSE]
  BY Zenon DEF Unlinked
<1>2. Unlinked = [i \in 1..Len(txs) |-> Unlinked[i]] /\ Len(txs) \in Nat
  BY SeqFacts, Zenon DEF Unlinked, Ids, Shape
<1>3. IsSeq(Unlinked) /\ Len(Unlinked) = Len(txs)
  BY <1>2, FunIsSeq
<1>4. ASSUME NEW t \in Ids
      PROVE  /\ DOMAIN Unlinked[t] = TxFields
             /\ \A f \in TxFields \ {"linked"} : Unlinked[t][f] = txs[t][f]
  <2>1. DOMAIN txs[t] = TxFields /\ Unlinked[t] = [txs[t] EXCEPT !.linked = FALSE]
    BY <1>1 DEF Shape
  <2> QED BY <2>1, FieldFacts, Zenon
<1> QED BY <1>3, <1>4

\* A journal that is not written stays a journal.
LEMMA ShapeStays == Shape /\ txs' = txs => Shape' /\ Ids' = Ids
BY DEF Shape, Ids

\* Only retry requests changed.
Kept ==
    /\ Shape' /\ Ids' = Ids
    /\ \A u \in Ids :
           /\ txs'[u].phase = txs[u].phase /\ txs'[u].src = txs[u].src
           /\ txs'[u].cand = txs[u].cand /\ txs'[u].temp = txs[u].temp
           /\ txs'[u].oldIdx = txs[u].oldIdx /\ txs'[u].oldSdx = txs[u].oldSdx
           /\ txs'[u].backup = txs[u].backup /\ txs'[u].bsdx = txs[u].bsdx
           /\ txs'[u].linked = txs[u].linked

\* A retry is asked for or used up.
LEMMA RetryEffect ==
    ASSUME Shape, NEW t, NEW v, txs' = [txs EXCEPT ![t].retry = v]
    PROVE  Kept
<1>0. DOMAIN txs = Ids /\ \A u \in Ids : DOMAIN txs[u] = TxFields
  BY SeqFacts DEF Shape, Ids
<1>1. CASE t \in Ids
  <2> DEFINE r == [txs[t] EXCEPT !.retry = v]
  <2>1. txs' = [txs EXCEPT ![t] = r]
    BY <1>0, <1>1
  <2>2. /\ DOMAIN r = TxFields /\ r.phase = txs[t].phase /\ r.src = txs[t].src
        /\ r.cand = txs[t].cand /\ r.temp = txs[t].temp /\ r.oldIdx = txs[t].oldIdx
        /\ r.oldSdx = txs[t].oldSdx /\ r.backup = txs[t].backup /\ r.bsdx = txs[t].bsdx
        /\ r.linked = txs[t].linked
    BY <1>0, <1>1, SMTT(30) DEF TxFields
  <2> HIDE DEF r
  <2>3. Only(t) /\ txs'[t] = r
    BY <1>1, <2>1, <2>2, SetOne, Zenon
  <2>4. ASSUME NEW u \in Ids
        PROVE  /\ txs'[u].phase = txs[u].phase /\ txs'[u].src = txs[u].src
               /\ txs'[u].cand = txs[u].cand /\ txs'[u].temp = txs[u].temp
               /\ txs'[u].oldIdx = txs[u].oldIdx /\ txs'[u].oldSdx = txs[u].oldSdx
               /\ txs'[u].backup = txs[u].backup /\ txs'[u].bsdx = txs[u].bsdx
               /\ txs'[u].linked = txs[u].linked
    <3>1. CASE u = t
      BY <2>2, <2>3, <3>1, Zenon
    <3>2. CASE u # t
      BY <2>3, <3>2, Zenon DEF Only
    <3> QED BY <3>1, <3>2
  <2> QED BY <2>3, <2>4 DEF Only, Kept
<1>2. CASE t \notin Ids
  <2>1. txs' = [u \in DOMAIN txs |-> txs[u]] /\ txs = [u \in DOMAIN txs |-> txs[u]]
    BY <1>0, <1>2, SeqFacts, Zenon DEF Shape
  <2>2. txs' = txs
    BY <2>1
  <2> QED BY <2>2, ShapeStays DEF Kept
<1> QED BY <1>1, <1>2

\* A transaction becomes manual, whichever it is, and no other changes.
LEMMA ManualAnywhere ==
    ASSUME Shape, NEW t, txs' = Manual(t)
    PROVE  \A u \in Ids : txs'[u].phase = "manual" \/ txs'[u] = txs[u]
<1>1. CASE t \in Ids
  BY <1>1, ManualEffect DEF Only
<1>2. CASE t \notin Ids
  <2>1. DOMAIN txs = Ids
    BY SeqFacts DEF Shape, Ids
  <2> QED BY <1>2, <2>1, Zenon DEF Manual
<1> QED BY <1>1, <1>2

\* A closed record keeps whether a retry authorized it.
LEMMA ManualAuth ==
    ASSUME NEW r, DOMAIN r = TxFields, NEW a
    PROVE  AsManual(r, a).auth = r.auth
BY SMTT(30) DEF AsManual, Closed, TxFields

\* A repair that cannot begin is recorded as manual after the sweep.
LEMMA StructuralRecorded ==
    ASSUME Shape,
           txs' = Append(Swept, AsManual(NewTx(Source, "building", NextAttempt), AfterSweep))
    PROVE  /\ Shape' /\ Ids' = Ids \cup {NewId} /\ NewId \notin Ids
           /\ txs'[NewId].phase = "manual" /\ txs'[NewId].src = Source
           /\ txs'[NewId].auth = auth
           /\ \A t \in Ids : txs'[t] = Swept[t]
<1>1. PICK n : n = NewTx(Source, "building", NextAttempt)
  OBVIOUS
<1>2. DOMAIN n = TxFields /\ n.src = Source /\ n.auth = auth
  BY <1>1, NewFields
<1>3. PICK r : r = AsManual(n, AfterSweep)
  OBVIOUS
<1>4. DOMAIN r = TxFields /\ r.phase = "manual" /\ r.src = Source /\ r.auth = auth
  BY <1>2, <1>3, ManualFields, ManualAuth
<1>5. txs' = Append(Swept, r)
  BY <1>1, <1>3
<1> QED BY <1>4, <1>5, SweepEffect, Zenon

\* A repair is enrolled after the sweep.
LEMMA EnrollRecorded ==
    ASSUME Shape, txs' = Append(Swept, NewTx(Source, "building", NextAttempt))
    PROVE  /\ Shape' /\ Ids' = Ids \cup {NewId} /\ NewId \notin Ids
           /\ txs'[NewId].phase = "building" /\ txs'[NewId].src = Source
           /\ txs'[NewId].oldIdx = live /\ txs'[NewId].oldSdx = sdx
           /\ txs'[NewId].auth = auth
           /\ \A t \in Ids : txs'[t] = Swept[t]
<1>1. PICK r : r = NewTx(Source, "building", NextAttempt)
  OBVIOUS
<1>2. /\ DOMAIN r = TxFields /\ r.phase = "building" /\ r.src = Source
      /\ r.oldIdx = live /\ r.oldSdx = sdx /\ r.auth = auth
  BY <1>1, NewFields
<1>3. txs' = Append(Swept, r)
  BY <1>1
<1> QED BY <1>2, <1>3, SweepEffect, Zenon

-----------------------------------------------------------------------------
(* The invariant.                                                          *)

\* Phases in which the live index may be a candidate, and unfinished ones.
Late == Pending \cup {"installing", "rolled_back"}
Open == Late \cup {"building", "candidate_built", "backup_created"}

\* At most one transaction is open: the sweep closes those of other sources
\* before a new one is enrolled.
OneOpen == \A t, u \in Ids : txs[t].phase \in Open /\ txs[u].phase \in Open => t = u

\* The transaction in hand, and its phase, at positions P of the guardian.
InHand(P, S) == pc \in P => cur \in Ids /\ txs[cur].phase \in S

\* The phase of the transaction in hand fits the place of the guardian.
HandFits ==
    /\ InHand({"build", "truncated"}, {"building"})
    /\ InHand({"escalate"}, {"failed_preinstall"})
    /\ InHand({"backup", "backup_sdx"}, {"candidate_built"})
    /\ InHand({"copy", "journal"}, {"backup_created", "installing"})
    /\ InHand({"replace", "clean", "installed"}, {"installing"})
    /\ InHand({"await"}, {"candidate_installed"})
    /\ InHand({"restore", "restore_sdx", "restored"}, Pending)
    /\ InHand({"rolled_back"}, {"rolled_back"})

\* Where no candidate is installed, and where none is half-installed.
NoneLate ==
    /\ pc \in {"authorize", "preflight", "decide", "enroll", "escalate", "serving"} =>
           \A t \in Ids : txs[t].phase \notin Late
    /\ pc \in {"running", "accepting"} =>
           \A t \in Ids : txs[t].phase \notin {"installing", "rolled_back"}

\* A finished backup is what was recorded, or still the live file itself.
BackupFits ==
    /\ \A t \in Ids : txs[t].phase = "backup_created" =>
           /\ txs[t].backup = txs[t].oldIdx \/ (txs[t].linked /\ txs[t].backup = live)
           /\ txs[t].bsdx = txs[t].oldSdx
    /\ pc \in {"build", "backup", "backup_sdx"} =>
           txs[cur].oldIdx = live /\ txs[cur].oldSdx = sdx
    /\ pc = "backup_sdx" => txs[cur].backup = txs[cur].oldIdx
    /\ pc \in {"copy", "journal"} =>
           txs[cur].backup = txs[cur].oldIdx /\ txs[cur].bsdx = txs[cur].oldSdx
    /\ \A t \in Ids : txs[t].phase \in Pending \cup {"installing"} =>
           txs[t].backup = txs[t].oldIdx /\ txs[t].bsdx = txs[t].oldSdx

\* How far an installation has got.
InstallFits ==
    /\ pc \in {"journal", "replace"} => txs[cur].temp = txs[cur].cand
    /\ pc \in {"clean", "installed", "await"} => live = txs[cur].cand
    /\ pc \in {"installed", "await"} => sdx = None

\* A rejected source stays known, and only a retry enrolls it again.
RejectFits ==
    /\ dat \in Nat \ {0}
    /\ \A t \in Ids : txs[t].phase \in Open => txs[t].src[1] # 0
    /\ \A s \in rejected :
           /\ s[1] # 0
           /\ \E t \in Ids : txs[t].src = s /\ txs[t].phase \in Late \cup {"manual", "verified"}
    /\ pc = "enroll" =>
           auth \/ \A t \in Ids : txs[t].src = Source => txs[t].phase \notin {"manual", "verified"}

\* The inductive invariant.
RepairInv ==
    /\ Shape /\ OneOpen /\ HandFits /\ NoneLate
    /\ BackupFits /\ InstallFits /\ RejectFits

-----------------------------------------------------------------------------
(* Kinds of steps.                                                         *)

\* Where a repair can fail with no candidate of this volume installed.
Repairing == {"authorize", "preflight", "decide", "enroll", "escalate", "build",
              "truncated", "backup"}

\* A step that leaves the journal and the live index alone.
LEMMA Quiet ==
    ASSUME RepairInv, txs' = txs, live' = live, dat' \in Nat \ {0},
           \A s \in rejected' \ rejected :
               \E t \in Ids : txs[t].src = s /\ txs[t].phase \in Pending,
           \/ pc' \in {"off", "prepare", "parked"}
           \/ pc' = "running" /\ pc \in Repairing \cup {"running"}
           \/ /\ pc = "prepare" /\ pc' = "running"
              /\ \A t \in Ids : txs[t].phase \notin {"installing", "rolled_back"}
           \/ pc = "running" /\ pc' = "accepting"
           \/ /\ pc = "running" /\ pc' \in {"serving", "authorize"}
              /\ \A t \in Ids : txs[t].phase \notin Pending
           \/ pc = "serving" /\ pc' = "serving"
           \/ pc = "preflight" /\ pc' = "decide"
           \/ pc = "build" /\ pc' = "truncated" /\ cur' = cur
           \/ /\ pc = "backup" /\ pc' = "backup_sdx" /\ cur' = cur /\ sdx' = sdx
              /\ txs[cur].backup = txs[cur].oldIdx
           \/ pc = "clean" /\ pc' = "installed" /\ cur' = cur /\ sdx' = None
           \/ pc' = "restore" /\ cur' \in Ids /\ txs[cur'].phase \in Pending
           \/ pc = "restore_sdx" /\ pc' = "restored" /\ cur' = cur
           \/ /\ pc' = "clean" /\ cur' \in Ids /\ txs[cur'].phase = "installing"
              /\ live = txs[cur'].cand
           \/ /\ pc' = "replace" /\ cur' \in Ids /\ txs[cur'].phase = "installing"
              /\ txs[cur'].temp = txs[cur'].cand
    PROVE  RepairInv'
<1>1. Shape' /\ Ids' = Ids
  BY ShapeStays DEF RepairInv
<1>2. OneOpen' /\ HandFits'
  BY <1>1, SMTT(30) DEF RepairInv, OneOpen, HandFits, InHand, Open, Late, Pending
<1>3. NoneLate'
  BY <1>1, SMTT(30) DEF RepairInv, Repairing, OneOpen, HandFits, InHand, NoneLate, Open, Late,
     Pending
<1>4. BackupFits' /\ InstallFits'
  BY <1>1, SMTT(30) DEF RepairInv, BackupFits, InstallFits
<1>5. RejectFits'
  BY <1>1, SMTT(30) DEF RepairInv, RejectFits, Open, Late, Pending
<1> QED BY <1>1, <1>2, <1>3, <1>4, <1>5 DEF RepairInv

\* A step that moves transaction t to another phase.
LEMMA Moved ==
    ASSUME RepairInv, NEW t \in Ids, Only(t), Same(t), UNCHANGED <<dat, live, sdx, rejected>>,
           \/ /\ pc = "build" /\ t = cur /\ txs'[t].phase = "failed_preinstall"
              /\ pc' \in {"parked", "running"} \/ (pc' = "escalate" /\ cur' = cur)
           \/ /\ pc = "journal" /\ t = cur /\ txs'[t].phase = "installing"
              /\ pc' = "replace" /\ cur' = cur
           \/ /\ pc = "installed" /\ t = cur /\ txs'[t].phase = "candidate_installed"
              /\ pc' = "await" /\ cur' = cur
           \/ /\ pc = "await" /\ t = cur /\ txs'[t].phase = "awaiting"
              /\ pc' \in {"prepare", "running"}
           \/ /\ pc = "prepare" /\ txs[t].phase \in Pending /\ txs'[t].phase = "awaiting"
              /\ pc' = "prepare"
           \/ /\ pc = "restored" /\ t = cur /\ txs'[t].phase = "rolled_back"
              /\ pc' = "rolled_back" /\ cur' = cur
    PROVE  RepairInv'
<1>1. Shape' /\ Ids' = Ids /\ \A u \in Ids : u # t => txs'[u] = txs[u]
  BY Zenon DEF Only
<1>2. txs[t].phase \in Open
  BY SMTT(30) DEF RepairInv, HandFits, InHand, Open, Late, Pending
<1>3. OneOpen' /\ HandFits'
  BY <1>1, <1>2, SMTT(30) DEF RepairInv, OneOpen, HandFits, InHand, Open, Late, Pending
<1>4. NoneLate'
  BY <1>1, <1>2, SMTT(30) DEF RepairInv, OneOpen, NoneLate, Open, Late, Pending
<1>5. BackupFits' /\ InstallFits'
  BY <1>1, SMTT(30) DEF RepairInv, Same, HandFits, InHand, BackupFits, InstallFits, Pending
<1>6. RejectFits'
  BY <1>1, <1>2, SMTT(30) DEF RepairInv, Same, HandFits, InHand, RejectFits, Open, Late, Pending
<1> QED BY <1>1, <1>3, <1>4, <1>5, <1>6 DEF RepairInv

\* A step that closes transaction t.
LEMMA Ended ==
    ASSUME RepairInv, NEW t \in Ids, Only(t), txs'[t].src = txs[t].src,
           UNCHANGED <<dat, live, sdx, rejected>>,
           \/ txs'[t].phase = "manual"
           \/ txs'[t].phase \in {"tail_recovered", "resolved"} /\ txs[t].phase \in Preinstall,
           \/ pc' = "parked"
           \/ pc \in {"prepare", "accepting"} /\ pc' = pc
           \/ pc' = "running" /\ pc \in Repairing
           \/ pc' = "running" /\ pc = "copy" /\ t = cur
           \/ pc = "truncated" /\ pc' = "authorize" /\ t = cur
    PROVE  RepairInv'
<1>1. Shape' /\ Ids' = Ids /\ \A u \in Ids : u # t => txs'[u] = txs[u]
  BY Zenon DEF Only
<1>2. txs'[t].phase \notin Open
  BY Zenon DEF Open, Late, Pending
<1>3. OneOpen' /\ HandFits'
  BY <1>1, <1>2, SMTT(30) DEF RepairInv, Repairing, OneOpen, HandFits, InHand
<1>4. NoneLate'
  BY <1>1, <1>2, SMTT(30) DEF RepairInv, Repairing, OneOpen, HandFits, InHand, NoneLate, Open,
     Late, Pending
<1>5. BackupFits' /\ InstallFits'
  BY <1>1, <1>2, SMTT(30) DEF RepairInv, Repairing, BackupFits, InstallFits, Open, Late, Pending
<1>6. RejectFits'
  BY <1>1, <1>2, SMTT(30) DEF RepairInv, Repairing, RejectFits, Preinstall, Open, Late, Pending
<1> QED BY <1>1, <1>3, <1>4, <1>5, <1>6 DEF RepairInv

\* A step that changes the temporary copy of transaction t, and no more unless
\* the installation of t is under way.
LEMMA Copied ==
    ASSUME RepairInv, NEW t \in Ids, Only(t), txs'[t].phase = txs[t].phase,
           txs'[t].src = txs[t].src, txs'[t].oldIdx = txs[t].oldIdx,
           txs'[t].oldSdx = txs[t].oldSdx, txs'[t].backup = txs[t].backup,
           txs'[t].bsdx = txs[t].bsdx, UNCHANGED <<dat, sdx, rejected>>,
           txs[t].phase = "installing" \/ (txs'[t].linked = txs[t].linked /\ live' = live),
           \/ pc' = "off"
           \/ pc' = "copy" /\ cur' = t /\ txs[t].phase = "installing"
           \/ /\ pc = "copy" /\ pc' = "journal" /\ t = cur /\ cur' = cur
              /\ txs'[t].temp = txs'[t].cand
    PROVE  RepairInv'
<1>1. Shape' /\ Ids' = Ids /\ \A u \in Ids : u # t => txs'[u] = txs[u]
  BY Zenon DEF Only
<1>2. OneOpen' /\ HandFits' /\ NoneLate'
  BY <1>1, SMTT(30) DEF RepairInv, OneOpen, HandFits, InHand, NoneLate
<1>3. BackupFits'
  BY <1>1, SMTT(30) DEF RepairInv, OneOpen, BackupFits, Open, Late, Pending
<1>4. InstallFits'
  BY <1>1, SMTT(30) DEF InstallFits
<1>5. RejectFits'
  BY <1>1, SMTT(30) DEF RepairInv, RejectFits
<1> QED BY <1>1, <1>2, <1>3, <1>4, <1>5 DEF RepairInv

\* A step that changes retry requests only.
LEMMA Asked ==
    ASSUME RepairInv, Kept, UNCHANGED <<cur, via, dat, live, sdx, rejected>>,
           \/ UNCHANGED <<pc, auth>>
           \/ pc = "authorize" /\ pc' = "preflight"
           \/ /\ pc = "decide" /\ pc' = "enroll"
              /\ auth' \/ \A t \in Ids :
                            txs[t].src = Source => txs[t].phase \notin {"manual", "verified"}
    PROVE  RepairInv'
<1>1. OneOpen' /\ HandFits' /\ NoneLate'
  BY SMTT(30) DEF RepairInv, Kept, OneOpen, HandFits, InHand, NoneLate
<1>2. BackupFits'
  <2>1. \A t \in Ids : txs'[t].linked = txs[t].linked
    BY Zenon DEF Kept
  <2> QED BY <2>1, SMTT(30) DEF RepairInv, Kept, HandFits, InHand, BackupFits
<1>3. InstallFits'
  BY SMTT(30) DEF RepairInv, Kept, HandFits, InHand, InstallFits
<1>4. RejectFits'
  BY SMTT(30) DEF RepairInv, Kept, RejectFits, Source
<1> QED BY <1>1, <1>2, <1>3, <1>4 DEF RepairInv, Kept

\* A step that closes the stale transactions, and may add one or resume one.
LEMMA Enrolled ==
    ASSUME RepairInv, Shape', Ids \subseteq Ids', pc \in {"preflight", "enroll"},
           UNCHANGED <<dat, live, sdx, rejected>>,
           \A t \in Ids : /\ txs'[t].src = txs[t].src
                          /\ txs'[t].phase = "manual" \/ txs'[t] = txs[t],
           \/ /\ pc' \in {"parked", "running"}
              /\ \A t \in Ids' \ Ids : txs'[t].phase \in {"failed_preinstall", "manual"}
           \/ /\ pc' = "escalate" /\ cur' \in Ids' /\ txs'[cur'].phase = "failed_preinstall"
              /\ \A t \in Ids' \ Ids : t = cur'
           \/ /\ Ids' = Ids /\ cur' \in Ids
              /\ txs'[cur'].oldIdx = live /\ txs'[cur'].oldSdx = sdx
              /\ \/ pc' = "copy" /\ txs'[cur'].phase = "backup_created"
                 \/ pc' = "backup" /\ txs'[cur'].phase = "candidate_built"
                 \/ pc' = "build" /\ txs'[cur'].phase = "building"
           \/ /\ pc' = "build" /\ cur' \in Ids' /\ txs'[cur'].phase = "building"
              /\ txs'[cur'].src[1] # 0
              /\ txs'[cur'].oldIdx = live /\ txs'[cur'].oldSdx = sdx
              /\ \A t \in Ids' \ Ids : t = cur'
              /\ \A t \in Ids : txs'[t].phase \notin Open
    PROVE  RepairInv'
<1>1. OneOpen' /\ HandFits'
  BY SMTT(30) DEF RepairInv, OneOpen, HandFits, InHand, Open, Late, Pending
<1>2. NoneLate'
  BY SMTT(30) DEF RepairInv, NoneLate, Late, Pending
<1>3. BackupFits' /\ InstallFits'
  BY SMTT(30) DEF RepairInv, BackupFits, InstallFits, Pending
<1>4. RejectFits'
  BY SMTT(30) DEF RepairInv, RejectFits, Open, Late, Pending
<1> QED BY <1>1, <1>2, <1>3, <1>4 DEF RepairInv

\* A step that changes the live index, and what hard links to it hold.
LEMMA Filed ==
    ASSUME RepairInv, Shape', Ids' = Ids, dat' \in Nat \ {0},
           UNCHANGED <<cur, sdx, rejected>>,
           \A t \in Ids : /\ txs'[t].phase = txs[t].phase /\ txs'[t].src = txs[t].src
                          /\ txs'[t].cand = txs[t].cand /\ txs'[t].oldIdx = txs[t].oldIdx
                          /\ txs'[t].oldSdx = txs[t].oldSdx /\ txs'[t].bsdx = txs[t].bsdx,
           \/ /\ pc = "replace" /\ pc' = "clean" /\ live' = txs[cur].temp
              /\ \A t \in Ids : txs'[t].backup = txs[t].backup
           \/ /\ pc = "restore" /\ pc' = "restore_sdx"
              /\ \A t \in Ids : txs'[t].backup = txs[t].backup
           \/ /\ pc = "serving" /\ pc' = "serving"
              /\ \A t \in Ids : /\ txs[t].linked => txs'[t].linked /\ txs'[t].backup = live'
                                /\ ~txs[t].linked => txs'[t].backup = txs[t].backup
    PROVE  RepairInv'
<1>1. OneOpen' /\ HandFits' /\ NoneLate'
  BY SMTT(30) DEF RepairInv, OneOpen, HandFits, InHand, NoneLate
<1>2. pc \in {"replace", "restore"} =>
        cur \in Ids /\ txs[cur].phase \in Pending \cup {"installing"}
  BY DEF RepairInv, HandFits, InHand
<1>3. BackupFits'
  BY <1>2, SMTT(30) DEF RepairInv, OneOpen, NoneLate, BackupFits, Open, Late, Pending
<1>4. InstallFits'
  BY <1>2, SMTT(30) DEF RepairInv, InstallFits
<1>5. RejectFits'
  BY SMTT(30) DEF RepairInv, RejectFits
<1> QED BY <1>1, <1>3, <1>4, <1>5 DEF RepairInv

(* Steps that change no transaction, or one.                               *)

\* Steps that leave the journal alone.
LEMMA QuietStep ==
    ASSUME RepairInv,
           \/ StartGeneration \/ PrepareDone \/ StatusWritable \/ StatusAbsent
           \/ StatusReadonly \/ RefuseUnfingerprinted \/ PreflightPasses
           \/ TruncateTail \/ TailFails \/ RemoveStaleSdx \/ RestoreSdx \/ SortIndex
           \/ \E t \in Ids : Reject(t)
    PROVE  RepairInv'
<1>0. dat \in Nat \ {0} /\ dat + 1 \in Nat \ {0}
  BY DEF RepairInv, RejectFits
<1>1. CASE StartGeneration \/ PrepareDone
  BY <1>0, <1>1, Quiet, Zenon DEF StartGeneration, PrepareDone, In, files
<1>2. CASE StatusWritable \/ StatusAbsent \/ StatusReadonly
  BY <1>0, <1>2, Quiet, Zenon DEF StatusWritable, StatusAbsent, StatusReadonly, In, files
<1>3. CASE RefuseUnfingerprinted \/ PreflightPasses
  BY <1>0, <1>3, Quiet, Zenon DEF RefuseUnfingerprinted, PreflightPasses, Fails, Repairing, files
<1>4. CASE TruncateTail \/ TailFails
  BY <1>0, <1>4, Quiet, Zenon DEF TruncateTail, TailFails, Fails, Repairing, files
<1>5. CASE RemoveStaleSdx \/ RestoreSdx
  BY <1>0, <1>5, Quiet, Zenon DEF RemoveStaleSdx, RestoreSdx
<1>6. CASE SortIndex
  BY <1>0, <1>6, Quiet, Zenon DEF SortIndex, thread
<1>7. CASE \E t \in Ids : Reject(t)
  BY <1>0, <1>7, Quiet, Zenon DEF Reject, files
<1> QED BY <1>1, <1>2, <1>3, <1>4, <1>5, <1>6, <1>7, Zenon

\* Steps that move the transaction in hand, or t, to another phase.
LEMMA MoveStep ==
    ASSUME RepairInv,
           \/ BuildFails \/ JournalInstall \/ CandidateInstalled \/ AwaitValidation
           \/ RolledBack
           \/ \E t \in Ids : ValidateInstalledArtifacts(t) /\ txs' = Move(t, "awaiting")
    PROVE  RepairInv'
<1>0. Shape
  BY DEF RepairInv
<1>1. pc \in {"build", "journal", "installed", "await", "restored"} => cur \in Ids
  BY DEF RepairInv, HandFits, InHand
<1>2. \A t \in Ids : \A p : txs' = Move(t, p) => Only(t) /\ txs'[t].phase = p /\ Same(t)
  BY <1>0, MoveEffect, Zenon
<1>3. CASE BuildFails
  BY <1>1, <1>2, <1>3, Moved, Zenon DEF BuildFails, Fails, Goes, files
<1>4. CASE JournalInstall
  BY <1>1, <1>2, <1>4, Moved, Zenon DEF JournalInstall, files
<1>5. CASE CandidateInstalled
  BY <1>1, <1>2, <1>5, Moved, Zenon DEF CandidateInstalled, files
<1>6. CASE AwaitValidation
  BY <1>1, <1>2, <1>6, Moved, Zenon DEF AwaitValidation, files
<1>7. CASE RolledBack
  BY <1>1, <1>2, <1>7, Moved, Zenon DEF RolledBack, files
<1>8. CASE \E t \in Ids : ValidateInstalledArtifacts(t) /\ txs' = Move(t, "awaiting")
  <2>1. PICK t \in Ids : ValidateInstalledArtifacts(t) /\ txs' = Move(t, "awaiting")
    BY <1>8
  <2>2. Only(t) /\ txs'[t].phase = "awaiting" /\ Same(t)
    BY <1>2, <2>1
  <2>3. /\ pc = "prepare" /\ txs[t].phase \in Pending
        /\ UNCHANGED <<dat, live, sdx, rejected>>
        /\ pc' = "prepare" \/ (pc' = "parked" /\ txs' = Manual(t))
    BY <2>1, Zenon DEF ValidateInstalledArtifacts, files
  <2>4. txs' # Manual(t)
    BY <1>0, <2>2, ManualEffect
  <2> QED BY <2>2, <2>3, <2>4, Moved, Zenon
<1> QED BY <1>3, <1>4, <1>5, <1>6, <1>7, <1>8, Zenon

\* Steps that close the transaction in hand, or t.
LEMMA CloseStep ==
    ASSUME RepairInv,
           \/ Escalate \/ UnsafeCandidate \/ CandidateLost \/ RollbackManual \/ TailRecovered
           \/ \E t \in Ids : \/ ValidateInstalledArtifacts(t) /\ txs' = Manual(t)
                             \/ CloseRolledBack(t) \/ ReconcileResolvedPreinstall(t)
    PROVE  RepairInv'
<1>0. Shape
  BY DEF RepairInv
<1>1. pc \in {"escalate", "build", "copy", "rolled_back", "truncated"} => cur \in Ids
  BY DEF RepairInv, HandFits, InHand
<1>2. \A t \in Ids : txs' = Manual(t) =>
        Only(t) /\ txs'[t].phase = "manual" /\ txs'[t].src = txs[t].src
  BY <1>0, ManualEffect, Zenon
<1>3. CASE Escalate \/ UnsafeCandidate
  BY <1>1, <1>2, <1>3, Ended, Zenon DEF Escalate, UnsafeCandidate, Fails, Repairing, files
<1>4. CASE CandidateLost \/ RollbackManual
  BY <1>1, <1>2, <1>4, Ended, Zenon DEF CandidateLost, RollbackManual, Fails, Goes, files
<1>5. CASE TailRecovered
  <2>1. /\ pc = "truncated" /\ pc' = "authorize" /\ UNCHANGED <<dat, live, sdx, rejected>>
        /\ txs' = [txs EXCEPT ![cur] = Closed(txs[cur], "tail_recovered")]
    BY <1>5, Zenon DEF TailRecovered, files
  <2>2. txs[cur].phase \in Preinstall
    BY <2>1 DEF RepairInv, HandFits, InHand, Preinstall
  <2>3. Only(cur) /\ txs'[cur].phase = "tail_recovered" /\ txs'[cur].src = txs[cur].src
    BY <1>0, <1>1, <2>1, CloseEffect, Zenon
  <2> QED BY <1>1, <2>1, <2>2, <2>3, Ended, Zenon
<1>6. CASE \E t \in Ids : \/ ValidateInstalledArtifacts(t) /\ txs' = Manual(t)
                          \/ CloseRolledBack(t)
  BY <1>2, <1>6, Ended, Zenon DEF ValidateInstalledArtifacts, CloseRolledBack, thread, files
<1>7. CASE \E t \in Ids : ReconcileResolvedPreinstall(t)
  <2>1. PICK t \in Ids : ReconcileResolvedPreinstall(t)
    BY <1>7
  <2>2. /\ pc = "accepting" /\ pc' = pc /\ txs[t].phase \in Preinstall
        /\ UNCHANGED <<dat, live, sdx, rejected>>
        /\ txs' = [txs EXCEPT ![t] = Closed(txs[t], "resolved")]
    BY <2>1, Zenon DEF ReconcileResolvedPreinstall, thread, files
  <2>3. Only(t) /\ txs'[t].phase = "resolved" /\ txs'[t].src = txs[t].src
    BY <1>0, <2>2, CloseEffect, Zenon
  <2> QED BY <2>2, <2>3, Ended, Zenon
<1> QED BY <1>3, <1>4, <1>5, <1>6, <1>7, Zenon

\* Recovery of an interrupted installation, wherever it was cut.
LEMMA RecoverStep ==
    ASSUME RepairInv, NEW t \in Ids, RecoverInterruptedInstall(t)
    PROVE  RepairInv'
<1>0. Shape /\ dat \in Nat \ {0}
  BY DEF RepairInv, RejectFits
<1>1. txs[t].phase = "installing" /\ UNCHANGED <<dat, live, sdx, rejected>>
  BY Zenon DEF RecoverInterruptedInstall, files
<1>2. \/ /\ txs' = txs /\ cur' = t
         /\ \/ pc' = "clean" /\ live = txs[t].cand
            \/ pc' = "replace" /\ txs[t].temp = txs[t].cand
      \/ pc' = "copy" /\ cur' = t /\ txs' = [txs EXCEPT ![t].temp = None]
      \/ pc' = "parked" /\ txs' = Manual(t)
  BY Zenon DEF RecoverInterruptedInstall
<1>3. CASE /\ txs' = txs /\ cur' = t
           /\ \/ pc' = "clean" /\ live = txs[t].cand
              \/ pc' = "replace" /\ txs[t].temp = txs[t].cand
  BY <1>0, <1>1, <1>3, Quiet, Zenon
<1>4. CASE pc' = "copy" /\ cur' = t /\ txs' = [txs EXCEPT ![t].temp = None]
  <2>1. /\ Only(t) /\ txs'[t].phase = txs[t].phase
        /\ txs'[t].src = txs[t].src /\ txs'[t].oldIdx = txs[t].oldIdx
        /\ txs'[t].oldSdx = txs[t].oldSdx /\ txs'[t].backup = txs[t].backup
        /\ txs'[t].bsdx = txs[t].bsdx
    BY <1>0, <1>4, TempEffect, Zenon
  <2> QED BY <1>1, <1>4, <2>1, Copied, Zenon
<1>5. CASE pc' = "parked" /\ txs' = Manual(t)
  BY <1>0, <1>1, <1>5, ManualEffect, Ended, Zenon
<1> QED BY <1>2, <1>3, <1>4, <1>5, Zenon

\* The generation ends, and unsynced names may be undone.
LEMMA InterruptStep ==
    ASSUME RepairInv, Interrupt
    PROVE  RepairInv'
<1>0. Shape /\ dat \in Nat \ {0} /\ pc' = "off" /\ UNCHANGED <<dat, sdx, rejected>>
  BY Zenon DEF RepairInv, RejectFits, Interrupt
<1>1. /\ pc \in {"copy", "journal", "replace", "clean"} => cur \in Ids
      /\ pc = "clean" => txs[cur].phase = "installing"
  BY DEF RepairInv, HandFits, InHand
<1>2. \/ live' = live /\ txs' = txs
      \/ /\ pc \in {"copy", "journal", "replace"} /\ live' = live
         /\ \E v : txs' = [txs EXCEPT ![cur].temp = v]
      \/ /\ pc = "clean"
         /\ \E v, l : txs' = [txs EXCEPT ![cur] = [@ EXCEPT !.temp = v, !.linked = l]]
  BY Zenon DEF Interrupt
<1>3. CASE live' = live /\ txs' = txs
  BY <1>0, <1>3, Quiet, Zenon
<1>4. CASE /\ pc \in {"copy", "journal", "replace"} /\ live' = live
           /\ \E v : txs' = [txs EXCEPT ![cur].temp = v]
  <2>0. cur \in Ids /\ live' = live
    BY <1>1, <1>4, Zenon
  <2>1. /\ Only(cur) /\ txs'[cur].phase = txs[cur].phase
        /\ txs'[cur].src = txs[cur].src /\ txs'[cur].oldIdx = txs[cur].oldIdx
        /\ txs'[cur].oldSdx = txs[cur].oldSdx /\ txs'[cur].backup = txs[cur].backup
        /\ txs'[cur].bsdx = txs[cur].bsdx /\ txs'[cur].linked = txs[cur].linked
    <3>1. PICK v : txs' = [txs EXCEPT ![cur].temp = v]
      BY <1>4, Zenon
    <3> QED BY <1>0, <2>0, <3>1, TempEffect, Zenon
  <2> QED BY <1>0, <2>0, <2>1, Copied, Zenon
<1>5. CASE /\ pc = "clean"
           /\ \E v, l : txs' = [txs EXCEPT ![cur] = [@ EXCEPT !.temp = v, !.linked = l]]
  <2>0. cur \in Ids /\ txs[cur].phase = "installing"
    BY <1>1, <1>5, Zenon
  <2>1. /\ Only(cur) /\ txs'[cur].phase = txs[cur].phase
        /\ txs'[cur].src = txs[cur].src /\ txs'[cur].oldIdx = txs[cur].oldIdx
        /\ txs'[cur].oldSdx = txs[cur].oldSdx /\ txs'[cur].backup = txs[cur].backup
        /\ txs'[cur].bsdx = txs[cur].bsdx
    <3>1. PICK v, l : txs' = [txs EXCEPT ![cur] = [@ EXCEPT !.temp = v, !.linked = l]]
      BY <1>5, Zenon
    <3> QED BY <1>0, <2>0, <3>1, UndoneEffect, Zenon
  <2> QED BY <1>0, <2>0, <2>1, Copied, Zenon
<1> QED BY <1>2, <1>3, <1>4, <1>5, Zenon

\* Steps that ask for a retry or use one up.
LEMMA RetryStep ==
    ASSUME RepairInv, AuthorizeUnfingerprinted \/ AdmitSource \/ RequestRetry
    PROVE  RepairInv'
<1>0. Shape
  BY DEF RepairInv
<1>1. (\E t, v : txs' = [txs EXCEPT ![t].retry = v]) \/ txs' = txs
  BY Zenon DEF AuthorizeUnfingerprinted, AdmitSource, RequestRetry, Consume
<1>2. Kept
  <2>1. CASE \E t, v : txs' = [txs EXCEPT ![t].retry = v]
    BY <1>0, <2>1, RetryEffect, Zenon
  <2>2. CASE txs' = txs
    BY <1>0, <2>2, ShapeStays, Zenon DEF Kept
  <2> QED BY <1>1, <2>1, <2>2
<1>3. CASE AuthorizeUnfingerprinted
  BY <1>2, <1>3, Asked, Zenon DEF AuthorizeUnfingerprinted, files
<1>4. CASE AdmitSource
  <2>1. /\ pc = "decide" /\ pc' = "enroll"
        /\ UNCHANGED <<cur, via, dat, live, sdx, rejected>>
    BY <1>4, Zenon DEF AdmitSource, files
  <2>2. auth' \/ \A t \in Ids : txs[t].src = Source => txs[t].phase \notin {"manual", "verified"}
    BY <1>4, SMTT(30) DEF AdmitSource, Of, Blocked
  <2> QED BY <1>2, <2>1, <2>2, Asked, Zenon
<1>5. CASE RequestRetry
  BY <1>2, <1>5, Asked, Zenon DEF RequestRetry, thread, files
<1> QED BY <1>3, <1>4, <1>5

\* Steps that record an artifact of the transaction in hand.
LEMMA ArtifactStep ==
    ASSUME RepairInv, BuildCandidate \/ BackupIdx \/ BackupSdx \/ CopyCandidate
    PROVE  RepairInv'
<1>0. Shape /\ dat \in Nat \ {0} /\ UNCHANGED <<dat, live, sdx, rejected>>
  BY Zenon DEF RepairInv, RejectFits, BuildCandidate, BackupIdx, BackupSdx, CopyCandidate, files
<1>1. /\ pc \in {"build", "backup", "backup_sdx", "copy"} => cur \in Ids
      /\ pc = "build" => txs[cur].phase = "building"
      /\ pc \in {"backup", "backup_sdx"} => txs[cur].phase = "candidate_built"
  BY SMTT(30) DEF RepairInv, HandFits, InHand
<1>2. CASE BuildCandidate
  <2>0. pc = "build" /\ cur \in Ids /\ txs[cur].phase = "building"
    BY <1>1, <1>2, Zenon DEF BuildCandidate
  <2>1. \/ txs' = Manual(cur) /\ Fails
        \/ \E c : /\ Goes("backup")
                  /\ txs' = [txs EXCEPT ![cur] = [@ EXCEPT !.phase = "candidate_built",
                                                          !.cand = c]]
    BY <1>2, Zenon DEF BuildCandidate
  <2>2. CASE txs' = Manual(cur) /\ Fails
    BY <1>0, <2>0, <2>2, ManualEffect, Ended, Zenon DEF Fails, Repairing
  <2>3. CASE \E c : /\ Goes("backup")
                    /\ txs' = [txs EXCEPT ![cur] = [@ EXCEPT !.phase = "candidate_built",
                                                            !.cand = c]]
    <3>1. PICK p, c : /\ p = "candidate_built" /\ pc' = "backup" /\ cur' = cur
                      /\ txs' = [txs EXCEPT ![cur] = [@ EXCEPT !.phase = p, !.cand = c]]
      BY <2>3, Zenon DEF Goes
    <3>2. /\ pc' = "backup" /\ cur' = cur /\ Only(cur)
          /\ txs'[cur].phase = "candidate_built" /\ txs'[cur].src = txs[cur].src
          /\ txs'[cur].oldIdx = txs[cur].oldIdx /\ txs'[cur].oldSdx = txs[cur].oldSdx
      BY <1>0, <2>0, <3>1, CandEffect, Zenon
    <3>3. OneOpen' /\ HandFits' /\ NoneLate'
      BY <2>0, <3>2, SMTT(30) DEF RepairInv, Only, OneOpen, HandFits, InHand,
         NoneLate, Open, Late, Pending
    <3>4. BackupFits' /\ InstallFits'
      BY <1>0, <2>0, <3>2, SMTT(30) DEF RepairInv, Only, BackupFits, InstallFits,
         Pending
    <3>5. RejectFits'
      BY <1>0, <2>0, <3>2, SMTT(30) DEF RepairInv, Only, RejectFits, Open, Late,
         Pending
    <3> QED BY <3>2, <3>3, <3>4, <3>5, Zenon DEF RepairInv, Only
  <2> QED BY <2>1, <2>2, <2>3, Zenon
<1>3. CASE BackupIdx
  <2>0. pc = "backup" /\ cur \in Ids /\ txs[cur].phase = "candidate_built"
    BY <1>1, <1>3, Zenon DEF BackupIdx
  <2>1. \/ txs' = txs /\ Fails
        \/ txs' = txs /\ Goes("backup_sdx") /\ txs[cur].backup = txs[cur].oldIdx
        \/ /\ \E l : txs' = [txs EXCEPT ![cur] = [@ EXCEPT !.backup = live, !.linked = l]]
           /\ Goes("backup_sdx")
    BY <1>3, Zenon DEF BackupIdx
  <2>2. CASE \/ txs' = txs /\ Fails
             \/ txs' = txs /\ Goes("backup_sdx") /\ txs[cur].backup = txs[cur].oldIdx
    BY <1>0, <2>0, <2>2, Quiet, Zenon DEF Fails, Goes, Repairing
  <2>3. CASE /\ \E l : txs' = [txs EXCEPT ![cur] = [@ EXCEPT !.backup = live, !.linked = l]]
             /\ Goes("backup_sdx")
    <3>1. PICK b, l : /\ b = live /\ pc' = "backup_sdx" /\ cur' = cur
                      /\ txs' = [txs EXCEPT ![cur] = [@ EXCEPT !.backup = b, !.linked = l]]
      BY <2>3, Zenon DEF Goes
    <3>2. /\ pc' = "backup_sdx" /\ cur' = cur /\ Only(cur)
          /\ txs'[cur].phase = txs[cur].phase /\ txs'[cur].backup = live
          /\ txs'[cur].src = txs[cur].src /\ txs'[cur].oldIdx = txs[cur].oldIdx
          /\ txs'[cur].oldSdx = txs[cur].oldSdx
      BY <1>0, <2>0, <3>1, BackupEffect, Zenon
    <3>3. OneOpen' /\ HandFits' /\ NoneLate'
      BY <2>0, <3>2, SMTT(30) DEF RepairInv, Only, OneOpen, HandFits, InHand,
         NoneLate
    <3>4. BackupFits' /\ InstallFits'
      BY <1>0, <2>0, <3>2, SMTT(30) DEF RepairInv, Only, BackupFits, InstallFits,
         Pending
    <3>5. RejectFits'
      BY <1>0, <2>0, <3>2, SMTT(30) DEF RepairInv, Only, RejectFits
    <3> QED BY <3>2, <3>3, <3>4, <3>5, Zenon DEF RepairInv, Only
  <2> QED BY <2>1, <2>2, <2>3, Zenon
<1>4. CASE BackupSdx
  <2>0. /\ pc = "backup_sdx" /\ pc' = "copy" /\ cur' = cur
        /\ cur \in Ids /\ txs[cur].phase = "candidate_built"
    BY <1>1, <1>4, Zenon DEF BackupSdx
  <2>1. txs' = [txs EXCEPT ![cur] = [@ EXCEPT !.phase = "backup_created", !.bsdx = sdx]]
    BY <1>4, Zenon DEF BackupSdx
  <2>2. /\ Only(cur) /\ txs'[cur].phase = "backup_created" /\ txs'[cur].bsdx = sdx
        /\ txs'[cur].src = txs[cur].src /\ txs'[cur].oldIdx = txs[cur].oldIdx
        /\ txs'[cur].oldSdx = txs[cur].oldSdx /\ txs'[cur].backup = txs[cur].backup
    <3> DEFINE r == [txs[cur] EXCEPT !.phase = "backup_created", !.bsdx = sdx]
    <3>1. txs' = [txs EXCEPT ![cur] = r]
      BY <2>1
    <3>2. /\ DOMAIN r = TxFields /\ r.phase = "backup_created" /\ r.bsdx = sdx
          /\ r.src = txs[cur].src /\ r.oldIdx = txs[cur].oldIdx
          /\ r.oldSdx = txs[cur].oldSdx /\ r.backup = txs[cur].backup
      BY <1>0, <2>0, SMTT(30) DEF Shape, TxFields
    <3> HIDE DEF r
    <3>3. Only(cur) /\ txs'[cur] = r
      BY <1>0, <2>0, <3>1, <3>2, SetOne, Zenon
    <3> QED BY <3>2, <3>3, Zenon
  <2>3. OneOpen' /\ HandFits' /\ NoneLate'
    BY <2>0, <2>2, SMTT(30) DEF RepairInv, Only, OneOpen, HandFits, InHand, NoneLate,
       Open, Late, Pending
  <2>4. BackupFits' /\ InstallFits'
    BY <1>0, <2>0, <2>2, SMTT(30) DEF RepairInv, Only, BackupFits, InstallFits, Pending
  <2>5. RejectFits'
    BY <1>0, <2>0, <2>2, SMTT(30) DEF RepairInv, Only, RejectFits, Open, Late, Pending
  <2> QED BY <2>2, <2>3, <2>4, <2>5, Zenon DEF RepairInv, Only
<1>5. CASE CopyCandidate
  <2>1. PICK v : /\ pc = "copy" /\ pc' = "journal" /\ cur' = cur /\ v = txs[cur].cand
                 /\ txs' = [txs EXCEPT ![cur].temp = v]
    BY <1>5, Zenon DEF CopyCandidate
  <2>0. cur \in Ids /\ pc = "copy" /\ pc' = "journal" /\ cur' = cur
    BY <1>1, <2>1, Zenon
  <2>2. /\ Only(cur) /\ txs'[cur].phase = txs[cur].phase
        /\ txs'[cur].temp = v /\ txs'[cur].cand = txs[cur].cand
        /\ txs'[cur].src = txs[cur].src /\ txs'[cur].oldIdx = txs[cur].oldIdx
        /\ txs'[cur].oldSdx = txs[cur].oldSdx /\ txs'[cur].backup = txs[cur].backup
        /\ txs'[cur].bsdx = txs[cur].bsdx /\ txs'[cur].linked = txs[cur].linked
    BY <1>0, <2>0, <2>1, TempEffect, Zenon
  <2>3. txs'[cur].temp = txs'[cur].cand
    BY <2>1, <2>2, Zenon
  <2> QED BY <1>0, <2>0, <2>2, <2>3, Copied, Zenon
<1> QED BY <1>2, <1>3, <1>4, <1>5, Zenon

-----------------------------------------------------------------------------
(* Steps that add a transaction or change several.                         *)

\* A failed look at the volume is recorded, or refused when too many were.
LEMMA PreflightStep ==
    ASSUME RepairInv, PreflightFails
    PROVE  RepairInv'
<1>0. Shape /\ dat \in Nat \ {0}
  BY DEF RepairInv, RejectFits
<1>1. /\ pc = "preflight" /\ UNCHANGED <<dat, live, sdx, rejected>>
      /\ \/ pc' \in {"parked", "running"} /\ txs' = txs
         \/ /\ pc' \in {"parked", "running"} \/ (pc' = "escalate" /\ cur' = NewId)
            /\ \E a : txs' = Append(txs, NewTx(NoSource, "failed_preinstall", a))
  BY Zenon DEF PreflightFails, Fails, files, NewId
<1>2. CASE pc' \in {"parked", "running"} /\ txs' = txs
  BY <1>0, <1>1, <1>2, Quiet, Zenon DEF Repairing
<1>3. CASE /\ pc' \in {"parked", "running"} \/ (pc' = "escalate" /\ cur' = NewId)
           /\ \E a : txs' = Append(txs, NewTx(NoSource, "failed_preinstall", a))
  <2>1. /\ Shape' /\ Ids' = Ids \cup {NewId} /\ txs'[NewId].phase = "failed_preinstall"
        /\ \A t \in Ids : txs'[t] = txs[t]
    BY <1>0, <1>3, FailureRecorded, Zenon
  <2>2. /\ Ids \subseteq Ids' /\ NewId \in Ids' /\ \A t \in Ids' \ Ids : t = NewId
        /\ \A t \in Ids : txs'[t].src = txs[t].src
    BY <2>1, Zenon
  <2> QED BY <1>1, <1>3, <2>1, <2>2, Enrolled, Zenon
<1> QED BY <1>1, <1>2, <1>3, Zenon

\* The source is refused; an exhausted one becomes manual.
LEMMA RefuseStep ==
    ASSUME RepairInv, RefuseSource
    PROVE  RepairInv'
<1>0. Shape /\ dat \in Nat \ {0} /\ DOMAIN txs = Ids /\ txs = [u \in Ids |-> txs[u]]
  BY IdFacts DEF RepairInv, RejectFits
<1>1. /\ pc = "decide" /\ pc' \in {"parked", "running"} /\ UNCHANGED <<dat, live, sdx, rejected>>
      /\ \E t : txs' = txs \/ txs' = Manual(t)
  BY Zenon DEF RefuseSource, Fails, files
<1>2. PICK t : txs' = txs \/ txs' = Manual(t)
  BY <1>1
<1>3. CASE txs' = Manual(t) /\ t \in Ids
  BY <1>0, <1>1, <1>3, ManualEffect, Ended, Zenon DEF Repairing
<1>4. CASE txs' = Manual(t) /\ t \notin Ids
  <2>1. txs' = [u \in Ids |-> txs[u]]
    BY <1>0, <1>4, Zenon DEF Manual
  <2>2. txs' = txs
    BY <1>0, <2>1
  <2> QED BY <1>0, <1>1, <2>2, Quiet, Zenon DEF Repairing
<1>5. CASE txs' = txs
  BY <1>0, <1>1, <1>5, Quiet, Zenon DEF Repairing
<1> QED BY <1>2, <1>3, <1>4, <1>5

\* With at most one open transaction, the newest resumable one is it.
LEMMA TheResumable ==
    ASSUME RepairInv, Resumable # {}
    PROVE  /\ Newest(Resumable) \in Ids /\ Newest(Resumable) \notin Stale
           /\ txs[Newest(Resumable)].src = Source
           /\ txs[Newest(Resumable)].phase \in {"building", "candidate_built", "backup_created"}
<1>1. PICK r : r \in Resumable
  OBVIOUS
<1>2. /\ Resumable \subseteq Ids
      /\ \A u \in Resumable : /\ txs[u].src = Source
                              /\ txs[u].phase \in {"building", "candidate_built", "backup_created"}
  BY DEF Resumable, Of, Preinstall
<1>3. \A u \in Resumable : u = r
  BY <1>1, <1>2 DEF RepairInv, OneOpen, Open
<1>4. r \in Nat
  BY <1>1, <1>2, IdFacts DEF RepairInv
<1>5. \A u \in Resumable : u <= r
  BY <1>3, <1>4
<1>6. Newest(Resumable) \in Resumable
  BY <1>1, <1>5 DEF Newest
<1> QED BY <1>2, <1>6 DEF Stale

\* Steps that enroll a repair: a new transaction, or the one that is open.
LEMMA EnrollStep ==
    ASSUME RepairInv, StructuralFailure \/ ResumeRefused \/ Resume \/ Enroll
    PROVE  RepairInv'
<1>0. Shape /\ DOMAIN Swept = Ids /\ \A t \in Ids : DOMAIN Swept[t] = TxFields
  BY SweptFacts, Zenon DEF RepairInv, Swept
<1>1. \A t \in Ids : /\ Swept[t].src = txs[t].src
                     /\ Swept[t].phase = "manual" \/ Swept[t] = txs[t]
                     /\ t \in Stale => Swept[t].phase = "manual"
                     /\ t \notin Stale => Swept[t] = txs[t]
  BY <1>0, SweptFacts, Zenon
<1>2. pc = "enroll" /\ UNCHANGED <<dat, live, sdx, rejected>>
  BY Zenon DEF StructuralFailure, ResumeRefused, Resume, Enroll, files
<1>3. CASE StructuralFailure
  <2>1. /\ txs' = Append(Swept, AsManual(NewTx(Source, "building", NextAttempt), AfterSweep))
        /\ pc' \in {"parked", "running"}
    BY <1>3, Zenon DEF StructuralFailure, Fails
  <2>2. /\ Shape' /\ Ids' = Ids \cup {NewId} /\ txs'[NewId].phase = "manual"
        /\ \A t \in Ids : txs'[t] = Swept[t]
    BY <1>0, <2>1, StructuralRecorded, Zenon
  <2>3. /\ Ids \subseteq Ids' /\ \A t \in Ids' \ Ids : txs'[t].phase = "manual"
        /\ \A t \in Ids : /\ txs'[t].src = txs[t].src
                          /\ txs'[t].phase = "manual" \/ txs'[t] = txs[t]
    BY <1>1, <2>2, Zenon
  <2> QED BY <1>2, <2>1, <2>2, <2>3, Enrolled, Zenon
<1>4. CASE Enroll
  <2>1. /\ txs' = Append(Swept, NewTx(Source, "building", NextAttempt))
        /\ pc' = "build" /\ cur' = NewId
    BY <1>4, Zenon DEF Enroll, NewId
  <2>2. /\ Shape' /\ Ids' = Ids \cup {NewId} /\ txs'[NewId].phase = "building"
        /\ txs'[NewId].src = Source /\ txs'[NewId].oldIdx = live /\ txs'[NewId].oldSdx = sdx
        /\ \A t \in Ids : txs'[t] = Swept[t]
    BY <1>0, <2>1, EnrollRecorded, Zenon
  <2>3. /\ Ids \subseteq Ids' /\ NewId \in Ids' /\ \A t \in Ids' \ Ids : t = NewId
        /\ \A t \in Ids : /\ txs'[t].src = txs[t].src
                          /\ txs'[t].phase = "manual" \/ txs'[t] = txs[t]
    BY <1>1, <2>2, Zenon
  <2>4. Source[1] # 0
    BY DEF RepairInv, RejectFits, Source
  <2>5. ASSUME NEW t \in Ids, txs'[t].phase \in Open
        PROVE  FALSE
    <3>1. t \notin Stale /\ txs'[t] = txs[t]
      BY <1>1, <2>2, <2>5, Zenon DEF Open, Late, Pending
    <3>2. txs[t].phase \in {"building", "candidate_built", "backup_created"}
      BY <1>2, <2>5, <3>1 DEF RepairInv, NoneLate, Open
    <3>3. txs[t].src = Source
      BY <3>1, <3>2 DEF Stale, Terminal, Pending
    <3>4. t \in Resumable
      BY <3>2, <3>3 DEF Resumable, Of, Preinstall
    <3> QED BY <1>4, <3>4 DEF Enroll
  <2> QED BY <1>2, <2>1, <2>2, <2>3, <2>4, <2>5, Enrolled, Zenon
<1>5. CASE Resume
  <2>1. PICK n : n = Newest(Resumable)
    OBVIOUS
  <2>2. /\ n \in Ids /\ n \notin Stale
        /\ txs[n].phase \in {"building", "candidate_built", "backup_created"}
    BY <1>5, <2>1, TheResumable, Zenon DEF Resume
  <2>3. /\ cur' = n /\ txs[n].oldIdx = live /\ txs[n].oldSdx = sdx
        /\ txs[n].phase = "backup_created" => pc' = "copy"
        /\ txs[n].phase = "candidate_built" => pc' = "backup"
        /\ txs[n].phase = "building" => pc' = "build"
    BY <1>5, <2>1 DEF Resume
  <2>4. txs' = Swept /\ txs' = [t \in Ids |-> txs'[t]]
    BY <1>5, Zenon DEF Resume, Swept
  <2>5. Shape' /\ Ids' = Ids
    BY <1>0, <2>4, MapEffect, Zenon
  <2>6. txs'[n] = txs[n]
    BY <1>1, <2>2, <2>4, Zenon
  <2> QED BY <1>1, <1>2, <2>2, <2>3, <2>4, <2>5, <2>6, Enrolled, Zenon
<1>6. CASE ResumeRefused
  <2>1. PICK n : n = Newest(Resumable)
    OBVIOUS
  <2>2. n \in Ids
    BY <1>6, <2>1, TheResumable, Zenon DEF ResumeRefused
  <2>3. PICK r : /\ txs' = [Swept EXCEPT ![n] = r] /\ r = AsManual(txs[n], AfterSweep)
                 /\ pc' \in {"parked", "running"}
    BY <1>6, <2>1, Zenon DEF ResumeRefused, Fails
  <2>4. DOMAIN r = TxFields /\ r.phase = "manual" /\ r.src = txs[n].src
    BY <1>0, <2>2, <2>3, ManualFields, Zenon DEF Shape
  <2>5. /\ txs' = [t \in Ids |-> txs'[t]] /\ txs'[n] = r
        /\ \A t \in Ids : t # n => txs'[t] = Swept[t]
    BY <1>0, <2>2, <2>3, Zenon
  <2>6. \A t \in Ids : /\ DOMAIN txs'[t] = TxFields /\ txs'[t].src = txs[t].src
                       /\ txs'[t].phase = "manual" \/ txs'[t] = txs[t]
    BY <1>0, <1>1, <2>4, <2>5, Zenon
  <2>7. Shape' /\ Ids' = Ids
    BY <1>0, <2>5, <2>6, MapEffect, Zenon
  <2> QED BY <1>2, <2>3, <2>6, <2>7, Enrolled, Zenon
<1> QED BY <1>3, <1>4, <1>5, <1>6

\* Steps that change the live index, and what hard links to it hold.
LEMMA FileStep ==
    ASSUME RepairInv, ReplaceLive \/ RestoreIdx \/ Write
    PROVE  RepairInv'
<1>0. /\ Shape /\ DOMAIN Unlinked = Ids
      /\ \A t \in Ids : DOMAIN Unlinked[t] = TxFields
  BY UnlinkedFacts, Zenon DEF RepairInv, Unlinked
<1>1. dat \in Nat \ {0} /\ dat + 1 \in Nat \ {0}
  BY DEF RepairInv, RejectFits
<1>2. \A t \in Ids :
         /\ Unlinked[t].phase = txs[t].phase /\ Unlinked[t].src = txs[t].src
         /\ Unlinked[t].cand = txs[t].cand /\ Unlinked[t].temp = txs[t].temp
         /\ Unlinked[t].oldIdx = txs[t].oldIdx /\ Unlinked[t].oldSdx = txs[t].oldSdx
         /\ Unlinked[t].backup = txs[t].backup /\ Unlinked[t].bsdx = txs[t].bsdx
  BY <1>0, UnlinkedFacts DEF TxFields
<1> DEFINE Rest(t) ==
      /\ txs'[t].phase = txs[t].phase /\ txs'[t].src = txs[t].src
      /\ txs'[t].cand = txs[t].cand /\ txs'[t].oldIdx = txs[t].oldIdx
      /\ txs'[t].oldSdx = txs[t].oldSdx /\ txs'[t].bsdx = txs[t].bsdx
<1>3. CASE ReplaceLive
  <2>1. /\ pc = "replace" /\ pc' = "clean" /\ live' = txs[cur].temp
        /\ UNCHANGED <<cur, dat, sdx, rejected>>
    BY <1>3, Zenon DEF ReplaceLive
  <2>2. cur \in Ids
    BY <2>1 DEF RepairInv, HandFits, InHand
  <2> DEFINE r == [Unlinked[cur] EXCEPT !.temp = None]
  <2>3. txs' = [Unlinked EXCEPT ![cur] = r]
    BY <1>3 DEF ReplaceLive
  <2>4. /\ DOMAIN r = TxFields /\ r.phase = txs[cur].phase /\ r.src = txs[cur].src
        /\ r.cand = txs[cur].cand /\ r.oldIdx = txs[cur].oldIdx
        /\ r.oldSdx = txs[cur].oldSdx /\ r.backup = txs[cur].backup
        /\ r.bsdx = txs[cur].bsdx
    BY <1>0, <1>2, <2>2, SMTT(30) DEF TxFields
  <2> HIDE DEF r
  <2>5. /\ txs' = [t \in Ids |-> txs'[t]] /\ txs'[cur] = r
        /\ \A t \in Ids : t # cur => txs'[t] = Unlinked[t]
    BY <1>0, <2>2, <2>3, Zenon
  <2>6. \A t \in Ids : DOMAIN txs'[t] = TxFields
    BY <1>0, <2>4, <2>5, Zenon
  <2>7. Shape' /\ Ids' = Ids
    BY <1>0, <2>5, <2>6, MapEffect, Zenon
  <2>8. \A t \in Ids : Rest(t) /\ txs'[t].backup = txs[t].backup
    <3> SUFFICES ASSUME NEW t \in Ids
                 PROVE  Rest(t) /\ txs'[t].backup = txs[t].backup
      OBVIOUS
    <3>1. CASE t = cur
      BY <2>4, <2>5, <3>1, Zenon
    <3>2. CASE t # cur
      BY <1>2, <2>5, <3>2, Zenon
    <3> QED BY <3>1, <3>2
  <2> QED BY <1>1, <2>1, <2>7, <2>8, Filed, Zenon
<1>4. CASE RestoreIdx /\ txs[cur].backup = txs[cur].oldIdx
  <2>1. /\ pc = "restore" /\ pc' = "restore_sdx" /\ txs' = Unlinked
        /\ UNCHANGED <<cur, dat, sdx, rejected>>
    BY <1>4, Zenon DEF RestoreIdx
  <2>3. txs' = [t \in Ids |-> txs'[t]]
    BY <1>0, <2>1, Zenon DEF Unlinked
  <2>4. Shape' /\ Ids' = Ids
    BY <1>0, <2>1, <2>3, MapEffect, Zenon
  <2>5. \A t \in Ids : Rest(t) /\ txs'[t].backup = txs[t].backup
    BY <1>2, <2>1, Zenon
  <2> QED BY <1>1, <2>1, <2>4, <2>5, Filed, Zenon
<1>5. CASE RestoreIdx /\ txs[cur].backup # txs[cur].oldIdx
  <2>1. /\ pc' = "parked" /\ txs' = txs
        /\ UNCHANGED <<dat, live, sdx, rejected>>
    BY <1>5, Zenon DEF RestoreIdx
  <2> QED BY <1>1, <2>1, Quiet, Zenon
<1>6. CASE Write /\ txs' = txs /\ live' = live
  BY <1>1, <1>6, Quiet, Zenon DEF Write, thread
<1>7. CASE Write /\ txs' = [t \in Ids |-> IF txs[t].linked
                                         THEN [txs[t] EXCEPT !.backup = live'] ELSE txs[t]]
  <2>1. /\ pc = "serving" /\ dat' = dat + 1
        /\ UNCHANGED <<pc, cur, sdx, rejected>>
    BY <1>7, Zenon DEF Write, thread
  <2>2. ASSUME NEW t \in Ids
        PROVE  /\ DOMAIN txs'[t] = TxFields /\ Rest(t)
               /\ txs'[t].linked = txs[t].linked
               /\ txs[t].linked => txs'[t].backup = live'
               /\ ~txs[t].linked => txs'[t].backup = txs[t].backup
    <3>1. DOMAIN txs[t] = TxFields
      BY <1>0 DEF Shape
    <3>2. CASE txs[t].linked
      <4>1. txs'[t] = [txs[t] EXCEPT !.backup = live']
        BY <1>7, <3>2
      <4>2. PICK v : v = live' /\ txs'[t] = [txs[t] EXCEPT !.backup = v]
        BY <4>1
      <4> DEFINE r == [txs[t] EXCEPT !.backup = v]
      <4>3. /\ DOMAIN r = TxFields /\ r.phase = txs[t].phase /\ r.src = txs[t].src
            /\ r.cand = txs[t].cand /\ r.oldIdx = txs[t].oldIdx
            /\ r.oldSdx = txs[t].oldSdx /\ r.bsdx = txs[t].bsdx /\ r.backup = v
        BY <3>1, SMTT(30) DEF TxFields
      <4>4. r.linked = txs[t].linked
        BY <3>1, Zenon DEF TxFields
      <4> HIDE DEF r
      <4>5. txs'[t] = r
        BY <4>2 DEF r
      <4> QED BY <3>2, <4>2, <4>3, <4>4, <4>5, Zenon
    <3>3. CASE ~txs[t].linked
      <4>1. txs'[t] = txs[t]
        BY <1>7, <3>3
      <4> QED BY <3>1, <3>3, <4>1
    <3> QED BY <3>2, <3>3
  <2>3. txs' = [t \in Ids |-> txs'[t]]
    BY <1>7, Zenon
  <2>4. Shape' /\ Ids' = Ids
    BY <1>0, <2>2, <2>3, MapEffect, Zenon
  <2> QED BY <1>1, <2>1, <2>2, <2>4, Filed, Zenon
<1> QED BY <1>3, <1>4, <1>5, <1>6, <1>7, Zenon DEF Write

\* SeaweedFS accepts every pending candidate.
LEMMA AcceptStep ==
    ASSUME RepairInv, Accept
    PROVE  RepairInv'
<1>1. /\ pc = "accepting" /\ pc' \in {"serving", "parked"}
      /\ UNCHANGED <<cur, from, auth, via, dat, live, sdx, rejected>>
  BY DEF Accept, files
<1>2. ASSUME NEW t \in Ids
      PROVE  /\ DOMAIN txs'[t] = TxFields /\ txs'[t].src = txs[t].src
             /\ txs[t].phase \in Pending => txs'[t].phase = "verified"
             /\ txs[t].phase \notin Pending => txs'[t] = txs[t]
  <2>1. DOMAIN txs[t] = TxFields
    BY DEF RepairInv, Shape
  <2>2. CASE txs[t].phase \in Pending
    <3>1. txs'[t] = Closed(txs[t], "verified")
      BY <2>2 DEF Accept
    <3> QED BY <2>1, <2>2, <3>1, ClosedFields
  <2>3. CASE txs[t].phase \notin Pending
    BY <2>1, <2>3 DEF Accept
  <2> QED BY <2>2, <2>3
<1>3. txs' = [t \in Ids |-> txs'[t]] /\ Shape
  BY Zenon DEF Accept, RepairInv
<1>4. Shape' /\ Ids' = Ids
  BY <1>2, <1>3, MapEffect
<1>5. OneOpen' /\ HandFits' /\ NoneLate'
  BY <1>1, <1>2, <1>4, SMTT(30) DEF RepairInv, OneOpen, HandFits, InHand, NoneLate, Open, Late,
     Pending
<1>6. BackupFits' /\ InstallFits'
  BY <1>1, <1>2, <1>4, SMTT(30) DEF RepairInv, BackupFits, InstallFits, Pending
<1>7. RejectFits'
  BY <1>1, <1>2, <1>4, SMTT(30) DEF RepairInv, RejectFits, Open, Late, Pending
<1> QED BY <1>4, <1>5, <1>6, <1>7 DEF RepairInv

-----------------------------------------------------------------------------
(* The theorems.                                                           *)

\* Every step of the specification preserves the invariant.
LEMMA RepairStep == RepairInv /\ [RNext]_rvars => RepairInv'
<1> SUFFICES ASSUME RepairInv, [RNext]_rvars
             PROVE  RepairInv'
  OBVIOUS
<1>1. CASE UNCHANGED rvars
  <2>1. txs' = txs /\ Shape' /\ Ids' = Ids
    BY <1>1, ShapeStays DEF rvars, RepairInv
  <2>2. UNCHANGED <<pc, cur, auth, via, dat, live, sdx, rejected>>
    BY <1>1 DEF rvars, thread, files
  <2>3. OneOpen' /\ HandFits' /\ NoneLate'
    BY <2>1, <2>2, SMTT(30) DEF RepairInv, OneOpen, HandFits, InHand, NoneLate
  <2>4. BackupFits' /\ InstallFits'
    BY <2>1, <2>2, SMTT(30) DEF RepairInv, BackupFits, InstallFits
  <2>5. RejectFits'
    BY <2>1, <2>2, SMTT(30) DEF RepairInv, RejectFits, Source
  <2> QED BY <2>1, <2>3, <2>4, <2>5 DEF RepairInv
<1>2. CASE Write \/ SortIndex \/ RequestRetry \/ Interrupt
  BY <1>2, FileStep, QuietStep, RetryStep, InterruptStep
<1>3. CASE \E t \in Ids : ValidateInstalledArtifacts(t)
  <2>1. PICK t \in Ids : ValidateInstalledArtifacts(t)
    BY <1>3
  <2>2. txs' = Move(t, "awaiting") \/ txs' = Manual(t)
    BY <2>1 DEF ValidateInstalledArtifacts
  <2> QED BY <2>1, <2>2, MoveStep, CloseStep, Zenon
<1>4. CASE \E t \in Ids : \/ RecoverInterruptedInstall(t) \/ CloseRolledBack(t)
                          \/ ReconcileResolvedPreinstall(t) \/ Reject(t)
  BY <1>4, RecoverStep, CloseStep, QuietStep, Zenon
<1>5. CASE RStep
  BY <1>3, <1>4, <1>5, QuietStep, MoveStep, CloseStep, ArtifactStep, RetryStep, PreflightStep,
     RefuseStep, EnrollStep, FileStep, AcceptStep, Zenon DEF RStep
<1> QED BY <1>1, <1>2, <1>5 DEF RNext

\* The journal, the files and the guardian's place in a repair always fit
\* together, for every number of transactions and versions of the .dat.
THEOREM RepairInvariance == RSpec => []RepairInv
<1>1. RInit => RepairInv
  <2> SUFFICES ASSUME RInit
               PROVE  RepairInv
    OBVIOUS
  <2>1. Shape /\ Ids = {}
    BY EmptyJournal DEF RInit
  <2> QED BY <2>1, SMTT(30) DEF RInit, RepairInv, OneOpen, HandFits, InHand, NoneLate,
     BackupFits, InstallFits, RejectFits
<1> QED BY <1>1, RepairStep, PTL DEF RSpec

\* RollbackPossible for every number of transactions: a candidate that is
\* installed and not judged can always be rolled back (_create_backups,
\* _install_candidate, _rollback).
THEOREM RollbackStaysPossible == RSpec => []RollbackPossible
<1>1. RepairInv => RollbackPossible
  BY DEF RepairInv, BackupFits, RollbackPossible, In
<1> QED BY <1>1, RepairInvariance, PTL

\* A repair that fails leaves no candidate of this volume to be judged.
LEMMA FailsUnjudged ==
    ASSUME RepairInv, pc' = "running",
           \/ RefuseUnfingerprinted \/ PreflightFails \/ RefuseSource \/ StructuralFailure
           \/ ResumeRefused \/ BuildCandidate \/ BuildFails \/ Escalate \/ UnsafeCandidate
           \/ TailFails \/ BackupIdx \/ CandidateLost
    PROVE  \A t \in Ids : txs'[t].phase \notin Pending
<1>0. Shape
  BY DEF RepairInv
<1>1. pc \in {"authorize", "preflight", "decide", "enroll", "escalate", "build", "truncated",
              "backup", "copy"}
  BY Zenon DEF RefuseUnfingerprinted, PreflightFails, RefuseSource, StructuralFailure, ResumeRefused,
     BuildCandidate, BuildFails, Escalate, UnsafeCandidate, TailFails, BackupIdx, CandidateLost
<1>2. \A t \in Ids : txs[t].phase \notin Pending
  BY <1>1, SMTT(30) DEF RepairInv, NoneLate, HandFits, InHand, OneOpen, Open, Late, Pending
<1> DEFINE Over(t) == txs'[t].phase \in {"manual", "failed_preinstall"} \/ txs'[t] = txs[t]
<1>3. CASE RefuseUnfingerprinted \/ TailFails \/ BackupIdx
  <2>1. txs' = txs
    BY <1>3 DEF RefuseUnfingerprinted, TailFails, BackupIdx, Goes
  <2> QED BY <1>2, <2>1
<1>4. CASE RefuseSource \/ BuildCandidate \/ Escalate \/ UnsafeCandidate \/ CandidateLost
  <2>1. txs' = txs \/ \E t : txs' = Manual(t)
    BY <1>4, Zenon DEF RefuseSource, BuildCandidate, Escalate, UnsafeCandidate, CandidateLost, Goes
  <2>2. \A u \in Ids : Over(u)
    BY <1>0, <2>1, ManualAnywhere
  <2> QED BY <1>2, <2>2 DEF Pending
<1>5. CASE BuildFails
  <2>1. cur \in Ids /\ txs' = Move(cur, "failed_preinstall")
    BY <1>5 DEF BuildFails, RepairInv, HandFits, InHand
  <2>2. Only(cur) /\ txs'[cur].phase = "failed_preinstall"
    BY <1>0, <2>1, MoveEffect
  <2> QED BY <1>2, <2>2 DEF Only, Pending
<1>6. CASE PreflightFails
  <2>1. txs' = txs \/ \E a : txs' = Append(txs, NewTx(NoSource, "failed_preinstall", a))
    BY <1>6, Zenon DEF PreflightFails
  <2>2. \A u \in Ids : txs'[u] = txs[u]
    BY <1>0, <2>1, FailureRecorded, Zenon
  <2> QED BY <1>2, <2>2
<1>7. CASE StructuralFailure \/ ResumeRefused
  <2>1. /\ DOMAIN Swept = Ids
        /\ \A t \in Ids : Swept[t].phase = "manual" \/ Swept[t] = txs[t]
    BY <1>0, SweptFacts, Zenon DEF Swept
  <2>2. CASE StructuralFailure
    <3>1. txs' = Append(Swept, AsManual(NewTx(Source, "building", NextAttempt), AfterSweep))
      BY <2>2 DEF StructuralFailure
    <3>2. \A u \in Ids : txs'[u] = Swept[u]
      BY <1>0, <3>1, StructuralRecorded, Zenon
    <3> QED BY <1>2, <2>1, <3>2 DEF Pending
  <2>3. CASE ResumeRefused
    <3>1. PICK n : txs' = [Swept EXCEPT ![n] = AsManual(txs[n], AfterSweep)]
                   /\ n = Newest(Resumable)
      BY <2>3, Zenon DEF ResumeRefused
    <3>2. n \in Ids
      BY <2>3, <3>1, TheResumable DEF ResumeRefused
    <3>3. AsManual(txs[n], AfterSweep).phase = "manual"
      BY <1>0, <3>2, ManualFields, Zenon DEF Shape
    <3>4. \A u \in Ids : txs'[u].phase = "manual" \/ txs'[u] = Swept[u]
      BY <2>1, <3>1, <3>2, <3>3, Zenon
    <3> QED BY <1>2, <2>1, <3>4, Zenon DEF Pending
  <2> QED BY <1>7, <2>2, <2>3
<1> QED BY <1>3, <1>4, <1>5, <1>6, <1>7

\* Only three steps add a transaction to the journal.
LEMMA SameIds ==
    ASSUME RepairInv, RepairInv', RNext, ~PreflightFails, ~StructuralFailure, ~Enroll
    PROVE  Ids' = Ids
<1>0. DOMAIN txs = Ids /\ DOMAIN txs' = Ids'
  BY IdFacts, IdFactsNext DEF RepairInv
<1>1. DOMAIN Swept = Ids /\ DOMAIN Unlinked = Ids
  BY DEF Swept, Unlinked
<1> USE <1>0, <1>1
<1>2. CASE \E t \in Ids : \/ ValidateInstalledArtifacts(t) \/ RecoverInterruptedInstall(t)
                          \/ CloseRolledBack(t) \/ ReconcileResolvedPreinstall(t) \/ Reject(t)
  BY <1>2, Zenon DEF ValidateInstalledArtifacts, RecoverInterruptedInstall, CloseRolledBack,
     ReconcileResolvedPreinstall, Reject, Move, Manual
<1>3. CASE StartGeneration \/ PrepareDone \/ StatusWritable \/ StatusAbsent \/ StatusReadonly
           \/ RefuseUnfingerprinted \/ PreflightPasses \/ TruncateTail \/ TailFails
           \/ RemoveStaleSdx \/ RestoreSdx \/ SortIndex
  BY <1>3, Zenon DEF StartGeneration, PrepareDone, StatusWritable, StatusAbsent, StatusReadonly,
     RefuseUnfingerprinted, PreflightPasses, TruncateTail, TailFails, RemoveStaleSdx, RestoreSdx,
     SortIndex
<1>4. CASE Accept \/ Write
  BY <1>4, Zenon DEF Accept, Write
<1>5. CASE AuthorizeUnfingerprinted \/ AdmitSource \/ RequestRetry
  BY <1>5, Zenon DEF AuthorizeUnfingerprinted, AdmitSource, RequestRetry, Consume
<1>6. CASE RefuseSource
  BY <1>6, Zenon DEF RefuseSource, Manual
<1>7. CASE ResumeRefused \/ Resume
  BY <1>7, Zenon DEF ResumeRefused, Resume
<1>8. CASE BuildCandidate \/ BackupIdx \/ BackupSdx \/ CopyCandidate
  BY <1>8, Zenon DEF BuildCandidate, BackupIdx, BackupSdx, CopyCandidate, Manual
<1>9. CASE BuildFails \/ JournalInstall \/ CandidateInstalled \/ AwaitValidation \/ RolledBack
  BY <1>9, Zenon DEF BuildFails, JournalInstall, CandidateInstalled, AwaitValidation, RolledBack, Move
<1>10. CASE Escalate \/ UnsafeCandidate \/ CandidateLost \/ RollbackManual \/ TailRecovered
  BY <1>10, Zenon DEF Escalate, UnsafeCandidate, CandidateLost, RollbackManual, TailRecovered, Manual
<1>11. CASE ReplaceLive \/ RestoreIdx
  BY <1>11, Zenon DEF ReplaceLive, RestoreIdx
<1>12. CASE Interrupt
  BY <1>12, Zenon DEF Interrupt
<1> QED BY <1>2, <1>3, <1>4, <1>5, <1>6, <1>7, <1>8, <1>9, <1>10, <1>11, <1>12, Zenon
   DEF RNext, RStep

\* Only these steps start SeaweedFS.
LEMMA Starters ==
    ASSUME RNext, pc' = "running", pc # "running"
    PROVE  \/ PrepareDone \/ AwaitValidation
           \/ RefuseUnfingerprinted \/ PreflightFails \/ RefuseSource \/ StructuralFailure
           \/ ResumeRefused \/ BuildCandidate \/ BuildFails \/ Escalate \/ UnsafeCandidate
           \/ TailFails \/ BackupIdx \/ CandidateLost
<1>1. /\ ~Write /\ ~SortIndex /\ ~RequestRetry /\ ~Interrupt
  BY DEF Write, SortIndex, RequestRetry, Interrupt, thread
<1>2. ASSUME NEW t \in Ids
      PROVE  /\ ~ValidateInstalledArtifacts(t) /\ ~RecoverInterruptedInstall(t)
             /\ ~CloseRolledBack(t) /\ ~ReconcileResolvedPreinstall(t) /\ ~Reject(t)
  BY DEF ValidateInstalledArtifacts, RecoverInterruptedInstall, CloseRolledBack,
     ReconcileResolvedPreinstall, Reject, thread
<1>3. /\ ~StartGeneration /\ ~StatusWritable /\ ~StatusAbsent /\ ~StatusReadonly /\ ~Accept
      /\ ~AuthorizeUnfingerprinted /\ ~PreflightPasses /\ ~AdmitSource /\ ~Enroll
      /\ ~TruncateTail /\ ~TailRecovered /\ ~BackupSdx /\ ~CopyCandidate /\ ~JournalInstall
  BY DEF StartGeneration, StatusWritable, StatusAbsent, StatusReadonly, Accept,
     AuthorizeUnfingerprinted, PreflightPasses, AdmitSource, Enroll, TruncateTail, TailRecovered,
     BackupSdx, CopyCandidate, JournalInstall
<1>4. /\ ~ReplaceLive /\ ~RemoveStaleSdx /\ ~CandidateInstalled /\ ~RestoreIdx /\ ~RestoreSdx
      /\ ~RolledBack /\ ~RollbackManual
  BY DEF ReplaceLive, RemoveStaleSdx, CandidateInstalled, RestoreIdx, RestoreSdx, RolledBack,
     RollbackManual
<1>5. ~Resume
  BY DEF Resume
<1> QED BY <1>1, <1>2, <1>3, <1>4, <1>5, Zenon DEF RNext, RStep

\* StartsOnSettledIndex for every number of transactions: SeaweedFS is never
\* started on a half-installed index (prepare_offline, _install_candidate).
THEOREM StartsAreSettled == RSpec => StartsOnSettledIndex
<1> DEFINE Settled ==
      /\ \A t \in Ids : txs'[t].phase \notin {"installing", "rolled_back"}
      /\ \A t \in Ids : txs'[t].phase \in Pending => live' = txs'[t].cand /\ sdx' = None
<1>1. ASSUME RepairInv, RepairInv', RNext, pc' = "running", pc # "running"
      PROVE  Settled
  <2>0. Shape
    BY <1>1 DEF RepairInv
  <2>1. Ids \subseteq Ids'
    <3>1. CASE PreflightFails
      <4>1. txs' = txs \/ \E a : txs' = Append(txs, NewTx(NoSource, "failed_preinstall", a))
        BY <3>1, Zenon DEF PreflightFails
      <4>2. txs' = txs => Ids' = Ids
        BY <2>0, ShapeStays
      <4> QED BY <2>0, <4>1, <4>2, FailureRecorded, Zenon
    <3>2. CASE StructuralFailure
      <4>1. txs' = Append(Swept, AsManual(NewTx(Source, "building", NextAttempt), AfterSweep))
        BY <3>2 DEF StructuralFailure
      <4> QED BY <2>0, <4>1, StructuralRecorded, Zenon
    <3>3. ~Enroll
      BY <1>1 DEF Enroll
    <3> QED BY <1>1, <3>1, <3>2, <3>3, SameIds
  <2>2. \A t \in Ids : txs'[t].phase \notin {"installing", "rolled_back"}
    BY <1>1, <2>1 DEF RepairInv, NoneLate
  <2>3. CASE PrepareDone
    BY <2>2, <2>3, SMTT(30) DEF PrepareDone, In, Sound, Pending, files
  <2>4. CASE AwaitValidation
    <3>1. cur \in Ids /\ live = txs[cur].cand /\ sdx = None
      BY <1>1, <2>4 DEF AwaitValidation, RepairInv, HandFits, InHand, InstallFits
    <3>2. Only(cur) /\ txs'[cur].phase = "awaiting" /\ txs'[cur].cand = txs[cur].cand
      BY <2>0, <2>4, <3>1, MoveEffect DEF AwaitValidation, Same
    <3>3. \A t \in Ids : txs'[t].phase \in Pending => t = cur
      BY <1>1, <2>1, <3>1, <3>2 DEF RepairInv, OneOpen, Open, Late, Pending
    <3>4. live' = live /\ sdx' = sdx
      BY <2>4 DEF AwaitValidation, files
    <3> QED BY <2>2, <3>1, <3>2, <3>3, <3>4
  <2>5. CASE ~PrepareDone /\ ~AwaitValidation
    <3>1. \A t \in Ids : txs'[t].phase \notin Pending
      BY <1>1, <2>5, Starters, FailsUnjudged
    <3> QED BY <2>2, <3>1
  <2> QED BY <2>3, <2>4, <2>5
<1>2. RepairInv /\ RepairInv' /\ [RNext]_rvars
        => [pc' = "running" /\ pc # "running" => Settled]_rvars
  BY <1>1
<1> QED BY <1>2, RepairInvariance, PTL DEF RSpec, StartsOnSettledIndex

\* RejectedIsBlocked for every number of transactions: the guardian does not
\* try a rejected source again on its own (_repair_one, rollback_rejected).
THEOREM RejectedStaysBlocked == RSpec => RejectedIsBlocked
<1> DEFINE Blocks == \A t \in Ids' \ Ids : txs'[t].src \in rejected => txs'[t].auth
<1>1. ASSUME RepairInv, RepairInv', RNext
      PROVE  Blocks
  <2>0. Shape
    BY <1>1 DEF RepairInv
  <2>1. CASE ~PreflightFails /\ ~StructuralFailure /\ ~Enroll
    <3>1. Ids' = Ids
      BY <1>1, <2>1, SameIds
    <3> QED BY <3>1
  <2>2. CASE PreflightFails
    <3>1. CASE txs' = txs
      BY <2>0, <3>1, ShapeStays
    <3>2. CASE \E a : txs' = Append(txs, NewTx(NoSource, "failed_preinstall", a))
      <4>1. PICK a : txs' = Append(txs, NewTx(NoSource, "failed_preinstall", a))
        BY <3>2
      <4>2. PICK r : r = NewTx(NoSource, "failed_preinstall", a) /\ txs' = Append(txs, r)
        BY <4>1
      <4>3. DOMAIN r = TxFields /\ r.src = NoSource
        BY <4>2, NewFields
      <4>4. txs'[NewId] = r /\ Ids' = Ids \cup {NewId}
        BY <2>0, <4>2, <4>3, CreateEffect, Zenon
      <4>5. NoSource \notin rejected
        BY <1>1 DEF RepairInv, RejectFits, NoSource
      <4> QED BY <4>3, <4>4, <4>5
    <3> QED BY <2>2, <3>1, <3>2, Zenon DEF PreflightFails
  <2>3. CASE StructuralFailure \/ Enroll
    <3>1. pc = "enroll"
      BY <2>3 DEF StructuralFailure, Enroll
    <3>2. Source \in rejected => auth
      BY <1>1, <3>1, SMTT(30) DEF RepairInv, RejectFits, NoneLate
    <3>3. PICK r : /\ txs' = Append(Swept, r)
                   /\ \/ r = NewTx(Source, "building", NextAttempt)
                      \/ r = AsManual(NewTx(Source, "building", NextAttempt), AfterSweep)
      BY <2>3 DEF StructuralFailure, Enroll
    <3>4. DOMAIN r = TxFields /\ r.src = Source /\ r.auth = auth
      <4>1. CASE r = NewTx(Source, "building", NextAttempt)
        BY <4>1, NewFields
      <4>2. CASE r = AsManual(NewTx(Source, "building", NextAttempt), AfterSweep)
        BY <4>2, NewFields, ManualFields, ManualAuth
      <4> QED BY <3>3, <4>1, <4>2
    <3>5. txs'[NewId] = r /\ Ids' = Ids \cup {NewId}
      BY <2>0, <3>3, <3>4, SweepEffect, Zenon
    <3> QED BY <3>2, <3>4, <3>5, Zenon
  <2> QED BY <2>1, <2>2, <2>3
<1>2. RepairInv /\ RepairInv' /\ [RNext]_rvars => [Blocks]_rvars
  BY <1>1
<1> QED BY <1>2, RepairInvariance, PTL DEF RSpec, RejectedIsBlocked
=============================================================================

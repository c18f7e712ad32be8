---------------------- MODULE IndexRepairTypes_proofs -----------------------
(***************************************************************************)
(* What each field of a journal record, each file and the guardian's own   *)
(* variables hold, for every number of transactions and versions of the    *)
(* .dat.                                                                   *)
(***************************************************************************)
EXTENDS IndexRepairAttempts_proofs

\* What the fields of a record hold; B stands for BOOLEAN.
FieldTypes(B) ==
    [phase |-> Phases, src |-> (0..MaxDat) \X Vias, attempt |-> 1..(MaxTx + 1),
     oldIdx |-> Content \cup {None}, oldSdx |-> Content \cup {None},
     cand |-> Content \cup {None}, temp |-> Content \cup {None, Junk},
     backup |-> Content \cup {None}, bsdx |-> Content \cup {None}, linked |-> B,
     retry |-> {"no", "asked", "used"}, at |-> 0..MaxTx, auth |-> B]

\* A record of the journal, field by field.
Typed(r) ==
    /\ r = [f \in TxFields |-> r[f]]
    /\ \A f \in TxFields : r[f] \in FieldTypes(BOOLEAN)[f]

\* The types of the fields, by name.
LEMMA FieldTypeFacts ==
    ASSUME NEW B
    PROVE  /\ FieldTypes(B).phase = Phases /\ FieldTypes(B).src = (0..MaxDat) \X Vias
           /\ FieldTypes(B).attempt = 1..(MaxTx + 1)
           /\ FieldTypes(B).oldIdx = Content \cup {None}
           /\ FieldTypes(B).oldSdx = Content \cup {None}
           /\ FieldTypes(B).cand = Content \cup {None}
           /\ FieldTypes(B).temp = Content \cup {None, Junk}
           /\ FieldTypes(B).backup = Content \cup {None}
           /\ FieldTypes(B).bsdx = Content \cup {None}
           /\ FieldTypes(B).linked = B /\ FieldTypes(B).retry = {"no", "asked", "used"}
           /\ FieldTypes(B).at = 0..MaxTx /\ FieldTypes(B).auth = B
BY Zenon DEF FieldTypes

\* The members of Tx are the records with fields of these types.
LEMMA TypedRecords == \A r : Typed(r) => r \in Tx
<1>1. ASSUME NEW r, NEW B, r = [f \in TxFields |-> r[f]],
             \A f \in TxFields : r[f] \in FieldTypes(B)[f]
      PROVE  r \in [phase : Phases, src : (0..MaxDat) \X Vias, attempt : 1..(MaxTx + 1),
                    oldIdx : Content \cup {None}, oldSdx : Content \cup {None},
                    cand : Content \cup {None}, temp : Content \cup {None, Junk},
                    backup : Content \cup {None}, bsdx : Content \cup {None}, linked : B,
                    retry : {"no", "asked", "used"}, at : 0..MaxTx, auth : B]
  <2>1. /\ r.phase \in Phases /\ r.src \in (0..MaxDat) \X Vias
        /\ r.attempt \in 1..(MaxTx + 1)
        /\ r.oldIdx \in Content \cup {None} /\ r.oldSdx \in Content \cup {None}
        /\ r.cand \in Content \cup {None} /\ r.temp \in Content \cup {None, Junk}
        /\ r.backup \in Content \cup {None} /\ r.bsdx \in Content \cup {None} /\ r.linked \in B
        /\ r.retry \in {"no", "asked", "used"} /\ r.at \in 0..MaxTx /\ r.auth \in B
    BY <1>1, FieldTypeFacts, Zenon DEF TxFields
  <2>2. r = [phase |-> r.phase, src |-> r.src, attempt |-> r.attempt, oldIdx |-> r.oldIdx,
             oldSdx |-> r.oldSdx, cand |-> r.cand, temp |-> r.temp, backup |-> r.backup,
             bsdx |-> r.bsdx, linked |-> r.linked, retry |-> r.retry, at |-> r.at,
             auth |-> r.auth]
    BY <1>1, SMTT(30) DEF TxFields
  <2> QED BY <2>1, <2>2, Zenon
<1> QED BY <1>1, Zenon DEF Typed, Tx

\* An update of field g.
LEMMA FieldTyped ==
    ASSUME NEW r, Typed(r), NEW g \in TxFields, NEW v, v \in FieldTypes(BOOLEAN)[g]
    PROVE  /\ Typed([r EXCEPT ![g] = v]) /\ [r EXCEPT ![g] = v][g] = v
           /\ \A f \in TxFields : f # g => [r EXCEPT ![g] = v][f] = r[f]
<1>1. DOMAIN r = TxFields
  BY Zenon DEF Typed
<1>2. [r EXCEPT ![g] = v][g] = v /\ \A f \in TxFields : f # g => [r EXCEPT ![g] = v][f] = r[f]
  BY <1>1, Zenon
<1>3. [r EXCEPT ![g] = v] = [f \in TxFields |-> [r EXCEPT ![g] = v][f]]
  BY <1>1, Zenon
<1>4. \A f \in TxFields : [r EXCEPT ![g] = v][f] \in FieldTypes(BOOLEAN)[f]
  BY <1>2, Zenon DEF Typed
<1> QED BY <1>2, <1>3, <1>4, Zenon DEF Typed

\* A record whose fields have their types, one by one.
LEMMA TypedFields ==
    ASSUME NEW r, r = [f \in TxFields |-> r[f]],
           r.phase \in Phases, r.src \in (0..MaxDat) \X Vias, r.attempt \in 1..(MaxTx + 1),
           r.oldIdx \in Content \cup {None}, r.oldSdx \in Content \cup {None},
           r.cand \in Content \cup {None}, r.temp \in Content \cup {None, Junk},
           r.backup \in Content \cup {None}, r.bsdx \in Content \cup {None},
           r.linked \in BOOLEAN, r.retry \in {"no", "asked", "used"}, r.at \in 0..MaxTx,
           r.auth \in BOOLEAN
    PROVE  Typed(r)
<1> DEFINE T == FieldTypes(BOOLEAN)
<1>1. /\ r["phase"] \in T["phase"] /\ r["src"] \in T["src"] /\ r["attempt"] \in T["attempt"]
      /\ r["oldIdx"] \in T["oldIdx"] /\ r["oldSdx"] \in T["oldSdx"]
      /\ r["cand"] \in T["cand"] /\ r["temp"] \in T["temp"] /\ r["backup"] \in T["backup"]
      /\ r["bsdx"] \in T["bsdx"] /\ r["linked"] \in T["linked"] /\ r["retry"] \in T["retry"]
      /\ r["at"] \in T["at"] /\ r["auth"] \in T["auth"]
  <2>1. /\ T.phase = Phases /\ T.src = (0..MaxDat) \X Vias /\ T.attempt = 1..(MaxTx + 1)
        /\ T.oldIdx = Content \cup {None} /\ T.oldSdx = Content \cup {None}
        /\ T.cand = Content \cup {None} /\ T.temp = Content \cup {None, Junk}
        /\ T.backup = Content \cup {None} /\ T.bsdx = Content \cup {None}
        /\ T.linked = BOOLEAN /\ T.retry = {"no", "asked", "used"}
        /\ T.at = 0..MaxTx /\ T.auth = BOOLEAN
    BY FieldTypeFacts, Zenon
  <2> HIDE DEF T
  <2> QED BY <2>1, Zenon
<1>2. \A f \in TxFields : r[f] \in T[f]
  <2> HIDE DEF T
  <2> QED BY <1>1, Zenon DEF TxFields
<1> QED BY <1>2, Zenon DEF Typed

\* Phases of a transaction that has its candidate.
Candid == Late \cup {"candidate_built", "backup_created"}

\* A record that is not closed knows the index it replaces, and its candidate
\* once it has one.
Good(r) ==
    /\ Typed(r)
    /\ r.phase \notin Terminal => r.oldIdx \in Content
    /\ r.phase \in Candid => r.cand \in Content

\* An update of another field than the phase, the old index and the candidate.
LEMMA GoodField ==
    ASSUME NEW r, Good(r), NEW g \in TxFields \ {"phase", "oldIdx", "cand"},
           NEW v, v \in FieldTypes(BOOLEAN)[g]
    PROVE  Good([r EXCEPT ![g] = v]) /\ [r EXCEPT ![g] = v].phase = r.phase
<1>0. Typed(r)
  BY Zenon DEF Good
<1>1. /\ Typed([r EXCEPT ![g] = v])
      /\ \A f \in TxFields : f # g => [r EXCEPT ![g] = v][f] = r[f]
  BY <1>0, FieldTyped
<1>2. /\ [r EXCEPT ![g] = v].phase = r.phase /\ [r EXCEPT ![g] = v].oldIdx = r.oldIdx
      /\ [r EXCEPT ![g] = v].cand = r.cand
  BY <1>1, Zenon DEF TxFields
<1> QED BY <1>1, <1>2, Zenon DEF Good

\* A move to a phase that is not terminal.
LEMMA GoodPhase ==
    ASSUME NEW r, Good(r), r.phase \notin Terminal, NEW p, p \in Phases \ Terminal,
           p \in Candid => r.cand \in Content
    PROVE  Good([r EXCEPT !.phase = p])
<1>1. p \in FieldTypes(BOOLEAN).phase /\ "phase" \in TxFields /\ Typed(r)
  BY FieldTypeFacts, Zenon DEF TxFields, Good
<1>2. Typed([r EXCEPT !.phase = p])
  BY <1>1, FieldTyped, Zenon
<1>3. /\ [r EXCEPT !.phase = p].phase = p
      /\ [r EXCEPT !.phase = p].oldIdx = r.oldIdx /\ [r EXCEPT !.phase = p].cand = r.cand
  BY <1>1, Zenon DEF Typed, TxFields
<1> QED BY <1>2, <1>3, Zenon DEF Good

\* The same with a candidate or a backup of the sorted index.
LEMMA GoodPhaseAnd ==
    ASSUME NEW r, Good(r), r.phase \notin Terminal, NEW p, p \in Phases \ Terminal
    PROVE  /\ \A c \in Content : Good([r EXCEPT !.phase = p, !.cand = c])
           /\ r.cand \in Content =>
                \A b \in Content \cup {None} : Good([r EXCEPT !.phase = p, !.bsdx = b])
<1> USE Zenon
<1>0. DOMAIN r = TxFields
  BY DEF Good, Typed
<1>1. ASSUME NEW c \in Content
      PROVE  Good([r EXCEPT !.phase = p, !.cand = c])
  <2>1. p \in FieldTypes(BOOLEAN).phase /\ "phase" \in TxFields /\ Typed(r)
    BY FieldTypeFacts DEF TxFields, Good
  <2>2. c \in FieldTypes(BOOLEAN).cand /\ "cand" \in TxFields
    BY FieldTypeFacts DEF TxFields
  <2> DEFINE q == [r EXCEPT !.phase = p]
             z == [q EXCEPT !.cand = c]
  <2>3. Typed(q)
    BY <2>1, FieldTyped
  <2>4. q.phase = p /\ q.oldIdx = r.oldIdx
    BY <1>0 DEF TxFields
  <2>5. [r EXCEPT !.phase = p, !.cand = c] = z
    BY <1>0
  <2> HIDE DEF q
  <2>6. Typed(z)
    BY <2>2, <2>3, FieldTyped
  <2>7. z.cand = c /\ z.phase = q.phase /\ z.oldIdx = q.oldIdx
    BY <2>3 DEF Typed, TxFields
  <2> HIDE DEF z
  <2>8. Good(z)
    BY <2>3, <2>4, <2>6, <2>7 DEF Good
  <2> QED BY <2>5, <2>8
<1>2. ASSUME NEW b \in Content \cup {None}, r.cand \in Content
      PROVE  Good([r EXCEPT !.phase = p, !.bsdx = b])
  <2>1. b \in FieldTypes(BOOLEAN).bsdx /\ "bsdx" \in TxFields \ {"phase", "oldIdx", "cand"}
    BY FieldTypeFacts DEF TxFields
  <2> DEFINE q == [r EXCEPT !.phase = p]
  <2>2. Good(q)
    BY <1>2, GoodPhase
  <2>3. [r EXCEPT !.phase = p, !.bsdx = b] = [q EXCEPT !.bsdx = b]
    BY <1>0, SMTT(30) DEF TxFields
  <2> HIDE DEF q
  <2> QED BY <2>1, <2>2, <2>3, GoodField
<1> QED BY <1>1, <1>2

\* A copy, a backup, a retry request or a hard link is recorded.
LEMMA GoodArtifacts ==
    ASSUME NEW r, Good(r)
    PROVE  /\ \A v \in Content \cup {None, Junk} : Good([r EXCEPT !.temp = v])
           /\ \A v \in {"asked", "used"} : Good([r EXCEPT !.retry = v])
           /\ \A v \in Content : Good([r EXCEPT !.backup = v])
           /\ Good([r EXCEPT !.linked = FALSE])
           /\ \A v \in Content, l \in BOOLEAN : /\ Good([r EXCEPT !.backup = v, !.linked = l])
                                                /\ Good([r EXCEPT !.temp = v, !.linked = l])
<1> USE Zenon
<1>0. DOMAIN r = TxFields /\ {"temp", "retry", "backup", "linked"}
                                \subseteq TxFields \ {"phase", "oldIdx", "cand"}
  BY DEF Good, Typed, TxFields
<1>1. ASSUME NEW q, Good(q)
      PROVE  /\ \A v \in Content \cup {None, Junk} : Good([q EXCEPT !.temp = v])
             /\ \A v \in {"asked", "used"} : Good([q EXCEPT !.retry = v])
             /\ \A v \in Content : Good([q EXCEPT !.backup = v])
             /\ \A l \in BOOLEAN : Good([q EXCEPT !.linked = l])
  <2>1. ASSUME NEW v \in Content \cup {None, Junk}
        PROVE  Good([q EXCEPT !.temp = v])
    <3>1. v \in FieldTypes(BOOLEAN).temp
      BY FieldTypeFacts
    <3> QED BY <1>0, <1>1, <3>1, GoodField
  <2>2. ASSUME NEW v \in {"asked", "used"}
        PROVE  Good([q EXCEPT !.retry = v])
    <3>1. v \in FieldTypes(BOOLEAN).retry
      BY FieldTypeFacts
    <3> QED BY <1>0, <1>1, <3>1, GoodField
  <2>3. ASSUME NEW v \in Content
        PROVE  Good([q EXCEPT !.backup = v])
    <3>1. v \in FieldTypes(BOOLEAN).backup
      BY FieldTypeFacts
    <3> QED BY <1>0, <1>1, <3>1, GoodField
  <2>4. ASSUME NEW l \in BOOLEAN
        PROVE  Good([q EXCEPT !.linked = l])
    <3>1. l \in FieldTypes(BOOLEAN).linked
      BY FieldTypeFacts
    <3> QED BY <1>0, <1>1, <3>1, GoodField
  <2> QED BY <2>1, <2>2, <2>3, <2>4
<1>2. ASSUME NEW v \in Content, NEW l \in BOOLEAN
      PROVE  Good([r EXCEPT !.backup = v, !.linked = l])
  <2> DEFINE q == [r EXCEPT !.backup = v]
  <2>1. Good(q)
    BY <1>1
  <2>2. [r EXCEPT !.backup = v, !.linked = l] = [q EXCEPT !.linked = l]
    BY <1>0
  <2> HIDE DEF q
  <2> QED BY <1>1, <2>1, <2>2
<1>3. ASSUME NEW v \in Content, NEW l \in BOOLEAN
      PROVE  Good([r EXCEPT !.temp = v, !.linked = l])
  <2> DEFINE q == [r EXCEPT !.temp = v]
  <2>1. Good(q)
    BY <1>1
  <2>2. [r EXCEPT !.temp = v, !.linked = l] = [q EXCEPT !.linked = l]
    BY <1>0
  <2> HIDE DEF q
  <2> QED BY <1>1, <2>1, <2>2
<1> QED BY <1>1, <1>2, <1>3

\* A record that is closed.
LEMMA GoodClosed ==
    ASSUME NEW r, Good(r), NEW p, p \in Terminal
    PROVE  Good(Closed(r, p))
<1> USE Zenon
<1>0. DOMAIN r = TxFields
  BY DEF Good, Typed
<1> DEFINE q == Closed(r, p)
<1>1. q = [f \in TxFields |-> q[f]]
  BY <1>0 DEF Closed
<1>2. /\ q.phase = p /\ q.src = r.src /\ q.attempt = r.attempt /\ q.oldIdx = None
      /\ q.oldSdx = None /\ q.cand = None /\ q.temp = None /\ q.backup = None
      /\ q.bsdx = None /\ q.retry = r.retry /\ q.at = r.at
  BY <1>0, SMTT(30) DEF Closed, TxFields
<1>3. q.linked = FALSE /\ q.auth = r.auth
  BY <1>0, SMTT(30) DEF Closed, TxFields
<1> HIDE DEF q
<1>4. /\ r.src \in (0..MaxDat) \X Vias /\ r.attempt \in 1..(MaxTx + 1)
      /\ r.retry \in {"no", "asked", "used"} /\ r.at \in 0..MaxTx /\ r.auth \in BOOLEAN
  BY FieldTypeFacts DEF Good, Typed, TxFields
<1>5. p \in Phases
  BY DEF Phases
<1>6. Typed(q)
  BY <1>1, <1>2, <1>3, <1>4, <1>5, TypedFields
<1>7. p \notin Candid
  BY DEF Terminal, Candid, Late, Pending
<1>8. Good(q)
  BY <1>2, <1>6, <1>7 DEF Good
<1> QED BY <1>8 DEF q

\* A record that becomes manual.
LEMMA GoodManual ==
    ASSUME NEW r, Good(r), NEW a \in 0..MaxTx
    PROVE  Good(AsManual(r, a))
<1>1. Good(Closed(r, "manual"))
  BY GoodClosed, Zenon DEF Terminal
<1>2. a \in FieldTypes(BOOLEAN).at /\ "at" \in TxFields \ {"phase", "oldIdx", "cand"}
  BY FieldTypeFacts, Zenon DEF TxFields
<1> QED BY <1>1, <1>2, GoodField, Zenon DEF AsManual

\* A new record.
LEMMA GoodNew ==
    ASSUME NEW s \in (0..MaxDat) \X Vias, NEW p \in {"building", "failed_preinstall"},
           NEW a \in 1..(MaxTx + 1), live \in Content, sdx \in Content \cup {None},
           auth \in BOOLEAN
    PROVE  Good(NewTx(s, p, a))
<1> DEFINE r == NewTx(s, p, a)
<1>1. r = [f \in TxFields |-> r[f]]
  BY SMTT(30) DEF NewTx, TxFields
<1>2. /\ r.phase = p /\ r.src = s /\ r.attempt = a /\ r.oldIdx = live /\ r.oldSdx = sdx
      /\ r.cand = None /\ r.temp = None /\ r.backup = None /\ r.bsdx = None
      /\ r.retry = "no" /\ r.at = 0
  BY SMTT(30) DEF NewTx
<1>3. r.linked = FALSE /\ r.auth = auth
  BY Zenon DEF NewTx
<1> HIDE DEF r
<1>4. p \in Phases /\ p \notin Candid
  BY Zenon DEF Phases, Preinstall, Candid, Late, Pending
<1>5. 0 \in 0..MaxTx
  BY RepairAssumption
<1>6. Typed(r)
  BY <1>1, <1>2, <1>3, <1>4, <1>5, TypedFields, Zenon
<1>7. Good(r)
  BY <1>2, <1>4, <1>6, Zenon DEF Good
<1> QED BY <1>7, Zenon DEF r

\* Everything RTypeOK says, with what is needed to preserve it.
ThreadTypes ==
    /\ pc \in PCs /\ cur \in Ids \cup {0} /\ from \in {"prepare", "repair"}
    /\ auth \in BOOLEAN /\ allow \in BOOLEAN /\ others \in BOOLEAN /\ via \in Vias
FileTypes ==
    dat \in 1..MaxDat /\ live \in Content /\ sdx \in Content \cup {None}
JournalTypes ==
    Ids \subseteq 1..MaxTx /\ \A t \in Ids : Good(txs[t])
TypeInv == ThreadTypes /\ FileTypes /\ JournalTypes

\* The number of records.
LEMMA JournalLength ==
    ASSUME Shape, Ids \subseteq 1..MaxTx
    PROVE  /\ Len(txs) \in Nat /\ Len(txs) <= MaxTx /\ MaxTx \in Nat
           /\ IsFiniteSet(Ids) /\ Cardinality(Ids) = Len(txs)
<1>1. Len(txs) \in Nat /\ MaxTx \in Nat
  BY SeqFacts, RepairAssumption DEF Shape
<1>2. Len(txs) <= MaxTx
  <2>1. Len(txs) = 0 \/ Len(txs) \in Ids
    BY <1>1 DEF Ids
  <2> QED BY <1>1, <2>1
<1>3. /\ IsFiniteSet(1..Len(txs))
      /\ Cardinality(1..Len(txs)) = IF 1 > Len(txs) THEN 0 ELSE Len(txs) - 1 + 1
  BY <1>1, FS_Interval
<1>4. Cardinality(1..Len(txs)) = Len(txs)
  BY <1>1, <1>3
<1> QED BY <1>1, <1>2, <1>3, <1>4 DEF Ids

\* Some transaction of set S, all of it in the journal, is not t.
LEMMA AllButOne ==
    ASSUME Shape, Ids \subseteq 1..MaxTx, NEW t \in Ids, NEW S, S \subseteq Ids \ {t}
    PROVE  IsFiniteSet(S) /\ Cardinality(S) \in Nat /\ Cardinality(S) + 1 <= Len(txs)
<1>1. Len(txs) \in Nat /\ IsFiniteSet(Ids) /\ Cardinality(Ids) = Len(txs)
  BY JournalLength
<1>2. IsFiniteSet(Ids \ {t}) /\ Cardinality(Ids \ {t}) = Len(txs) - 1
  BY <1>1, FS_RemoveElement
<1>3. IsFiniteSet(S) /\ Cardinality(S) <= Cardinality(Ids \ {t})
  <2>1. S \in SUBSET (Ids \ {t})
    BY Zenon
  <2> QED BY <1>2, <2>1, FS_Subset, Zenon
<1> QED BY <1>1, <1>2, <1>3, FS_CardinalityType

\* The time at which a transaction becomes manual is within its type.
LEMMA ManualAt ==
    ASSUME Shape, Ids \subseteq 1..MaxTx, NEW t \in Ids, txs[t].phase # "manual"
    PROVE  NextAt \in 0..MaxTx
<1>1. In({"manual"}) \subseteq Ids \ {t}
  BY Zenon DEF In
<1>2. Cardinality(In({"manual"})) \in Nat /\ Cardinality(In({"manual"})) + 1 <= Len(txs)
  BY <1>1, AllButOne, Zenon
<1> QED BY <1>2, JournalLength DEF NextAt

\* The same after the sweep, for a transaction that the sweep leaves alone and
\* for a new one.
LEMMA SweepAt ==
    ASSUME Shape, Ids \subseteq 1..MaxTx,
           \/ Len(txs) < MaxTx
           \/ \E t \in Ids : txs[t].phase # "manual" /\ t \notin Stale
    PROVE  AfterSweep \in 0..MaxTx
<1> USE Zenon
<1> DEFINE M == In({"manual"})
<1>1. M \subseteq Ids /\ Stale \subseteq Ids /\ M \cap Stale = {}
  BY DEF In, Stale, Terminal
<1>2. Len(txs) \in Nat /\ Len(txs) <= MaxTx /\ IsFiniteSet(Ids) /\ Cardinality(Ids) = Len(txs)
      /\ MaxTx \in Nat
  BY JournalLength
<1>3. AfterSweep = Cardinality(M) + 1 + Cardinality(Stale)
  BY DEF AfterSweep, NextAt
<1> HIDE DEF M
<1>4. /\ IsFiniteSet(M) /\ IsFiniteSet(Stale)
      /\ IsFiniteSet(M \cup Stale) /\ Cardinality(M \cup Stale) <= Len(txs)
  <2>1. M \in SUBSET Ids /\ Stale \in SUBSET Ids /\ (M \cup Stale) \in SUBSET Ids
    BY <1>1
  <2>2. /\ IsFiniteSet(M) /\ IsFiniteSet(Stale)
        /\ IsFiniteSet(M \cup Stale) /\ Cardinality(M \cup Stale) <= Cardinality(Ids)
    BY <1>2, <2>1, FS_Subset
  <2> QED BY <1>2, <2>2
<1>5. /\ Cardinality(M) \in Nat /\ Cardinality(Stale) \in Nat
      /\ Cardinality(M \cup Stale) = Cardinality(M) + Cardinality(Stale)
  <2>1. Cardinality(M) \in Nat /\ Cardinality(Stale) \in Nat
    BY <1>4, FS_CardinalityType
  <2>2. Cardinality(M \cap Stale) = 0
    <3>1. Cardinality({}) = 0
      BY FS_EmptySet
    <3> QED BY <1>1, <3>1
  <2>3. Cardinality(M \cup Stale) =
          Cardinality(M) + Cardinality(Stale) - Cardinality(M \cap Stale)
    BY <1>4, FS_Union
  <2> QED BY <2>1, <2>2, <2>3, SMT
<1>6. CASE Len(txs) < MaxTx
  BY <1>2, <1>3, <1>4, <1>5, <1>6, SMT
<1>7. CASE \E t \in Ids : txs[t].phase # "manual" /\ t \notin Stale
  <2>1. PICK t \in Ids : txs[t].phase # "manual" /\ t \notin Stale
    BY <1>7
  <2>2. M \cup Stale \subseteq Ids \ {t}
    BY <1>1, <2>1 DEF M, In
  <2>3. Cardinality(M \cup Stale) + 1 <= Len(txs)
    BY <2>2, AllButOne
  <2> QED BY <1>2, <1>3, <1>5, <2>3, SMT
<1> QED BY <1>6, <1>7

\* An update of one record.
LEMMA GoodOne ==
    ASSUME Shape, \A u \in Ids : Good(txs[u]), NEW t, NEW r, t \in Ids => Good(r),
           txs' = [txs EXCEPT ![t] = r]
    PROVE  \A u \in Ids : Good(txs'[u])
<1>1. DOMAIN txs = Ids
  BY IdFacts
<1>2. \A u \in Ids : (u = t => txs'[u] = r) /\ (u # t => txs'[u] = txs[u])
  BY <1>1, Zenon
<1> QED BY <1>2, Zenon

\* A transaction t that is not closed moves, is closed, or has its copy renewed.
LEMMA GoodMoves ==
    ASSUME RepairInv, JournalTypes, NEW t \in Ids,
           \/ txs' = [txs EXCEPT ![t] = Closed(txs[t], "resolved")]
           \/ txs' = [txs EXCEPT ![t] = Closed(txs[t], "tail_recovered")]
           \/ txs' = Manual(t) /\ txs[t].phase # "manual"
           \/ \E v \in Content \cup {None, Junk} : txs' = [txs EXCEPT ![t].temp = v]
           \/ \E p \in Phases \ Terminal :
                /\ txs' = Move(t, p) /\ txs[t].phase \notin Terminal
                /\ p \in Candid => txs[t].phase \in Candid
    PROVE  \A u \in Ids : Good(txs'[u])
<1> USE Zenon
<1>0. Shape /\ Ids \subseteq 1..MaxTx /\ Good(txs[t]) /\ \A u \in Ids : Good(txs[u])
  BY DEF RepairInv, JournalTypes
<1>1. ASSUME NEW p \in Terminal, txs' = [txs EXCEPT ![t] = Closed(txs[t], p)]
      PROVE  \A u \in Ids : Good(txs'[u])
  <2>1. Good(Closed(txs[t], p))
    BY <1>0, GoodClosed
  <2> QED BY <1>0, <1>1, <2>1, GoodOne
<1>2. CASE txs' = Manual(t) /\ txs[t].phase # "manual"
  <2>1. NextAt \in 0..MaxTx
    BY <1>0, <1>2, ManualAt
  <2>2. Good(AsManual(txs[t], NextAt))
    BY <1>0, <2>1, GoodManual
  <2> QED BY <1>0, <1>2, <2>2, GoodOne DEF Manual
<1>3. ASSUME NEW v \in Content \cup {None, Junk}, txs' = [txs EXCEPT ![t].temp = v]
      PROVE  \A u \in Ids : Good(txs'[u])
  <2> DEFINE r == [txs[t] EXCEPT !.temp = v]
  <2>1. txs' = [txs EXCEPT ![t] = r]
    BY <1>3
  <2>2. Good(r)
    BY <1>0, GoodArtifacts
  <2> HIDE DEF r
  <2> QED BY <1>0, <2>1, <2>2, GoodOne
<1>4. ASSUME NEW p \in Phases \ Terminal, txs' = Move(t, p), txs[t].phase \notin Terminal,
             p \in Candid => txs[t].phase \in Candid
      PROVE  \A u \in Ids : Good(txs'[u])
  <2> DEFINE r == [txs[t] EXCEPT !.phase = p]
  <2>1. txs' = [txs EXCEPT ![t] = r]
    BY <1>4 DEF Move
  <2>2. p \in Candid => txs[t].cand \in Content
    BY <1>0, <1>4 DEF Good
  <2>3. Good(r)
    BY <1>0, <1>4, <2>2, GoodPhase
  <2> HIDE DEF r
  <2> QED BY <1>0, <2>1, <2>3, GoodOne
<1>5. "resolved" \in Terminal /\ "tail_recovered" \in Terminal
  BY DEF Terminal
<1> QED BY <1>1, <1>2, <1>3, <1>4, <1>5

\* Two fields of transaction t are recorded.
LEMMA GoodPairs ==
    ASSUME RepairInv, JournalTypes, NEW t \in Ids, NEW v, NEW w,
           \/ /\ txs' = [txs EXCEPT ![t] = [@ EXCEPT !.phase = v, !.cand = w]]
              /\ txs[t].phase \notin Terminal /\ v \in Phases \ Terminal /\ w \in Content
           \/ /\ txs' = [txs EXCEPT ![t] = [@ EXCEPT !.phase = v, !.bsdx = w]]
              /\ txs[t].phase \in Candid \ Terminal /\ v \in Phases \ Terminal
              /\ w \in Content \cup {None}
           \/ /\ txs' = [txs EXCEPT ![t] = [@ EXCEPT !.backup = v, !.linked = w]]
              /\ v \in Content /\ w \in BOOLEAN
           \/ /\ txs' = [txs EXCEPT ![t] = [@ EXCEPT !.temp = v, !.linked = w]]
              /\ v \in Content /\ w \in BOOLEAN
    PROVE  \A u \in Ids : Good(txs'[u])
<1> USE Zenon
<1>0. Shape /\ Good(txs[t]) /\ \A u \in Ids : Good(txs[u])
  BY DEF RepairInv, JournalTypes
<1>1. DOMAIN txs = Ids
  BY <1>0, IdFacts
<1>2. CASE /\ txs' = [txs EXCEPT ![t] = [@ EXCEPT !.phase = v, !.cand = w]]
           /\ txs[t].phase \notin Terminal /\ v \in Phases \ Terminal /\ w \in Content
  <2> DEFINE r == [txs[t] EXCEPT !.phase = v, !.cand = w]
  <2>1. txs' = [txs EXCEPT ![t] = r]
    BY <1>1, <1>2, SMTT(30)
  <2>2. Good(r)
    BY <1>0, <1>2, GoodPhaseAnd
  <2> HIDE DEF r
  <2> QED BY <1>0, <2>1, <2>2, GoodOne
<1>3. CASE /\ txs' = [txs EXCEPT ![t] = [@ EXCEPT !.phase = v, !.bsdx = w]]
           /\ txs[t].phase \in Candid \ Terminal /\ v \in Phases \ Terminal
           /\ w \in Content \cup {None}
  <2> DEFINE r == [txs[t] EXCEPT !.phase = v, !.bsdx = w]
  <2>1. txs' = [txs EXCEPT ![t] = r]
    BY <1>1, <1>3, SMTT(30)
  <2>2. txs[t].cand \in Content /\ txs[t].phase \notin Terminal
    BY <1>0, <1>3 DEF Good
  <2>3. Good(r)
    BY <1>0, <1>3, <2>2, GoodPhaseAnd
  <2> HIDE DEF r
  <2> QED BY <1>0, <2>1, <2>3, GoodOne
<1>4. CASE /\ txs' = [txs EXCEPT ![t] = [@ EXCEPT !.backup = v, !.linked = w]]
           /\ v \in Content /\ w \in BOOLEAN
  <2> DEFINE r == [txs[t] EXCEPT !.backup = v, !.linked = w]
  <2>1. txs' = [txs EXCEPT ![t] = r]
    BY <1>1, <1>4, SMTT(30)
  <2>2. Good(r)
    BY <1>0, <1>4, GoodArtifacts
  <2> HIDE DEF r
  <2> QED BY <1>0, <2>1, <2>2, GoodOne
<1>5. CASE /\ txs' = [txs EXCEPT ![t] = [@ EXCEPT !.temp = v, !.linked = w]]
           /\ v \in Content /\ w \in BOOLEAN
  <2> DEFINE r == [txs[t] EXCEPT !.temp = v, !.linked = w]
  <2>1. txs' = [txs EXCEPT ![t] = r]
    BY <1>1, <1>5, SMTT(30)
  <2>2. Good(r)
    BY <1>0, <1>5, GoodArtifacts
  <2> HIDE DEF r
  <2> QED BY <1>0, <2>1, <2>2, GoodOne
<1> QED BY <1>2, <1>3, <1>4, <1>5

\* The sweep and a rename.
LEMMA GoodMaps ==
    ASSUME RepairInv, JournalTypes
    PROVE  \A u \in Ids : Good(Swept[u]) /\ Good(Unlinked[u])
<1> USE Zenon
<1>0. Shape /\ Ids \subseteq 1..MaxTx /\ \A u \in Ids : Good(txs[u])
  BY DEF RepairInv, JournalTypes
<1>1. ASSUME NEW u \in Ids
      PROVE  Good(Swept[u])
  <2>1. CASE u \in Stale
    <3>1. Swept[u] = AsManual(txs[u], NextAt)
      BY <2>1 DEF Swept
    <3>2. txs[u].phase # "manual"
      BY <2>1 DEF Stale, Terminal
    <3>3. NextAt \in 0..MaxTx
      BY <1>0, <3>2, ManualAt
    <3> QED BY <1>0, <3>1, <3>3, GoodManual
  <2>2. CASE u \notin Stale
    BY <1>0, <2>2 DEF Swept
  <2> QED BY <2>1, <2>2
<1>2. ASSUME NEW u \in Ids
      PROVE  Good(Unlinked[u])
  <2>1. Unlinked[u] = [txs[u] EXCEPT !.linked = FALSE]
    BY DEF Unlinked
  <2>2. Good([txs[u] EXCEPT !.linked = FALSE])
    BY <1>0, GoodArtifacts
  <2> QED BY <2>1, <2>2
<1> QED BY <1>1, <1>2

\* The content that files can have.
LEMMA ContentFacts ==
    ASSUME FileTypes
    PROVE  /\ Rebuilt \subseteq Content
           /\ dat < MaxDat => dat + 1 \in 1..MaxDat /\ <<dat + 1, "own">> \in Content
<1>1. dat \in 1..MaxDat /\ live \in Content /\ MaxDat \in Nat
  BY RepairAssumption DEF FileTypes
<1>2. <<dat, "fix">> \in Content
  BY <1>1 DEF Content
<1>3. ASSUME dat < MaxDat
      PROVE  dat + 1 \in 1..MaxDat /\ <<dat + 1, "own">> \in Content
  BY <1>1, <1>3 DEF Content
<1> QED BY <1>1, <1>2, <1>3, Zenon DEF Rebuilt

\* Every step keeps the types of the records that are there.
LEMMA GoodStep ==
    ASSUME RepairInv, TypeInv, RNext
    PROVE  \A u \in Ids : Good(txs'[u])
<1> USE Zenon
<1>0. /\ Shape /\ DOMAIN txs = Ids /\ JournalTypes /\ FileTypes
      /\ Ids \subseteq 1..MaxTx /\ \A u \in Ids : Good(txs[u])
  BY IdFacts DEF RepairInv, TypeInv, JournalTypes
<1> USE <1>0
<1>1. CASE txs' = txs
  BY <1>1
<1> USE <1>1
<1>2. CASE \E t \in Ids : \/ ValidateInstalledArtifacts(t) \/ RecoverInterruptedInstall(t)
                          \/ CloseRolledBack(t) \/ ReconcileResolvedPreinstall(t) \/ Reject(t)
  <2>1. PICK t \in Ids : \/ ValidateInstalledArtifacts(t) \/ RecoverInterruptedInstall(t)
                         \/ CloseRolledBack(t) \/ ReconcileResolvedPreinstall(t) \/ Reject(t)
    BY <1>2
  <2>2. txs[t].phase # "manual"
    BY <2>1 DEF ValidateInstalledArtifacts, RecoverInterruptedInstall, CloseRolledBack,
       ReconcileResolvedPreinstall, Reject, Pending, Preinstall
  <2>3. \/ txs' = txs \/ txs' = Manual(t)
        \/ txs' = Move(t, "awaiting") /\ txs[t].phase \in Pending
        \/ txs' = [txs EXCEPT ![t] = Closed(txs[t], "resolved")]
        \/ txs' = [txs EXCEPT ![t].temp = None]
    BY <2>1 DEF ValidateInstalledArtifacts, RecoverInterruptedInstall, CloseRolledBack,
       ReconcileResolvedPreinstall, Reject
  <2>4. CASE txs' = Move(t, "awaiting") /\ txs[t].phase \in Pending
    <3>1. /\ txs[t].phase \notin Terminal /\ txs[t].phase \in Candid
          /\ "awaiting" \in Phases \ Terminal
      BY <2>4 DEF Pending, Terminal, Candid, Late, Phases
    <3> QED BY <2>4, <3>1, GoodMoves
  <2>5. CASE txs' = [txs EXCEPT ![t].temp = None]
    <3>1. None \in Content \cup {None, Junk}
      OBVIOUS
    <3> QED BY <2>5, <3>1, GoodMoves
  <2>6. CASE txs' = Manual(t) \/ txs' = [txs EXCEPT ![t] = Closed(txs[t], "resolved")]
    BY <2>2, <2>6, GoodMoves
  <2> QED BY <2>3, <2>4, <2>5, <2>6
<1>3. CASE StartGeneration \/ PrepareDone \/ StatusWritable \/ StatusAbsent \/ StatusReadonly
           \/ RefuseUnfingerprinted \/ PreflightPasses \/ TruncateTail \/ TailFails
           \/ RemoveStaleSdx \/ RestoreSdx \/ SortIndex
  BY <1>3 DEF StartGeneration, PrepareDone, StatusWritable, StatusAbsent,
     StatusReadonly, RefuseUnfingerprinted, PreflightPasses, TruncateTail, TailFails,
     RemoveStaleSdx, RestoreSdx, SortIndex
<1>4. CASE AuthorizeUnfingerprinted \/ AdmitSource \/ RequestRetry
  <2>1. txs' = txs \/ \E t : \E v \in {"asked", "used"} : txs' = [txs EXCEPT ![t].retry = v]
    BY <1>4 DEF AuthorizeUnfingerprinted, AdmitSource, RequestRetry, Consume
  <2>2. ASSUME NEW t, NEW v \in {"asked", "used"}, txs' = [txs EXCEPT ![t].retry = v]
        PROVE  \A u \in Ids : Good(txs'[u])
    <3> DEFINE r == [txs[t] EXCEPT !.retry = v]
    <3>1. txs' = [txs EXCEPT ![t] = r]
      BY <2>2
    <3>2. t \in Ids => Good(r)
      BY GoodArtifacts
    <3> HIDE DEF r
    <3> QED BY <3>1, <3>2, GoodOne
  <2> QED BY <2>1, <2>2
<1>5. CASE RefuseSource
  <2> DEFINE F == {t \in Of(Source) : txs[t].phase = "failed_preinstall"}
  <2>1. txs' = txs \/ (F # {} /\ txs' = Manual(Newest(F)))
    BY <1>5 DEF RefuseSource
  <2>2. CASE F # {} /\ txs' = Manual(Newest(F))
    <3>1. F \subseteq Ids
      BY DEF Of
    <3>2. Newest(F) \in F
      BY <2>2, <3>1, NewestFacts
    <3>3. Newest(F) \in Ids /\ txs[Newest(F)].phase # "manual"
      BY <3>1, <3>2
    <3> QED BY <2>2, <3>3, GoodMoves
  <2> QED BY <2>1, <2>2
<1>6. CASE Resume
  <2>1. txs' = Swept
    BY <1>6 DEF Resume
  <2> QED BY <2>1, GoodMaps
<1>7. CASE ResumeRefused
  <2>1. PICK t : t = Newest(Resumable)
    OBVIOUS
  <2>2. txs' = [Swept EXCEPT ![t] = AsManual(txs[t], AfterSweep)] /\ Resumable # {}
    BY <1>7, <2>1 DEF ResumeRefused
  <2>3. t \in Ids /\ t \notin Stale /\ txs[t].phase # "manual"
    BY <2>1, <2>2, TheResumable
  <2>4. AfterSweep \in 0..MaxTx
    BY <2>3, SweepAt
  <2>5. Good(AsManual(txs[t], AfterSweep))
    BY <2>3, <2>4, GoodManual
  <2>6. DOMAIN Swept = Ids
    BY DEF Swept
  <2>7. \A u \in Ids : (u = t => txs'[u] = AsManual(txs[t], AfterSweep))
                       /\ (u # t => txs'[u] = Swept[u])
    BY <2>2, <2>6
  <2> QED BY <2>5, <2>7, GoodMaps
<1>8. CASE PreflightFails
  <2>1. txs' = txs \/ \E a : txs' = Append(txs, NewTx(NoSource, "failed_preinstall", a))
    BY <1>8 DEF PreflightFails
  <2>2. txs' = txs \/ \A u \in Ids : txs'[u] = txs[u]
    BY <2>1, FailureRecorded
  <2> QED BY <2>2
<1>9. CASE StructuralFailure \/ Enroll
  <2>1. \A u \in Ids : txs'[u] = Swept[u]
    BY <1>9, StructuralRecorded, EnrollRecorded DEF StructuralFailure, Enroll
  <2> QED BY <2>1, GoodMaps
<1>10. CASE BuildFails \/ JournalInstall \/ CandidateInstalled \/ AwaitValidation \/ RolledBack
  <2>1. \/ pc = "build" /\ txs' = Move(cur, "failed_preinstall")
        \/ pc = "journal" /\ txs' = Move(cur, "installing")
        \/ pc = "installed" /\ txs' = Move(cur, "candidate_installed")
        \/ pc = "await" /\ txs' = Move(cur, "awaiting")
        \/ pc = "restored" /\ txs' = Move(cur, "rolled_back")
    BY <1>10 DEF BuildFails, JournalInstall, CandidateInstalled, AwaitValidation,
       RolledBack
  <2>2. /\ cur \in Ids
        /\ \/ pc = "build" /\ txs[cur].phase = "building"
           \/ pc # "build" /\ txs[cur].phase \in {"backup_created", "installing",
                                "candidate_installed"} \cup Pending
    BY <2>1, SMTT(30) DEF RepairInv, HandFits, InHand
  <2>3. txs[cur].phase \notin Terminal /\ (pc # "build" => txs[cur].phase \in Candid)
    BY <2>2 DEF Pending, Terminal, Candid, Late
  <2>4. /\ {"failed_preinstall", "installing", "candidate_installed", "awaiting", "rolled_back"}
             \subseteq Phases \ Terminal
        /\ "failed_preinstall" \notin Candid
    BY DEF Phases, Preinstall, Terminal, Pending, Candid, Late
  <2>5. \E p \in Phases \ Terminal :
           txs' = Move(cur, p) /\ (p \in Candid => txs[cur].phase \in Candid)
    BY <2>1, <2>3, <2>4
  <2> QED BY <2>2, <2>3, <2>5, GoodMoves
<1>11. CASE Escalate \/ UnsafeCandidate \/ CandidateLost \/ RollbackManual \/ TailRecovered
            \/ CopyCandidate
  <2>1. /\ pc \in {"escalate", "build", "copy", "rolled_back", "truncated"}
        /\ \/ txs' = Manual(cur) \/ txs' = [txs EXCEPT ![cur] = Closed(txs[cur], "tail_recovered")]
           \/ txs' = [txs EXCEPT ![cur].temp = txs[cur].cand]
    BY <1>11 DEF Escalate, UnsafeCandidate, CandidateLost, RollbackManual, TailRecovered,
       CopyCandidate
  <2>2. cur \in Ids /\ txs[cur].phase # "manual"
    BY <2>1, SMTT(30) DEF RepairInv, HandFits, InHand
  <2>3. txs[cur].cand \in Content \cup {None, Junk}
    <3>1. txs[cur].cand \in FieldTypes(BOOLEAN).cand
      BY <2>2 DEF Good, Typed, TxFields
    <3>2. FieldTypes(BOOLEAN).cand = Content \cup {None}
      BY FieldTypeFacts
    <3> QED BY <3>1, <3>2
  <2> QED BY <2>1, <2>2, <2>3, GoodMoves
<1>12. CASE BuildCandidate
  <2>1. /\ pc = "build"
        /\ \/ txs' = Manual(cur)
           \/ \E c \in Rebuilt : txs' = [txs EXCEPT ![cur] = [@ EXCEPT !.phase = "candidate_built",
                                                                       !.cand = c]]
    BY <1>12 DEF BuildCandidate
  <2>2. cur \in Ids /\ txs[cur].phase = "building"
    BY <2>1 DEF RepairInv, HandFits, InHand
  <2>3. txs[cur].phase \notin Terminal /\ "candidate_built" \in Phases \ Terminal
    BY <2>2 DEF Terminal, Phases, Preinstall
  <2>4. CASE txs' = Manual(cur)
    BY <2>2, <2>4, GoodMoves
  <2>5. ASSUME NEW c \in Rebuilt,
               txs' = [txs EXCEPT ![cur] = [@ EXCEPT !.phase = "candidate_built", !.cand = c]]
        PROVE  \A u \in Ids : Good(txs'[u])
    <3>1. c \in Content
      BY ContentFacts
    <3> QED BY <2>2, <2>3, <2>5, <3>1, GoodPairs
  <2> QED BY <2>1, <2>4, <2>5
<1>13. CASE BackupIdx
  <2>1. /\ pc = "backup"
        /\ \/ txs' = txs
           \/ \E l \in BOOLEAN :
                txs' = [txs EXCEPT ![cur] = [@ EXCEPT !.backup = live, !.linked = l]]
    BY <1>13 DEF BackupIdx
  <2>2. cur \in Ids /\ live \in Content
    BY <2>1 DEF RepairInv, HandFits, InHand, FileTypes
  <2>3. ASSUME NEW l \in BOOLEAN,
               txs' = [txs EXCEPT ![cur] = [@ EXCEPT !.backup = live, !.linked = l]]
        PROVE  \A u \in Ids : Good(txs'[u])
    BY <2>2, <2>3, GoodPairs
  <2> QED BY <2>1, <2>3
<1>14. CASE BackupSdx
  <2>1. /\ pc = "backup_sdx"
        /\ txs' = [txs EXCEPT ![cur] = [@ EXCEPT !.phase = "backup_created", !.bsdx = sdx]]
    BY <1>14 DEF BackupSdx
  <2>2. cur \in Ids /\ txs[cur].phase = "candidate_built" /\ sdx \in Content \cup {None}
    BY <2>1 DEF RepairInv, HandFits, InHand, FileTypes
  <2>3. txs[cur].phase \in Candid \ Terminal /\ "backup_created" \in Phases \ Terminal
    BY <2>2 DEF Candid, Terminal, Phases, Preinstall
  <2> QED BY <2>1, <2>2, <2>3, GoodPairs
<1>15. CASE ReplaceLive
  <2>1. txs' = [Unlinked EXCEPT ![cur].temp = None]
    BY <1>15 DEF ReplaceLive
  <2>2. DOMAIN Unlinked = Ids /\ \A u \in Ids : Good(Unlinked[u])
    BY GoodMaps DEF Unlinked
  <2>3. \A u \in Ids : \/ txs'[u] = Unlinked[u]
                       \/ txs'[u] = [Unlinked[u] EXCEPT !.temp = None]
    BY <2>1, <2>2
  <2>4. None \in Content \cup {None, Junk}
    OBVIOUS
  <2>5. \A u \in Ids : Good([Unlinked[u] EXCEPT !.temp = None])
    BY <2>2, <2>4, GoodArtifacts
  <2> QED BY <2>2, <2>3, <2>5
<1>16. CASE RestoreIdx
  <2>1. txs' = txs \/ txs' = Unlinked
    BY <1>16 DEF RestoreIdx
  <2> QED BY <2>1, GoodMaps
<1>17. CASE Accept
  <2>1. \A u \in Ids : txs'[u] = txs[u] \/ txs'[u] = Closed(txs[u], "verified")
    BY <1>17 DEF Accept
  <2>2. \A u \in Ids : Good(Closed(txs[u], "verified"))
    BY GoodClosed DEF Terminal
  <2> QED BY <2>1, <2>2
<1>18. CASE Write
  <2>1. \/ txs' = txs
        \/ /\ live' = <<dat + 1, "own">> /\ dat < MaxDat
           /\ \A u \in Ids : \/ txs'[u] = txs[u]
                             \/ txs'[u] = [txs[u] EXCEPT !.backup = live']
    BY <1>18 DEF Write
  <2>2. CASE /\ live' = <<dat + 1, "own">> /\ dat < MaxDat
             /\ \A u \in Ids : \/ txs'[u] = txs[u]
                               \/ txs'[u] = [txs[u] EXCEPT !.backup = live']
    <3>1. live' \in Content
      BY <2>2, ContentFacts
    <3>2. \A u \in Ids : Good([txs[u] EXCEPT !.backup = live'])
      BY <3>1, GoodArtifacts
    <3> QED BY <2>2, <3>2
  <2> QED BY <2>1, <2>2
<1>19. CASE Interrupt
  <2>1. \/ txs' = txs
        \/ /\ pc \in {"copy", "journal", "replace"}
           /\ \E v \in {None, Junk} : txs' = [txs EXCEPT ![cur].temp = v]
        \/ /\ pc = "clean"
           /\ \E l \in BOOLEAN :
                txs' = [txs EXCEPT ![cur] = [@ EXCEPT !.temp = txs[cur].cand, !.linked = l]]
    BY <1>19 DEF Interrupt
  <2>2. CASE /\ pc \in {"copy", "journal", "replace"}
             /\ \E v \in {None, Junk} : txs' = [txs EXCEPT ![cur].temp = v]
    <3>1. cur \in Ids
      BY <2>2 DEF RepairInv, HandFits, InHand
    <3>2. \E v \in Content \cup {None, Junk} : txs' = [txs EXCEPT ![cur].temp = v]
      BY <2>2
    <3> QED BY <3>1, <3>2, GoodMoves
  <2>3. ASSUME pc = "clean", NEW l \in BOOLEAN,
               txs' = [txs EXCEPT ![cur] = [@ EXCEPT !.temp = txs[cur].cand, !.linked = l]]
        PROVE  \A u \in Ids : Good(txs'[u])
    <3>1. cur \in Ids /\ txs[cur].phase = "installing"
      BY <2>3 DEF RepairInv, HandFits, InHand
    <3>2. txs[cur].cand \in Content
      BY <3>1 DEF Good, Candid, Late
    <3> QED BY <2>3, <3>1, <3>2, GoodPairs
  <2> QED BY <2>1, <2>2, <2>3
<1> QED BY <1>2, <1>3, <1>4, <1>5, <1>6, <1>7, <1>8, <1>9, <1>10, <1>11, <1>12, <1>13, <1>14,
   <1>15, <1>16, <1>17, <1>18, <1>19 DEF RNext, RStep

\* The journal grows by at most one record, which has its types.
LEMMA JournalStep ==
    ASSUME RepairInv, RepairInv', Counted, TypeInv, RNext
    PROVE  JournalTypes' /\ (Ids' = Ids \/ Ids' = Ids \cup {NewId})
<1> USE Zenon
<1>0. Shape /\ Ids \subseteq 1..MaxTx
  BY DEF RepairInv, TypeInv, JournalTypes
<1> USE <1>0
<1>1. \A u \in Ids : Good(txs'[u])
  BY GoodStep
<1> USE <1>1
<1>2. Len(txs) \in Nat /\ MaxTx \in Nat /\ MaxDat \in Nat
  BY JournalLength, RepairAssumption
<1>3. CASE ~PreflightFails /\ ~StructuralFailure /\ ~Enroll
  <2>1. Ids' = Ids
    BY <1>3, SameIds
  <2> QED BY <2>1 DEF JournalTypes
<1>4. ASSUME Ids' = Ids \cup {NewId}, Good(txs'[NewId]), Len(txs) < MaxTx
      PROVE  JournalTypes'
  <2>1. NewId \in 1..MaxTx
    BY <1>2, <1>4, SMT DEF NewId
  <2> QED BY <1>4, <2>1 DEF JournalTypes
<1>5. /\ live \in Content /\ sdx \in Content \cup {None} /\ auth \in BOOLEAN
      /\ Source \in (0..MaxDat) \X Vias /\ NoSource \in (0..MaxDat) \X Vias
  <2>1. live \in Content /\ sdx \in Content \cup {None} /\ auth \in BOOLEAN
    BY DEF TypeInv, FileTypes, ThreadTypes
  <2>2. dat \in 1..MaxDat /\ via \in Vias
    BY DEF TypeInv, FileTypes, ThreadTypes
  <2>3. Source \in (0..MaxDat) \X Vias /\ NoSource \in (0..MaxDat) \X Vias
    BY <1>2, <2>2, SMT DEF Source, NoSource
  <2> QED BY <2>1, <2>3
<1>6. ASSUME NEW S, S \subseteq Ids, Len(txs) < MaxTx
      PROVE  Attempts(S) + 1 \in 1..(MaxTx + 1)
  <2>1. Attempts(S) \in 0..Len(txs)
    BY <1>6, AttemptsFacts
  <2> QED BY <1>2, <1>6, <2>1, SMT
<1>7. CASE PreflightFails
  <2>1. CASE txs' = txs
    <3>1. Ids' = Ids
      BY <2>1 DEF Ids
    <3> QED BY <3>1 DEF JournalTypes
  <2>2. CASE txs' # txs
    <3>1. PICK a : a = Attempts(Of(NoSource)) + 1
      OBVIOUS
    <3>2. txs' = Append(txs, NewTx(NoSource, "failed_preinstall", a)) /\ Len(txs) < MaxTx
      BY <1>7, <2>2, <3>1 DEF PreflightFails
    <3>3. a \in 1..(MaxTx + 1)
      BY <1>6, <3>1, <3>2 DEF Of
    <3> DEFINE r == NewTx(NoSource, "failed_preinstall", a)
    <3>4. Good(r)
      BY <1>5, <3>3, GoodNew
    <3>5. txs' = Append(txs, r)
      BY <3>2
    <3> HIDE DEF r
    <3>6. DOMAIN r = TxFields
      BY <3>4 DEF Good, Typed
    <3>7. txs'[NewId] = r /\ Ids' = Ids \cup {NewId}
      BY <3>5, <3>6, CreateEffect
    <3> QED BY <1>4, <3>2, <3>4, <3>7
  <2> QED BY <2>1, <2>2
<1>8. CASE StructuralFailure \/ Enroll
  <2>1. PICK r : /\ txs' = Append(Swept, r) /\ Len(txs) < MaxTx
                 /\ \/ r = NewTx(Source, "building", NextAttempt)
                    \/ r = AsManual(NewTx(Source, "building", NextAttempt), AfterSweep)
    BY <1>8 DEF StructuralFailure, Enroll
  <2>2. NextAttempt \in 1..(MaxTx + 1)
    BY <1>6, <2>1 DEF Of, NextAttempt
  <2>3. AfterSweep \in 0..MaxTx
    BY <2>1, SweepAt
  <2>4. Good(NewTx(Source, "building", NextAttempt))
    BY <1>5, <2>2, GoodNew
  <2>5. Good(AsManual(NewTx(Source, "building", NextAttempt), AfterSweep))
    BY <2>3, <2>4, GoodManual
  <2>6. Good(r)
    BY <2>1, <2>4, <2>5
  <2>7. DOMAIN r = TxFields
    BY <2>6 DEF Good, Typed
  <2>8. txs'[NewId] = r /\ Ids' = Ids \cup {NewId}
    BY <2>1, <2>7, SweepEffect
  <2> QED BY <1>4, <2>1, <2>6, <2>8
<1> QED BY <1>3, <1>7, <1>8

\* The files keep their types.
LEMMA FileTypesStep ==
    ASSUME RepairInv, TypeInv, RNext
    PROVE  FileTypes'
<1> USE Zenon
<1>0. /\ FileTypes /\ live \in Content /\ sdx \in Content \cup {None}
      /\ \A u \in Ids : Good(txs[u])
  BY DEF TypeInv, FileTypes, JournalTypes
<1> USE <1>0
<1>1. CASE UNCHANGED files
  BY <1>1 DEF FileTypes, files
<1> USE <1>1
<1>2. CASE TruncateTail \/ Write
  <2>1. /\ dat < MaxDat /\ dat' = dat + 1 /\ sdx' = sdx
        /\ live' = live \/ live' = <<dat + 1, "own">>
    BY <1>2 DEF TruncateTail, Write
  <2>2. dat' \in 1..MaxDat /\ live' \in Content
    BY <2>1, ContentFacts
  <2> QED BY <2>1, <2>2 DEF FileTypes
<1>3. CASE ReplaceLive
  <2>1. pc = "replace" /\ live' = txs[cur].temp /\ UNCHANGED <<dat, sdx>>
    BY <1>3 DEF ReplaceLive
  <2>2. cur \in Ids /\ txs[cur].phase = "installing" /\ txs[cur].temp = txs[cur].cand
    BY <2>1 DEF RepairInv, HandFits, InHand, InstallFits
  <2>3. live' \in Content
    BY <2>1, <2>2 DEF Good, Candid, Late
  <2> QED BY <2>1, <2>3 DEF FileTypes
<1>4. CASE RestoreIdx
  <2>1. /\ pc = "restore" /\ UNCHANGED <<dat, sdx>>
        /\ live' = live \/ live' = txs[cur].oldIdx
    BY <1>4 DEF RestoreIdx
  <2>2. cur \in Ids /\ txs[cur].phase \in Pending
    BY <2>1 DEF RepairInv, HandFits, InHand
  <2>3. txs[cur].oldIdx \in Content
    BY <2>2 DEF Good, Pending, Terminal
  <2> QED BY <2>1, <2>3 DEF FileTypes
<1>5. CASE RemoveStaleSdx \/ RestoreSdx \/ SortIndex
  <2>1. /\ UNCHANGED <<dat, live>>
        /\ \/ sdx' = sdx \/ sdx' = None \/ sdx' = live
           \/ pc = "restore_sdx" /\ sdx' = txs[cur].oldSdx
    BY <1>5 DEF RemoveStaleSdx, RestoreSdx, SortIndex
  <2>2. ASSUME pc = "restore_sdx"
        PROVE  txs[cur].oldSdx \in Content \cup {None}
    <3>1. cur \in Ids
      BY <2>2 DEF RepairInv, HandFits, InHand
    <3>2. txs[cur].oldSdx \in FieldTypes(BOOLEAN).oldSdx
      BY <3>1 DEF Good, Typed, TxFields
    <3>3. FieldTypes(BOOLEAN).oldSdx = Content \cup {None}
      BY FieldTypeFacts
    <3> QED BY <3>2, <3>3
  <2> QED BY <2>1, <2>2 DEF FileTypes
<1>6. CASE Interrupt
  <2>1. /\ UNCHANGED <<dat, sdx>>
        /\ live' = live \/ (pc = "clean" /\ live' = txs[cur].oldIdx)
    BY <1>6 DEF Interrupt
  <2>2. ASSUME pc = "clean"
        PROVE  txs[cur].oldIdx \in Content
    <3>1. cur \in Ids /\ txs[cur].phase = "installing"
      BY <2>2 DEF RepairInv, HandFits, InHand
    <3> QED BY <3>1 DEF Good, Terminal
  <2> QED BY <2>1, <2>2 DEF FileTypes
<1>7. CASE \E t \in Ids : \/ ValidateInstalledArtifacts(t) \/ RecoverInterruptedInstall(t)
                          \/ CloseRolledBack(t) \/ ReconcileResolvedPreinstall(t) \/ Reject(t)
  BY <1>7 DEF ValidateInstalledArtifacts, RecoverInterruptedInstall,
     CloseRolledBack, ReconcileResolvedPreinstall, Reject
<1>8. CASE StartGeneration \/ PrepareDone \/ StatusWritable \/ StatusAbsent \/ StatusReadonly
           \/ Accept \/ AuthorizeUnfingerprinted \/ RefuseUnfingerprinted \/ PreflightFails
           \/ PreflightPasses
  BY <1>8 DEF StartGeneration, PrepareDone, StatusWritable, StatusAbsent,
     StatusReadonly, Accept, AuthorizeUnfingerprinted, RefuseUnfingerprinted, PreflightFails,
     PreflightPasses
<1>9. CASE RefuseSource \/ AdmitSource \/ StructuralFailure \/ ResumeRefused \/ Resume \/ Enroll
           \/ BuildCandidate \/ BuildFails \/ Escalate \/ UnsafeCandidate \/ TailFails
           \/ TailRecovered
  BY <1>9 DEF RefuseSource, AdmitSource, StructuralFailure, ResumeRefused, Resume,
     Enroll, BuildCandidate, BuildFails, Escalate, UnsafeCandidate, TailFails, TailRecovered
<1>10. CASE BackupIdx \/ BackupSdx \/ CandidateLost \/ CopyCandidate \/ JournalInstall
            \/ CandidateInstalled \/ AwaitValidation \/ RolledBack \/ RollbackManual
            \/ RequestRetry
  BY <1>10 DEF BackupIdx, BackupSdx, CandidateLost, CopyCandidate, JournalInstall,
     CandidateInstalled, AwaitValidation, RolledBack, RollbackManual, RequestRetry
<1> QED BY <1>2, <1>3, <1>4, <1>5, <1>6, <1>7, <1>8, <1>9, <1>10 DEF RNext, RStep

\* A step that sets the guardian's own variables to what they may be.
LEMMA ThreadKind ==
    ASSUME ThreadTypes, Ids \subseteq Ids', pc' \in PCs, cur' \in Ids' \cup {0, cur},
           from' \in {from, "prepare", "repair"}, auth' \in {auth, TRUE, FALSE},
           allow' \in {allow, TRUE, FALSE}, others' \in {others, TRUE, FALSE},
           via' = via \/ via' \in Vias
    PROVE  ThreadTypes'
<1>1. TRUE \in BOOLEAN /\ FALSE \in BOOLEAN
  BY Zenon
<1>2. auth' \in BOOLEAN /\ allow' \in BOOLEAN /\ others' \in BOOLEAN
  BY <1>1, Zenon DEF ThreadTypes
<1>3. cur' \in Ids' \cup {0}
  BY Zenon DEF ThreadTypes
<1> QED BY <1>2, <1>3, Zenon DEF ThreadTypes

\* The guardian's own variables keep their types.
LEMMA ThreadTypesStep ==
    ASSUME RepairInv, ThreadTypes, RNext, Ids \subseteq Ids'
    PROVE  ThreadTypes'
<1> USE Zenon
<1>0. Shape /\ pc \in PCs
  BY DEF RepairInv, ThreadTypes
<1> USE <1>0
<1>1. CASE UNCHANGED thread
  BY <1>1, ThreadKind DEF thread
<1>2. CASE \E t \in Ids : \/ ValidateInstalledArtifacts(t) \/ RecoverInterruptedInstall(t)
                          \/ CloseRolledBack(t) \/ ReconcileResolvedPreinstall(t) \/ Reject(t)
  <2>1. PICK t \in Ids : \/ ValidateInstalledArtifacts(t) \/ RecoverInterruptedInstall(t)
                         \/ CloseRolledBack(t) \/ ReconcileResolvedPreinstall(t) \/ Reject(t)
    BY <1>2
  <2>2. /\ pc' \in {pc, "parked", "clean", "replace", "copy", "restore"} /\ cur' \in {cur, 0, t}
        /\ UNCHANGED <<from, auth, allow, others, via>>
    BY <2>1 DEF ValidateInstalledArtifacts, RecoverInterruptedInstall, CloseRolledBack,
       ReconcileResolvedPreinstall, Reject, thread
  <2> QED BY <2>2, ThreadKind DEF PCs
<1>3. CASE StartGeneration \/ PrepareDone \/ StatusWritable \/ StatusAbsent \/ StatusReadonly
           \/ Accept
  <2>1. /\ pc' \in {"prepare", "running", "accepting", "serving", "parked", "authorize"}
        /\ UNCHANGED <<cur, auth, allow>> /\ from' \in {from, "repair"}
        /\ others' = others \/ others' \in BOOLEAN
        /\ via' = via \/ via' \in Vias
    BY <1>3 DEF StartGeneration, PrepareDone, StatusWritable, StatusAbsent,
       StatusReadonly, Accept
  <2>2. pc' \in PCs /\ others' \in {others, TRUE, FALSE}
    BY <2>1 DEF PCs
  <2> QED BY <2>1, <2>2, ThreadKind
<1>4. CASE AuthorizeUnfingerprinted \/ PreflightPasses \/ AdmitSource \/ TruncateTail
           \/ TailRecovered
  <2>1. /\ pc' \in {"preflight", "decide", "enroll", "truncated", "authorize"}
        /\ UNCHANGED <<cur, from, others, via>>
        /\ auth' \in {auth, TRUE, FALSE} /\ allow' \in {allow, TRUE}
    BY <1>4 DEF AuthorizeUnfingerprinted, PreflightPasses, AdmitSource, TruncateTail,
       TailRecovered
  <2> QED BY <2>1, ThreadKind DEF PCs
<1>5. ASSUME Fails, UNCHANGED <<from, via>>
      PROVE  ThreadTypes'
  <2>1. /\ pc' \in {"parked", "running"} /\ cur' = 0 /\ auth' = FALSE /\ allow' = FALSE
        /\ others' \in {others, TRUE}
    BY <1>5 DEF Fails
  <2> QED BY <1>5, <2>1, ThreadKind DEF PCs
<1>6. ASSUME NEW p \in {"backup", "escalate", "backup_sdx", "parked"}, Goes(p),
             UNCHANGED <<from, via>>
      PROVE  ThreadTypes'
  <2>1. pc' = p /\ UNCHANGED <<cur, auth, allow, others>>
    BY <1>6 DEF Goes
  <2> QED BY <1>6, <2>1, ThreadKind DEF PCs
<1>7. CASE RefuseUnfingerprinted \/ RefuseSource \/ StructuralFailure \/ ResumeRefused
           \/ Escalate \/ UnsafeCandidate \/ TailFails
  BY <1>5, <1>7 DEF RefuseUnfingerprinted, RefuseSource, StructuralFailure, ResumeRefused,
     Escalate, UnsafeCandidate, TailFails
<1>8. CASE BuildCandidate \/ BuildFails \/ BackupIdx \/ CandidateLost
  <2>1. /\ UNCHANGED <<from, via>>
        /\ Fails \/ \E p \in {"backup", "escalate", "backup_sdx", "parked"} : Goes(p)
    BY <1>8 DEF BuildCandidate, BuildFails, BackupIdx, CandidateLost
  <2> QED BY <1>5, <1>6, <2>1
<1>9. CASE PreflightFails
  <2>1. /\ UNCHANGED <<from, via>>
        /\ \/ Fails
           \/ /\ pc' = "escalate" /\ cur' = NewId /\ UNCHANGED <<auth, allow, others>>
              /\ \E a : txs' = Append(txs, NewTx(NoSource, "failed_preinstall", a))
    BY <1>9 DEF PreflightFails, NewId
  <2>2. CASE /\ pc' = "escalate" /\ cur' = NewId /\ UNCHANGED <<auth, allow, others>>
             /\ \E a : txs' = Append(txs, NewTx(NoSource, "failed_preinstall", a))
    <3>1. NewId \in Ids'
      BY <2>2, FailureRecorded
    <3> QED BY <2>1, <2>2, <3>1, ThreadKind DEF PCs
  <2> QED BY <1>5, <2>1, <2>2
<1>10. CASE Resume
  <2>1. /\ Resumable # {} /\ cur' = Newest(Resumable) /\ pc' \in {"copy", "backup", "build"}
        /\ UNCHANGED <<from, auth, allow, others, via>>
    BY <1>10 DEF Resume
  <2>2. cur' \in Ids'
    BY <2>1, TheResumable
  <2> QED BY <2>1, <2>2, ThreadKind DEF PCs
<1>11. CASE Enroll
  <2>1. /\ pc' = "build" /\ cur' = NewId /\ UNCHANGED <<from, auth, allow, others, via>>
        /\ txs' = Append(Swept, NewTx(Source, "building", NextAttempt))
    BY <1>11 DEF Enroll, NewId
  <2>2. NewId \in Ids'
    BY <2>1, EnrollRecorded
  <2> QED BY <2>1, <2>2, ThreadKind DEF PCs
<1>12. CASE BackupSdx \/ CopyCandidate \/ JournalInstall \/ ReplaceLive \/ RemoveStaleSdx
            \/ CandidateInstalled
  <2>1. /\ pc' \in {"copy", "journal", "replace", "clean", "installed", "await"}
        /\ UNCHANGED <<cur, from, auth, allow, others, via>>
    BY <1>12 DEF BackupSdx, CopyCandidate, JournalInstall, ReplaceLive, RemoveStaleSdx,
       CandidateInstalled
  <2> QED BY <2>1, ThreadKind DEF PCs
<1>13. CASE RestoreIdx \/ RestoreSdx \/ RolledBack \/ RollbackManual
  <2>1. /\ pc' \in {"restore_sdx", "restored", "parked", "rolled_back"}
        /\ cur' \in {cur, 0} /\ UNCHANGED <<from, auth, allow, others, via>>
    BY <1>13 DEF RestoreIdx, RestoreSdx, RolledBack, RollbackManual
  <2> QED BY <2>1, ThreadKind DEF PCs
<1>14. CASE AwaitValidation \/ Interrupt
  <2>1. /\ pc' \in {"prepare", "running", "off"} /\ cur' = 0 /\ from' \in {from, "prepare"}
        /\ auth' = FALSE /\ allow' = FALSE /\ others' \in {others, FALSE} /\ via' = via
    BY <1>14 DEF AwaitValidation, Interrupt
  <2> QED BY <2>1, ThreadKind DEF PCs
<1>15. CASE Write \/ SortIndex \/ RequestRetry
  BY <1>1, <1>15 DEF Write, SortIndex, RequestRetry
<1> QED BY <1>2, <1>3, <1>4, <1>7, <1>8, <1>9, <1>10, <1>11, <1>12, <1>13, <1>14, <1>15
   DEF RNext, RStep

\* Every step keeps the types.
LEMMA RTypeStep == RepairInv /\ RepairInv' /\ AttemptInv /\ TypeInv /\ [RNext]_rvars => TypeInv'
<1> SUFFICES ASSUME RepairInv, RepairInv', AttemptInv, TypeInv, [RNext]_rvars
             PROVE  TypeInv'
  OBVIOUS
<1>1. CASE UNCHANGED rvars
  BY <1>1, Zenon DEF rvars, thread, files, TypeInv, ThreadTypes, FileTypes, JournalTypes, Ids
<1>2. CASE RNext
  <2>1. JournalTypes' /\ (Ids' = Ids \/ Ids' = Ids \cup {NewId})
    BY <1>2, JournalStep DEF AttemptInv
  <2>2. FileTypes'
    BY <1>2, FileTypesStep
  <2>3. ThreadTypes'
    BY <1>2, <2>1, ThreadTypesStep, Zenon DEF TypeInv
  <2> QED BY <2>1, <2>2, <2>3 DEF TypeInv
<1> QED BY <1>1, <1>2

\* The types are those of RTypeOK.
LEMMA RTypesFollow == RepairInv /\ TypeInv => RTypeOK
<1> SUFFICES ASSUME RepairInv, TypeInv
             PROVE  RTypeOK
  OBVIOUS
<1>1. Shape /\ Ids \subseteq 1..MaxTx /\ \A t \in Ids : Typed(txs[t])
  BY Zenon DEF RepairInv, TypeInv, JournalTypes, Good
<1>2. \A t \in Ids : txs[t] \in Tx
  BY <1>1, TypedRecords, Zenon
<1>3. Len(txs) \in Nat /\ Len(txs) <= MaxTx
  BY <1>1, JournalLength
<1>4. cur \in 0..Len(txs)
  <2>1. cur \in Ids \cup {0}
    BY Zenon DEF TypeInv, ThreadTypes
  <2> QED BY <1>3, <2>1 DEF Ids
<1>5. /\ pc \in PCs /\ from \in {"prepare", "repair"} /\ via \in Vias
      /\ {auth, allow, others} \subseteq BOOLEAN
      /\ dat \in 1..MaxDat /\ live \in Content /\ sdx \in Content \cup {None}
  BY Zenon DEF TypeInv, ThreadTypes, FileTypes
<1> QED BY <1>2, <1>3, <1>4, <1>5, Zenon DEF RTypeOK

\* RTypeOK for every number of transactions and versions: every journal record
\* and every file holds what the code can put there.
THEOREM RepairTypes == RSpec => []RTypeOK
<1>1. RInit => TypeInv
  <2> SUFFICES ASSUME RInit PROVE TypeInv
    OBVIOUS
  <2>1. Ids = {}
    BY EmptyJournal DEF RInit
  <2>2. FileTypes
    BY RepairAssumption DEF RInit, FileTypes, Content
  <2>3. pc \in PCs /\ cur = 0 /\ from = "prepare" /\ via \in Vias
    BY Zenon DEF RInit, PCs
  <2>4. auth \in BOOLEAN /\ allow \in BOOLEAN /\ others \in BOOLEAN
    BY Zenon DEF RInit
  <2> QED BY <2>1, <2>2, <2>3, <2>4, Zenon DEF TypeInv, ThreadTypes, JournalTypes
<1> QED BY <1>1, RTypeStep, RTypesFollow, RepairInvariance, AttemptInvariance, PTL DEF RSpec
=============================================================================

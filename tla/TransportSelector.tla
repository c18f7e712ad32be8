------------------------- MODULE TransportSelector -------------------------
(***************************************************************************)
(* TransportSelector of transport_failover.py: the durable journal that    *)
(* says which exclusive data transport the next generation uses.  Every    *)
(* method loads, changes and saves the journal under one file lock, so a   *)
(* method is an operator from journal to journal.  Wall-clock cooldowns    *)
(* are abstracted to a failure that is "cooling" until it has "expired".   *)
(***************************************************************************)
EXTENDS Naturals, Sequences

CONSTANTS
    Order,  \* ordered_names: the configured transports by priority
    NoName  \* the empty string

Names == {Order[i] : i \in 1..Len(Order)}

ASSUME SelectorAssumption ==
    /\ Order \in Seq(Names) /\ Order # <<>>
    /\ NoName \notin Names

\* The fingerprint of a startup verification either is the current one or not.
Journal ==
    [active : Names \cup {NoName}, requested : Names \cup {NoName},
     failed : [Names -> {"no", "cooling", "expired"}],
     quarantined : SUBSET Names, fingerprint : BOOLEAN, verified : SUBSET Names]

\* _load of a missing file.
EmptyJournal ==
    [active |-> NoName, requested |-> NoName, failed |-> [t \in Names |-> "no"],
     quarantined |-> {}, fingerprint |-> FALSE, verified |-> {}]

\* Variant: the highest priority always wins.
NeverSticky(j) == FALSE

\* The active transport is kept as long as nothing is held against it.
Sticky(j) ==
    /\ j.active # NoName
    /\ j.failed[j.active] = "no"
    /\ j.active \notin j.quarantined

\* The positions of what may be chosen instead.
Candidates(j) ==
    {i \in 1..Len(Order) : Order[i] \notin j.quarantined /\ j.failed[Order[i]] # "cooling"}

First(S) == CHOOSE i \in S : \A k \in S : i <= k

\* select raises for a quarantined request and when no candidate is left.
CanSelect(j) ==
    IF j.requested # NoName THEN j.requested \notin j.quarantined
    ELSE Sticky(j) \/ Candidates(j) # {}

Selected(j) ==
    IF j.requested # NoName THEN j.requested
    ELSE IF Sticky(j) THEN j.active
    ELSE Order[First(Candidates(j))]

Select(j) == [j EXCEPT !.active = Selected(j), !.requested = NoName]

\* Variant: the failure itself is not written down.
RecordFailureForgets(j, t) == [j EXCEPT !.active = t]

RecordFailure(j, t) == [j EXCEPT !.failed[t] = "cooling", !.active = t]

CoolDown(j, t) == [j EXCEPT !.failed[t] = "expired"]

\* Every cooldown is over.
AllExpire(j) ==
    [j EXCEPT !.failed = [t \in Names |-> IF @[t] = "cooling" THEN "expired" ELSE @[t]]]

Quarantine(j, t) == [j EXCEPT !.quarantined = @ \cup {t}, !.fingerprint = FALSE]

ClearQuarantine(j, t) == [j EXCEPT !.quarantined = @ \ {t}, !.fingerprint = FALSE]

RecordSuccess(j, t) == [j EXCEPT !.failed[t] = "no", !.active = t]

\* request of the active transport withdraws any pending request.
Request(j, t) == [j EXCEPT !.requested = IF j.active = t THEN NoName ELSE t]

RecordStartupVerification(j, S) == [j EXCEPT !.fingerprint = TRUE, !.verified = S]
=============================================================================

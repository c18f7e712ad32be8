------------------------- MODULE TransportGuardian -------------------------
(***************************************************************************)
(* The exclusive transport layer of the guardian (transport_guardian.py):  *)
(* the worker-generation cycle of Lifecycle, which the main thread of      *)
(* Guardian implements, composed with the durable transport journal, the   *)
(* verification of every route, and operator commands that change the      *)
(* journal from another process at any time.                               *)
(***************************************************************************)
EXTENDS Lifecycle, TransportSelector

CONSTANTS
    VerifyAll,  \* verify_all_transports_on_startup
    Commands,   \* operator commands in use
    MaxDelay,   \* number of steps from recovery_initial_seconds to the maximum
    LongPause   \* recovery_max_seconds >= failure_cooldown_seconds

ASSUME TransportAssumption ==
    /\ VerifyAll \in BOOLEAN /\ LongPause \in BOOLEAN
    /\ Commands \subseteq {"select", "quarantine", "clear"}
    /\ MaxDelay \in Nat \ {0}

VARIABLES
    journal,   \* durable: the selector's file
    route,     \* active_transport
    blamed,    \* _transport_failure with _transport_failure_name (NoName: FALSE)
    switch,    \* _controlled_transport_switch
    pending,   \* _startup_verification_pending
    todo,      \* position of the verification loop in Order
    testing,   \* the route that is mounted for verification
    verified,  \* routes verified so far
    stage,     \* position inside a phase of the cycle
    delay,     \* the recovery delay, in doublings
    fenceOk,   \* result of _fence_generation
    exposed,   \* routes mounted in a namespace that still exists
    failing,   \* history: the route whose own operation ended the generation
    proven     \* history: the route recorded as a success, until another is chosen

verifyVars == <<pending, todo, testing, verified>>
history == <<failing, proven>>
memVars == <<route, blamed, switch, verifyVars, stage, delay, fenceOk, history>>
tvars == <<lvars, journal, memVars, exposed>>

TInit ==
    /\ LInit
    /\ journal = EmptyJournal
    /\ route = NoName /\ blamed = NoName /\ switch = FALSE
    /\ pending = FALSE /\ todo = 1 /\ testing = NoName /\ verified = {}
    /\ stage = "start" /\ delay = 1 /\ fenceOk = FALSE /\ exposed = {}
    /\ failing = NoName /\ proven = NoName

Stages == {"start", "selected", "stable", "finished", "pause"}

\* Types of every variable of the composition.
TTypeOK ==
    /\ phase \in Phases
    /\ {held, serving, tasks, stopping, switch, pending, fenceOk} \subseteq BOOLEAN
    /\ journal \in Journal
    /\ {route, blamed, testing, failing, proven} \subseteq Names \cup {NoName}
    /\ todo \in 1..(Len(Order) + 1) /\ delay \in 1..MaxDelay
    /\ verified \subseteq Names /\ exposed \subseteq Names
    /\ stage \in Stages

\* The route that termination acts on: _transport_failure_name or active_transport.
Suspect == IF blamed # NoName THEN blamed ELSE route

-----------------------------------------------------------------------------
(* The recovery wait and _begin_generation.                                *)

\* Variant: the recovery delay has no maximum.
RecoveryWaitUncapped ==
    /\ phase = "idle" /\ stage = "pause" /\ ~tasks /\ ~stopping
    /\ delay' = delay + 1
    /\ stage' = "start"
    /\ UNCHANGED <<lvars, journal, route, blamed, switch, verifyVars, fenceOk, exposed,
                   history>>

\* Blocked tasks are waited for, then the recovery delay is slept and doubled.
\* A longest delay that reaches the cooldown lets every failure expire.
RecoveryWait ==
    /\ phase = "idle" /\ stage = "pause" /\ ~tasks /\ ~stopping
    /\ journal' = IF LongPause /\ delay = MaxDelay THEN AllExpire(journal) ELSE journal
    /\ delay' = IF delay < MaxDelay THEN delay + 1 ELSE delay
    /\ stage' = "start"
    /\ UNCHANGED <<lvars, route, blamed, switch, verifyVars, fenceOk, exposed, history>>

\* HAProxy runs and the flags of the last generation are cleared.
BeginCycle ==
    /\ stage = "start"
    /\ Attempt /\ phase' = "begin"
    /\ blamed' = NoName /\ switch' = FALSE /\ failing' = NoName
    /\ UNCHANGED <<journal, route, verifyVars, stage, delay, fenceOk, exposed, proven>>

HaproxyFails ==
    /\ stage = "start"
    /\ Attempt /\ phase' = "ending"
    /\ UNCHANGED <<journal, memVars, exposed>>

SelectTransport ==
    /\ phase = "begin" /\ stage = "start" /\ ~tasks
    /\ CanSelect(journal)
    /\ journal' = Select(journal)
    /\ route' = Selected(journal)
    /\ stage' = "selected"
    /\ proven' = IF route' = proven THEN proven ELSE NoName
    /\ UNCHANGED <<lvars, blamed, switch, verifyVars, delay, fenceOk, exposed, failing>>

\* The selector refuses to choose.
SelectRefuses ==
    /\ stage = "start" /\ ~CanSelect(journal)
    /\ NoGeneration
    /\ UNCHANGED <<journal, memVars, exposed>>

\* The journal cannot be read, or the generation cannot be created.
BeginFails ==
    /\ NoGeneration
    /\ stage' = "start"
    /\ UNCHANGED <<journal, route, blamed, switch, verifyVars, delay, fenceOk, exposed,
                   history>>

\* The fingerprint is compared under a lock of its own.
CreateOnRoute ==
    /\ stage = "selected"
    /\ Create
    /\ pending' = (VerifyAll /\ ~journal.fingerprint)
    /\ todo' = 1 /\ verified' = {}
    /\ stage' = "start"
    /\ UNCHANGED <<journal, route, blamed, switch, testing, delay, fenceOk, exposed,
                   history>>

-----------------------------------------------------------------------------
(* _verify_all_transports_on_startup: one route at a time.                 *)

Verifying == phase = "mount" /\ pending

NextRoute(t) == Verifying /\ testing = NoName /\ todo <= Len(Order) /\ t = Order[todo]

\* status() is read before each route; a quarantined one is skipped.
VerifySkip(t) ==
    /\ NextRoute(t) /\ t \in journal.quarantined
    /\ todo' = todo + 1
    /\ UNCHANGED <<lvars, journal, route, blamed, switch, pending, testing, verified,
                   stage, delay, fenceOk, exposed, history>>

\* Mount, prepare and probe succeed.
VerifyMount(t) ==
    /\ NextRoute(t) /\ t \notin journal.quarantined
    /\ testing' = t
    /\ exposed' = exposed \cup {t}
    /\ UNCHANGED <<lvars, journal, route, blamed, switch, pending, todo, verified,
                   stage, delay, fenceOk, history>>

\* Variant: a verified route stays mounted.
VerifyKeepsMount ==
    /\ Verifying /\ testing # NoName
    /\ testing' = NoName
    /\ verified' = verified \cup {testing}
    /\ todo' = todo + 1
    /\ UNCHANGED <<lvars, journal, route, blamed, switch, pending, stage, delay, fenceOk,
                   exposed, history>>

VerifyUnmount ==
    /\ Verifying /\ testing # NoName
    /\ testing' = NoName
    /\ exposed' = exposed \ {testing}
    /\ verified' = verified \cup {testing}
    /\ todo' = todo + 1
    /\ UNCHANGED <<lvars, journal, route, blamed, switch, pending, stage, delay, fenceOk,
                   history>>

\* A mount, prepare or probe fails or times out; the route is blamed, unmounted
\* if possible, and the error ends the generation.
VerifyFails(t) ==
    /\ NextRoute(t) /\ t \notin journal.quarantined
    /\ Fail
    /\ blamed' = t /\ failing' = t
    /\ exposed' \in {exposed, exposed \cup {t}}
    /\ UNCHANGED <<journal, route, switch, verifyVars, stage, delay, fenceOk, proven>>

\* The route passed and its unmount fails or times out: nothing is blamed.
VerifyUnmountFails ==
    /\ Verifying /\ testing # NoName
    /\ Fail
    /\ failing' = testing
    /\ testing' = NoName
    /\ UNCHANGED <<journal, route, blamed, switch, pending, todo, verified, stage, delay,
                   fenceOk, exposed, proven>>

\* Variant: the marker is written before the last route was tested.
VerifyDoneEarly ==
    /\ Verifying /\ testing = NoName /\ todo >= Len(Order)
    /\ journal' = RecordStartupVerification(journal, verified)
    /\ pending' = FALSE
    /\ UNCHANGED <<lvars, route, blamed, switch, todo, testing, verified, stage, delay,
                   fenceOk, exposed, history>>

VerifyDone ==
    /\ Verifying /\ todo > Len(Order)
    /\ journal' = RecordStartupVerification(journal, verified)
    /\ pending' = FALSE
    /\ UNCHANGED <<lvars, route, blamed, switch, todo, testing, verified, stage, delay,
                   fenceOk, exposed, history>>

-----------------------------------------------------------------------------
(* Mounting the selected route, service and the controlled switch.         *)

MountRoute ==
    /\ ~pending
    /\ Mounted
    /\ exposed' = exposed \cup {route}
    /\ UNCHANGED <<journal, memVars>>

\* A mount, prepare or probe of the data target fails or times out.
RouteFails ==
    /\ ~Verifying /\ stage = "start"
    /\ Fail
    /\ blamed' = route /\ failing' = route
    /\ exposed' \in {exposed, exposed \cup {route}}
    /\ stage' = "start"
    /\ UNCHANGED <<journal, route, switch, verifyVars, delay, fenceOk, proven>>

\* Any other failure: another target, SeaweedFS, HAProxy, the journal, or a stop.
OtherFails ==
    /\ Fail
    /\ testing' = NoName
    /\ stage' = "start"
    /\ UNCHANGED <<journal, route, blamed, switch, pending, todo, verified, delay,
                   fenceOk, exposed, history>>

\* _stabilize_recovery ends: record_success clears what was held against the route.
RouteStable ==
    /\ phase = "work" /\ stage = "start"
    /\ journal' = RecordSuccess(journal, route)
    /\ blamed' = NoName
    /\ proven' = route
    /\ stage' = "stable"
    /\ UNCHANGED <<lvars, route, switch, verifyVars, delay, fenceOk, exposed, failing>>

Serve ==
    /\ stage = "stable"
    /\ GoOnline
    /\ stage' = "start" /\ delay' = 1
    /\ UNCHANGED <<journal, route, blamed, switch, verifyVars, fenceOk, exposed, history>>

\* pending_request is polled while online.
SwitchRequested ==
    /\ phase = "online"
    /\ journal.requested \notin {NoName, route}
    /\ Fail /\ ~serving' /\ tasks' = tasks
    /\ switch' = TRUE
    /\ UNCHANGED <<journal, route, blamed, verifyVars, stage, delay, fenceOk, exposed,
                   history>>

\* The online loop ends on a stop request.
StopObserved ==
    /\ phase = "online" /\ stopping
    /\ Fail /\ tasks' = tasks
    /\ UNCHANGED <<journal, memVars, exposed>>

\* Workers start, or a helper hangs in an unmount.
TaskAppears ==
    /\ TasksAppear
    /\ UNCHANGED <<journal, memVars, exposed>>

-----------------------------------------------------------------------------
(* _terminate_generation and _retire_generation.                           *)

CloseReadiness ==
    /\ Withdraw
    /\ UNCHANGED <<journal, memVars, exposed>>

DetachRoute ==
    /\ phase \in {"ending", "fenced"} /\ held
    /\ exposed' = {}
    /\ UNCHANGED <<lvars, journal, memVars>>

\* Variant: any failure condemns the active route.
FenceBlames ==
    /\ Fence
    /\ journal' = IF held /\ Suspect # NoName /\ ~stopping /\ ~switch
                  THEN RecordFailure(journal, Suspect) ELSE journal
    /\ fenceOk' = TRUE
    /\ stage' = "start"
    /\ UNCHANGED <<route, blamed, switch, verifyVars, delay, exposed, history>>

\* A verified fence records the failure of the blamed route, except on the way
\* out and in a controlled switch.
FenceRoute ==
    /\ Fence
    /\ journal' = IF held /\ blamed # NoName /\ ~stopping /\ ~switch
                  THEN RecordFailure(journal, blamed) ELSE journal
    /\ fenceOk' = TRUE
    /\ stage' = "start"
    /\ UNCHANGED <<route, blamed, switch, verifyVars, delay, exposed, history>>

FenceRouteFails ==
    /\ held
    /\ Fence
    /\ fenceOk' = FALSE
    /\ stage' = "start"
    /\ UNCHANGED <<journal, route, blamed, switch, verifyVars, delay, exposed, history>>

\* A task that outlives a verified fence quarantines the suspected route.
FinishTermination ==
    /\ phase = "fenced" /\ stage = "start"
    /\ journal' = IF fenceOk /\ tasks /\ Suspect # NoName
                  THEN Quarantine(journal, Suspect) ELSE journal
    /\ stage' = "finished"
    /\ UNCHANGED <<lvars, route, blamed, switch, verifyVars, delay, fenceOk, exposed,
                   history>>

TerminateAgain ==
    /\ stage = "finished" /\ ~fenceOk
    /\ Refence
    /\ stage' = "start"
    /\ UNCHANGED <<journal, route, blamed, switch, verifyVars, delay, fenceOk, exposed,
                   history>>

\* A namespace, and the mounts in it, last as long as a task inside it.  On the
\* way out the process exits.
RetireRoute ==
    /\ stage = "finished"
    /\ fenceOk \/ stopping
    /\ Retire
    /\ stopping /\ ~held => phase' = "off"
    /\ exposed' = IF tasks THEN exposed ELSE {}
    /\ stage' = "pause"
    /\ UNCHANGED <<journal, route, blamed, switch, verifyVars, delay, fenceOk, history>>

LeaveCycle ==
    /\ phase = "idle"
    /\ Leave
    /\ stage' = "start"
    /\ UNCHANGED <<journal, route, blamed, switch, verifyVars, delay, fenceOk, exposed,
                   history>>

-----------------------------------------------------------------------------
(* The environment: tasks, the clock, the operator, the container.         *)

TaskEnds ==
    /\ TasksEnd
    /\ exposed' = IF held THEN exposed ELSE {}
    /\ UNCHANGED <<journal, memVars>>

\* The failure that ended the last generation outlasts the pause after it.
Cool(t) ==
    /\ journal.failed[t] = "cooling"
    /\ t # journal.active \/ ~CanSelect(journal)
    /\ journal' = CoolDown(journal, t)
    /\ UNCHANGED <<lvars, memVars, exposed>>

OperatorSelects(t) ==
    /\ "select" \in Commands /\ t \notin journal.quarantined
    /\ journal' = Request(journal, t)
    /\ UNCHANGED <<lvars, memVars, exposed>>

OperatorQuarantines(t) ==
    /\ "quarantine" \in Commands
    /\ journal' = Quarantine(journal, t)
    /\ UNCHANGED <<lvars, memVars, exposed>>

OperatorClears(t) ==
    /\ "clear" \in Commands
    /\ journal' = ClearQuarantine(journal, t)
    /\ UNCHANGED <<lvars, memVars, exposed>>

StopRequested ==
    /\ Stop
    /\ UNCHANGED <<journal, memVars, exposed>>

Dies ==
    /\ Die
    /\ UNCHANGED <<journal, memVars, exposed>>

\* A new process: everything but the journal starts afresh.
Restarts ==
    /\ Revive
    /\ route' = NoName /\ blamed' = NoName /\ switch' = FALSE
    /\ pending' = FALSE /\ todo' = 1 /\ testing' = NoName /\ verified' = {}
    /\ stage' = "start" /\ delay' = 1 /\ fenceOk' = FALSE /\ exposed' = {}
    /\ failing' = NoName
    /\ UNCHANGED <<journal, proven>>

-----------------------------------------------------------------------------
TProgress ==
    \/ RecoveryWait \/ BeginCycle \/ SelectTransport \/ SelectRefuses \/ CreateOnRoute
    \/ (\E t \in Names : VerifySkip(t) \/ VerifyMount(t))
    \/ VerifyUnmount \/ VerifyDone
    \/ MountRoute \/ RouteStable \/ Serve \/ SwitchRequested \/ StopObserved
    \/ CloseReadiness \/ FenceRoute \/ FinishTermination
    \/ TerminateAgain \/ RetireRoute \/ LeaveCycle

TFailure ==
    \/ HaproxyFails \/ BeginFails \/ VerifyUnmountFails \/ RouteFails \/ OtherFails \/ FenceRouteFails
    \/ (\E t \in Names : VerifyFails(t))

TEnvironment ==
    \/ TaskAppears \/ DetachRoute \/ TaskEnds \/ StopRequested \/ Dies \/ Restarts
    \/ (\E t \in Names : Cool(t) \/ OperatorSelects(t) \/ OperatorQuarantines(t)
                                 \/ OperatorClears(t))

TNext == TProgress \/ TFailure \/ TEnvironment

\* The guardian's only thread keeps running, and clocks do.
TSpec ==
    /\ TInit /\ [][TNext]_tvars
    /\ WF_tvars(TProgress)
    /\ \A t \in Names : WF_tvars(Cool(t))

-----------------------------------------------------------------------------
(* Properties.                                                             *)

\* At most one data route is mounted in any live namespace: verification
\* unmounts a route before the next mount, and a task that pins an old
\* namespace keeps a replacement from being created
\* (exclusive-transport-failover.md: "Only one route is mounted at a time").
OneRouteExposed == \A s, t \in exposed : s = t

\* record_failure is called only against the route whose own mount, prepare or
\* probe ended the generation, and never for a controlled switch: a failure of
\* SeaweedFS or HAProxy condemns no transport.
FailureIsAttributed ==
    [][\A t \in Names : (/\ journal'.failed[t] = "cooling" /\ phase' = "fenced"
                         /\ journal.failed[t] # "cooling")
                        => t = failing /\ ~switch]_tvars

\* Fallback is sticky: the guardian leaves the last successful route only when
\* it failed, was quarantined, or another one was requested.
NoAutomaticFailback ==
    [][stage' = "selected" /\ stage # "selected" /\ proven \notin {NoName, route'}
         => \/ journal.requested = route'
            \/ journal.failed[proven] # "no"
            \/ proven \in journal.quarantined]_tvars

\* While the startup marker is valid, every route that may be selected has
\* passed the verification it records.
CertifiedRoutesWereTested ==
    journal.fingerprint => Names \ journal.quarantined \subseteq journal.verified

\* Everything that can go wrong except the failure of route t.
FaultBesides(t) ==
    \/ HaproxyFails \/ BeginFails \/ OtherFails \/ VerifyUnmountFails \/ FenceRouteFails
    \/ (RouteFails /\ route # t)
    \/ (\E u \in Names \ {t} : VerifyFails(u))
    \/ (TaskAppears /\ phase # "work" /\ exposed # {t})
    \/ StopRequested \/ Dies
    \/ (\E u \in Names : OperatorSelects(u) \/ OperatorQuarantines(u) \/ OperatorClears(u))

\* Waiting for the host, the operator or the container runtime.
Parked(t) ==
    \/ phase = "off"
    \/ phase = "idle" /\ tasks
    \/ journal.requested \in journal.quarantined
    \/ Names \ {t} \subseteq journal.quarantined

\* Once only route t can fail, the guardian ends up serving through another
\* route for good, or waits for somebody else.
FailoverServes ==
    \A t \in Names :
        <>[][~FaultBesides(t)]_tvars => <>[](serving \/ Parked(t))
=============================================================================

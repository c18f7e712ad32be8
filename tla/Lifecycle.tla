----------------------------- MODULE Lifecycle -----------------------------
(***************************************************************************)
(* What the guardian promises of worker generations, whatever happens      *)
(* inside one: a generation is created only when no task of an earlier one *)
(* is alive, readiness opens only from a generation at work, it is closed  *)
(* before the generation is fenced, and only a stop request or a crash     *)
(* leaves the cycle.  Numbers, files, roles and mounts are left out.       *)
(***************************************************************************)

VARIABLES
    phase,    \* where the cycle is
    held,     \* a generation exists
    serving,  \* readiness is published
    tasks,    \* some worker or storage helper is alive
    stopping  \* a stop was requested

lvars == <<phase, held, serving, tasks, stopping>>

Phases == {"idle", "begin", "mount", "work", "online", "ending", "fenced", "off"}

LInit ==
    /\ phase = "idle"
    /\ held = FALSE /\ serving = FALSE /\ tasks = FALSE /\ stopping = FALSE

\* The cycle turns again once every task is gone, or fails before it creates
\* anything.
Attempt ==
    /\ phase = "idle" /\ ~stopping /\ ~tasks
    /\ phase' \in {"begin", "ending"}
    /\ UNCHANGED <<held, serving, tasks, stopping>>

NoGeneration ==
    /\ phase = "begin"
    /\ phase' = "ending"
    /\ UNCHANGED <<held, serving, tasks, stopping>>

Create ==
    /\ phase = "begin" /\ ~held /\ ~tasks
    /\ phase' = "mount" /\ held' = TRUE
    /\ UNCHANGED <<serving, tasks, stopping>>

Mounted ==
    /\ phase = "mount"
    /\ phase' = "work"
    /\ UNCHANGED <<held, serving, tasks, stopping>>

\* Workers and helpers come and go; none appears without a generation.
TasksAppear ==
    /\ phase \in {"work", "ending", "fenced"} /\ held
    /\ tasks' = TRUE
    /\ UNCHANGED <<phase, held, serving, stopping>>

TasksEnd ==
    /\ tasks
    /\ tasks' = FALSE
    /\ UNCHANGED <<phase, held, serving, stopping>>

GoOnline ==
    /\ phase = "work" /\ held
    /\ phase' = "online" /\ serving' = TRUE
    /\ UNCHANGED <<held, tasks, stopping>>

\* A failure or an interruption; it may leave a helper behind.
Fail ==
    /\ phase \in {"mount", "work", "online"}
    /\ phase' = "ending"
    /\ serving' \in {serving, FALSE}
    /\ tasks' \in {tasks, TRUE}
    /\ UNCHANGED <<held, stopping>>

Withdraw ==
    /\ phase = "ending" /\ serving
    /\ serving' = FALSE
    /\ UNCHANGED <<phase, held, tasks, stopping>>

\* The fence was tried, or there was no generation to fence.
Fence ==
    /\ phase = "ending" /\ ~serving
    /\ phase' = "fenced"
    /\ UNCHANGED <<held, serving, tasks, stopping>>

\* A fence that failed: the generation is terminated again on the way out.
Refence ==
    /\ phase = "fenced" /\ held
    /\ phase' = "ending" /\ stopping' = TRUE
    /\ UNCHANGED <<held, serving, tasks>>

Retire ==
    /\ phase = "fenced"
    /\ phase' = "idle" \/ (phase' = "off" /\ stopping)
    /\ held' = FALSE
    /\ UNCHANGED <<serving, tasks, stopping>>

Stop ==
    /\ phase # "off" /\ ~stopping
    /\ stopping' = TRUE /\ serving' = FALSE
    /\ UNCHANGED <<phase, held, tasks>>

\* On the way out the cycle ends once more, with or without a generation.
Leave ==
    /\ stopping
    /\ \/ phase = "idle" /\ phase' = "ending"
       \/ phase = "ending" /\ ~held /\ phase' = "idle"
    /\ UNCHANGED <<held, serving, tasks, stopping>>

Die ==
    /\ phase # "off"
    /\ phase' = "off" /\ serving' = FALSE
    /\ UNCHANGED <<held, tasks, stopping>>

Revive ==
    /\ phase = "off" /\ ~tasks
    /\ phase' = "idle" /\ held' = FALSE /\ stopping' = FALSE
    /\ UNCHANGED <<serving, tasks>>

LNext ==
    \/ Attempt \/ NoGeneration \/ Create \/ Mounted \/ TasksAppear \/ TasksEnd
    \/ GoOnline \/ Fail \/ Withdraw \/ Fence \/ Refence \/ Retire
    \/ Stop \/ Leave \/ Die \/ Revive

LSpec == LInit /\ [][LNext]_lvars
=============================================================================

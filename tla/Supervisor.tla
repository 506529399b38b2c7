---------------------------- MODULE Supervisor ----------------------------
(***************************************************************************)
(* The supervisor process: one realtime child per venue, one normalize     *)
(* child, the bootstrap scheduler task (module BootstrapScheduler) and the  *)
(* select loop over them.  While the bootstrap runs the normalizer works   *)
(* on the latest window only; the full worker takes over when it is done.  *)
(* The container platform starts the process again after every exit.       *)
(***************************************************************************)
EXTENDS BootstrapScheduler

CONSTANTS
    Venues,             \* realtime_venues
    BootstrapEnabled

ASSUME SupervisorConfigValid == Venues # {} /\ BootstrapEnabled \in BOOLEAN

VARIABLES
    sup,                \* "down", "select", a restart delay, or how it exited
    realtime,           \* venue -> its child: "running", "exited", "killed", "none"
    normalize,          \* the normalize child: "live", "full", "exited", "none"
    bootstrap_active

supVars == <<sup, realtime, normalize, bootstrap_active>>
allVars == <<schedVars, supVars>>
schedLocals == <<chunk, sub, child, outcome>>

Exited == {"exited_ok", "exited_err"}
Up == sup \notin Exited \cup {"down"}

SupInit ==
    /\ SchedInit
    /\ sup = "down" /\ bootstrap_active = FALSE
    /\ realtime = [v \in Venues |-> "none"] /\ normalize = "none"

spawn_normalize_for_phase(active) == IF active THEN "live" ELSE "full"

SupervisorStarts ==
    /\ sup = "down"
    /\ sup' = "select"
    /\ realtime' = [v \in Venues |-> "running"]
    /\ bootstrap_active' = BootstrapEnabled
    /\ normalize' = IF BootstrapEnabled THEN "live" ELSE "full"
    /\ sched' = IF BootstrapEnabled THEN "pick" ELSE "idle"
    /\ UNCHANGED <<due, shutdown_requested, schedLocals, bucketVars, faults, historyVars>>

(***************************************************************************)
(* What happens around the supervisor                                       *)
(***************************************************************************)

RealtimeExits(v) ==
    /\ realtime[v] = "running" /\ Fault
    /\ realtime' = [realtime EXCEPT ![v] = "exited"]
    /\ UNCHANGED <<due, shutdown_requested, sched, schedLocals, bucketVars, historyVars, sup,
                   normalize, bootstrap_active>>

NormalizeExits ==
    /\ normalize \in {"live", "full"} /\ Fault
    /\ normalize' = "exited"
    /\ UNCHANGED <<due, shutdown_requested, sched, schedLocals, bucketVars, historyVars, sup,
                   realtime, bootstrap_active>>

\* The listener task gets SIGTERM, which goes to the supervisor alone.
Sigterm ==
    /\ Up /\ ~shutdown_requested /\ Fault
    /\ shutdown_requested' = TRUE
    /\ UNCHANGED <<due, sched, schedLocals, bucketVars, historyVars, supVars>>

\* Leaving run_supervisor: the children are killed, by kill_child or when they
\* are dropped, and the scheduler task is aborted.
Leave(how) ==
    /\ sup' = how
    /\ realtime' = [v \in Venues |-> IF realtime[v] = "running" THEN "killed" ELSE realtime[v]]
    /\ normalize' = "none" /\ bootstrap_active' = FALSE
    /\ sched' = "off" /\ chunk' = 0 /\ sub' = 0 /\ child' = "none" /\ outcome' = "none"
    /\ UNCHANGED <<due, bucketVars, historyVars>>

Killed == Up /\ Fault /\ Leave("exited_err") /\ UNCHANGED shutdown_requested

\* The platform starts the task again.
TaskReplaced ==
    /\ sup \in Exited
    /\ sup' = "down" /\ realtime' = [v \in Venues |-> "none"]
    /\ shutdown_requested' = FALSE
    /\ UNCHANGED <<due, sched, schedLocals, bucketVars, faults, historyVars, normalize,
                   bootstrap_active>>

(***************************************************************************)
(* The arms of the select loop                                              *)
(***************************************************************************)

\* mutant: waits for all of the realtime children
RealtimeArmAll ==
    /\ sup = "select" /\ \A v \in Venues : realtime[v] = "exited"
    /\ Leave("exited_err")
    /\ shutdown_requested' = TRUE /\ UNCHANGED faults

RealtimeArm ==
    /\ sup = "select" /\ \E v \in Venues : realtime[v] = "exited"
    /\ Leave("exited_err")
    /\ shutdown_requested' = TRUE /\ UNCHANGED faults

\* mutant: restarted only while the bootstrap is active
NormalizeArmBootstrapOnly ==
    /\ sup = "select" /\ normalize = "exited" /\ bootstrap_active
    /\ IF shutdown_requested
       THEN Leave("exited_ok")
       ELSE /\ sup' = "normalize_delay"
            /\ UNCHANGED <<due, sched, schedLocals, bucketVars, historyVars, realtime, normalize,
                           bootstrap_active>>
    /\ UNCHANGED <<shutdown_requested, faults>>

NormalizeArm ==
    /\ sup = "select" /\ normalize = "exited"
    /\ IF shutdown_requested
       THEN Leave("exited_ok")
       ELSE /\ sup' = "normalize_delay"
            /\ UNCHANGED <<due, sched, schedLocals, bucketVars, historyVars, realtime, normalize,
                           bootstrap_active>>
    /\ UNCHANGED <<shutdown_requested, faults>>

NormalizeRespawned ==
    /\ sup = "normalize_delay"
    /\ sup' = "select"
    /\ normalize' = spawn_normalize_for_phase(bootstrap_active)
    /\ UNCHANGED <<schedVars, realtime, bootstrap_active>>

\* mutant: does not look at the shutdown flag
SchedulerArmUnaware ==
    /\ sup = "select" /\ sched \in {"ok", "err"}
    /\ IF sched = "ok"
       THEN /\ bootstrap_active' = FALSE /\ normalize' = "full"
            /\ sched' = "idle" /\ UNCHANGED sup
       ELSE sup' = "scheduler_delay" /\ UNCHANGED <<sched, normalize, bootstrap_active>>
    /\ UNCHANGED <<due, schedLocals, bucketVars, historyVars, realtime, shutdown_requested, faults>>

\* The scheduler task ended.
SchedulerArm ==
    /\ sup = "select" /\ sched \in {"ok", "err"}
    /\ IF shutdown_requested
       THEN Leave("exited_ok")
       ELSE /\ IF sched = "ok"
               THEN /\ bootstrap_active' = FALSE /\ normalize' = "full"
                    /\ sched' = "idle" /\ UNCHANGED sup
               ELSE sup' = "scheduler_delay" /\ UNCHANGED <<sched, normalize, bootstrap_active>>
            /\ UNCHANGED <<due, schedLocals, bucketVars, historyVars, realtime>>
    /\ UNCHANGED <<shutdown_requested, faults>>

SchedulerRespawned ==
    /\ sup = "scheduler_delay" /\ SpawnScheduler
    /\ sup' = "select"
    /\ UNCHANGED <<realtime, normalize, bootstrap_active>>

\* shutdown_signal: the listener task has finished.
ShutdownArm ==
    /\ sup = "select" /\ shutdown_requested
    /\ Leave("exited_ok")
    /\ UNCHANGED <<shutdown_requested, faults>>

\* spawn_idle_backfill_scheduler
IdleSchedulerEnds ==
    /\ sched = "idle" /\ shutdown_requested
    /\ sched' = "ok"
    /\ UNCHANGED <<due, shutdown_requested, schedLocals, bucketVars, faults, historyVars, supVars>>

Task == SchedulerStep /\ UNCHANGED supVars
Child == ChildStep /\ UNCHANGED supVars
Loop == RealtimeArm \/ NormalizeArm \/ SchedulerArm \/ ShutdownArm

SupNext ==
    \/ Task \/ Child \/ Loop
    \/ (StoreCallFails \/ NormalizeChildFails \/ NextDay) /\ UNCHANGED supVars
    \/ SupervisorStarts \/ (\E v \in Venues : RealtimeExits(v)) \/ NormalizeExits
    \/ Sigterm \/ Killed \/ TaskReplaced
    \/ NormalizeRespawned \/ SchedulerRespawned \/ IdleSchedulerEnds

SupSpec == SupInit /\ [][SupNext]_allVars

\* tokio polls every ready task, select! picks among the ready arms at random,
\* the delays are finite, and the platform replaces a task that exited.
SupFairSpec ==
    /\ SupSpec
    /\ WF_allVars(Task) /\ WF_allVars(Child)
    /\ SF_allVars(RealtimeArm) /\ SF_allVars(NormalizeArm)
    /\ SF_allVars(SchedulerArm) /\ SF_allVars(ShutdownArm)
    /\ WF_allVars(NormalizeRespawned) /\ WF_allVars(SchedulerRespawned)
    /\ WF_allVars(IdleSchedulerEnds) /\ WF_allVars(SupervisorStarts) /\ WF_allVars(TaskReplaced)

(***************************************************************************)
(* Properties                                                               *)
(***************************************************************************)

\* The full worker runs only once the bootstrap is over: a whole lookback of
\* chunks was complete.  A scheduler that stopped because of a shutdown does
\* not count, whichever arm of the loop sees it first (run_supervisor).
FullOnlyAfterBootstrap ==
    BootstrapEnabled /\ normalize = "full" =>
        \E d \in Lookback..due : (d - Lookback + 1)..d \subseteq complete

\* A realtime child that exits takes the process down, whatever restart delay
\* the loop is in (README: realtime worker exit), and so does a shutdown
\* request (run_supervisor).
ProcessEnds ==
    (Up /\ (shutdown_requested \/ \E v \in Venues : realtime[v] = "exited")) ~> (sup \in Exited)

\* With finitely many failures, signals and restarts the full normalize worker
\* is in place for good (README: bootstrap complete).
FullWorkerForGood == <>[](normalize = "full")

============================================================================

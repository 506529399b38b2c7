-------------------------- MODULE NormalizeWorker --------------------------
(***************************************************************************)
(* The long-lived market-normalize worker: the loop that looks up where the *)
(* L1 index ends, picks the next schedule window, runs it and publishes one *)
(* index pointer per 1-second slot of the window.                           *)
(*                                                                         *)
(* One unit of time is one slot (window_ms).  A schedule window is the      *)
(* Interval slots that start at a multiple of Interval.  What a run reads   *)
(* and builds is abstracted to the status it ends with.                     *)
(***************************************************************************)
EXTENDS Integers, FiniteSets, FiniteSetsExt

CONSTANTS
    Interval,           \* schedule_interval_ms, in slots
    Watermark,          \* watermark_delay_ms, in slots
    LagThreshold,       \* live_priority_lag_threshold_ms, in slots
    HourSlots,          \* slots of one hour partition of the index
    KeysPerPage,        \* L1_POINTER_KEYS_PER_HOUR
    LookbackHours,      \* MAX_L1_POINTER_LOOKBACK_HOURS
    MaxWindowsPerTick,  \* max_windows_per_tick
    Modes,              \* the flags of the workers looked at, see mode
    Outcomes,           \* the statuses a build may end with
    MaxClock,           \* bound on time
    MaxFaults           \* bound on failed calls and crashes

ASSUME WorkerConfigValid ==
    /\ {Interval, HourSlots, KeysPerPage, LookbackHours, MaxWindowsPerTick} \subseteq Nat \ {0}
    /\ {Watermark, LagThreshold, MaxClock, MaxFaults} \subseteq Nat
    /\ Modes \subseteq {"sequential", "live_priority", "live_priority_only"}
    /\ Outcomes \subseteq {"success", "empty", "blocked"}

NoTime == -1            \* Option::None of a time or of a range
NoPointer == [status |-> "none", end |-> NoTime]
Slots == 0..MaxClock
SlotsOf(start) == start..(start + Interval - 1)
Hour(t) == t \div HourSlots

VARIABLES
    mode,       \* no flag, --live-priority, or also --live-priority-only; never changes
    clock,      \* wall clock
    index,      \* the bucket's l1_index: slot -> pointer
    pc,         \* where the worker is
    shutdown,   \* the ShutdownHandle was triggered
    now,        \* now_ms of the drain
    last,       \* last_l1_success_end_ms
    oldest,     \* oldest_l0_object_ms
    processed,  \* processed_windows
    live,       \* start of live_priority_completed_range
    job,        \* the window being run: who decided on it, its start
    status,     \* status of the build being published
    pending,    \* slots whose pointer put is still outstanding
    put_failed, \* some pointer put of this run failed
    faults,     \* faults injected so far
    began,      \* history: the clock when this drain began
    ran,        \* history: windows run in this drain
    attempted   \* history: windows whose pointers were ever about to be put

vars == <<mode, clock, index, pc, shutdown, now, last, oldest, processed, live, job,
          status, pending, put_failed, faults, began, ran, attempted>>
drainVars == <<last, oldest, processed, live>>
runVars == <<job, status, pending, put_failed>>

LivePriority == mode # "sequential"
LivePriorityOnly == mode = "live_priority_only"

NoJob == [by |-> "none", start |-> NoTime]

Init ==
    /\ mode \in Modes
    /\ clock = 0
    /\ index = [s \in Slots |-> NoPointer]
    /\ pc = "down" /\ shutdown = FALSE
    /\ now = 0 /\ last = NoTime /\ oldest = NoTime /\ processed = 0 /\ live = NoTime
    /\ job = NoJob /\ status = "none" /\ pending = {} /\ put_failed = FALSE
    /\ faults = 0 /\ began = 0 /\ ran = {} /\ attempted = {}

(***************************************************************************)
(* Looking up the end of the index.                                         *)
(***************************************************************************)

Indexed(s) == index[s] # NoPointer

\* One listing per hour: its first KeysPerPage keys, in key order.
PageOf(h) ==
    {s \in Slots : /\ Hour(s) = h /\ Indexed(s)
                   /\ Cardinality({t \in Slots : Hour(t) = h /\ t < s /\ Indexed(t)}) < KeysPerPage}

LookedUpHours == (Hour(clock) - LookbackHours + 1)..Hour(clock)

VisibleSuccess ==
    {s \in UNION {PageOf(h) : h \in LookedUpHours} : index[s].status = "success"}

ResolveLast == IF VisibleSuccess = {} THEN NoTime ELSE index[Max(VisibleSuccess)].end

(***************************************************************************)
(* Deciding which window to run; NoTime when there is none.                 *)
(***************************************************************************)

AlignFloor(t) == t - (t % Interval)

ReadyEnd == (now \div Interval) * Interval

\* mutant: the lag is measured against the window after next
DecideLivePriorityModeLagging ==
    IF /\ LivePriority
       /\ ReadyEnd > 0
       /\ now >= ReadyEnd + Watermark
       /\ last # NoTime => ReadyEnd - last > LagThreshold
    THEN ReadyEnd - Interval
    ELSE NoTime

DecideLivePriorityMode ==
    IF /\ LivePriority
       /\ ReadyEnd > 0
       /\ now >= ReadyEnd + Watermark
       /\ last # NoTime => /\ last < ReadyEnd
                           /\ ReadyEnd - last >= LagThreshold
    THEN ReadyEnd - Interval
    ELSE NoTime

NextStart ==
    IF last # NoTime THEN AlignFloor(last)
    ELSE IF oldest # NoTime THEN AlignFloor(oldest) ELSE NoTime

\* mutant: waits for a window that is already ready
DecideModeLate ==
    IF NextStart # NoTime /\ NextStart + Interval < ReadyEnd THEN NextStart ELSE NoTime

\* mutant: the newest window is run as soon as it closes
DecideModeEarly ==
    IF NextStart # NoTime /\ NextStart + Interval <= ReadyEnd THEN NextStart ELSE NoTime

\* mutant: resumes one window further than the lookup says
DecideModeSkips ==
    IF /\ NextStart # NoTime
       /\ NextStart + 2 * Interval <= ReadyEnd
       /\ NextStart + 2 * Interval = ReadyEnd => now >= ReadyEnd + Watermark
    THEN NextStart + Interval
    ELSE NoTime

DecideMode ==
    IF /\ NextStart # NoTime
       /\ NextStart + Interval <= ReadyEnd
       /\ NextStart + Interval = ReadyEnd => now >= ReadyEnd + Watermark
    THEN NextStart
    ELSE NoTime

(***************************************************************************)
(* The worker.  pc: "down" (not running), "sleep", then in one drain "live" *)
(* (the live-priority decision), "drain" (top of the loop), "run",          *)
(* "publish".                                                               *)
(***************************************************************************)

Fault == faults < MaxFaults /\ faults' = faults + 1

\* Leave drain_ready_windows with Ok: the worker sleeps, or stops if asked to.
DrainReturns ==
    /\ pc' = IF shutdown THEN "down" ELSE "sleep"
    /\ shutdown' = FALSE

\* An error leaves the worker through every "?" and ends the process.
WorkerExits == pc' = "down" /\ shutdown' = FALSE

\* A worker that starts, or wakes, looks up the last success and, when there
\* is none, the oldest L0 object (the L0 history begins at slot 0).
ResolveInitialState ==
    \/ last' = ResolveLast /\ oldest' = (IF ResolveLast = NoTime THEN 0 ELSE NoTime)
       /\ UNCHANGED faults
    \/ Fault /\ last' = NoTime /\ oldest' \in {0, NoTime}      \* l1_index_lookup_failed
    \/ Fault /\ last' = ResolveLast /\ last' = NoTime /\ oldest' = NoTime
                                                               \* l0_oldest_lookup_failed
BeginDrain ==
    /\ pc \in {"down", "sleep"} /\ ~shutdown
    /\ pc' = "live"
    /\ now' = clock
    /\ ResolveInitialState
    /\ processed' = 0 /\ live' = NoTime
    /\ began' = clock /\ ran' = {}
    /\ UNCHANGED <<clock, index, shutdown, runVars, attempted>>

StartRun(by, start) ==
    /\ pc' = "run"
    /\ job' = [by |-> by, start |-> start]
    /\ ran' = ran \cup {start}

\* run_live_priority_decision, when it picks a window.
RunLivePriority ==
    /\ pc = "live" /\ DecideLivePriorityMode # NoTime
    /\ StartRun("live", DecideLivePriorityMode)
    /\ UNCHANGED <<clock, index, shutdown, now, drainVars, status, pending, put_failed,
                   faults, began, attempted>>

NoLivePriority ==
    /\ pc = "live" /\ DecideLivePriorityMode = NoTime
    /\ IF LivePriorityOnly THEN DrainReturns ELSE pc' = "drain" /\ UNCHANGED shutdown
    /\ UNCHANGED <<clock, index, now, drainVars, runVars, faults, began, ran, attempted>>

\* The loop's exits: shutdown requested, window budget used up, nothing ready.
DrainStops ==
    /\ pc = "drain"
    /\ shutdown \/ processed >= MaxWindowsPerTick \/ DecideMode = NoTime
    /\ DrainReturns
    /\ UNCHANGED <<clock, index, now, drainVars, runVars, faults, began, ran, attempted>>

Ready == pc = "drain" /\ ~shutdown /\ processed < MaxWindowsPerTick /\ DecideMode # NoTime

RunNextReady ==
    /\ Ready /\ DecideMode # live
    /\ StartRun("sequential", DecideMode)
    /\ UNCHANGED <<clock, index, shutdown, now, drainVars, status, pending, put_failed,
                   faults, began, attempted>>

\* mutant: the window run with live priority is run again when the loop reaches it
AfterSequentialForgetsLive(start) ==
    /\ processed' = processed + 1
    /\ last' = start + Interval /\ oldest' = NoTime
    /\ live' = NoTime
    /\ IF shutdown THEN DrainReturns /\ UNCHANGED now
       ELSE pc' = "drain" /\ now' = clock /\ UNCHANGED shutdown

AfterSequential(start) ==
    /\ processed' = processed + 1
    /\ last' = start + Interval /\ oldest' = NoTime
    /\ UNCHANGED live
    /\ IF shutdown THEN DrainReturns /\ UNCHANGED now
       ELSE pc' = "drain" /\ now' = clock /\ UNCHANGED shutdown

\* The loop has reached the window that live priority already ran.
SkipLivePriorityDuplicate ==
    /\ Ready /\ DecideMode = live
    /\ AfterSequential(live)
    /\ UNCHANGED <<clock, index, runVars, faults, began, ran, attempted>>

AfterLive(start) ==
    /\ processed' = processed + 1
    /\ last' = IF last = start THEN start + Interval ELSE last
    /\ oldest' = NoTime
    /\ live' = start
    /\ now' = clock
    /\ IF LivePriorityOnly THEN DrainReturns ELSE pc' = "drain" /\ UNCHANGED shutdown

Continue ==
    /\ IF job.by = "live" THEN AfterLive(job.start) ELSE AfterSequential(job.start)
    /\ job' = NoJob /\ status' = "none"

\* The build ends blocked: report and manifest are uploaded, no pointers.
RunBlocked ==
    /\ pc = "run" /\ "blocked" \in Outcomes
    /\ Continue
    /\ attempted' = attempted \cup {job.start}
    /\ UNCHANGED <<clock, index, pending, put_failed, faults, began, ran>>

\* The build ends with a status that is indexed; the manifest is in place.
RunBuilt(result) ==
    /\ pc = "run" /\ result \in Outcomes \ {"blocked"}
    /\ pc' = "publish"
    /\ status' = result
    /\ pending' = SlotsOf(job.start) /\ put_failed' = FALSE
    /\ attempted' = attempted \cup {job.start}
    /\ UNCHANGED <<clock, index, shutdown, now, drainVars, job, faults, began, ran>>

\* publish_index_pointers: the puts complete in any order, and one that fails
\* does not keep the others from being tried.
PublishPointer(s) ==
    /\ pc = "publish" /\ s \in pending
    /\ index' = [index EXCEPT ![s] = [status |-> status, end |-> job.start + Interval]]
    /\ pending' = pending \ {s}
    /\ UNCHANGED <<clock, pc, shutdown, now, drainVars, job, status, put_failed, faults,
                   began, ran, attempted>>

PublishPointerFails(s) ==
    /\ pc = "publish" /\ s \in pending
    /\ Fault
    /\ pending' = pending \ {s} /\ put_failed' = TRUE
    /\ UNCHANGED <<clock, index, pc, shutdown, now, drainVars, job, status, began, ran,
                   attempted>>

RunPublished ==
    /\ pc = "publish" /\ pending = {} /\ ~put_failed
    /\ Continue
    /\ UNCHANGED <<clock, index, pending, put_failed, faults, began, ran, attempted>>

ForgetRun == job' = NoJob /\ status' = "none" /\ pending' = {} /\ put_failed' = FALSE

\* A failed put is an error of the run once all puts are done.
PublishFails ==
    /\ pc = "publish" /\ pending = {} /\ put_failed
    /\ WorkerExits /\ ForgetRun
    /\ UNCHANGED <<clock, index, now, drainVars, faults, began, ran, attempted>>

\* Reading, building or uploading the run's objects fails.
RunFails ==
    /\ pc = "run" /\ Fault
    /\ WorkerExits /\ ForgetRun
    /\ UNCHANGED <<clock, index, now, drainVars, began, ran, attempted>>

\* The process is killed wherever it is.
Crash ==
    /\ pc # "down" /\ Fault
    /\ WorkerExits /\ ForgetRun
    /\ UNCHANGED <<clock, index, now, drainVars, began, ran, attempted>>

\* SIGTERM or SIGINT: noticed at the loop's checks or while asleep.
RequestShutdown ==
    /\ pc # "down" /\ ~shutdown /\ Fault
    /\ shutdown' = TRUE
    /\ UNCHANGED <<clock, index, pc, now, drainVars, runVars, began, ran, attempted>>

StopAsleep ==
    /\ pc = "sleep" /\ shutdown
    /\ WorkerExits
    /\ UNCHANGED <<clock, index, now, drainVars, runVars, faults, began, ran, attempted>>

Tick ==
    /\ clock < MaxClock /\ clock' = clock + 1
    /\ UNCHANGED <<index, pc, shutdown, now, drainVars, runVars, faults, began, ran, attempted>>

WorkerStep ==
    \/ BeginDrain \/ RunLivePriority \/ NoLivePriority \/ DrainStops
    \/ RunNextReady \/ SkipLivePriorityDuplicate
    \/ RunBlocked \/ \E result \in Outcomes : RunBuilt(result)
    \/ \E s \in Slots : PublishPointer(s)
    \/ RunPublished \/ PublishFails \/ StopAsleep

Next ==
    /\ \/ WorkerStep \/ Tick \/ RunFails \/ Crash \/ RequestShutdown
       \/ \E s \in Slots : PublishPointerFails(s)
    /\ UNCHANGED mode

Spec == Init /\ [][Next]_vars

\* The runtime keeps polling the worker, its calls return, time goes on.
FairSpec == Spec /\ WF_vars(WorkerStep /\ UNCHANGED mode) /\ WF_vars(Tick /\ UNCHANGED mode)

(***************************************************************************)
(* Properties.                                                              *)
(***************************************************************************)

WindowStarts == {s \in Slots : s % Interval = 0}

\* How long a window has been closed before it is run.  Only the newest window
\* is held to the watermark (RunMode::Live); a catch-up window has a whole
\* closed window after it, which is shorter when the interval is.
Settled == IF Watermark <= Interval THEN Watermark ELSE Interval

\* A pointer is only ever published for a window that closed at least the
\* watermark delay ago, live or catch-up, and it names the window it lies in:
\* late records of a slot are waited for before the slot is declared done.  With
\* an interval shorter than the watermark, which nothing in the arguments
\* forbids, catch-up waits for the interval only.
IndexedIsClosed ==
    \A s \in Slots : Indexed(s) => /\ s \in SlotsOf(index[s].end - Interval)
                                   /\ clock >= index[s].end + Settled

\* Within one drain no window is run twice, although live priority and the
\* sequential loop choose windows independently and the clock moves between.
OneRunPerDrain ==
    [][pc # "run" /\ pc' = "run" => job'.start \notin ran]_vars

Behind(start) == {w \in WindowStarts : w < start}

\* A worker without live priority starts a window only when every earlier
\* window of the L0 history has been run: catch-up leaves no hole behind,
\* across restarts and failed look-ups.
NoWindowSkipped ==
    pc = "run" /\ mode = "sequential" => Behind(job.start) \subseteq attempted

\* With live priority, a drain does not spend itself on older windows before
\* the newest window that was ready when it began has been run; a worker that
\* is live-priority-only runs that window and nothing else.
LiveFirst ==
    LET newest == AlignFloor(began) - Interval
    IN  /\ /\ pc = "run" /\ job.by = "sequential" /\ LivePriority
           /\ newest >= 0 /\ began >= AlignFloor(began) + Watermark
           => newest \in attempted
        /\ LivePriorityOnly /\ pc = "run" => job.start = newest

\* A window that was run and has no success pointer: its run ended blocked or
\* empty, or failed.
HeldBack == \E w \in attempted : index[w].status # "success"

\* The newest window that ever becomes ready is run in the end, whatever
\* backlog, failure or restart came before; only a window whose runs never end
\* in success can hold the worker back for good.
CatchesUp ==
    LET newest == AlignFloor(MaxClock - Watermark) - Interval
    IN  <>(newest \in attempted) \/ []<>HeldBack

\* What decision.rs says of live priority: "sequential catch-up keeps the
\* durable contiguous history correct", so a sequential run never starts with
\* an older window left out.  It fails without any fault when a worker begins
\* with no pointer at all: the live window is run, AfterLive forgets the oldest
\* L0 object while no success was known, the drain finds nothing to do, and the
\* next look-up starts behind the live window.
HistoryContiguous ==
    pc = "run" /\ job.by = "sequential" => Behind(job.start) \subseteq attempted
============================================================================

------------------------ MODULE BootstrapScheduler ------------------------
(***************************************************************************)
(* The supervisor's bootstrap scheduler: it walks the historical chunks,   *)
(* runs a backfill child for the L0 of a chunk and one normalize child per *)
(* subchunk for its L1, and records progress as success.json and           *)
(* complete.json markers in the L1 bucket.                                 *)
(*                                                                         *)
(* The children are separate processes.  A backfill child is abstracted to *)
(* how it ends; a normalize child publishes the pointers of its subchunk   *)
(* one by one (module L1Publish has the details).  The process around the  *)
(* scheduler, its signals and its exits are module Supervisor.             *)
(***************************************************************************)
EXTENDS Integers, FiniteSets, FiniteSetsExt

CONSTANTS
    Lookback,       \* chunks of the bootstrap lookback
    MaxChunks,      \* bound on the chunks that ever become due
    Subchunks,      \* normalize subchunks of one chunk
    SlotCount,      \* index slots of one subchunk
    Outcomes,       \* statuses a normalization may end with
    MaxFaults       \* bound on failures and kills

ASSUME SchedulerConfigValid ==
    /\ {Lookback, MaxChunks, Subchunks, SlotCount} \subseteq Nat \ {0}
    /\ Lookback <= MaxChunks
    /\ MaxFaults \in Nat
    /\ Outcomes \subseteq {"success", "empty", "blocked"}

Chunk == 1..MaxChunks
Subchunk == 1..Subchunks
Slot == 1..SlotCount

VARIABLES
    due,                \* the newest chunk that is old enough
    shutdown_requested,
    sched,              \* where the scheduler task is
    chunk, sub,         \* the chunk and subchunk in hand
    child,              \* its child process: "none", "running", "ok", "failed"
    outcome,            \* the status the normalize child builds
    l0_marker,          \* chunks with success.json
    complete,           \* chunks with complete.json
    pointer,            \* chunk, subchunk, slot -> status of the pointer
    faults,
    l0_done,            \* history: chunk -> how a backfill child that exited 0 fared
    l1_done             \* history: chunk, subchunk -> status of a child that exited 0

schedVars == <<due, shutdown_requested, sched, chunk, sub, child, outcome, l0_marker, complete,
               pointer, faults, l0_done, l1_done>>
bucketVars == <<l0_marker, complete, pointer>>
historyVars == <<l0_done, l1_done>>

SchedInit ==
    /\ due = Lookback
    /\ shutdown_requested = FALSE
    /\ sched = "off" /\ chunk = 0 /\ sub = 0 /\ child = "none" /\ outcome = "none"
    /\ l0_marker = {} /\ complete = {}
    /\ pointer = [p \in Chunk \X Subchunk \X Slot |-> "none"]
    /\ faults = 0
    /\ l0_done = [c \in Chunk |-> "none"]
    /\ l1_done = [p \in Chunk \X Subchunk |-> "none"]

Fault == faults < MaxFaults /\ faults' = faults + 1

\* The chunks of the lookback, oldest first: the window slides with the clock.
bootstrap_chunks == (due - Lookback + 1)..due

next_missing_bootstrap_chunk == Min(bootstrap_chunks \ complete)

(***************************************************************************)
(* run_backfill_scheduler                                                   *)
(***************************************************************************)

\* Top of the loop: stop, find the next chunk, or find that none is missing.
PickChunk ==
    /\ sched = "pick"
    /\ IF shutdown_requested \/ bootstrap_chunks \subseteq complete
       THEN sched' = "ok" /\ UNCHANGED chunk
       ELSE sched' = "chunk" /\ chunk' = next_missing_bootstrap_chunk
    /\ UNCHANGED <<due, shutdown_requested, sub, child, outcome, bucketVars, faults, historyVars>>

\* Any marker or pointer call that fails ends the scheduler with its error; a
\* marker may be in the bucket all the same.
StoreCallFails ==
    /\ sched \in {"pick", "chunk", "mark_l0", "subchunk", "mark"} /\ Fault
    /\ sched' = "err"
    /\ l0_marker' = l0_marker \/ (sched = "mark_l0" /\ l0_marker' = l0_marker \cup {chunk})
    /\ complete' = complete \/ (sched = "mark" /\ complete' = complete \cup {chunk})
    /\ UNCHANGED <<due, shutdown_requested, chunk, sub, child, outcome, pointer, historyVars>>

\* run_backfill_chunk: the L0 part is skipped when its marker exists.
BeginChunk ==
    /\ sched = "chunk"
    /\ IF chunk \in l0_marker
       THEN sched' = "subchunk" /\ sub' = 1 /\ UNCHANGED child
       ELSE sched' = "backfill" /\ child' = "running" /\ UNCHANGED sub
    /\ UNCHANGED <<due, shutdown_requested, chunk, outcome, bucketVars, faults, historyVars>>

\* The backfill child ends.  Failed uploads only show in its report: it still
\* exits 0.
BackfillChildEnds ==
    /\ sched = "backfill" /\ child = "running"
    /\ \/ child' = "ok" /\ l0_done' = [l0_done EXCEPT ![chunk] = "stored"] /\ UNCHANGED faults
       \/ child' = "ok" /\ l0_done' = [l0_done EXCEPT ![chunk] = "lossy"] /\ Fault
       \/ child' = "failed" /\ UNCHANGED l0_done /\ Fault
    /\ UNCHANGED <<due, shutdown_requested, sched, chunk, sub, outcome, bucketVars, l1_done>>

\* The child is polled; a shutdown request kills it.
PollBackfill ==
    /\ sched = "backfill"
    /\ shutdown_requested \/ child # "running"
    /\ sched' = IF ~shutdown_requested /\ child = "ok" THEN "mark_l0" ELSE "sleep"
    /\ child' = "none"
    /\ UNCHANGED <<due, shutdown_requested, chunk, sub, outcome, bucketVars, faults, historyVars>>

MarkL0Success ==
    /\ sched = "mark_l0"
    /\ l0_marker' = l0_marker \cup {chunk}
    /\ sched' = "subchunk" /\ sub' = 1
    /\ UNCHANGED <<due, shutdown_requested, chunk, child, outcome, complete, pointer, faults,
                   historyVars>>

\* The pointer of the subchunk's first slot stands for the subchunk.
has_l1_success == pointer[<<chunk, sub, 1>>] = "success"

\* mutant: does not look for the pointer
BeginSubchunkAgain ==
    /\ sched = "subchunk"
    /\ IF sub > Subchunks
       THEN sched' = "mark" /\ UNCHANGED <<sub, child, outcome>>
       ELSE /\ sched' = "normalize" /\ child' = "running"
            /\ outcome' \in Outcomes /\ UNCHANGED sub
    /\ UNCHANGED <<due, shutdown_requested, chunk, bucketVars, faults, historyVars>>

\* run_l1_normalize_chunk: one subchunk after the other.
BeginSubchunk ==
    /\ sched = "subchunk"
    /\ IF sub > Subchunks
       THEN sched' = "mark" /\ UNCHANGED <<sub, child, outcome>>
       ELSE IF has_l1_success
            THEN sub' = sub + 1 /\ UNCHANGED <<sched, child, outcome>>
            ELSE /\ sched' = "normalize" /\ child' = "running"
                 /\ outcome' \in Outcomes /\ UNCHANGED sub
    /\ UNCHANGED <<due, shutdown_requested, chunk, bucketVars, faults, historyVars>>

\* The normalize child puts its pointers concurrently ...
Unpublished == {s \in Slot : pointer[<<chunk, sub, s>>] # outcome}

NormalizeChildPublishes ==
    /\ sched = "normalize" /\ child = "running" /\ outcome # "blocked"
    /\ \E s \in Unpublished : pointer' = [pointer EXCEPT ![<<chunk, sub, s>>] = outcome]
    /\ UNCHANGED <<due, shutdown_requested, sched, chunk, sub, child, outcome, l0_marker, complete,
                   faults, historyVars>>

\* ... and exits 0, whatever the status of the run.
NormalizeChildEnds ==
    /\ sched = "normalize" /\ child = "running"
    /\ outcome = "blocked" \/ Unpublished = {}
    /\ child' = "ok"
    /\ l1_done' = [l1_done EXCEPT ![<<chunk, sub>>] = outcome]
    /\ UNCHANGED <<due, shutdown_requested, sched, chunk, sub, outcome, bucketVars, faults,
                   l0_done>>

NormalizeChildFails ==
    /\ sched = "normalize" /\ child = "running" /\ Fault
    /\ child' = "failed"
    /\ UNCHANGED <<due, shutdown_requested, sched, chunk, sub, outcome, bucketVars, historyVars>>

\* mutant: goes on to the next subchunk whatever the exit status
PollNormalizeAnyExit ==
    /\ sched = "normalize"
    /\ shutdown_requested \/ child # "running"
    /\ IF ~shutdown_requested
       THEN sched' = "subchunk" /\ sub' = sub + 1
       ELSE sched' = "sleep" /\ UNCHANGED sub
    /\ child' = "none" /\ outcome' = "none"
    /\ UNCHANGED <<due, shutdown_requested, chunk, bucketVars, faults, historyVars>>

PollNormalize ==
    /\ sched = "normalize"
    /\ shutdown_requested \/ child # "running"
    /\ IF ~shutdown_requested /\ child = "ok"
       THEN sched' = "subchunk" /\ sub' = sub + 1
       ELSE sched' = "sleep" /\ UNCHANGED sub
    /\ child' = "none" /\ outcome' = "none"
    /\ UNCHANGED <<due, shutdown_requested, chunk, bucketVars, faults, historyVars>>

MarkComplete ==
    /\ sched = "mark"
    /\ complete' = complete \cup {chunk}
    /\ sched' = "sleep"
    /\ UNCHANGED <<due, shutdown_requested, chunk, sub, child, outcome, l0_marker, pointer, faults,
                   historyVars>>

SchedulerWakes ==
    /\ sched = "sleep"
    /\ sched' = "pick"
    /\ UNCHANGED <<due, shutdown_requested, chunk, sub, child, outcome, bucketVars, faults,
                   historyVars>>

\* The day turns: one more chunk is old enough.
NextDay ==
    /\ due < MaxChunks /\ due' = due + 1
    /\ UNCHANGED <<shutdown_requested, sched, chunk, sub, child, outcome, bucketVars, faults,
                   historyVars>>

\* spawn_backfill_scheduler, at start and after the scheduler failed.
SpawnScheduler ==
    /\ sched \in {"off", "err"}
    /\ sched' = "pick"
    /\ UNCHANGED <<due, shutdown_requested, chunk, sub, child, outcome, bucketVars, faults,
                   historyVars>>

SchedulerStep ==
    \/ PickChunk \/ BeginChunk \/ PollBackfill \/ MarkL0Success \/ BeginSubchunk
    \/ PollNormalize \/ MarkComplete \/ SchedulerWakes

ChildStep == BackfillChildEnds \/ NormalizeChildPublishes \/ NormalizeChildEnds

(***************************************************************************)
(* Properties                                                               *)
(***************************************************************************)

\* complete.json stands for work that was done: L0 was backfilled and every
\* subchunk had a normalize child that exited 0, or the success pointer that
\* made the scheduler skip it (run_l1_normalize_chunk).  Chunks complete oldest
\* first: nothing of the lookback below a completed chunk is missing, whatever
\* days passed and whatever was restarted (next_missing_bootstrap_chunk).
CompleteIsEarned ==
    \A c \in complete :
        /\ \A d \in bootstrap_chunks : d < c => d \in complete
        /\ l0_done[c] # "none"
        /\ \A k \in Subchunk : l1_done[<<c, k>>] # "none" \/ pointer[<<c, k, 1>>] = "success"

\* Once the first pointer of a subchunk says success, no retry of the chunk
\* ever publishes another status over any of its pointers (has_l1_success).
SuccessIsFinal ==
    [][\A c \in Chunk, k \in Subchunk, s \in Slot :
          pointer[<<c, k, 1>>] = "success" =>
              pointer'[<<c, k, s>>] \in {pointer[<<c, k, s>>], "success"}]_schedVars

============================================================================

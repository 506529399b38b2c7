# Verification of the market ingest service

TLA+ models of `nangman-crypto-market-ingest`, model-checked with TLC on small
instances, with proofs for every value of the constants checked by TLAPS.
Paths below are relative to the service crate's `src/` directory, except those
that begin with `crates/`. `PROJECT.json` maps each definition to the lines it models.

## 1. The system and its parts

One supervisor process starts one realtime child per venue, one normalize
child, and a bootstrap scheduler task. Data goes through two layers.

* **L0**: realtime and backfill workers append raw events, health records and
  gap alerts to the L0 sink, which writes parquet files into a local spool and
  uploads them to S3. Eviction loops delete uploaded raw files from the spool.
* **L1**: the normalize worker picks a window, reads the L0 objects of it from
  spool and bucket, builds slices and projections, uploads them as a run, and
  puts a pointer per slot into the L1 index. Readers start from the pointers.

| Part | Source | Modules | Extent |
|---|---|---|---|
| L0 storage sink | `storage/sink`, `storage/s3_upload` | `L0Sink`, `L0Sink_proofs`, `L0Store_proofs` | whole |
| L0 spool: eviction, orphans | `storage/eviction`, `storage/orphan.rs`, `maintenance.rs` | `L0Spool`, `L0Store_proofs` | whole |
| Realtime venue workers | `binance/`, `upbit/`, `reconnect.rs` | `RealtimeSession`, `RealtimeSession_proofs` | partly |
| Binance depth synchronisation | `crates/crypto-market-data` (`depth_sync`, `ingest_watch`) | `DepthSync`, `DepthSync_proofs` | whole |
| Supervisor process | `supervisor/mod.rs`, `supervisor/process.rs` | `Supervisor`, `Supervisor_proofs` | whole |
| Bootstrap scheduler | `supervisor/scheduler`, `supervisor/bootstrap` | `BootstrapScheduler`, `Supervisor_proofs` | whole |
| Backfill | `backfill/` | `Backfill`, `MCBackfill` | partly |
| Normalize worker: window choice | `normalize/run`, `normalize/mode`, `normalize/discovery` | `NormalizeWorker`, `NormalizeWorker_proofs` | whole |
| Reading of L0 input | `normalize/read`, `normalize/input_keys` | `NormalizeBuild`, `MCNormalizeBuild` | whole |
| Slice construction and quality | `normalize/build`, `normalize/quality` | `SliceBuild` | whole |
| Quality summary, deltas, regime | `normalize/projection`, `normalize/derivative_projection.rs` | `Projections` | partly |
| Symbol universe, daily rollups | `normalize/projection/symbol_universe`, `normalize/publish/artifacts` | `UniverseRollup`, `MCUniverseRollup` | whole |
| L1 publication, index and reader | `normalize/publish`, `normalize/l1_reader.rs`, `normalize/admissibility` | `L1Publish`, `L1Index`, `L1Publish_proofs`, `MCL1Publish` | whole / reader partly |
| S3 retention | `storage/retention`, `retention_loop.rs`, `supervisor/retention.rs` | `S3Retention`, `S3Retention_proofs` | whole |

The exact source files of each part, and the parts without state (domain
types, configuration, parsing, logging, audit), are in `PROJECT.json` under
`components`; section 8 says why the latter are left out. The depth book is library code
that this service does not run: its watch is marked deprecated
(`crates/crypto-market-data/src/ingest_watch/watch/depth.rs:18`) and nothing in the service
crate calls it. What `DepthSync` shows is about the library.

How the modules are put together:

    L0Sink <- L0Spool                    the sink with eviction loops and clean-up
    BootstrapScheduler <- Supervisor     the scheduler inside the select loop
    SliceBuild <- Projections <- NormalizeBuild   one L1 run, from listing to rows
    L1Index <= L1Publish                 the abstract index and what implements it

The arrow `<-` is EXTENDS, `<=` a refinement. `NormalizeWorker`, `L1Publish`,
`UniverseRollup` and `S3Retention` look at the same L1 run from four sides: which
window it is for, how it becomes visible, what it adds to the daily rollups, and how
long it stays.

## 2. State and actions

**L0Sink.** `buffers`, `part_numbers`, `uploaded` and `failed` are the fields
of the sink; `spool`, `s3` and `manifests` are the disk and the bucket. A flush
is a chain of steps (`stage`: write, upload, seal), because another process or
a kill can come between two of them. An upload error is ambiguous, that of the manifest
included: the put may have landed. `New` is a start under a new run id; `Crash` keeps disk and bucket
and loses the rest. Records are numbered, and everything else about them is
left out.

**L0Spool** adds the eviction loops, each working from a ranking taken earlier
(`candidates`), the quarantine of unreadable unsealed files at start-up, and a
clock against which the safety floor is measured. Whether the disk is full is
a free choice.

**RealtimeSession** is one worker (Binance or Upbit) from start to exit status:
connect, poll, message handling, statistics and alerts, housekeeping, reconnect
with backoff, finalization. The exchange numbers its events, so a hole in what
was stored is visible to the properties. Messages can be damaged, repeated,
control frames or errors; a connection can break, end, or go mute. A call to the exchange
(start-up, connect, the REST calls of a snapshot) is two steps, the call and its answer, and the answer
may never come.

**DepthSync** is the order book of one symbol: buffer, snapshot, replay, deltas,
gap detection, overflow, resynchronisation. A book is the set of update ids it
has absorbed, which is what distinguishes a right book from a wrong one.

**Supervisor / BootstrapScheduler.** The `select!` arms are actions, as are child
exits, SIGTERM, a SIGKILL of the task and the delays during which no arm is
polled. The scheduler picks a chunk, runs the backfill child, writes its marker,
runs normalize children per subchunk, and marks the chunk complete; every
store call can fail and the process can be replaced between any two steps.

**Backfill** pages a trade history upwards by id (Binance) or downwards by
cursor (Upbit), filters the range, reports empty symbols, flushes, and uploads
manifest and report. Calls fail, trades arrive, and the server may begin to repeat a page or
to answer a request other than the one it got.

**NormalizeWorker** is the tick loop: a drain with its window budget, the
look-up of the last success pointer, the live-priority decision, a run with
its outcome, and one put per slot. The three modes are values of `mode`.

**NormalizeBuild / SliceBuild / Projections.** Listing is one step per prefix,
so objects move from spool to bucket between listing steps; downloads arrive in
any order; rows fold into the accumulator, and the result is computed once all
are read. Slices keep what decides completeness: which events, their order, health,
gaps, lateness. Projections keep which rows a value is taken from and which status
and reasons are reported, not the arithmetic of the values. `Venue` decides the role of the
slices and whether there are derivative events.

**UniverseRollup** is the read-merge-put of the daily rollups by several
publishers and the approval policy over the days.

**L1Publish** is the upload of a run in its order, the read-back of the
manifest, the HEAD and conditional put of each pointer with retries, refused
puts, lost requests and lost answers, and a reader that takes its steps
between those of the publishers.

**L1Index** is what a reader may rely on, without any of that: runs are released
once and whole, pointers name released runs that cover the slot, and a read is a
read of the one run that was looked up. `ImplementsIndex` maps `L1Publish` to it: a
run counts as released from the moment its last object is in the bucket, and
the reader holds the run of its pointer until it is done or gives up.

**S3Retention** is a bucket with the last modification of every key, runs, and retention loops.
A run may be for a slot of any age; it uploads artifacts under keys of its own, puts the universe
rollup of its day and then the pointer of its slot. The last two keys are shared: every
run of that day or slot writes them again. A pass takes the time, lists
the prefixes one by one in their fixed order, fills its plan up to the cap, and then deletes
the planned keys by name, one step each. Requests fail, a failed deletion may have been
applied, and a pass can be aborted between any two steps.

## 3. Runs

Each run asks one question. One of them is expected to be violated; it is the
finding of section 6.

| Run | Config | What it checks |
|---|---|---|
| `l0_sink` | `L0Sink.cfg` | Two successive processes on one spool and bucket. Every record is accounted for, nothing is stored twice, the capped report and every manifest tell the truth and go on doing so, a sealed file is durable. |
| `l0_spool_eviction` | `L0Spool.cfg` | A sink with two eviction loops and clean-ups. Only durable files are evicted, no object is overwritten, and no file of a running flush is touched. |
| `realtime_session` | `RealtimeSession.cfg` | Losses show in the counters, a success exit is durable, "healthy" means no hole; a shutdown completes and a mute connection is given up, unless a connect or a REST call never returns. |
| `depth_sync` | `DepthSync.cfg` | A synced book is the exchange's book, a book that lags is alerted, a failed snapshot is asked for again within the buffer. |
| `supervisor` | `Supervisor.cfg` | Bootstrap and full phases, chunk order, markers, restarts: the phase of the normalizer, what `complete.json` and a success pointer stand for, that exits and shutdown end the process, and that the full worker is in place in the end. |
| `backfill` | `Backfill.cfg` | A run with a manifest has each trade of the range exactly once, and says which symbols were empty; the run ends, except at Upbit against a server that goes to and fro. |
| `normalize_worker` | `NormalizeWorker.cfg` | Only closed windows are indexed, sequential mode skips none, live priority goes first and once, every mode catches up. |
| `normalize_backlog_hole` | `NormalizeBacklogHole.cfg` | Violated: live priority leaves holes in the history. |
| `normalize_build` | `NormalizeBuild.cfg` | No object with rows of the read range is missed while objects move, but those a live run takes for over; the result is the one of the reference definition whatever the order of arrival, "complete" is clean, the projections claim no more than was read. |
| `universe_rollup` | `UniverseRollup.cfg` | No range is counted twice, whatever publishers race; approval and rank are earned. |
| `l1_publish` | `MCL1Publish.cfg` | A pointer names a complete run, Ok means published, a reader is never stranded, and the whole implements `L1Index`. |
| `s3_retention` | `S3Retention.cfg` | Nothing young is deleted although plans go stale, but for a pointer or rollup that was written again; a young pointer stays readable; whatever is expired goes once the runs stop. |

Pure algorithms are compared with a definition of their own: `BuildIsExact`
holds the incremental accumulator against the slices defined directly from the
set of rows, and `CountedOnce` holds the merged rollup against sums over its ranges.

### Bounds, and why they are enough

* `L0Sink`: two partitions, two records per flush, two records, two runs and
  report caps of one. A flush by size, a final flush with a rest, an overflowing
  report, and a restart that could reuse a key all happen. `L0Spool` has one run,
  a flush size of one and three ticks, so that a ranking can become stale while the
  other loop evicts, and files of different age exist.
* `RealtimeSession`: three events, one message in the socket, two reconnects, two
  faults and two retained alerts. A hole needs three events; the alert cap is met.
* `DepthSync`: update ids up to five, spans of at most two, a buffer of two and
  three faults: overlap, gap, replay of a buffered prefix, overflow.
* `Supervisor`: a lookback of two chunks that moves by one day, one subchunk of
  two slots, two faults, two venues. Two slots make a partly indexed subchunk.
* `Backfill`: every history of up to three trades at, next to and outside the
  edges of the range, those of four trades before, in and after it, pages of two, a second symbol
  with or without a trade. Four trades make two full pages, between which a server can go to and fro.
* `NormalizeWorker`: windows of two slots, a watermark of one, hours of six slots
  of which a look-up sees three keys, nine clock ticks, a budget of three windows.
  The clock ends on an odd value so that the last window is past its watermark.
* `NormalizeBuild`: a few prepared worlds of L0 objects (`MCNormalizeBuild`)
  with late, duplicated and out-of-order rows, missing health, gaps, a second run
  of the same prefix, and one full world each with a timely and a late book. The
  worlds are histories the sinks can produce; the lookbacks are scaled down.
* `UniverseRollup`: three days of two slots, four symbols, two publishers, three
  runs, ranges that overlap and one that crosses midnight.
* `L1Publish`: two publishers, two slots, an overlapping pair of ranges, two
  attempts per put. Publishers are interchangeable, so symmetry is sound (no
  liveness is checked with it); the same holds for `UniverseRollup`.
* `S3Retention`: two loops, two runs of one slot with one artifact each, under the prefix it shares
  with the rollup, a retention of two ticks, a cap of one deletion, a run time of one, four ticks
  and one fault. A second run writes pointer and rollup anew while a loop holds a plan, the cap
  cuts a plan between artifact and pointer, and both loops plan the same key.

Runs with `CHECK_DEADLOCK FALSE` stop at a bound (of the clock, the records or
the runs) or when the process has ended.

### Fairness

* `RealtimeSession`: weak fairness of the worker's task, which tokio keeps
  polling, and of the clock. Nothing is assumed of the exchange: the calls at start-up, a connect and
  the REST calls may never return. Storage calls, pings and publishes are taken to return.
* `Backfill`: weak fairness of the run, written out as a formula since TLC is slow to
  evaluate whether the run is enabled. Both clients give up a request after 30 seconds
  (`backfill/upbit/runner.rs:24`, `backfill/binance/runner/client.rs:6`).
* `NormalizeWorker`: weak fairness of the worker and of the clock.
  `CatchesUp` has one escape, a window whose runs never end in success: the
  look-up ignores it and the worker stays at it.
* `Supervisor`: strong fairness of each `select!` arm, since `select!` chooses
  among the ready arms at random; weak fairness of the scheduler task, of the
  children, of the finite delays, and of the platform that replaces an exited task.
  Exits, faults and signals are never forced.
* `S3Retention`: weak fairness of each loop's passes. The interval ticks for ever and
  requests return; nothing is assumed of the runs or of the clock. `ExpiredGoes` is
  claimed of a bucket to which no run writes any more.

## 4. Proofs

The theorems hold for all values of the constants that satisfy the named
assumptions (`SinkConfigValid`, `SpoolConfigValid`, `PublishConfigValid`, `WorkerConfigValid`,
`SchedulerConfigValid`, `SupervisorConfigValid`, `RetentionConfigValid`, `DepthConfigValid`,
`RealtimeConfigValid`): positive flush sizes, caps, buffers, intervals and attempt limits, and a partition
name that is no partition. One of them goes beyond what the code checks: `RetentionConfigValid` says that
a run takes less time than the retention (240 days by default), which nothing in the code compares.

* **`L0Sink_proofs`** proves `TypeOK`, `SealedIsDurable`, `ObjectsImmutable` and
  `NothingForgotten`. `SealedIsDurable` alone is not inductive: sealing
  needs that the object under the current key has this batch, and an upload must
  not hit a key that is taken. `IInv` therefore adds `KeysHandedOut` (keys in spool
  and bucket come from earlier runs or part numbers), `FlushHasOwner` (a flush
  has a partition, an operation and a process) and `BatchPlace` (where the
  batch is at each stage). `TakeBatchFresh` is the heart: the next part number
  makes a key that nothing has.
* **`L0Store_proofs`** builds on it in three parts. The first proves `NoRecordStoredTwice`.
  `OnceInv` adds that buffers, batch and the
  objects of the current run hold different records (`BufferedOnce`, `BatchApart`,
  `StoredApart`). The last one is what an upload needs, whether its answer arrives or not: no object
  of the run has a record of the batch yet.

  The second proves `ReportHonest` on top of `IInv` and `OnceInv`. What the report and every
  manifest say must stay true through all later runs, so `ReportInv` consists of `ListsTrue`,
  `ManifestsTrue`, `Apart` (the flush in progress has another key than any file a report or a
  manifest calls failed, so that it neither seals nor rewrites it) and `ManifestIsLast` (a run that
  has a manifest is over, and none of its records is beyond the manifest's count). A manifest
  whose put was reported as failed may be in the bucket: it is the report with its own entry.

  The third proves `EvictedIsDurable`, `OnlyRawEvicted` and
  `InFlightFileStays` for any number of loops. A loop works from an old ranking,
  so `SpoolIInv` adds `RankedIsDurable` (what was ranked stays durable, raw and
  not in flight) and `WriteIsRecent` (the file being written is younger than the safety
  floor, which is what keeps the clean-up of another worker off it). Sink steps are
  covered by `NextInv` and `NextKeepsObjects` of `L0Sink_proofs`.
* **`L1Publish_proofs`** proves `TypeOK`, `PointedIsComplete`, `OkMeansPublished`,
  `ReaderNeverStranded` and `NoBlindOverwrite`, for any publishers, slots, ranges and attempts.
  `IInv` adds how far each upload has come (`UploadedSoFar`), that a run not begun
  has left no trace (`WorkHasRun`), which puts may have been applied
  (`PutsInRange`), and that pointers and the reader hold complete runs.

  `PublishImplementsIndex` shows the refinement of `L1Index`: a step of `L1Publish`
  uploads the last object (`Release`), applies a put (`Point`), moves the reader
  (`LookUp`, `ReadDone`), or changes nothing the abstract index can see. That a put is
  a `Point` needs `IInv`: the run was complete before its first put.
* **`S3Retention_proofs`** proves `YoungIsReadable` and `DeletedIsExpired` for any loops,
  runs, slots and artifacts. A plan is stale by the time it is carried out, so the
  invariant has to say what that can do: a planned artifact is expired and its key is not
  written again, since its run has written it (`PlannedArtifacts`); a planned pointer or rollup
  had a writer as old as the retention (`PlannedShared`), so that, if it is young
  when it is deleted, it was written again, which is the exception `DeletedIsExpired` names.
  `ArtifactsAge`, `PointersAge` and `RollupsAge` relate the age of a pointer to that of the run it
  names and of the rollup of its day.
* **`NormalizeWorker_proofs`** proves `IndexedIsClosed`, `NoWindowSkipped` and
  `OneRunPerDrain` for every interval, watermark, page size, lookback and budget. A window has
  settled (`Settled`) the watermark after its end, or an interval after it if that is shorter. A look-up
  may see only a part of the pointers, so the invariant is about whatever it may return:
  pointers end where windows end that were run (`EndsAreWindows`), without live priority
  nothing below such an end is left out (`NoHole`), and apart from its live window a drain
  only goes upwards (`RanBefore`). The window arithmetic rests on lemmas about multiples
  of the interval (`FloorFacts`, `Apart`, `Shift`).

  `LiveFirst` is the one theorem here with a hypothesis of its own, a lag threshold of at most one
  interval. The defaults have it and the parser does not require it; with a larger threshold
  the claim is false, because a smaller lag is left to the sequential loop by design. `LiveInv`
  carries it through the drain: the decision sees the clock and the look-up of the drain's
  beginning, and it passes only when the newest ready window has a pointer, hence was run.
* **`Supervisor_proofs`** proves `CompleteIsEarned`, `FullOnlyAfterBootstrap` and
  `SuccessIsFinal` for supervisor and scheduler together, for any lookback, subchunks, slots,
  venues and faults. `Progress` says how far the chunk in hand has come at every step of the
  scheduler and that nothing older is missing, which a new day does not undo because the
  lookback only moves upwards; `NoSuccessUnder` says that a child that may publish something else
  found no success; `PhaseEarned` says where the end of the bootstrap can have been seen from.

* **`DepthSync_proofs`** proves `BookFaithful`, `LagIsAlerted` and `RetriedWithinBuffer` for every
  buffer size, span of ids and number of faults. The replay of the buffer is a fold, and
  what it returns is proved by induction on the events: the book after each event has
  absorbed exactly the ids up to its `last_update_id`, or there is an alert. The
  induction goes through the least counterexample (`NatLeast`, `NatSets`). The invariant adds
  `FetchCovers` (while a snapshot is awaited, the newest event is in the buffer or its
  drop was alerted), `BufferCounts` (an unsynced book has in its buffer whatever it handled since it
  last asked) and `UnaskedIsNew` (an unsynced book that has not asked saw nothing or alerted).
* **`RealtimeSession_proofs`** proves `ExitOkIsDurable` and `HealthyIsComplete` for any number
  of events, events per message, messages in the socket, reconnects and failures. Handling a
  message and writing the final records are folds over the sets of possible outcomes; their
  results are proved by induction on the records. `SinkInv` says that whatever was handled
  is in a buffer or stored unless a counter tells (`HandledIsHeld`), nothing else is (`HeldIsHandled`), and how far
  finalization has come by each step (`Flushed`, `ManifestUp`, `AlertsHeld`, `OkIsClean`,
  `HealthIsTrue`). `Unbroken` is the heart of `HealthyIsComplete`: as long as nothing was
  counted, what was read, every message in the socket and what the exchange sends next
  follow on each other, except behind a message whose handling will be counted.

`WriteIsRecent` rests on the model's guard that a write in progress ends within the safety
floor (two hours by default): a write slower than that is outside the theorem.

### What is only model-checked

Liveness under fairness stays with TLC: the prover does not handle fairness and ENABLED. So do
`HolesAreSurfaced` of the realtime session, which counts holes against a counter and needs a theory of
cardinalities along the run, and the modules of the backfill, slice and rollup parts. Of these
`ManifestIsExact`, `BuildIsExact` and `CountedOnce` compare a whole computation with a
reference; they are checked over all inputs within the bounds.

## 5. How the properties were chosen

`PROJECT.json` lists the hazards: places where a test would hardly reach what
can go wrong, with the properties that would notice. Each property has a mutant, a plausible
slip in the mapped code (a dropped guard, a swapped order, a missing
reset), under which TLC finds the property violated. Hazards without a property
say why.

## 6. Finding

**Live priority leaves holes in the L1 history** (`normalize_backlog_hole`).
A drain starts after the newest success pointer (`normalize/discovery/pointer.rs:16`).
With live priority the newest window is run first, so its pointer is ahead of the
backlog. The counterexample needs no fault. A worker starts with no pointer and runs the
live window; `normalize/run/worker/drain.rs:26` then clears the oldest L0 object while no last
success was known, the mode decision has neither, and the drain ends. The next look-up returns the
end of the live window and catch-up starts there: the windows before it are never
run. When a last success is known, a drain that ends before the backlog is worked off (window
budget, an error, a restart) has the same effect. `normalize/mode/decision.rs:8` says
"sequential catch-up keeps the durable contiguous history correct".

Behaviour met while modelling that is part of the models and that a reader of the
properties should know:

* SIGTERM is not graceful for the realtime children of a supervisor: it kills them
  (`supervisor/mod.rs:147`, action `Leave`), so they do not flush or write a manifest, although
  the repository's README, line 100, says of SIGTERM "graceful shutdown (모든 buffer flush +
  manifest upload)". The properties of `realtime_session` about shutdown speak of a worker that
  receives the signal itself.
* A storage error of an append, a required live publish included, ends the session as a
  disconnect, and the worker may still exit with success; the repository's README, line 135, says of
  `--live-nats-required` "NATS publish 실패가 worker 실패로 이어진다".
* A shutdown does not end a connect or a REST call that never returns: the calls have no
  timeout (`binance/derivatives.rs:28`, `binance/storage_output/snapshots.rs:10`, `upbit/mod.rs:26`).
* Upbit's `advance_cursor` refuses only the cursor it already has (`backfill/upbit/cursor.rs:61`);
  two full pages in turn would keep a backfill going.
* A live run selects objects by the start times of producer runs
  (`normalize/input_keys/s3/selection.rs:36`), although the repository's README, line 185, says that
  `run_id` is not read as the range of a worker ("시간 범위로 해석하지 않는다").
* A run with `live_priority_only` reads the scan margin instead of the lookback (`normalize/run/decision.rs:37`) and reports volumes
  of zero for windows it never read.
* With an interval shorter than the watermark, catch-up waits for the interval only.
* One success pointer of a window makes the look-up return the window's end
  (`normalize/discovery/pointer.rs:36`): pointers not put before a kill are never put. The
  scheduler likewise looks at the first slot's pointer only
  (`supervisor/bootstrap/marker.rs:49`).
* The look-up ignores pointers with status empty, so an empty window is
  run again; it lists only the first page of an hour.
* Pointers are put for empty runs too (`normalize/publish/manifest_index/index.rs:52`),
  although the contract speaks of success-only pointers; the reader refuses them. A
  later empty run can replace the pointer of a success.
* A backfill child whose uploads failed exits 0, and a normalize child whose run
  was blocked exits 0; the scheduler sees the exit status only. `CompleteIsEarned`
  says what `complete.json` does stand for.
* A snapshot that does not parse leaves the book marked as synced: the
  exception that `BookFaithful` names.
* Two publishers that merge the same day's rollup can lose one's range; a range
  that is repeated with more data is ignored. `CountedOnce` speaks of what is counted, not of what is lost.
* Retention deletes the artifacts of a run before the pointer that names it, and the cap can
  end a pass between the two: a pointer older than the retention less the time of a run
  may lead to nothing. `YoungIsReadable` states the age below which it does not.
* Retention deletes by name: a pointer or rollup that is expired when it is listed and written again
  before its turn is deleted young. With the defaults supervised runs do not reach that far back
  (a lookback of 210 days, an L1 retention of 240); a run by hand with `--input-start-ms` may.
* With the default rates a loop deletes 4,000 objects a day, fewer than a day's pointers. That
  expired objects go while runs keep writing is not claimed.
* A chunk that is backfilled again stores its trades again, with other event ids
  (`storage/record.rs:57`: ingest time and ordinal); the slices deduplicate by
  event id only. `ManifestIsExact` speaks of one run.

## 7. Plan

Built so far, in this order: L0 sink and spool with their proofs, window choice, L1
publication with its proofs, supervisor with scheduler, depth book, realtime session,
backfill, the L1 build with its projections, the rollups, the abstract index and its
refinement, retention with its proofs, the proofs of window choice and supervisor, the proofs of
depth book and realtime session.

Left:

1. **The index at its other users**: `NormalizeWorker` and the scheduler's look-ups restated
   over `L1Index`, and an abstract store of records that `L0Sink` implements.
2. **Admissibility** field by field, including what the L1 audit compares.
3. **Live ticks**: the publisher's throttling and its optional and required modes.
4. **Backfill retries** across processes, composed with the deduplication of `SliceBuild`.

## 8. Not modelled

* In retention: protected prefixes, which no caller sets, and objects without a modification
  time, which are kept.
* The live tick publisher: a publish is one call whose error is an append error of
  the sink; the tick is a conversion of payload text.
* Stream URLs, payload parsing, domain types, parquet columns: stateless conversions.
  Where a component depends on a parse, the outcome (parses or not) is a choice.
* The numbers of the projections (price changes, correlation, volatility), and
  prices and sizes in slices: no property of this project tells them apart.
* Command lines and configuration: what they enforce appears as assumptions.
* Audit, preflight and logging: they read and report, and change no state.
* Several symbols in one realtime worker: the statistics are shared, the books are not.

## 9. Running the checks

    tlc -workers 2 -config L0Sink.cfg L0Sink
    tlapm L0Sink_proofs.tla

The module of each run and its config are in `PROJECT.json` under `runs`. Each run ends
within five minutes on two workers.

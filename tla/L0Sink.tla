------------------------------- MODULE L0Sink -------------------------------
(***************************************************************************)
(* The L0 storage sink of one ingest process (storage/sink.rs and its      *)
(* submodules): records are numbered, optionally published to the live     *)
(* stream, buffered per partition, and flushed as parquet parts that are   *)
(* written to the local spool, uploaded to S3 and sealed.                  *)
(*                                                                         *)
(* The sink is owned by one task, so its operations never overlap; a flush *)
(* is still several steps here because the process can die between them    *)
(* and because eviction (module L0Spool) and the normalizer look at the    *)
(* spool meanwhile.  A process that dies comes back with a new run_id and  *)
(* an empty sink; the spool and the bucket survive.                        *)
(***************************************************************************)
EXTENDS Integers, Sequences, FiniteSets, Functions

CONSTANTS
    RawPartition,          \* RawPartitionKey: venue, event type, hour, shard
    HealthPartition,       \* HealthPartitionKey
    SymbolHealthPartition, \* SymbolHealthPartitionKey
    GapPartition,          \* GapPartitionKey
    NoPartition,           \* no partition is being flushed
    FlushRecords,          \* config.flush_records
    MaxReportedObjects,    \* MAX_REPORTED_OBJECTS
    MaxReportedFailures,   \* MAX_REPORTED_FAILURES
    LiveNats,              \* "off", "optional" or "required": config.live_nats
    MaxOrdinal,            \* bound on the records of one run
    MaxRuns                \* bound on the number of process starts

Partition ==
    RawPartition \cup HealthPartition \cup SymbolHealthPartition \cup GapPartition

ASSUME SinkConfigValid ==
    /\ FlushRecords \in Nat \ {0}
    /\ MaxReportedObjects \in Nat \ {0}
    /\ MaxReportedFailures \in Nat \ {0}
    /\ MaxOrdinal \in Nat
    /\ MaxRuns \in Nat
    /\ LiveNats \in {"off", "optional", "required"}
    /\ NoPartition \notin Partition

VARIABLES
    run,            \* the run_id of the current (or last) process; fresh per start
    up,             \* the process is alive
    op,             \* the sink operation in progress
    publisher,      \* live_publisher is Some
    next_ordinal,
    buffers,        \* raw_/health_/symbol_health_/gap_buffers; absent is << >>
    part_numbers,   \* raw_/health_/symbol_health_/gap_part_numbers
    todo,           \* partitions flush_all has still to visit
    cur,            \* the partition being flushed, or NoPartition
    stage,          \* how far the flush of cur is
    batch,          \* the records taken out of the buffer of cur
    uploaded,       \* uploaded_objects with their count and dropped count
    failed,         \* failed_uploads with their count and dropped count
    manifest_key,   \* manifest_key is Some
    spool,          \* the local parquet files, by key
    clock,          \* wall clock: the time stamps of files and markers
    s3,             \* the parquet objects in the bucket, by key
    manifests       \* the manifest.json objects in the bucket, by run

sinkVars == <<op, publisher, next_ordinal, buffers, part_numbers, todo, cur,
              stage, batch, uploaded, failed, manifest_key>>
storeVars == <<spool, clock, s3, manifests>>

\* What became of records that are in no buffer and no file: history only.
VARIABLES
    rejected,       \* ordinals refused because the live publish failed
    lost            \* ordinals whose parquet file could not be written

ghosts == <<rejected, lost>>
vars == <<run, up, sinkVars, storeVars, ghosts>>

-----------------------------------------------------------------------------
(* Types and helpers *)

\* raw_object_key and its three siblings: family, partition, run and part.
Key == Nat \X Partition \X Nat
Ordinals == Seq(Nat)
\* recs are what a reader gets once the file is whole; sealed_at is the time
\* of the .sealed marker, 0 when there is none.
ParquetFile == [recs : Ordinals, whole : BOOLEAN, written_at : Nat, sealed_at : Nat]

\* One entry of the report lists; the family is that of the partition, and
\* the manifest's own entry has no partition.
ReportEntry == [key : Key \cup {"manifest"}, record_count : Nat]
CappedList == [objects : Seq(ReportEntry), count : Nat, dropped : Nat]
EmptyList == [objects |-> << >>, count |-> 0, dropped |-> 0]

\* The order in which flush_all visits the four buffer maps.
FamilyRank(p) == CASE p \in RawPartition          -> 1
                   [] p \in HealthPartition       -> 2
                   [] p \in SymbolHealthPartition -> 3
                   [] OTHER                       -> 4

\* Mutant: the dropped count is forgotten.
PushCappedUncounted(list, entry, cap) ==
    LET pushed == Append(list.objects, entry)
    IN  [objects |-> IF Len(pushed) > cap THEN Tail(pushed) ELSE pushed,
         count   |-> list.count + 1,
         dropped |-> list.dropped]

\* push_capped_deque together with the count its callers maintain.
PushCapped(list, entry, cap) ==
    LET pushed == Append(list.objects, entry)
        full   == Len(pushed) > cap
    IN  [objects |-> IF full THEN Tail(pushed) ELSE pushed,
         count   |-> list.count + 1,
         dropped |-> list.dropped + (IF full THEN 1 ELSE 0)]

\* StorageReport: what report() reads off the sink.
Report == [record_count |-> next_ordinal - 1,
           uploaded     |-> uploaded,
           failed       |-> failed,
           manifest_key |-> manifest_key]

Put(f, k, v) == [j \in DOMAIN f \cup {k} |-> IF j = k THEN v ELSE f[j]]

\* Mutant: the part number is left out of the object key.
CurKeyWithoutPart == <<run, cur, 1>>
CurKey == <<run, cur, part_numbers[cur]>>

-----------------------------------------------------------------------------
(* Operations *)

Init ==
    /\ run = 0 /\ up = FALSE
    /\ op = "idle" /\ publisher = FALSE /\ next_ordinal = 1
    /\ buffers = [p \in Partition |-> << >>]
    /\ part_numbers = [p \in Partition |-> 0]
    /\ todo = {} /\ cur = NoPartition /\ stage = "none" /\ batch = << >>
    /\ uploaded = EmptyList /\ failed = EmptyList /\ manifest_key = FALSE
    /\ spool = << >> /\ clock = 1 /\ s3 = << >> /\ manifests = << >>
    /\ rejected = {} /\ lost = {}

\* connect_live_publisher: a required publisher that cannot connect makes
\* `new` fail, so the process never gets a sink; an optional one is dropped.
Connected == CASE LiveNats = "off"      -> {FALSE}
               [] LiveNats = "optional" -> BOOLEAN
               [] LiveNats = "required" -> {TRUE}

\* The empty sink that `new` builds.
EmptySink ==
    /\ op' = "idle" /\ next_ordinal' = 1
    /\ buffers' = [p \in Partition |-> << >>]
    /\ part_numbers' = [p \in Partition |-> 0]
    /\ todo' = {} /\ cur' = NoPartition /\ stage' = "none" /\ batch' = << >>
    /\ uploaded' = EmptyList /\ failed' = EmptyList /\ manifest_key' = FALSE
    /\ rejected' = {} /\ lost' = {}

\* A process start: L0StorageSink::new under a new run_id.
New ==
    /\ ~up /\ run < MaxRuns
    /\ run' = run + 1 /\ up' = TRUE
    /\ publisher' \in Connected
    /\ EmptySink
    /\ UNCHANGED storeVars

\* publish_live_tick fails the append only when the live stream is required,
\* a publisher exists and the tick has a mark price.
PublishMayReject(p) ==
    p \in RawPartition /\ publisher /\ LiveNats = "required"

\* Mutants: every buffer is cleared; the buffer is copied and not removed.
TakeBatchClearsAll(p, records) ==
    /\ buffers' = [q \in Partition |-> << >>]
    /\ part_numbers' = [part_numbers EXCEPT ![p] = @ + 1]
    /\ cur' = p /\ stage' = "create" /\ batch' = records
TakeBatchKeepsBuffer(p, records) ==
    /\ buffers' = [buffers EXCEPT ![p] = records]
    /\ part_numbers' = [part_numbers EXCEPT ![p] = @ + 1]
    /\ cur' = p /\ stage' = "create" /\ batch' = records

\* flush_*_partition up to the parquet write: the buffer is taken out of the
\* map and the part number is consumed before anything is written.
TakeBatch(p, records) ==
    /\ buffers' = [buffers EXCEPT ![p] = << >>]
    /\ part_numbers' = [part_numbers EXCEPT ![p] = @ + 1]
    /\ cur' = p /\ stage' = "create" /\ batch' = records

\* append_*: number the record, publish it, buffer it, flush a full buffer.
AppendRecord(p) ==
    /\ up /\ op = "idle" /\ next_ordinal <= MaxOrdinal
    /\ next_ordinal' = next_ordinal + 1
    /\ LET records == Append(buffers[p], next_ordinal)
       IN  IF Len(records) >= FlushRecords
           THEN op' = "append" /\ TakeBatch(p, records)
           ELSE /\ buffers' = [buffers EXCEPT ![p] = records]
                /\ UNCHANGED <<op, part_numbers, cur, stage, batch>>
    /\ UNCHANGED <<run, up, publisher, todo, uploaded, failed, manifest_key,
                   storeVars, ghosts>>

\* append_raw_market_event returning the live publish error: the ordinal is
\* consumed and the record is buffered nowhere.
AppendRejected(p) ==
    /\ up /\ op = "idle" /\ next_ordinal <= MaxOrdinal
    /\ PublishMayReject(p)
    /\ next_ordinal' = next_ordinal + 1
    /\ rejected' = rejected \cup {next_ordinal}
    /\ UNCHANGED <<run, up, op, publisher, buffers, part_numbers, todo, cur,
                   stage, batch, uploaded, failed, manifest_key, storeVars, lost>>

\* flush_all, called on its own or as the first half of finalize_storage.
FlushAll(final) ==
    /\ up /\ op = "idle"
    /\ op' = IF final THEN "final_flush" ELSE "flush_all"
    /\ todo' = {p \in Partition : buffers[p] # << >>}
    /\ UNCHANGED <<run, up, publisher, next_ordinal, buffers, part_numbers, cur,
                   stage, batch, uploaded, failed, manifest_key, storeVars, ghosts>>

\* The next iteration of flush_all's four loops.
FlushNext(p) ==
    /\ up /\ op \in {"flush_all", "final_flush"} /\ cur = NoPartition
    /\ p \in todo
    /\ \A q \in todo : FamilyRank(p) <= FamilyRank(q)
    /\ todo' = todo \ {p}
    /\ TakeBatch(p, buffers[p])
    /\ UNCHANGED <<run, up, op, publisher, next_ordinal, uploaded, failed,
                   manifest_key, storeVars, ghosts>>

\* A flush of one partition is over: back to flush_all's loop, or to idle.
FlushReturns ==
    /\ cur' = NoPartition /\ stage' = "none" /\ batch' = << >>
    /\ op' = IF op = "append" THEN "idle" ELSE op
    /\ UNCHANGED todo

\* flush_all or append ends with an error: `?` leaves the loops at once.  The
\* final flush is the caller's last chance, its error ends the process.
OperationFails ==
    /\ cur' = NoPartition /\ stage' = "none" /\ batch' = << >> /\ todo' = {}
    /\ op' = "idle"
    /\ up' = (op # "final_flush")

\* File::create: the file exists and has no footer yet.
CreateParquet ==
    /\ up /\ stage = "create"
    /\ spool' = Put(spool, CurKey, [recs |-> << >>, whole |-> FALSE,
                                    written_at |-> clock, sealed_at |-> 0])
    /\ stage' = "write"
    /\ UNCHANGED <<run, up, op, publisher, next_ordinal, buffers, part_numbers, todo,
                   cur, batch, uploaded, failed, manifest_key, clock, s3,
                   manifests, ghosts>>

\* write_*_parquet succeeds: the file is whole, not yet sealed.
WriteParquet ==
    /\ up /\ stage = "write"
    /\ spool' = Put(spool, CurKey, [recs |-> batch, whole |-> TRUE,
                                    written_at |-> clock, sealed_at |-> 0])
    /\ stage' = "upload"
    /\ UNCHANGED <<run, up, op, publisher, next_ordinal, buffers, part_numbers, todo,
                   cur, batch, uploaded, failed, manifest_key, clock, s3,
                   manifests, ghosts>>

\* create_dir_all, File::create or the write fails: the records are gone, and
\* a file that was created stays behind without a footer.
WriteParquetFails ==
    /\ up /\ stage \in {"create", "write"}
    /\ lost' = lost \cup Range(batch)
    /\ OperationFails
    /\ UNCHANGED <<run, publisher, next_ordinal, buffers, part_numbers, uploaded,
                   failed, manifest_key, storeVars, rejected>>

\* Mutant: the upload is started and not awaited.
UploadNotAwaited ==
    /\ up /\ stage = "upload"
    /\ stage' = "seal"
    /\ UNCHANGED <<run, up, op, publisher, next_ordinal, buffers, part_numbers, todo,
                   cur, batch, uploaded, failed, manifest_key, storeVars, ghosts>>

\* upload_file reads the local file and the put succeeds.
UploadOk ==
    /\ up /\ stage = "upload" /\ CurKey \in DOMAIN spool
    /\ s3' = Put(s3, CurKey, spool[CurKey].recs)
    /\ stage' = "seal"
    /\ UNCHANGED <<run, up, op, publisher, next_ordinal, buffers, part_numbers, todo,
                   cur, batch, uploaded, failed, manifest_key, spool, clock,
                   manifests, ghosts>>

\* upload_file cannot read the file, or fails after its retries; the object may have landed all the
\* same.  The failure is recorded and the flush still returns Ok.
UploadFails ==
    /\ up /\ stage = "upload"
    /\ \/ UNCHANGED s3
       \/ CurKey \in DOMAIN spool /\ s3' = Put(s3, CurKey, spool[CurKey].recs)
    /\ failed' = PushCapped(failed, [key |-> CurKey, record_count |-> Len(batch)],
                            MaxReportedFailures)
    /\ FlushReturns
    /\ UNCHANGED <<run, up, publisher, next_ordinal, buffers, part_numbers, uploaded,
                   manifest_key, spool, clock, manifests, ghosts>>

\* The .sealed marker, written best effort, and record_uploaded_object.
SealAndRecord ==
    /\ up /\ stage = "seal"
    /\ \/ /\ spool' = [spool EXCEPT ![CurKey].sealed_at = clock]
          /\ clock' = clock + 1
       \/ UNCHANGED <<spool, clock>>
    /\ uploaded' = PushCapped(uploaded, [key |-> CurKey, record_count |-> Len(batch)],
                              MaxReportedObjects)
    /\ FlushReturns
    /\ UNCHANGED <<run, up, publisher, next_ordinal, buffers, part_numbers, failed,
                   manifest_key, s3, manifests, ghosts>>

\* flush_all after its loops: the live publisher is flushed, which may fail.
FlushAllReturns ==
    /\ up /\ op \in {"flush_all", "final_flush"} /\ cur = NoPartition /\ todo = {}
    /\ op' = IF op = "final_flush" THEN "manifest" ELSE "idle"
    /\ UNCHANGED <<run, up, publisher, next_ordinal, buffers, part_numbers, todo, cur,
                   stage, batch, uploaded, failed, manifest_key, storeVars, ghosts>>

FlushAllFails ==
    /\ up /\ op \in {"flush_all", "final_flush"} /\ cur = NoPartition /\ todo = {}
    /\ publisher
    /\ OperationFails
    /\ UNCHANGED <<run, publisher, next_ordinal, buffers, part_numbers, uploaded,
                   failed, manifest_key, storeVars, ghosts>>

ManifestEntry == [key |-> "manifest", record_count |-> 1]

\* The report upload_manifest serialises: report() with the manifest's own
\* entry appended (append_capped) and counted.
ManifestReport ==
    [record_count |-> Report.record_count,
     uploaded     |-> PushCapped(Report.uploaded, ManifestEntry, MaxReportedObjects),
     failed       |-> Report.failed,
     manifest_key |-> TRUE]

\* upload_manifest and the end of the process.
UploadManifest ==
    /\ up /\ op = "manifest"
    /\ manifest_key' = TRUE
    /\ manifests' = Put(manifests, run, ManifestReport)
    /\ uploaded' = PushCapped(uploaded, ManifestEntry, MaxReportedObjects)
    /\ op' = "idle" /\ up' = FALSE
    /\ UNCHANGED <<run, publisher, next_ordinal, buffers, part_numbers, todo, cur,
                   stage, batch, failed, spool, clock, s3, ghosts>>

\* upload_manifest fails after its retries: manifest_key is already set, the
\* process ends.  As with the parts, the put may have landed all the same.
UploadManifestFails ==
    /\ up /\ op = "manifest"
    /\ manifest_key' = TRUE
    /\ \/ UNCHANGED manifests
       \/ manifests' = Put(manifests, run, ManifestReport)
    /\ op' = "idle" /\ up' = FALSE
    /\ UNCHANGED <<run, publisher, next_ordinal, buffers, part_numbers, todo, cur,
                   stage, batch, uploaded, failed, spool, clock, s3, ghosts>>

\* The process is killed (the supervisor kills with SIGKILL) or panics: its
\* memory is gone, a parquet write in progress leaves a file without footer,
\* an upload in progress, of a part or of the manifest, may still land.
Crash ==
    /\ up
    /\ up' = FALSE
    /\ \/ UNCHANGED <<s3, manifests>>
       \/ /\ stage = "upload" /\ CurKey \in DOMAIN spool
          /\ s3' = Put(s3, CurKey, spool[CurKey].recs)
          /\ UNCHANGED manifests
       \/ /\ op = "manifest"
          /\ manifests' = Put(manifests, run, ManifestReport)
          /\ UNCHANGED s3
    /\ EmptySink /\ publisher' = FALSE
    /\ UNCHANGED <<run, spool, clock>>

FlushStep ==
    \/ \E p \in Partition : FlushNext(p)
    \/ CreateParquet \/ WriteParquet \/ WriteParquetFails
    \/ UploadOk \/ UploadFails
    \/ SealAndRecord
    \/ FlushAllReturns \/ FlushAllFails
    \/ UploadManifest \/ UploadManifestFails

Next ==
    \/ New
    \/ \E p \in Partition : AppendRecord(p) \/ AppendRejected(p)
    \/ \E final \in BOOLEAN : FlushAll(final)
    \/ FlushStep
    \/ Crash

Spec == Init /\ [][Next]_vars

-----------------------------------------------------------------------------
(* Properties *)

\* The fields of L0Sink, its spool and its bucket hold values of their types.
TypeOK ==
    /\ run \in Nat /\ up \in BOOLEAN
    /\ op \in {"idle", "append", "flush_all", "final_flush", "manifest"}
    /\ publisher \in BOOLEAN
    /\ next_ordinal \in Nat \ {0}
    /\ buffers \in [Partition -> Ordinals]
    /\ part_numbers \in [Partition -> Nat]
    /\ todo \in SUBSET Partition
    /\ cur \in Partition \cup {NoPartition}
    /\ stage \in {"none", "create", "write", "upload", "seal"}
    /\ batch \in Ordinals
    /\ uploaded \in CappedList /\ failed \in CappedList
    /\ manifest_key \in BOOLEAN
    /\ DOMAIN spool \subseteq Key /\ spool \in [DOMAIN spool -> ParquetFile]
    /\ clock \in Nat \ {0}
    /\ DOMAIN s3 \subseteq Key /\ s3 \in [DOMAIN s3 -> Ordinals]
    /\ DOMAIN manifests \subseteq Nat
    /\ rejected \in SUBSET Nat /\ lost \in SUBSET Nat

\* The places a record of the current run can be in: refused, in a lost
\* batch, in a buffer, in the batch not yet written, in a local file.
InBuffer(o) == \E p \in Partition : o \in Range(buffers[p])
Unwritten(o) == stage \in {"create", "write"} /\ o \in Range(batch)
InSpool(o) == \E k \in DOMAIN spool : k[1] = run /\ o \in Range(spool[k].recs)

\* Every ordinal handed out by take_ordinal of a live sink is accounted for:
\* a record leaves its buffer only towards a file, and is dropped only by a
\* refused live publish or a failed parquet write (sink.rs, flush.rs).
NothingForgotten ==
    up => \A o \in 1 .. next_ordinal - 1 :
            o \in rejected \/ o \in lost \/ InBuffer(o) \/ Unwritten(o) \/ InSpool(o)

\* No event reaches the bucket twice: across restarts, failed uploads that
\* landed and torn writes, one record is in at most one position of one
\* object of its run (run_id and part numbers keep keys apart).
NoRecordStoredTwice ==
    \A k \in DOMAIN s3 : \A l \in DOMAIN s3 :
        \A i \in DOMAIN s3[k] : \A j \in DOMAIN s3[l] :
            (k[1] = l[1] /\ s3[k][i] = s3[l][j]) => (k = l /\ i = j)

\* A .sealed marker means the object is in the bucket with the very records
\* of the local file: what lets eviction delete the file.
SealedIsDurable ==
    \A k \in DOMAIN spool :
        spool[k].sealed_at > 0 => k \in DOMAIN s3 /\ s3[k] = spool[k].recs

\* An object in the bucket is never overwritten with other records, whatever
\* restarts and retries happen (next_part_number, run_id in the key).
ObjectsImmutable ==
    [][\A k \in DOMAIN s3 : k \in DOMAIN s3' /\ s3'[k] = s3[k]]_vars

\* A report list keeps the newest entries up to its cap, and kept and dropped
\* entries add up to the count (push_capped_deque).
Adds(list, cap) == Len(list.objects) <= cap /\ list.count = Len(list.objects) + list.dropped

\* What an entry says: the object is in the bucket; the file is in the spool,
\* whole and never sealed.
SaysStored(e, bucket) ==
    e.key # "manifest" => e.key \in DOMAIN bucket /\ e.record_count = Len(bucket[e.key])
SaysWaiting(e, files) ==
    /\ e.key \in DOMAIN files
    /\ files[e.key].whole /\ files[e.key].sealed_at = 0
    /\ e.record_count = Len(files[e.key].recs)

Honest(report, bucket, files) ==
    /\ Adds(report.uploaded, MaxReportedObjects) /\ Adds(report.failed, MaxReportedFailures)
    /\ \A i \in DOMAIN report.uploaded.objects : SaysStored(report.uploaded.objects[i], bucket)
    /\ \A i \in DOMAIN report.failed.objects : SaysWaiting(report.failed.objects[i], files)

\* The report of the running sink and every manifest in the bucket tell the
\* truth, and go on telling it through all later runs: the lists add up, what
\* they call uploaded is in the bucket, what they call failed waits in the
\* spool.  A manifest closes its run: no record of that run is, or gets,
\* beyond its record_count.  It is the report the process ends with, or, when
\* its put landed and the answer was lost (state.rs, put.rs), that report with
\* the manifest's own entry, which the sink then never records.
ReportHonest ==
    /\ Honest(Report, s3, spool)
    /\ \A r \in DOMAIN manifests :
          /\ r = run => ~up
          /\ Honest(manifests[r], s3, spool)
          /\ \A k \in DOMAIN s3 : k[1] = r =>
                \A i \in DOMAIN s3[k] : s3[k][i] <= manifests[r].record_count
    /\ manifest_key /\ run \in DOMAIN manifests => manifests[run] \in {Report, ManifestReport}
=============================================================================

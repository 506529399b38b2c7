--------------------------- MODULE NormalizeBuild ---------------------------
(***************************************************************************)
(* The reading half of an L1 run (normalize/read, normalize/input_keys):   *)
(* the L0 objects of the read range are listed, in the local spool first   *)
(* when the run is live and then prefix by prefix in the bucket, fetched   *)
(* up to sixteen at a time, folded into the accumulator of SliceBuild in   *)
(* the order in which they arrive, and the temporary files removed.        *)
(*                                                                         *)
(* Meanwhile the ingest process writes objects to the spool, uploads them, *)
(* and evicts uploaded ones (modules L0Sink and L0Spool).                  *)
(***************************************************************************)
EXTENDS Projections

CONSTANTS
    Worlds,        \* what L0 holds and is going to hold when the run starts
    HourMs,
    RunKeyOverlap, \* args.l0_run_key_overlap_ms
    MaxFaults      \* bound: failed listings and downloads

\* The rows of each family, as far as the builder looks at them.
RawRow == [id : Int, kind : STRING, symbol : STRING, time : Int, ingest : Int, sequence : Int,
           parses : BOOLEAN, schema_ok : BOOLEAN, hash_ok : BOOLEAN]
SymbolHealthRow == [symbol : STRING, at : Int, received : Int, is_tradeable : BOOLEAN,
                    schema_ok : BOOLEAN, hash_ok : BOOLEAN]
SourceHealthRow == [at : Int, connected : BOOLEAN, healthy : BOOLEAN,
                    schema_ok : BOOLEAN, hash_ok : BOOLEAN]
GapRow == [symbol : STRING, at : Int, schema_ok : BOOLEAN, hash_ok : BOOLEAN]

Families == {"raw_market_event", "symbol_health", "source_health", "gap_alert"}
Rows(family) ==
    CASE family = "raw_market_event" -> RawRow
      [] family = "symbol_health" -> SymbolHealthRow
      [] family = "source_health" -> SourceHealthRow
      [] family = "gap_alert" -> GapRow

\* exchange_timestamp_ms, observed_at_ms or detected_at_ms
RowTime(o, i) == IF o.family = "raw_market_event" THEN o.rows[i].time ELSE o.rows[i].at

\* The partition functions of the sink: the hour in the key of an object is
\* that of each of its rows.
Partitioned(o) == \A i \in DOMAIN o.rows : RowTime(o, i) \div HourMs = o.hour

ASSUME ReadArgsValid == HourMs \in Nat \ {0} /\ RunKeyOverlap \in Nat

ASSUME WorldsValid ==
    \A w \in Worlds :
        /\ IsFiniteSet(DOMAIN w.objects)
        /\ w.spool \subseteq DOMAIN w.objects /\ w.s3 \subseteq DOMAIN w.objects
        /\ w.priority_only \in BOOLEAN
        /\ \A k \in DOMAIN w.objects :
              /\ w.objects[k].family \in Families /\ w.objects[k].run \in Int
              /\ w.objects[k].rows \in Seq(Rows(w.objects[k].family))
              /\ Partitioned(w.objects[k])

VARIABLES
    world,     \* the world of this behaviour, constant
    spool, s3, \* the keys of the objects in the local spool and in the bucket
    partial,   \* the files of the spool that are still being written
    waiting,   \* the keys the ingest process has still to write
    faults,
    pc,        \* "list", "read", "done" or "failed"
    step,      \* the next listing step
    offered,   \* the objects there were for this run when its listing began
    entries,   \* key -> "local" or "s3": the entries listed so far
    unread,    \* entries not yet folded
    tmp,       \* downloaded files in the session directory
    acc,       \* BuildAccumulator
    result     \* BuildResult, once there is one

l0 == <<world, spool, s3, partial, waiting>>
vars == <<l0, faults, pc, step, offered, entries, unread, tmp, acc, result>>

\* An object: its family, its prefix in the bucket, the hour and the start
\* of the run in its key, and its rows.
Object(k) == world.objects[k]
Keys == DOMAIN world.objects
live == world.mode = "live"

(***************************************************************************)
(* Listing                                                                  *)
(***************************************************************************)

\* read_range of run_decision_body.  A run with live_priority_only reads no
\* more than the scan margin before its input, whatever its lookback.
ReadStart ==
    LET lookback == IF world.priority_only THEN ScanMargin ELSE ProjectionLookback
    IN  InputStart - Max({ScanMargin, lookback})
ReadEnd == InputEnd + ScanMargin

first_hour == ReadStart \div HourMs
last_hour == (ReadEnd - 1) \div HourMs
hourly_parts == first_hour..last_hour

\* input_prefixes_for_part, for one venue and with the types of a family as
\* one prefix.  Gap types outside GAP_ALERT_TYPES have no prefix.
InputPrefixes == <<"raw_market_event", "symbol_health", "source_health", "gap_alert">>

\* s3_input_keys lists the prefixes of each hour, hour by hour.
BucketSteps ==
    LET n == Len(InputPrefixes)
    IN  [i \in 1..n * (last_hour + 1 - first_hour) |->
            [prefix |-> InputPrefixes[((i - 1) % n) + 1], hour |-> first_hour + (i - 1) \div n]]
LocalStep == [prefix |-> "local", hour |-> first_hour]

\* Mutant: the bucket is listed before the spool.
BucketFirst == Append(BucketSteps, LocalStep)

\* collect_input_entries
ListingSteps == <<LocalStep>> \o BucketSteps

\* next_run_start_ms; the last run is taken to be still going.
NextRun(runs, r) == LET later == {q \in runs : q > r} IN IF later = {} THEN ReadEnd ELSE Min(later)

\* select_s3_keys: a live run skips the objects of runs that began after
\* the range, or had a successor more than the overlap before it.
select_s3_keys(keys) ==
    LET runs == {Object(k).run : k \in keys}
    IN  {k \in keys : live => /\ Object(k).run < ReadEnd
                               /\ NextRun(runs, Object(k).run) > ReadStart - RunKeyOverlap}

Listed(s) ==
    IF s.prefix = "local" THEN {k \in spool : live /\ Object(k).hour \in hourly_parts}
    ELSE select_s3_keys({k \in s3 : Object(k).prefix = s.prefix /\ Object(k).hour = s.hour})

\* merge_entries: the entry listed first, the local one, is kept.
merge_entries(keys, source) == OrInsert(entries, [k \in keys |-> source])

List ==
    /\ pc = "list"
    /\ LET s == ListingSteps[step]
       IN  entries' = merge_entries(Listed(s), IF s.prefix = "local" THEN "local" ELSE "s3")
    /\ offered' = IF step > 1 THEN offered
                  ELSE s3 \cup (IF live THEN spool \ partial ELSE {})
    /\ step' = step + 1
    /\ pc' = IF step = Len(ListingSteps) THEN "read" ELSE "list"
    /\ unread' = IF pc' = "read" THEN DOMAIN entries' ELSE {}
    /\ UNCHANGED <<l0, faults, tmp, acc, result>>

(***************************************************************************)
(* Reading                                                                  *)
(***************************************************************************)

\* run_decision removes the session directory whatever the outcome.
Fail ==
    /\ pc' = "failed"
    /\ tmp' = {}
    /\ UNCHANGED <<l0, step, offered, entries, unread, acc, result>>

\* materialize_entry of an object in the bucket.
Download(k) ==
    /\ pc = "read" /\ k \in unread \ tmp /\ entries[k] = "s3"
    /\ tmp' = tmp \cup {k}
    /\ UNCHANGED <<l0, faults, pc, step, offered, entries, unread, acc, result>>

\* append_batches_to_accumulator: the rows of an object, one after the other.
append_batches(first, o) ==
    LET upto[n \in 0..Len(o.rows)] ==
            IF n = 0 THEN first ELSE append_accumulator_row(upto[n - 1], o.family, o.rows[n])
    IN  upto[Len(o.rows)]

\* An object is appended, and its file removed if it was downloaded.
FoldEntry(k) ==
    /\ pc = "read" /\ k \in unread
    /\ IF entries[k] = "s3" THEN k \in tmp ELSE k \in spool \ partial
    /\ acc' = append_batches(acc, Object(k))
    /\ unread' = unread \ {k}
    /\ tmp' = tmp \ {k}
    /\ UNCHANGED <<l0, faults, pc, step, offered, entries, result>>

\* A listed file was evicted since, or has no Parquet footer yet.
UnreadableFile(k) ==
    /\ pc = "read" /\ k \in unread /\ entries[k] = "local"
    /\ k \in partial \/ k \notin spool
    /\ Fail
    /\ UNCHANGED faults

\* A listing or a download fails.
StorageFails ==
    /\ faults < MaxFaults
    /\ \/ pc = "list"
       \/ pc = "read" /\ \E k \in unread \ tmp : entries[k] = "s3"
    /\ faults' = faults + 1
    /\ Fail

\* finish; fallback_alert says that a live run needed the bucket.
FinishRun ==
    /\ pc = "read" /\ unread = {}
    /\ result' = Finish(acc, live /\ \E k \in DOMAIN entries : entries[k] = "s3")
    /\ pc' = "done"
    /\ tmp' = {}
    /\ UNCHANGED <<l0, faults, step, offered, entries, unread, acc>>

(***************************************************************************)
(* The ingest process, seen from here                                       *)
(***************************************************************************)

reader == <<faults, pc, step, offered, entries, unread, tmp, acc, result>>

\* ArrowWriter creates the file under its final name and closes it later.
SinkCreates(k) ==
    /\ k \in waiting
    /\ waiting' = waiting \ {k} /\ spool' = spool \cup {k} /\ partial' = partial \cup {k}
    /\ UNCHANGED <<world, s3, reader>>

SinkCloses(k) ==
    /\ k \in partial
    /\ partial' = partial \ {k}
    /\ UNCHANGED <<world, spool, s3, waiting, reader>>

Uploads(k) ==
    /\ k \in spool \ (partial \cup s3)
    /\ s3' = s3 \cup {k}
    /\ UNCHANGED <<world, spool, partial, waiting, reader>>

\* evict_once only takes raw market events that are in the bucket.
Evicts(k) ==
    /\ k \in spool \cap s3 /\ Object(k).family = "raw_market_event"
    /\ spool' = spool \ {k}
    /\ UNCHANGED <<world, s3, partial, waiting, reader>>

Init ==
    /\ world \in Worlds
    /\ spool = world.spool /\ s3 = world.s3 /\ partial = {} /\ waiting = Keys \ (spool \cup s3)
    /\ faults = 0 /\ pc = "list" /\ step = 1 /\ offered = {}
    /\ entries = <<>> /\ unread = {} /\ tmp = {}
    /\ acc = NewAccumulator /\ result = [status |-> "none"]

Reader ==
    \/ List \/ StorageFails \/ FinishRun
    \/ \E k \in Keys : Download(k) \/ FoldEntry(k) \/ UnreadableFile(k)

Sink == \E k \in Keys : SinkCreates(k) \/ SinkCloses(k) \/ Uploads(k) \/ Evicts(k)

Next == Reader \/ Sink

Spec == Init /\ [][Next]_vars

(***************************************************************************)
(* Properties                                                               *)
(***************************************************************************)

\* The times of an object's rows.
Times(k) == {RowTime(Object(k), i) : i \in DOMAIN Object(k).rows}

\* The runs with an object of the same hour and prefix.
Peers(k) == {Object(q).run : q \in {q \in Keys : /\ Object(q).prefix = Object(k).prefix
                                                 /\ Object(q).hour = Object(k).hour}}

\* An object is needed when it has a row in the read range.
Needed(k) ==
    /\ Object(k).prefix \in ToSet(InputPrefixes)
    /\ \E t \in Times(k) : ReadStart <= t /\ t < ReadEnd

\* A live run may pass over what a producer run wrote that began after the
\* range, or that had a successor more than the overlap before it.
TakenForOver(k) ==
    live /\ ~(/\ Object(k).run < ReadEnd
              /\ NextRun(Peers(k), Object(k).run) > ReadStart - RunKeyOverlap)

\* Safety (collect_input_entries, select_s3_keys): every needed object that
\* existed when the listing began is an entry when it ends, although the
\* object may be uploaded and evicted between two listing steps.  Only a live
\* run passes over rows of its range, by the producer runs' start times: the
\* repository's README has it that run_id is not read as a range of time.
InputsListed ==
    pc \in {"read", "done"} => {k \in offered : Needed(k) /\ ~TakenForOver(k)} \subseteq DOMAIN entries

\* What was read: the rows of the entries of a family, each with its place.
RowsOf(k) == {<<k, i, Object(k).rows[i]>> : i \in DOMAIN Object(k).rows}
Read(family) == UNION {RowsOf(k) : k \in {k \in DOMAIN entries : Object(k).family = family}}
AllRead == UNION {Read(f) : f \in Families}
Row(o) == o[3]

Sound(o) == Row(o).schema_ok /\ Row(o).hash_ok
Timely(o) == Row(o).time > 0 /\ Row(o).time < ReadEnd + ClockSkewMargin
Usable == {o \in Read("raw_market_event") : Sound(o) /\ Timely(o)}

\* The ways to keep one row of each event id.
OnePerId ==
    {kept \in SUBSET Usable :
        /\ {Row(o).id : o \in kept} = {Row(o).id : o \in Usable}
        /\ \A o, q \in kept : Row(o).id = Row(q).id => o = q}

EventsOf(kept, key) ==
    {e \in {Row(o) : o \in kept} :
        e.symbol = key[1] /\ key[2] <= e.time /\ e.time < key[2] + WindowMs}

Sorted(events) == \A i, j \in DOMAIN events : i < j => ~EventOrder(events[j], events[i])

\* A slice holds exactly the parsed trades and books of its window, in
\* exchange order, and counts the others.
ExactSlice(slice, events) ==
    LET trades == {e \in events : e.kind = "trade" /\ e.parses}
        books == {e \in events : e.kind \in {"book_ticker", "depth_snapshot"} /\ e.parses}
        others == {e \in events : e.kind \in {"depth_delta", "ticker"}}
        counted == trades \cup books \cup others
        delayed == {e \in counted : e.ingest > e.time + MaxLatency}
    IN  /\ ToSet(slice.trades) = trades /\ Len(slice.trades) = Cardinality(trades)
        /\ ToSet(slice.books) = books /\ Len(slice.books) = Cardinality(books)
        /\ Sorted(slice.trades) /\ Sorted(slice.books)
        /\ \A e \in trades : e.id = slice.last_trade =>
               \A q \in trades \ {e} : EventOrder(q, e)
        /\ slice.depth_event_count =
               Cardinality({e \in events : e.kind \in {"depth_delta", "depth_snapshot"}})
        /\ slice.quality_delayed = Cardinality(delayed)
        /\ slice.quality_ok = Cardinality(counted \ delayed)

\* Safety (ingest_raw_event to finish): whatever the order in which the
\* objects arrive, the result is the one obtained from the set of rows read
\* by keeping one row of every event id: a slice for each window of each
\* symbol with an event in the input range, holding that window's events in
\* exchange order; records and duplicates are counted; one row whose payload
\* hash is wrong blocks the run.
BuildIsExact ==
    pc = "done" =>
        /\ result.input_record_count = Cardinality(AllRead)
        /\ result.status = "blocked" <=>
              \E o \in AllRead : Row(o).schema_ok /\ ~Row(o).hash_ok
        /\ \E kept \in OnePerId :
              /\ result.duplicate_event_count = Cardinality(Usable \ kept)
              /\ LET spot == {o \in kept : Row(o).kind \notin Derivative /\ In(Row(o).time, input_range)}
                 IN  DOMAIN result.slices = {Row(o).symbol : o \in spot} \X WindowStarts(input_range)
              /\ \A key \in DOMAIN result.slices : ExactSlice(result.slices[key], EventsOf(kept, key))

\* The sound reports that no other one up to the end of the window is later than.
LastReports(reports, w) ==
    LET known == {o \in reports : Sound(o) /\ Row(o).at <= w + WindowMs}
    IN  {o \in known : \A q \in known : Row(q).at <= Row(o).at}
SymbolReports(symbol) == {o \in Read("symbol_health") : Row(o).symbol = symbol}

Published == pc = "done" /\ result.status = "success"

\* A quality summary that reports full coverage, nobody unhealthy and nothing
\* missing, stale, delayed or interrupted.
NoComplaint(q) ==
    /\ q.covered = Cardinality(DOMAIN result.slices)
    /\ q.source_health_status = "healthy" /\ q.symbol_health_status = "healthy"
    /\ ~q.missing /\ ~q.stale /\ ~q.delayed /\ q.gap_count = 0

\* An event that counts neither as late nor as unreadable: its type is known,
\* its trade or book ticker can be read, and it was not late, or is a depth
\* snapshot without a readable top, whose latency is not looked at.
Clean(e) ==
    /\ e.kind \in {"trade", "book_ticker", "depth_snapshot", "depth_delta", "ticker"}
    /\ e.kind \in {"trade", "book_ticker"} => e.parses
    /\ e.ingest <= e.time + MaxLatency \/ (e.kind = "depth_snapshot" /\ ~e.parses)

\* Safety (completeness, apply_health_and_gaps): a slice is only called
\* complete (or reference_only) when it has a top of book, each of its events
\* is clean, its symbol was last reported tradeable and fresh,
\* its source was last reported healthy, and no gap alert falls into it.  A
\* quality summary without complaint is only published when no slice is
\* degraded, except by unreadable events, which the summary does not report.
CompleteIsClean ==
    pc = "done" => \A key \in DOMAIN result.slices :
        /\ Published /\ NoComplaint(build_market_data_quality_summary(result.slices)) =>
              \/ result.slices[key].slice_completeness \in {"complete", "reference_only"}
              \/ result.slices[key].quality_invalid > 0
        /\ result.slices[key].slice_completeness \in {"complete", "reference_only"} =>
            /\ result.slices[key].books # <<>>
            /\ \E kept \in OnePerId :
                  \A e \in EventsOf(kept, key) : e.kind \notin Derivative => Clean(e)
            /\ \E o \in LastReports(SymbolReports(key[1]), key[2]) :
                  Row(o).is_tradeable /\ Row(o).received >= key[2]
            /\ \E o \in LastReports(Read("source_health"), key[2]) :
                  Row(o).connected /\ Row(o).healthy
            /\ \A o \in Read("gap_alert") :
                  Sound(o) => Row(o).symbol # key[1] \/ WindowOf(Row(o).at) # key[2]

\* A usable event of one of the kinds was read for the symbol and the window.
EventRead(kinds, symbol, w) ==
    \E o \in Usable : /\ Row(o).symbol = symbol /\ WindowOf(Row(o).time) = w
                      /\ Row(o).parses /\ Row(o).kind \in kinds
PriceRead(symbol, w) == EventRead({"trade", "book_ticker", "depth_snapshot"}, symbol, w)
TradeRead(symbol, w) == EventRead({"trade"}, symbol, w)


============================================================================

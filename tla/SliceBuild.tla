----------------------------- MODULE SliceBuild -----------------------------
(***************************************************************************)
(* How an L1 run turns L0 rows into slices (normalize/build and            *)
(* normalize/quality), for one venue.                                      *)
(*                                                                         *)
(* BuildAccumulator is a record, its ingest_* methods map an accumulator   *)
(* and a row to the next accumulator, and Finish maps the last one to the  *)
(* BuildResult.  A row carries what the builder looks at: whether schema   *)
(* and payload hash are right, its times, its symbol, and whether the      *)
(* payload parses.  Prices, sizes and texts are left out; a trade or book  *)
(* event is its row.                                                       *)
(***************************************************************************)
EXTENDS Integers, Sequences, FiniteSets, FiniteSetsExt, SequencesExt

CONSTANTS
    InputStart, InputEnd,   \* input_range, aligned to WindowMs
    WindowMs,
    ProjectionLookback,     \* args.projection_lookback_ms
    ScanMargin,             \* args.scan_margin_ms
    ClockSkewMargin,        \* args.clock_skew_margin_ms
    MaxLatency,             \* args.max_latency_ms
    Venue                   \* "binance" or "upbit"

ASSUME BuildArgsValid ==
    /\ WindowMs \in Nat \ {0}
    /\ InputStart \in Int /\ InputEnd \in Int
    /\ InputStart % WindowMs = 0 /\ InputEnd % WindowMs = 0 /\ InputStart < InputEnd
    /\ ProjectionLookback \in Nat /\ ProjectionLookback % WindowMs = 0
    /\ ScanMargin \in Nat /\ ClockSkewMargin \in Nat /\ MaxLatency \in Nat
    /\ Venue \in {"binance", "upbit"}

\* The role the venue's events, and so its slices, carry.
SourceRole == IF Venue = "binance" THEN "reference" ELSE "execution"

input_range == [start |-> InputStart, end |-> InputEnd]
projection_range == [start |-> InputStart - ProjectionLookback, end |-> InputEnd]
In(t, range) == range.start <= t /\ t < range.end

(***************************************************************************)
(* Slices                                                                   *)
(***************************************************************************)

empty_slice ==
    [trades |-> <<>>, books |-> <<>>, depth_event_count |-> 0, ticker_count |-> 0,
     quality_ok |-> 0, quality_delayed |-> 0, quality_stale |-> 0, quality_gap |-> 0,
     quality_invalid |-> 0, missing_reasons |-> {}, parent_event_ids |-> {},
     symbol_health_snapshot |-> <<>>, source_health_snapshot |-> <<>>,
     slice_completeness |-> "", last_trade |-> 0, best_bid_ask |-> 0]

WindowStarts(range) == {w \in range.start..range.end - 1 : (w - range.start) % WindowMs = 0}
WindowOf(t) == (t \div WindowMs) * WindowMs

\* The map with the entries of another one whose keys it does not have yet.
OrInsert(map, others) ==
    [key \in DOMAIN map \cup DOMAIN others |-> IF key \in DOMAIN map THEN map[key] ELSE others[key]]

\* A slice for every window of the range; slices that exist are kept.
seed_identity_slices(range, symbol, rows) ==
    OrInsert(rows, [key \in {symbol} \X WindowStarts(range) |-> empty_slice])

mark_event_quality(row, e) ==
    IF e.ingest - e.time > MaxLatency
    THEN [row EXCEPT !.quality_delayed = @ + 1]
    ELSE [row EXCEPT !.quality_ok = @ + 1]

push_parent(row, e) == [row EXCEPT !.parent_event_ids = @ \cup {e.id}]

mark_invalid(row, reason) ==
    [row EXCEPT !.quality_invalid = @ + 1, !.missing_reasons = @ \cup {reason}]

apply_trade_event(row, e) ==
    IF e.parses
    THEN push_parent(mark_event_quality([row EXCEPT !.trades = Append(@, e)], e), e)
    ELSE mark_invalid(row, "parse_trade_failed")

\* A depth snapshot counts as depth whether or not its top of book parses.
apply_book_event(row, e) ==
    LET top == IF e.parses
               THEN push_parent(mark_event_quality([row EXCEPT !.books = Append(@, e)], e), e)
               ELSE IF e.kind = "book_ticker" THEN mark_invalid(row, "parse_book_ticker_failed")
               ELSE row
    IN  IF e.kind = "depth_snapshot"
        THEN push_parent([top EXCEPT !.depth_event_count = @ + 1], e)
        ELSE top

apply_compact_depth_event(row, e) ==
    push_parent(mark_event_quality([row EXCEPT !.depth_event_count = @ + 1], e), e)

apply_ticker_event(row, e) ==
    push_parent(mark_event_quality([row EXCEPT !.ticker_count = @ + 1], e), e)

ApplyToSlice(row, e) ==
    CASE e.kind = "trade" -> apply_trade_event(row, e)
      [] e.kind \in {"book_ticker", "depth_snapshot"} -> apply_book_event(row, e)
      [] e.kind = "depth_delta" -> apply_compact_depth_event(row, e)
      [] e.kind = "ticker" -> apply_ticker_event(row, e)
      [] OTHER -> mark_invalid(row, "unknown_event_type")

\* An event without a slice for its window is dropped.
apply_event(e, rows) ==
    LET key == <<e.symbol, WindowOf(e.time)>>
    IN  IF key \in DOMAIN rows THEN [rows EXCEPT ![key] = ApplyToSlice(@, e)] ELSE rows

(***************************************************************************)
(* BuildAccumulator                                                         *)
(***************************************************************************)

NewAccumulator ==
    [input_record_count |-> 0, duplicate_event_count |-> 0, invalid_event_count |-> 0,
     payload_hash_mismatch_count |-> 0, seen_event_ids |-> {},
     input_identities |-> {}, projection_identities |-> {},
     rows |-> <<>>, projection_rows |-> <<>>, derivative_metrics |-> {},
     symbol_health |-> <<>>, source_health |-> <<>>, gap_alerts |-> <<>>]

Counted(acc) == [acc EXCEPT !.input_record_count = @ + 1]
Invalid(acc) == [acc EXCEPT !.invalid_event_count = @ + 1]
Mismatch(acc) == Invalid([acc EXCEPT !.payload_hash_mismatch_count = @ + 1])

\* is_derivative_market_event: the kinds that make no slice, at Binance only.
Derivative == IF Venue = "binance" THEN {"funding_rate_snapshot", "open_interest_snapshot"} ELSE {}

ingest_derivative_event(acc, e) ==
    IF ~In(e.time, projection_range) THEN acc
    ELSE IF ~e.parses THEN Invalid(acc)
    ELSE [acc EXCEPT !.derivative_metrics = @ \cup {e}]

ensure_projection_identity(acc, e) ==
    IF e.symbol \in acc.projection_identities THEN acc
    ELSE [acc EXCEPT !.projection_identities = @ \cup {e.symbol},
                     !.projection_rows = seed_identity_slices(projection_range, e.symbol, @)]

ensure_input_identity(acc, e) ==
    IF e.symbol \in acc.input_identities THEN acc
    ELSE [acc EXCEPT !.input_identities = @ \cup {e.symbol},
                     !.rows = seed_identity_slices(input_range, e.symbol, @)]

InvalidIn(rows) == MapThenSumSet(LAMBDA key : rows[key].quality_invalid, DOMAIN rows)

IntoProjection(acc, e) ==
    IF ~In(e.time, projection_range) THEN acc
    ELSE [ensure_projection_identity(acc, e) EXCEPT !.projection_rows = apply_event(e, @)]

\* The invalid events of the input slices count, those of the projection do not.
IntoInput(acc, e) ==
    IF ~In(e.time, input_range) THEN acc
    ELSE LET seeded == ensure_input_identity(acc, e)
             rows == apply_event(e, seeded.rows)
         IN  [seeded EXCEPT !.rows = rows,
                            !.invalid_event_count = @ + InvalidIn(rows) - InvalidIn(seeded.rows)]

ingest_spot_event(acc, e) == IntoInput(IntoProjection(acc, e), e)

\* The checks of a raw row in their order; the first one that fails decides.
ingest_raw_event(acc, e) ==
    LET c == Counted(acc)
    IN  IF ~e.schema_ok THEN Invalid(c)
        ELSE IF ~e.hash_ok THEN Mismatch(c)
        ELSE IF e.time <= 0 \/ e.time >= InputEnd + ScanMargin + ClockSkewMargin THEN Invalid(c)
        ELSE IF e.id \in c.seen_event_ids THEN [c EXCEPT !.duplicate_event_count = @ + 1]
        ELSE LET seen == [c EXCEPT !.seen_event_ids = @ \cup {e.id}]
             IN  IF e.kind \in Derivative THEN ingest_derivative_event(seen, e)
                 ELSE ingest_spot_event(seen, e)

\* ingest_symbol_health, ingest_source_health, ingest_gap_alert
ingest_other(acc, row, list) ==
    LET c == Counted(acc)
    IN  IF ~row.schema_ok THEN Invalid(c)
        ELSE IF ~row.hash_ok THEN Mismatch(c)
        ELSE [c EXCEPT ![list] = Append(@, row)]

append_accumulator_row(acc, family, row) ==
    CASE family = "raw_market_event" -> ingest_raw_event(acc, row)
      [] family = "symbol_health" -> ingest_other(acc, row, "symbol_health")
      [] family = "source_health" -> ingest_other(acc, row, "source_health")
      [] family = "gap_alert" -> ingest_other(acc, row, "gap_alerts")

(***************************************************************************)
(* Health, gaps and the completeness of a slice                             *)
(***************************************************************************)

\* max_by_key over the rows at some places: of the rows with the latest
\* observation, the last one read.
Latest(rows, places) ==
    IF places = {} THEN <<>>
    ELSE LET top == Max({rows[k].at : k \in places})
         IN  <<rows[Max({k \in places : rows[k].at = top})]>>

latest_symbol_health(acc, symbol, w) ==
    Latest(acc.symbol_health,
           {k \in DOMAIN acc.symbol_health : /\ acc.symbol_health[k].symbol = symbol
                                             /\ acc.symbol_health[k].at <= w + WindowMs})

latest_source_health(acc, w) ==
    Latest(acc.source_health,
           {k \in DOMAIN acc.source_health : acc.source_health[k].at <= w + WindowMs})

gap_applies_to_row(gap, symbol, w, range) ==
    /\ gap.symbol = symbol
    /\ In(gap.at, [start |-> w, end |-> w + WindowMs])
    /\ In(gap.at, range)

Missing(row, reasons) == [row EXCEPT !.missing_reasons = @ \cup reasons]

\* Whether the condition holds, as the set with this reason or none.
Reason(condition, reason) == IF condition THEN {reason} ELSE {}

apply_symbol_health_snapshot(row, w) ==
    IF row.symbol_health_snapshot = <<>> THEN Missing(row, {"symbol_health_missing"})
    ELSE LET snapshot == row.symbol_health_snapshot[1]
             stale == snapshot.received < w
         IN  Missing([row EXCEPT !.quality_stale = @ + (IF stale THEN 1 ELSE 0)],
                     Reason(~snapshot.is_tradeable, "venue_unavailable") \cup Reason(stale, "stale"))

apply_source_health_snapshot(row) ==
    IF row.source_health_snapshot = <<>> THEN Missing(row, {"source_health_missing"})
    ELSE LET snapshot == row.source_health_snapshot[1]
         IN  Missing(row, Reason(~snapshot.connected \/ ~snapshot.healthy, "source_stale"))

apply_gap_alerts(row, acc, symbol, w, range) ==
    LET gaps == {k \in DOMAIN acc.gap_alerts : gap_applies_to_row(acc.gap_alerts[k], symbol, w, range)}
    IN  Missing([row EXCEPT !.quality_gap = @ + Cardinality(gaps)], Reason(gaps # {}, "gap_alert"))

apply_health_and_gaps_to_row(acc, row, key, range) ==
    LET reported == [row EXCEPT !.symbol_health_snapshot = latest_symbol_health(acc, key[1], key[2]),
                                !.source_health_snapshot = latest_source_health(acc, key[2])]
    IN  apply_gap_alerts(apply_source_health_snapshot(apply_symbol_health_snapshot(reported, key[2])),
                         acc, key[1], key[2], range)

\* By exchange time, exchange sequence (none is last), ingest time and id.
EventOrder(a, b) ==
    \/ a.time < b.time
    \/ a.time = b.time /\ a.sequence < b.sequence
    \/ a.time = b.time /\ a.sequence = b.sequence /\ a.ingest < b.ingest
    \/ a.time = b.time /\ a.sequence = b.sequence /\ a.ingest = b.ingest /\ a.id < b.id

\* Mutant: events stay in the order in which they were read.
keep_event_order(events) == events

\* The event with n events up to it, itself included, goes to place n; events
\* that EventOrder does not tell apart stay in the order they were read in.
normalize_event_order(events) ==
    LET upto(i) == {j \in DOMAIN events : \/ EventOrder(events[j], events[i])
                                          \/ ~EventOrder(events[i], events[j]) /\ j <= i}
    IN  [n \in DOMAIN events |-> events[CHOOSE i \in DOMAIN events : Cardinality(upto(i)) = n]]

NoEvents(row) ==
    row.trades = <<>> /\ row.books = <<>> /\ row.depth_event_count = 0 /\ row.ticker_count = 0

\* Mutant: delayed events do not matter.
completeness_despite_delay(row) ==
    IF NoEvents(row) \/ "venue_unavailable" \in row.missing_reasons
       \/ (row.quality_invalid > 0 /\ row.quality_ok = 0) THEN "incomplete"
    ELSE IF row.missing_reasons # {} THEN "partial"
    ELSE IF SourceRole = "reference" THEN "reference_only"
    ELSE "complete"

completeness(row) ==
    IF NoEvents(row) \/ "venue_unavailable" \in row.missing_reasons
       \/ (row.quality_invalid > 0 /\ row.quality_ok = 0) THEN "incomplete"
    ELSE IF \/ row.missing_reasons # {} \/ row.quality_delayed > 0 \/ row.quality_stale > 0
            \/ row.quality_gap > 0 \/ row.quality_invalid > 0 THEN "partial"
    ELSE IF SourceRole = "reference" THEN "reference_only"
    ELSE "complete"

\* The last trade and the best bid and ask are those of the sorted events.
finalize_slice(row) ==
    LET trades == normalize_event_order(row.trades)
        books == normalize_event_order(row.books)
        silent == IF row.quality_invalid > 0 THEN "all_invalid" ELSE "trade_silence"
        final == Missing([row EXCEPT !.trades = trades, !.books = books],
                         Reason(NoEvents(row), silent) \cup Reason(books = <<>>, "depth_top_missing"))
    IN  [final EXCEPT !.slice_completeness = completeness(final),
                      !.last_trade = IF trades = <<>> THEN 0 ELSE Last(trades).id,
                      !.best_bid_ask = IF books = <<>> THEN 0 ELSE Last(books).id]

finalize_slices(acc, rows, range) ==
    [key \in DOMAIN rows |-> finalize_slice(apply_health_and_gaps_to_row(acc, rows[key], key, range))]

\* finish: a single hash mismatch blocks the run, whatever else was read.
Finish(acc, fallback_alert) ==
    [slices |-> finalize_slices(acc, acc.rows, input_range),
     projection_slices |-> finalize_slices(acc, acc.projection_rows, projection_range),
     derivative_metrics |-> acc.derivative_metrics,
     input_record_count |-> acc.input_record_count,
     duplicate_event_count |-> acc.duplicate_event_count,
     invalid_event_count |-> acc.invalid_event_count,
     fallback_alert |-> fallback_alert,
     status |-> IF acc.payload_hash_mismatch_count > 0 THEN "blocked"
                ELSE IF acc.rows = <<>> THEN "empty" ELSE "success"]

============================================================================

---------------------------- MODULE Projections ----------------------------
(***************************************************************************)
(* What a run derives from its slices and publishes beside them            *)
(* (normalize/projection), for one venue: the data quality summary, the    *)
(* feature deltas with their summary, and the regime contexts.  Of a price *)
(* or a volume only matters whether there is one; of a change, whether it  *)
(* can be computed; of a correlation, whether it has enough samples (the   *)
(* code also asks for returns that vary).                                  *)
(***************************************************************************)
EXTENDS SliceBuild

CONSTANTS
    FIFTEEN_MINUTES_MS, ONE_HOUR_MS,
    DerivativeSpan,     \* the window length a derivative observation is given
    Btc, Eth            \* the two symbols a regime context names

(***************************************************************************)
(* build_market_data_quality_summary                                        *)
(***************************************************************************)

Covered(slice) == slice.slice_completeness \in {"complete", "partial", "reference_only"}

\* The reasons with "missing", "gap" or "stale" in them.
MissingReasons ==
    {"symbol_health_missing", "source_health_missing", "depth_top_missing", "gap_alert", "stale",
     "source_stale"}

\* missing_venues, for the one venue
VenueMissing(slices) ==
    \E key \in DOMAIN slices : \/ slices[key].slice_completeness = "incomplete"
                               \/ slices[key].missing_reasons \cap MissingReasons # {}

\* The first slice with a bad report decides, then one without a report.
HealthStatus(degraded, unknown) ==
    IF degraded THEN "degraded" ELSE IF unknown THEN "unknown" ELSE "healthy"

source_health_status(slices) ==
    HealthStatus(\E key \in DOMAIN slices : /\ slices[key].source_health_snapshot # <<>>
                                            /\ ~slices[key].source_health_snapshot[1].healthy,
                 \E key \in DOMAIN slices : slices[key].source_health_snapshot = <<>>)

symbol_health_status(slices) ==
    HealthStatus(\E key \in DOMAIN slices : /\ slices[key].symbol_health_snapshot # <<>>
                                            /\ \/ ~slices[key].symbol_health_snapshot[1].is_tradeable
                                               \/ slices[key].quality_gap > 0
                                               \/ slices[key].quality_stale > 0,
                 \E key \in DOMAIN slices : slices[key].symbol_health_snapshot = <<>>)

gap_count(slices) == MapThenSumSet(LAMBDA key : slices[key].quality_gap, DOMAIN slices)

\* stale, delayed and missing: whether the venue is in the list of that name.
build_market_data_quality_summary(slices) ==
    [covered |-> Cardinality({key \in DOMAIN slices : Covered(slices[key])}),
     gap_count |-> gap_count(slices),
     stale |-> \E key \in DOMAIN slices : slices[key].quality_stale > 0,
     delayed |-> \E key \in DOMAIN slices : slices[key].quality_delayed > 0,
     missing |-> VenueMissing(slices),
     source_health_status |-> source_health_status(slices),
     symbol_health_status |-> symbol_health_status(slices)]

(***************************************************************************)
(* Values of slices, now and earlier                                        *)
(***************************************************************************)

\* price: the mid price of the last book, or else the price of the last trade.
HasPrice(slice) == slice.books # <<>> \/ slice.trades # <<>>

\* Whether a slice has the value.  Every slice has a volume, but no change
\* can be computed against a volume of zero (percent_change).
HasValue(slice, value) ==
    CASE value = "price" -> HasPrice(slice)
      [] value = "volume" -> TRUE
      [] value = "volume above zero" -> slice.trades # <<>>

WindowsOf(slices, symbol) == {key[2] : key \in {key \in DOMAIN slices : key[1] = symbol}}
SymbolsOf(slices) == {key[1] : key \in DOMAIN slices}
NoWindow == -1
LastOf(times) == IF times = {} THEN NoWindow ELSE Max(times)


\* The window whose value value_at_or_before returns; the value of the last
\* window up to the target, also when it has none.
value_at_or_before(slices, symbol, target, value) ==
    LET last == LastOf({w \in WindowsOf(slices, symbol) : w <= target})
    IN  IF last # NoWindow /\ HasValue(slices[<<symbol, last>>], value) THEN last ELSE NoWindow

(***************************************************************************)
(* build_market_feature_deltas                                              *)
(***************************************************************************)

QualityStatus(missing, some) ==
    IF ~missing THEN "complete" ELSE IF some THEN "partial" ELSE "insufficient"

\* market_feature_delta: which earlier values there are, and the status.
market_feature_delta(metric, slices, symbol, w) ==
    LET at(back, value) == value_at_or_before(slices, symbol, w - back, value)
        price_change(back) == HasPrice(slices[<<symbol, w>>]) /\ at(back, "price") # NoWindow
        volume_change(back) == at(back, "volume above zero") # NoWindow
        ago(back) == at(back, IF metric = "price" THEN "price" ELSE "volume")
        change(back) == IF metric = "price" THEN price_change(back) ELSE volume_change(back)
    IN  [metric |-> metric, symbol |-> symbol, market_type |-> "spot",
         window |-> w, window_end |-> w + WindowMs,
         ago_15m |-> ago(FIFTEEN_MINUTES_MS), ago_1h |-> ago(ONE_HOUR_MS),
         quality_status |->
            QualityStatus(\/ ago(FIFTEEN_MINUTES_MS) = NoWindow \/ ago(ONE_HOUR_MS) = NoWindow
                          \/ ~price_change(ONE_HOUR_MS) \/ ~volume_change(ONE_HOUR_MS),
                          change(FIFTEEN_MINUTES_MS) \/ change(ONE_HOUR_MS))]

\* derivative_feature_delta, with the time of the observation as its window.
\* The values are taken to be finite and not zero.
derivative_feature_delta(metrics, e) ==
    LET ago(back) == LastOf({m.time : m \in {m \in metrics : /\ m.symbol = e.symbol /\ m.kind = e.kind
                                                             /\ m.time <= e.time - back}})
        known == {back \in {FIFTEEN_MINUTES_MS, ONE_HOUR_MS} : ago(back) # NoWindow}
    IN  [metric |-> e.kind, symbol |-> e.symbol, market_type |-> "usdm_perpetual",
         window |-> e.time, window_end |-> e.time + DerivativeSpan,
         ago_15m |-> ago(FIFTEEN_MINUTES_MS), ago_1h |-> ago(ONE_HOUR_MS),
         quality_status |-> QualityStatus(known # {FIFTEEN_MINUTES_MS, ONE_HOUR_MS}, known # {})]

\* A price delta for each slice of the input with a price, a volume delta for
\* each slice of the input, one for each derivative metric observed in it.
build_market_feature_deltas(slices, metrics) ==
    LET current == {key \in DOMAIN slices : key[2] >= InputStart}
    IN  {market_feature_delta("price", slices, key[1], key[2]) :
            key \in {key \in current : HasPrice(slices[key])}}
        \cup {market_feature_delta("trade_volume", slices, key[1], key[2]) : key \in current}
        \cup {derivative_feature_delta(metrics, e) : e \in {e \in metrics : e.time >= InputStart}}

\* MarketFeatureDeltaSummaryKey: spot and perpetual of a symbol are apart.
SummaryKey(d) == <<d.symbol, d.market_type>>

\* is_newer_delta: by the end and then by the start of the window.
Newest(deltas, d) ==
    \A e \in deltas : SummaryKey(e) = SummaryKey(d) /\ e.metric = d.metric =>
        e.window_end < d.window_end \/ (e.window_end = d.window_end /\ e.window <= d.window)

latest_metrics_by_summary_key(deltas, key) ==
    {d \in deltas : SummaryKey(d) = key /\ Newest(deltas, d)}

\* A row for each symbol and market type, over the newest delta of each of its
\* metrics; the best of their statuses is that of the row.
build_market_feature_delta_summary(deltas) ==
    LET row(key) ==
            LET metrics == latest_metrics_by_summary_key(deltas, key)
                with(status) == \E d \in metrics : d.quality_status = status
            IN  [symbol |-> key[1], market_type |-> key[2], metrics |-> metrics,
                 window_start |-> Min({d.window : d \in metrics}),
                 window_end |-> Max({d.window_end : d \in metrics}),
                 quality_status |-> QualityStatus(~with("complete"), with("partial"))]
    IN  {row(key) : key \in {SummaryKey(d) : d \in deltas}}

(***************************************************************************)
(* build_market_regime_contexts                                             *)
(***************************************************************************)

nearest_prior_price(slices, symbol, w) == value_at_or_before(slices, symbol, w - 1, "price")

\* return_sample_for_row: the window the price is compared with, or none.
ReturnBase(slices, symbol, w) ==
    LET hour_ago == value_at_or_before(slices, symbol, w - ONE_HOUR_MS, "price")
    IN  IF ~HasPrice(slices[<<symbol, w>>]) THEN NoWindow
        ELSE IF hour_ago # NoWindow THEN hour_ago ELSE nearest_prior_price(slices, symbol, w)

\* return_samples_by_window: the symbols with a return, for each window.
Samples(slices, w) ==
    {y \in SymbolsOf(slices) : w \in WindowsOf(slices, y) /\ ReturnBase(slices, y, w) # NoWindow}

SampledWindows(slices) == {w \in {key[2] : key \in DOMAIN slices} : Samples(slices, w) # {}}

\* A sampled window of the last hour without Btc leaves no correlation.
rolling_correlation_to_btc(slices, w) ==
    LET recent == {v \in SampledWindows(slices) : w - ONE_HOUR_MS <= v /\ v <= w}
    IN  Cardinality(recent) >= 3 /\ \A v \in recent : Btc \in Samples(slices, v)

regime_context_for_window(slices, w) ==
    LET samples == Samples(slices, w)
        missing == \/ {Btc, Eth} \ samples # {}
                   \/ ~rolling_correlation_to_btc(slices, w)
                   \/ \E y \in samples : w - ReturnBase(slices, y, w) < ONE_HOUR_MS
    IN  [window |-> w,
         bases |-> [y \in samples |-> ReturnBase(slices, y, w)],
         quality_status |-> QualityStatus(missing, samples # {})]

build_market_regime_contexts(slices) ==
    {regime_context_for_window(slices, w) : w \in {w \in SampledWindows(slices) : w >= InputStart}}
============================================================================

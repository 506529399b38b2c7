------------------------------ MODULE Backfill ------------------------------
(***************************************************************************)
(* One run of the market-backfill binary (backfill/run.rs): the trades of  *)
(* each symbol in [InputStart, InputEnd] are paged out of the exchange's   *)
(* REST API into the L0 sink, a symbol without trades gets a gap alert,    *)
(* health records are written, the sink is flushed and the manifest is     *)
(* uploaded.                                                               *)
(*                                                                         *)
(* Binance pages upwards, first by time and then by aggregate trade id;    *)
(* Upbit pages downwards from `to` (a time of day, in whole seconds, and   *)
(* days_ago) by sequential id.  A trade is its id, 1, 2, ... in the order  *)
(* the exchange made it; hist[s][i] is its time stamp.  The sink is the    *)
(* outcome of its calls (module L0Sink has its steps).                     *)
(***************************************************************************)
EXTENDS Integers, Sequences, FiniteSets, FiniteSetsExt, SequencesExt

CONSTANTS
    Venues,       \* the venues this run is about
    Histories,    \* trade histories of the first symbol: sequences of time stamps
    QuietHistories, \* and of the second one
    PageLimit,    \* BINANCE_PAGE_LIMIT (1000), UPBIT_PAGE_LIMIT (200)
    InputStart, InputEnd,
    Second,       \* time stamps in one second
    MaxLive,      \* bound: trades made while the backfill runs
    MaxFaults     \* bound: failed calls, kills and a server that stops answering as it should

ASSUME BackfillArgsValid ==
    /\ Venues \subseteq {"binance", "upbit"}
    /\ PageLimit \in Nat \ {0} /\ Second \in Nat \ {0}
    /\ InputStart \in Nat /\ InputEnd \in Nat /\ InputStart < InputEnd
    /\ \A h \in Histories \cup QuietHistories : \A i, j \in DOMAIN h : i <= j => h[i] <= h[j]

Symbols == 1..2

VARIABLES
    venue, hist,
    server,    \* "honest", "repeats" its last page, or "wanders": answers any other request
    live, faults,
    pc,        \* "fetch", "symbol_end", "health", "flush", "manifest", or how the run ended
    sym,       \* the market of the loop in run
    cursor,    \* next_from_id, next_cursor; 0 is None
    page,      \* the last page the server sent for sym
    report,    \* SymbolBackfillReport: record_count > 0 and gap_alert_count
    sink,      \* the records buffered, uploaded, failed to upload, lost; those appended again
    manifest   \* the manifest of the run is in the bucket

env == <<venue, hist, server, live>>
vars == <<venue, hist, server, live, faults, pc, sym, cursor, page, report, sink, manifest>>

Ended == {"ok", "failed", "killed"}

(***************************************************************************)
(* The sink, by outcome                                                     *)
(***************************************************************************)

TradeRecord(s, i) == [family |-> "raw_market_event", symbol |-> s, id |-> i]
AlertRecord(s) == [family |-> "gap_alert", symbol |-> s, id |-> 0]
SymbolHealthRecord(s, tradeable) ==
    [family |-> "symbol_health", symbol |-> s, id |-> IF tradeable THEN 1 ELSE 0]
SourceHealthRecord(level) == [family |-> "source_health", symbol |-> 0, id |-> IF level = "ok" THEN 1 ELSE 0]

NoRecords == [buffer |-> {}, uploaded |-> {}, failed |-> {}, lost |-> {}, again |-> {}, failures |-> 0]
Ok(s) == [sink |-> s, ok |-> TRUE]
Err(s) == [sink |-> s, ok |-> FALSE]

\* flush_*_partition takes the buffer out, then writes and uploads it: an
\* upload that fails is only noted, an error loses the batch.
FlushFamily(s, f) ==
    LET batch == {r \in s.buffer : r.family = f}
        taken == [s EXCEPT !.buffer = @ \ batch]
    IN  IF batch = {} THEN {Ok(s)}
        ELSE {Ok([taken EXCEPT !.uploaded = @ \cup batch]),
              Ok([taken EXCEPT !.failed = @ \cup batch, !.failures = @ + 1]),
              Err([taken EXCEPT !.lost = @ \cup batch, !.failures = @ + 1])}

\* append_*: buffered, or the buffer is full and is flushed.
SinkAppend(s, r) ==
    LET held == s.buffer \cup s.uploaded \cup s.failed \cup s.lost
        buffered == [s EXCEPT !.buffer = @ \cup {r}, !.again = @ \cup ({r} \cap held)]
    IN  {Ok(buffered)} \cup FlushFamily(buffered, r.family)

\* Several appends with `?` after each, then no more than MaxFaults faults.
Affordable(os) == {o \in os : o.sink.failures + faults <= MaxFaults}
AppendAll(s, records) ==
    Affordable(FoldLeft(LAMBDA os, r : UNION {IF o.ok THEN SinkAppend(o.sink, r) ELSE {o} : o \in os},
                        {Ok(s)}, records))

FlushAll(s) ==
    Affordable(FoldLeft(LAMBDA os, f : UNION {IF o.ok THEN FlushFamily(o.sink, f) ELSE {o} : o \in os},
                        {Ok(s)}, <<"raw_market_event", "source_health", "symbol_health", "gap_alert">>))

Stored == sink.uploaded \cup sink.failed

(***************************************************************************)
(* The exchange's answers (external)                                        *)
(***************************************************************************)

Ids == DOMAIN hist[sym]
InRange(s, i) == InputStart <= hist[s][i] /\ hist[s][i] <= InputEnd
Upwards(ids) == LET q == SetToSortSeq(ids, <) IN SubSeq(q, 1, Min({PageLimit, Len(q)}))
Downwards(ids) == LET q == SetToSortSeq(ids, >) IN SubSeq(q, 1, Min({PageLimit, Len(q)}))

\* initial_cursor formats the end of the range with whole seconds.
FloorSecond(t) == (t \div Second) * Second

\* startTime and endTime are inclusive.
fetch_agg_trades_by_time == {Upwards({i \in Ids : InRange(sym, i)})}
fetch_agg_trades_from_id == {Upwards({i \in Ids : i >= cursor})}

\* With `to` the trades up to that second, the second included or not; a
\* day that ends between initial_cursor and the request moves days_ago, and
\* with it the bound, a day ahead.  With a cursor the trades before it.
fetch_trade_page ==
    IF cursor = 0
    THEN {Downwards({i \in Ids : hist[sym][i] < FloorSecond(InputEnd)}),
          Downwards({i \in Ids : hist[sym][i] <= FloorSecond(InputEnd)}),
          Downwards(Ids)}
    ELSE {Downwards({i \in Ids : i < cursor})}

\* The answers to any request with a cursor.
Pages == {IF venue = "upbit" THEN Downwards({i \in Ids : i < c}) ELSE Upwards({i \in Ids : i >= c}) :
             c \in 1..(Len(hist[sym]) + 1)}

Answers ==
    IF server = "repeats" /\ page # <<>> THEN {page}
    ELSE IF server = "wanders" THEN Pages
    ELSE IF venue = "upbit" THEN fetch_trade_page
    ELSE IF cursor = 0 THEN fetch_agg_trades_by_time
    ELSE fetch_agg_trades_from_id

(***************************************************************************)
(* backfill_symbol                                                          *)
(***************************************************************************)

Init ==
    /\ venue \in Venues
    /\ hist \in {<<h, q>> : h \in Histories, q \in QuietHistories}
    /\ server = "honest" /\ live = 0 /\ faults = 0
    /\ pc = "fetch" /\ sym = 1 /\ cursor = 0 /\ page = <<>>
    /\ report = [s \in Symbols |-> [observed |-> FALSE, gaps |-> 0]]
    /\ sink = NoRecords
    /\ manifest = FALSE

\* The trades of a page before the first one after the range.
UpToEnd(p) ==
    LET late == {k \in DOMAIN p : hist[sym][p[k]] > InputEnd}
    IN  IF late = {} THEN p ELSE SubSeq(p, 1, Min(late) - 1)

\* append_page: a trade after the range stops the symbol, earlier ones are skipped.
append_page(p) ==
    [keep |-> SelectSeq(UpToEnd(p), LAMBDA i : hist[sym][i] >= InputStart),
     stop |-> UpToEnd(p) # p]

\* Mutant: a late trade ends the page, as it does for Binance.
append_page_trades_stops(p) ==
    [keep |-> SelectSeq(UpToEnd(p), LAMBDA i : hist[sym][i] >= InputStart),
     stop |-> UpToEnd(p) # p \/ \E k \in DOMAIN p : hist[sym][p[k]] < InputStart]

\* append_page_trades: late trades are skipped, early ones end the symbol
\* once the page is through.
append_page_trades(p) ==
    [keep |-> SelectSeq(p, LAMBDA i : InRange(sym, i)),
     stop |-> \E k \in DOMAIN p : hist[sym][p[k]] < InputStart]

\* Mutant: the cursor may stay where it is.
BinanceGoesOnUnchecked(p, stop) ==
    IF ~stop /\ Len(p) = PageLimit THEN "fetch" ELSE "symbol_end"

\* The aggTrades cursor has to advance, except on the first page; a full
\* page that did not reach the end of the range asks for the next one.
BinanceGoesOn(p, stop) ==
    IF cursor # 0 /\ Last(p) + 1 <= cursor THEN "failed"
    ELSE IF ~stop /\ Len(p) = PageLimit THEN "fetch"
    ELSE "symbol_end"

\* advance_cursor is called unless the start of the range was reached.
UpbitGoesOn(p, stop) ==
    IF stop THEN "symbol_end"
    ELSE IF Last(p) = cursor THEN "failed"
    ELSE IF Len(p) = PageLimit THEN "fetch"
    ELSE "symbol_end"

\* One turn of the loop: the page is appended before the cursor is checked.
HandlePage(p, appended, next) ==
    /\ \E o \in AppendAll(sink, [k \in DOMAIN appended.keep |-> TradeRecord(sym, appended.keep[k])]) :
         /\ sink' = o.sink
         /\ pc' = IF o.ok THEN next ELSE "failed"
    /\ report' = [report EXCEPT ![sym].observed = @ \/ appended.keep # <<>>]
    /\ page' = p

BinancePage ==
    /\ pc = "fetch" /\ venue = "binance"
    /\ \E p \in Answers \ {<<>>} :
         /\ HandlePage(p, append_page(p), BinanceGoesOn(p, append_page(p).stop))
         /\ cursor' = Last(p) + 1
    /\ UNCHANGED <<env, faults, sym, manifest>>

UpbitPage ==
    /\ pc = "fetch" /\ venue = "upbit"
    /\ \E p \in Answers \ {<<>>} :
         /\ HandlePage(p, append_page_trades(p), UpbitGoesOn(p, append_page_trades(p).stop))
         /\ cursor' = Last(p)
    /\ UNCHANGED <<env, faults, sym, manifest>>

EmptyPage ==
    /\ pc = "fetch" /\ <<>> \in Answers
    /\ pc' = "symbol_end"
    /\ UNCHANGED <<env, faults, sym, cursor, page, report, sink, manifest>>

FetchFails ==
    /\ pc = "fetch" /\ sink.failures + faults < MaxFaults
    /\ faults' = faults + 1
    /\ pc' = "failed"
    /\ UNCHANGED <<env, sym, cursor, page, report, sink, manifest>>

\* append_no_trade_gap, append_empty_gap_alert
NoTradeGap(s) == IF report[s].observed THEN <<>> ELSE <<AlertRecord(s)>>

\* A symbol without a stored trade gets a gap alert; then the next symbol.
SymbolEnd ==
    /\ pc = "symbol_end"
    /\ \E o \in AppendAll(sink, NoTradeGap(sym)) :
         /\ sink' = o.sink
         /\ pc' = IF ~o.ok THEN "failed" ELSE IF sym = Cardinality(Symbols) THEN "health" ELSE "fetch"
    /\ report' = [report EXCEPT ![sym].gaps = Len(NoTradeGap(sym))]
    /\ sym' = IF sym = Cardinality(Symbols) THEN sym ELSE sym + 1
    /\ cursor' = 0 /\ page' = <<>>
    /\ UNCHANGED <<env, faults, manifest>>

(***************************************************************************)
(* Health records, flush_all and the manifest                              *)
(***************************************************************************)

total_gap_alert_count == MapThenSumSet(LAMBDA s : report[s].gaps, Symbols)

\* append_source_health_for
HealthLevel == IF total_gap_alert_count = 0 THEN "ok" ELSE "warn"

\* append_symbol_health_for in symbol order, then the source health.
WriteHealth ==
    /\ pc = "health"
    /\ \E o \in AppendAll(sink,
                    Append([s \in Symbols |-> SymbolHealthRecord(s, report[s].observed)],
                           SourceHealthRecord(HealthLevel))) :
         /\ sink' = o.sink
         /\ pc' = IF o.ok THEN "flush" ELSE "failed"
    /\ UNCHANGED <<env, faults, sym, cursor, page, report, manifest>>

Flush ==
    /\ pc = "flush"
    /\ \E o \in FlushAll(sink) :
         /\ sink' = o.sink
         /\ pc' = IF o.ok THEN "manifest" ELSE "failed"
    /\ UNCHANGED <<env, faults, sym, cursor, page, report, manifest>>

\* The manifest, the report and the retention of old objects, whose errors
\* are only logged.  Failed uploads are in the report and do not fail the run.
UploadManifest ==
    /\ pc = "manifest"
    /\ manifest' = TRUE
    /\ pc' = "ok"
    /\ UNCHANGED <<env, faults, sym, cursor, page, report, sink>>

ManifestFails ==
    /\ pc = "manifest" /\ sink.failures + faults < MaxFaults
    /\ faults' = faults + 1
    /\ manifest' \in BOOLEAN
    /\ pc' = "failed"
    /\ UNCHANGED <<env, sym, cursor, page, report, sink>>

(***************************************************************************)
(* The surroundings                                                         *)
(***************************************************************************)

Killed ==
    /\ pc \notin Ended /\ sink.failures + faults < MaxFaults
    /\ faults' = faults + 1
    /\ pc' = "killed"
    /\ UNCHANGED <<env, sym, cursor, page, report, sink, manifest>>

\* The market goes on while its history is read.
LiveTrade ==
    /\ pc = "fetch" /\ live < MaxLive
    /\ live' = live + 1
    /\ \E s \in Symbols : hist' = [hist EXCEPT ![s] = Append(@, InputEnd + 1)]
    /\ UNCHANGED <<venue, server, faults, pc, sym, cursor, page, report, sink, manifest>>

ServerMisbehaves ==
    /\ pc = "fetch" /\ server = "honest" /\ sink.failures + faults < MaxFaults
    /\ server' \in {"repeats", "wanders"} /\ faults' = faults + 1
    /\ UNCHANGED <<venue, hist, live, pc, sym, cursor, page, report, sink, manifest>>

Run == BinancePage \/ UpbitPage \/ EmptyPage \/ SymbolEnd \/ WriteHealth \/ Flush \/ UploadManifest

Terminated == pc \in Ended /\ UNCHANGED vars

Next ==
    \/ Run \/ FetchFails \/ ManifestFails
    \/ Killed \/ LiveTrade \/ ServerMisbehaves
    \/ Terminated

\* The run is one task, and every call of it to the exchange returns: both
\* clients are built with a timeout of 30 seconds.  This is WF_vars(Run): a
\* step of Run is possible until the run has ended, and saying so spares TLC
\* from finding it out in every state.
Fairness == []<>(pc \in Ended) \/ []<><<Run>>_vars

Spec == Init /\ [][Next]_vars /\ Fairness

(***************************************************************************)
(* Properties                                                               *)
(***************************************************************************)

\* The bucket and the failed uploads left in the spool hold each trade of
\* the requested range exactly once when the manifest says the run is
\* complete.  Upbit is asked for the trades up to a whole second, so trades
\* of the last, unfinished second of the range may be missing.  Nothing from
\* outside the range is stored; the run says of every symbol whether its range
\* was empty, and its source health is "ok" exactly when no symbol's was.  A
\* server that repeats its page changes none of this; one that answers with
\* other trades than it was asked for is believed.
ManifestIsExact ==
    manifest /\ server # "wanders" =>
        LET stored(s) == \E i \in DOMAIN hist[s] : TradeRecord(s, i) \in Stored
        IN  /\ \A s \in Symbols : \A i \in DOMAIN hist[s] :
                 /\ TradeRecord(s, i) \notin sink.again
                 /\ InRange(s, i) /\ (venue = "upbit" => hist[s][i] < FloorSecond(InputEnd))
                      => TradeRecord(s, i) \in Stored
                 /\ TradeRecord(s, i) \in Stored => InRange(s, i)
            /\ \A s \in Symbols :
                 /\ AlertRecord(s) \in Stored <=> ~stored(s)
                 /\ SymbolHealthRecord(s, stored(s)) \in Stored
            /\ SourceHealthRecord(IF \A s \in Symbols : stored(s) THEN "ok" ELSE "warn") \in Stored

\* The run ends.  Binance's cursor has to grow from page to page, whatever the
\* server answers (aggTrades cursor did not advance); Upbit's advance_cursor
\* refuses only the cursor it already has, which ends the run on a repeated
\* page, but a server that goes to and fro between two full pages would keep
\* it fetching for ever.
PagingEnds == <>(pc \in Ended \/ (venue = "upbit" /\ server = "wanders"))

============================================================================

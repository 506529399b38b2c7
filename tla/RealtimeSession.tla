-------------------------- MODULE RealtimeSession --------------------------
(***************************************************************************)
(* A realtime L0 worker of one venue, from process start to exit status:    *)
(* the Binance and the Upbit worker run the same watch loop, session loop,  *)
(* finalization and report validation, and differ in a few steps that test  *)
(* `venue'.  The sink is L0Sink seen from outside: an append or a flush     *)
(* returns one of the outcomes that module produces.  The exchange numbers  *)
(* the events of one symbol 1, 2, ...; a depth event n has first and final  *)
(* update id n, a trade n has sequential id n.                              *)
(***************************************************************************)
EXTENDS Integers, Sequences, FiniteSets, Functions

CONSTANTS
    Venues,             \* venues to start, of {"binance", "upbit"}
    LiveNats,           \* "off", or "required" (--live-nats-required)
    MaxStoredGapAlerts, \* MAX_STORED_GAP_ALERTS
    InitialBackoff, MaxBackoff, Multiplier, StaleTimeout,  \* ReconnectPolicy
    MaxEvents,          \* bound: events the exchange produces
    MaxWire,            \* bound: messages in the socket
    MaxReconnects,      \* bound: connections that end
    MaxFaults           \* bound: failures of the network and of the storage

ASSUME RealtimeConfigValid ==
    /\ Venues \subseteq {"binance", "upbit"} /\ Venues # {}
    /\ LiveNats \in {"off", "required"}
    /\ MaxStoredGapAlerts \in Nat \ {0}
    /\ InitialBackoff \in Nat \ {0} /\ MaxBackoff \in Nat /\ InitialBackoff <= MaxBackoff
    /\ Multiplier \in Nat \ {0} /\ StaleTimeout \in Nat \ {0}
    /\ {MaxEvents, MaxWire, MaxReconnects, MaxFaults} \subseteq Nat

VARIABLES
    venue,
    pc,                 \* where the worker's task is
    stop,               \* the shutdown flag is set, or the deadline has passed
    sent,               \* the exchange: its newest event
    conn,               \* "none", "open", "mute" (half open) or "ended"
    wire,               \* messages in the socket, oldest first
    silent,             \* time since last_message_at
    current_backoff,
    stats,              \* the counters of the watch stats that are used here
    sink,               \* buffers and stored objects per family
    faults,
    handled,            \* history: events parsed off the socket
    quiet               \* history: flush errors that were only logged

env == <<venue, stop, sent>>
vars == <<venue, pc, stop, sent, conn, wire, silent, current_backoff,
          stats, sink, faults, handled, quiet>>

Families == {"raw_market_event", "source_health", "symbol_health", "gap_alert"}
SessionPc == {"session", "poll", "housekeeping", "fetching"}
FinalPc == {"health", "symbols", "alerts", "flush", "manifest", "report"}
Exited == {"ok", "failed"}

\* The raw record of a REST depth snapshot or a derivative snapshot.
Snapshot == 0
NoEvent == 0

Init ==
    /\ venue \in Venues /\ pc = "start"
    /\ stop = FALSE
    /\ sent = 0 /\ conn = "none" /\ wire = <<>> /\ silent = 0
    /\ current_backoff = InitialBackoff
    /\ stats = [received |-> FALSE, malformed |-> 0, reconnects |-> 0, gaps |-> 0,
                alerts |-> <<>>, last |-> NoEvent]
    /\ sink = [buffer |-> [f \in Families |-> {}], stored |-> [f \in Families |-> {}],
               failed |-> 0, manifest |-> FALSE]
    /\ faults = 0 /\ handled = {} /\ quiet = 0

Fault == faults < MaxFaults /\ faults' = faults + 1

(***************************************************************************)
(* The sink as its callers see it: sets of outcomes [sink, ok]              *)
(***************************************************************************)

Ok(s) == [sink |-> s, ok |-> TRUE]
Err(s) == [sink |-> s, ok |-> FALSE]

\* flush_*_partition: the upload succeeds; it fails and is only counted; the
\* parquet file cannot be written, the batch is gone and the flush is an error.
FlushFamily(s, f) ==
    LET taken == [s EXCEPT !.buffer[f] = {}]
    IN  IF s.buffer[f] = {} THEN {Ok(s)}
        ELSE {Ok([taken EXCEPT !.stored[f] = @ \cup s.buffer[f]]),
              Ok([taken EXCEPT !.failed = @ + 1]),
              Err(taken)}

\* append_*: a required live publish may refuse a raw record; a full buffer
\* is flushed, whatever flush_records is.
SinkAppend(s, f, record) ==
    LET buffered == [s EXCEPT !.buffer[f] = @ \cup {record}]
    IN  {Ok(buffered)} \cup FlushFamily(buffered, f)
        \cup (IF f = "raw_market_event" /\ LiveNats = "required" THEN {Err(s)} ELSE {})

\* flush_all: the families in order, `?` after each, then the live publisher.
FlushAll(s) ==
    LET then(os, f) == UNION {IF o.ok THEN FlushFamily(o.sink, f) ELSE {o} : o \in os}
        flushed == then(then(then(FlushFamily(s, "raw_market_event"), "source_health"),
                             "symbol_health"), "gap_alert")
    IN  flushed \cup (IF LiveNats = "off" THEN {} ELSE {Err(o.sink) : o \in flushed})

\* Every failed upload and every error is a fault of the storage.
Spend(o) ==
    /\ faults' = faults + (o.sink.failed - sink.failed) + (IF o.ok THEN 0 ELSE 1)
    /\ faults' <= MaxFaults

(***************************************************************************)
(* Statistics and gap alerts                                                *)
(***************************************************************************)

\* record_gap_alert: every alert counts, the oldest stored one is dropped.
record_gap_alert(st, type) ==
    LET pushed == Append(st.alerts, [gap_type |-> type, nr |-> st.gaps + 1])
    IN  [st EXCEPT !.gaps = @ + 1,
                   !.alerts = IF Len(pushed) > MaxStoredGapAlerts THEN Tail(pushed) ELSE pushed]

\* Binance: the first update id of a depth event must follow the last final one.
depth_update_id_gap(st, n) == n # st.last + 1

\* Upbit: a trade or an order book must not be older than the one before it.
ordering_violation(st, n) == n < st.last

\* record_event: the trackers outlive a reconnect.
record_event(st, n) ==
    LET seen == [st EXCEPT !.last = n]
    IN  IF st.last = NoEvent THEN seen
        ELSE IF venue = "binance" /\ depth_update_id_gap(st, n)
        THEN record_gap_alert(seen, "depth_update_id_gap")
        ELSE IF venue = "upbit" /\ ordering_violation(st, n)
        THEN record_gap_alert(seen, "ordering_violation")
        ELSE seen

\* Mutant: the reconnect is counted and raises no alert.
record_reconnect_silently(st) == [st EXCEPT !.reconnects = @ + 1]

record_reconnect(st) == record_gap_alert([st EXCEPT !.reconnects = @ + 1], "ws_reconnect")

next_backoff(current) ==
    IF current * Multiplier <= MaxBackoff THEN current * Multiplier ELSE MaxBackoff

(***************************************************************************)
(* The exchange, the network, the signal and the clock                      *)
(***************************************************************************)

worker == <<venue, pc, current_backoff, stats, sink, handled, quiet>>

\* One message of one or, for Upbit's array payloads, two new events; it
\* reaches the worker over an open connection only.  What is sent before the
\* first or after the last connection attempt concerns nobody.
ExchangeSends(k) ==
    /\ pc \in {"watch", "connecting", "sleep"} \cup SessionPc
    /\ k = 1 \/ venue = "upbit"
    /\ sent + k <= MaxEvents /\ Len(wire) < MaxWire
    /\ sent' = sent + k
    /\ wire' = IF conn = "open"
               THEN Append(wire, [kind |-> "data", events |-> [i \in 1..k |-> sent + i]])
               ELSE wire
    /\ UNCHANGED <<worker, stop, conn, silent, faults>>

\* A ping, pong or close frame: a sign of life that carries no data.
ExchangeSendsControl ==
    /\ conn = "open" /\ Len(wire) < MaxWire
    /\ wire' = Append(wire, [kind |-> "control", events |-> <<>>])
    /\ UNCHANGED <<worker, stop, sent, conn, silent, faults>>

\* What the parsers tell apart: no event at all, or an Upbit event without data.
BadKinds == {"garbled", "not_utf8"} \cup (IF venue = "upbit" THEN {"unknown", "error"} ELSE {})

\* The newest or an already handled event again; a payload that does not parse; bytes that are no text;
\* an event type the worker does not know; the venue's error message.
ExchangeMisbehaves ==
    /\ Fault /\ conn = "open" /\ sent > 0 /\ Len(wire) < MaxWire
    /\ \/ \E n \in handled \cup {sent} : wire' = Append(wire, [kind |-> "data", events |-> <<n>>])
       \/ \E k \in BadKinds : wire' = Append(wire, [kind |-> k, events |-> <<>>])
    /\ UNCHANGED <<worker, stop, sent, conn, silent>>

\* The message with the newest event is damaged on its way.
MessageGarbled ==
    /\ Fault /\ wire # <<>>
    /\ wire' = [wire EXCEPT ![Len(wire)] = [kind |-> "garbled", events |-> <<>>]]
    /\ UNCHANGED <<worker, stop, sent, conn, silent>>

\* The stream ends or fails, or the peer is gone without a word.
ConnectionBreaks ==
    /\ Fault /\ conn = "open"
    /\ conn' \in {"ended", "error", "mute"}
    /\ UNCHANGED <<worker, stop, sent, wire, silent>>

\* SIGTERM or ctrl-c, or the end of --duration-seconds: both are looked at
\* from the watch loop on.
StopRequested ==
    /\ ~stop /\ pc \notin {"start"} \cup Exited
    /\ stop' = TRUE
    /\ UNCHANGED <<worker, sent, conn, wire, silent, faults>>

Clock ==
    /\ pc \in SessionPc /\ silent < StaleTimeout
    /\ silent' = silent + 1
    /\ UNCHANGED <<worker, stop, sent, conn, wire, faults>>

(***************************************************************************)
(* Process start                                                            *)
(***************************************************************************)

\* L0StorageSink::new, and Upbit's choice of markets before it, may fail.
StartFails ==
    /\ pc = "start" /\ Fault
    /\ pc' = "failed"
    /\ UNCHANGED <<env, conn, wire, silent, current_backoff, stats, sink, handled, quiet>>

StartUpbit ==
    /\ pc = "start" /\ venue = "upbit"
    /\ pc' = "watch"
    /\ UNCHANGED <<env, conn, wire, silent, current_backoff, stats, sink, faults, handled, quiet>>

\* append_derivative_snapshots: a fetch may fail and is only counted.
DerivativeSnapshots(s) == SinkAppend(s, "raw_market_event", Snapshot) \cup {Ok(s)}

\* Binance stores a REST depth snapshot and the derivative snapshots and
\* flushes; every storage error ends the process.
StartBinance ==
    /\ pc = "start" /\ venue = "binance"
    /\ \E a \in SinkAppend(sink, "raw_market_event", Snapshot) :
       \E d \in (IF a.ok THEN DerivativeSnapshots(a.sink) ELSE {a}) :
       \E o \in (IF d.ok THEN FlushAll(d.sink) ELSE {d}) :
            /\ sink' = o.sink /\ Spend(o)
            /\ pc' = IF o.ok THEN "watch" ELSE "failed"
    /\ UNCHANGED <<env, conn, wire, silent, current_backoff, stats, handled, quiet>>

(***************************************************************************)
(* The watch loop                                                           *)
(***************************************************************************)

\* Disconnected(reason), connect_failed and subscribe_failed alike.
Disconnect(st) ==
    /\ stats' = record_reconnect(st)
    /\ conn' = "none" /\ wire' = <<>> /\ silent' = 0
    /\ pc' = "sleep"

\* connect_async is called; it has no timeout and the flag is not looked at
\* until it returns.
BeginConnect ==
    /\ pc = "watch" /\ ~stop /\ stats.reconnects < MaxReconnects
    /\ pc' = "connecting"
    /\ UNCHANGED <<env, conn, wire, silent, current_backoff, stats, sink, faults, handled, quiet>>

Connect ==
    /\ pc = "connecting"
    /\ conn' = "open" /\ wire' = <<>> /\ silent' = 0 /\ pc' = "session"
    /\ UNCHANGED <<env, current_backoff, stats, sink, faults, handled, quiet>>

\* connect_async fails, or Upbit's subscription cannot be sent.
ConnectFails ==
    /\ pc = "connecting"
    /\ Fault
    /\ Disconnect(stats)
    /\ UNCHANGED <<env, current_backoff, sink, handled, quiet>>

\* Mutant: the sleep starts over when the flag is set.
WakeSleepsAgain ==
    /\ pc = "sleep"
    /\ current_backoff' = next_backoff(current_backoff)
    /\ pc' = IF stop THEN "sleep" ELSE "watch"
    /\ UNCHANGED <<env, conn, wire, silent, stats, sink, faults, handled, quiet>>

\* sleep_or_shutdown returns.
Wake ==
    /\ pc = "sleep"
    /\ current_backoff' = next_backoff(current_backoff)
    /\ pc' = "watch"
    /\ UNCHANGED <<env, conn, wire, silent, stats, sink, faults, handled, quiet>>

\* The flag and the deadline are tested at the top of both loops; the status
\* set there is overwritten by update_health behind the watch loop.
LeaveWatch ==
    /\ pc \in {"watch", "session"} /\ stop
    /\ conn' = "none" /\ wire' = <<>> /\ silent' = 0
    /\ pc' = "health"
    /\ UNCHANGED <<env, current_backoff, stats, sink, faults, handled, quiet>>

(***************************************************************************)
(* The session loop                                                         *)
(***************************************************************************)

BeginPoll ==
    /\ pc = "session" /\ ~stop
    /\ pc' = "poll"
    /\ UNCHANGED <<env, conn, wire, silent, current_backoff, stats, sink, faults, handled, quiet>>

\* One parsed event: its record goes to the sink before it is counted, and an
\* error leaves the rest of the payload unread.
HandleEvent(o, n) ==
    {[sink |-> a.sink, ok |-> a.ok,
      stats |-> IF a.ok THEN record_event(o.stats, n) ELSE o.stats]
        : a \in SinkAppend(o.sink, "raw_market_event", n)}

\* The events of a payload, one after the other.
HandleEvents(here, events) ==
    LET after[i \in 0..Len(events)] ==
            IF i = 0 THEN {here}
            ELSE UNION {IF o.ok THEN HandleEvent(o, events[i]) ELSE {o} : o \in after[i - 1]}
    IN  after[Len(events)]

\* handle_message up to its result, for each kind of message.
HandleMessage(m) ==
    LET here == [sink |-> sink, ok |-> TRUE, stats |-> [stats EXCEPT !.received = TRUE]]
    IN  CASE m.kind = "data" -> HandleEvents(here, m.events)
          [] m.kind \in {"garbled", "unknown"} -> {[here EXCEPT !.stats.malformed = @ + 1]}
          [] m.kind = "control" -> {[here EXCEPT !.stats = stats]}
          [] m.kind = "error" -> {[here EXCEPT !.stats = record_gap_alert(@, "upbit_error")]}
          [] m.kind = "not_utf8" -> {[here EXCEPT !.ok = FALSE, !.stats = stats]}

\* Only Upbit counts a handler's error as malformed as well.
MessageError(st) == [st EXCEPT !.malformed = @ + (IF venue = "upbit" THEN 1 ELSE 0)]

\* A message is read.  An error of the handler, a storage error included, is
\* a disconnect.
ReadMessage ==
    /\ pc = "poll" /\ wire # <<>>
    /\ \E o \in HandleMessage(Head(wire)) :
        /\ sink' = o.sink
        /\ IF Head(wire).kind = "data" THEN Spend(o) ELSE UNCHANGED faults
        /\ IF o.ok
           THEN /\ stats' = o.stats /\ wire' = Tail(wire) /\ silent' = 0
                /\ pc' = "housekeeping" /\ UNCHANGED conn
           ELSE Disconnect(MessageError(o.stats))
    /\ handled' = handled \cup Range(Head(wire).events)
    /\ UNCHANGED <<env, current_backoff, quiet>>

\* The stream is over: a websocket error counts as malformed.
StreamEnds ==
    /\ pc = "poll" /\ wire = <<>> /\ conn \in {"ended", "error"}
    /\ Disconnect([stats EXCEPT !.malformed = @ + (IF conn = "error" THEN 1 ELSE 0)])
    /\ UNCHANGED <<env, current_backoff, sink, faults, handled, quiet>>

\* Mutant: the poll's own timeout counts as a sign of life.
TickAsMessage ==
    /\ pc = "poll" /\ wire = <<>> /\ conn \in {"open", "mute"}
    /\ pc' = "housekeeping" /\ silent' = 0
    /\ UNCHANGED <<env, conn, wire, current_backoff, stats, sink, faults, handled, quiet>>

\* Nothing within the poll interval.
Tick ==
    /\ pc = "poll" /\ wire = <<>> /\ conn \in {"open", "mute"}
    /\ pc' = "housekeeping"
    /\ UNCHANGED <<env, conn, wire, silent, current_backoff, stats, sink, faults, handled, quiet>>

\* Housekeeping after every poll: a stale connection is given up first, even
\* when it was a slow handler that let the time pass; then the ping.
StaleOrPingFails ==
    /\ pc = "housekeeping"
    /\ \/ silent >= StaleTimeout /\ UNCHANGED faults
       \/ silent < StaleTimeout /\ Fault
    /\ Disconnect(stats)
    /\ UNCHANGED <<env, current_backoff, sink, handled, quiet>>

Housekeeping ==
    /\ pc = "housekeeping" /\ silent < StaleTimeout
    /\ pc' = "session"
    /\ UNCHANGED <<env, conn, wire, silent, current_backoff, stats, sink, faults, handled, quiet>>

\* Binance's periodic derivative snapshot is due: REST calls without timeout.
BeginDerivativeSnapshot ==
    /\ pc = "housekeeping" /\ silent < StaleTimeout /\ venue = "binance"
    /\ pc' = "fetching"
    /\ UNCHANGED <<env, conn, wire, silent, current_backoff, stats, sink, faults, handled, quiet>>

\* They are answered: append, flush everything, and log the error if there is one.
DerivativeSnapshot ==
    /\ pc = "fetching"
    /\ \E a \in DerivativeSnapshots(sink) :
       \E o \in (IF a.ok THEN FlushAll(a.sink) ELSE {a}) :
            /\ sink' = o.sink /\ Spend(o)
            /\ quiet' = quiet + (IF o.ok THEN 0 ELSE 1)
    /\ pc' = "session"
    /\ UNCHANGED <<env, conn, wire, silent, current_backoff, stats, handled>>

(***************************************************************************)
(* finalize_storage, the report and the exit status                         *)
(***************************************************************************)

\* Mutant: alerts do not lower the level.
health_level_without_gaps ==
    IF ~stats.received THEN "critical"
    ELSE IF stats.malformed = 0 THEN "healthy" ELSE "degraded"

\* update_health at the end of the watch and health_level of its status.
health_level ==
    IF ~stats.received THEN "critical"
    ELSE IF stats.malformed = 0 /\ stats.gaps = 0 THEN "healthy" ELSE "degraded"

\* symbol_health_drafts: one record per symbol seen.
symbol_health_drafts == IF stats.last = NoEvent THEN <<>> ELSE <<"symbol">>

\* One record of each of `records' appended to family f, `?` after each.
AppendAll(f, records) ==
    LET after[i \in 0..Len(records)] ==
            IF i = 0 THEN {Ok(sink)}
            ELSE UNION {IF o.ok THEN SinkAppend(o.sink, f, records[i]) ELSE {o} : o \in after[i - 1]}
    IN  after[Len(records)]

\* A step of finalize_storage: its error ends the process.
FinalStep(outcomes, from, to) ==
    /\ pc = from
    /\ \E o \in outcomes :
        /\ sink' = o.sink /\ Spend(o)
        /\ pc' = IF o.ok THEN to ELSE "failed"
    /\ UNCHANGED <<env, conn, wire, silent, current_backoff, stats, handled, quiet>>

\* source_health, a symbol_health per symbol seen, the retained alerts, the
\* flush of everything, the manifest.
FinalizeStorage ==
    \/ FinalStep(AppendAll("source_health", <<health_level>>), "health", "symbols")
    \/ FinalStep(AppendAll("symbol_health", symbol_health_drafts), "symbols", "alerts")
    \/ FinalStep(AppendAll("gap_alert", stats.alerts), "alerts", "flush")
    \/ FinalStep(FlushAll(sink), "flush", "manifest")
    \/ FinalStep({Ok([sink EXCEPT !.manifest = TRUE]), Err(sink)}, "manifest", "report")

\* validate_message_report; without a parsed event the symbol is missing, and
\* a partial coverage that is allowed still fails for want of symbol_health.
ValidMessageReport == stats.received /\ stats.last # NoEvent /\ stats.malformed = 0

\* Mutant: failed uploads are not looked at.
ValidCommonStorageReportLoose ==
    /\ sink.manifest
    /\ sink.stored["source_health"] # {} /\ sink.stored["symbol_health"] # {}

\* validate_common_storage_report
ValidCommonStorageReport ==
    /\ sink.failed = 0 /\ sink.manifest
    /\ sink.stored["source_health"] # {} /\ sink.stored["symbol_health"] # {}

\* validate_storage_report; Start made sure of Binance's depth snapshots.
ValidStorageReport ==
    /\ ValidCommonStorageReport
    /\ stats.gaps > 0 => sink.stored["gap_alert"] # {}

ValidateReport ==
    /\ pc = "report"
    /\ pc' = IF ValidMessageReport /\ ValidStorageReport THEN "ok" ELSE "failed"
    /\ UNCHANGED <<env, conn, wire, silent, current_backoff, stats, sink, faults, handled, quiet>>

Terminated == pc \in Exited /\ UNCHANGED vars

Task ==
    \/ BeginConnect \/ Wake \/ LeaveWatch
    \/ BeginPoll \/ ReadMessage \/ StreamEnds \/ Tick
    \/ StaleOrPingFails \/ Housekeeping \/ BeginDerivativeSnapshot
    \/ FinalizeStorage \/ ValidateReport

\* What the worker waits for without a limit: its calls to the exchange, those
\* of the start-up included.
Answer ==
    \/ StartFails \/ StartUpbit \/ StartBinance
    \/ Connect \/ ConnectFails \/ DerivativeSnapshot

Next ==
    \/ Task \/ Answer
    \/ \E k \in 1..2 : ExchangeSends(k)
    \/ ExchangeSendsControl \/ ExchangeMisbehaves \/ MessageGarbled \/ ConnectionBreaks
    \/ StopRequested \/ Clock
    \/ Terminated

\* The runtime keeps scheduling the worker's task, and time passes.  Nothing is
\* assumed of the exchange: a connect or a REST call may never return.
Spec == Init /\ [][Next]_vars /\ WF_vars(Task) /\ WF_vars(Clock)

(***************************************************************************)
(* Properties                                                               *)
(***************************************************************************)

Message == [kind : {"data", "control", "garbled", "not_utf8", "unknown", "error"}, events : Seq(1..MaxEvents)]

\* The events that are in S3 or still on the way there.
Kept == (sink.stored["raw_market_event"] \cup sink.buffer["raw_market_event"]) \ {Snapshot}

\* The last event before each hole in a set of events.
HolesOf(S) == {n \in S : n + 1 \notin S /\ \E m \in S : m > n}

\* There are never more holes in the kept events than alerts, malformed
\* messages, failed uploads and logged flush errors together: an event lost
\* to a reconnect, a damaged message or a storage error leaves a trace in the
\* counters that finalize_storage writes (record_reconnect, record_event).
HolesAreSurfaced ==
    Cardinality(HolesOf(Kept)) <= stats.gaps + stats.malformed + sink.failed + quiet

\* A worker exits with success only when nothing is left in its buffers, the
\* manifest is up, every retained gap alert is stored, and every event it
\* parsed is stored unless an alert or a logged flush error says otherwise
\* (validate_report after finalize_storage).  That exception is wider than the
\* repository's README has it: it says that with --live-nats-required a failed
\* publish fails the worker, but the handler's error is only a disconnect, and
\* the worker may exit with success without the refused record.
ExitOkIsDurable ==
    pc = "ok" =>
        /\ \A f \in Families : sink.buffer[f] = {}
        /\ sink.manifest
        /\ Range(stats.alerts) \subseteq sink.stored["gap_alert"]
        /\ handled \subseteq sink.stored["raw_market_event"] \/ stats.gaps > 0 \/ quiet > 0

\* A source_health record that says "healthy" from a worker that exits with
\* success stands for a run without a hole (health_level).
HealthyIsComplete ==
    pc = "ok" /\ "healthy" \in sink.stored["source_health"] =>
        HolesOf(handled) = {} /\ (HolesOf(Kept) = {} \/ quiet > 0)

\* The worker waits for an answer of the exchange.
Calling == pc \in {"start", "connecting", "fetching"}

\* A requested shutdown, or the deadline, ends the process, through the
\* finalization, unless a connect or a REST call never returns: no session, poll
\* or backoff sleep holds it (shutdown flag in both loops), but connect_async and
\* the REST calls neither have a timeout nor look at the flag.
ShutdownCompletes == (stop ~> pc \in Exited) \/ <>[]Calling

\* A connection that has gone quiet without closing is given up
\* (stale_message_timeout in run_housekeeping), again unless a REST call of the
\* same loop never returns.
MuteConnectionEnds == (conn = "mute" ~> conn # "mute") \/ <>[]Calling
=============================================================================
